CONSTANTS
  NoWorker = NoWorker
  NoPid = NoPid
  Pids = {p1,p2}
  Requests = {r1,r2,r3}
  Workers = {w1}
  Keys = {k1}
  Contents = {c1}
  PageCount = 2
  Calls = {"JOB", "DOCUMENT", "READY"}
  Crashes = TRUE
  DiskErrors = TRUE
  MaxDocuments = 2
SPECIFICATION Spec
SYMMETRY ProcessSymmetry
INVARIANTS
  TypeOK
  JobsHaveTheirSource
  HalfAnImportIsNeverRead
  ReadyMeansReadable
