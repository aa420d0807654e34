CONSTANTS
  NoWorker = NoWorker
  NoPid = NoPid
  Pids = {p1}
  Requests = {r1}
  Workers = {w1}
  Keys = {k1}
  Contents = {c1}
  PageCount = 2
  Calls = {"JOB"}
  Crashes = FALSE
  DiskErrors = FALSE
  MaxDocuments = 2
SPECIFICATION Spec
SYMMETRY ProcessSymmetry
INVARIANTS
  SucceededMeansReadable
