CONSTANTS
  p1 = p1
  p2 = p2
  OneShot = OneShot
  NoWorker = NoWorker
  NoId = NoId
  MinDirections = 1
  MaxDirections = 1
  MinQuestions = 2
  MaxQuestions = 2
  Passages = {p1}
  Groundings <- NoQuote
  SessionIds = {l1}
  Apis = {a1}
  Workers = {w1}
  Keys = {}
  Offered = {"BYOK"}
  Faults = {"GATEWAY"}
  DirectWrites = FALSE
  MaxRevision = 9
SPECIFICATION Spec
INVARIANTS
  RetryRecoversFromModelFailures
