CONSTANTS
  p1 = p1
  p2 = p2
  OneShot = OneShot
  NoWorker = NoWorker
  NoId = NoId
  MinDirections = 1
  MaxDirections = 1
  MinQuestions = 1
  MaxQuestions = 1
  Passages = {p1}
  Groundings <- OneQuote
  SessionIds = {l1, l2}
  Apis = {a1}
  Workers = {w1}
  Keys = {k1}
  Offered = {"MOCK"}
  Faults = {"GATEWAY", "STORAGE", "CRASH"}
  DirectWrites = FALSE
  MaxRevision = 4
SPECIFICATION Spec
INVARIANTS
  KeyAppliedOnce
  WaitingSessionHasItsJob
  RecordedAnswerIsTrue
  SuccessMeansTheResultLanded
  FailureLedger
  GenerationUndisturbed
