CONSTANTS
  p1 = p1
  p2 = p2
  OneShot = OneShot
  NoWorker = NoWorker
  NoId = NoId
  MinDirections = 1
  MaxDirections = 1
  MinQuestions = 2
  MaxQuestions = 2
  Passages = {p1}
  Groundings <- OneQuote
  SessionIds = {l1}
  Apis = {a1, a2}
  Workers = {w1, w2}
  Keys = {k1}
  Offered = {"BYOK"}
  Faults = {"GATEWAY"}
  DirectWrites = TRUE
  MaxRevision = 5
SYMMETRY ProcessSymmetry
SPECIFICATION Spec
INVARIANTS
  RevisionIdentifiesSnapshot
  KeyAppliedOnce
  GenerationBoundary
  ClaimIsExclusive
  FailureLedger
PROPERTIES
  GenerationsLandOnTheirRevision
  EveryWriteIsOneStep
  WalksTheRoute
