CONSTANTS
  p1 = p1
  p2 = p2
  OneShot = OneShot
  NoWorker = NoWorker
  NoId = NoId
  MinDirections = 1
  MaxDirections = 2
  MinQuestions = 2
  MaxQuestions = 3
  Passages = {p1}
  Groundings <- SomeQuotes
  SessionIds = {l1}
  Apis = {a1}
  Workers = {w1}
  Keys = {}
  Offered = {"MOCK", "BYOK"}
  Faults = {"GATEWAY", "OUTPUT", "PAGES"}
  DirectWrites = FALSE
  MaxRevision = 13
SPECIFICATION FairSpec
INVARIANTS
  TypeOK
  LegalCommandsPassTheValidator
  WaitingSessionHasALiveJob
  GenerationUndisturbed
  JobKeyNeverCollides
PROPERTIES
  WalksTheRoute
  LeftQuestionsAreFrozen
  EveryGenerationSettles
