CONSTANTS
  s1 = s1
  NoWorker = NoWorker
  NoDraft = NoDraft
  ContextSpans = {s1}
  Apis = {a1}
  Workers = {w1}
  Keys = {k1}
  PlanSize = 1
  ModelAnswers <- OneAnswer
  ClientAnswers <- OneAnswer
  Crashes = TRUE
  MaxRevisions = 1
  MaxRows = 2
SPECIFICATION Spec
INVARIANTS
  MaterializedOnce
