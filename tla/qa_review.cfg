CONSTANTS
  s1 = s1
  NoWorker = NoWorker
  NoDraft = NoDraft
  ContextSpans = {s1}
  Apis = {a1,a2}
  Workers = {w1}
  Keys = {k1,k2}
  PlanSize = 1
  ModelAnswers <- BothAnswers
  ClientAnswers <- AnyAnswer
  Crashes = FALSE
  MaxRevisions = 3
  MaxRows = 1
SPECIFICATION FairSpec
INVARIANTS
  TypeOK
  HistoryIsAChain
  ConfirmedAnswersStandOnEvidence
PROPERTIES
  NobodyDecidesBlindly
  AnswersAnswerWhatWasAsked
  WorkIsReviewed
  EveryJobFinishes
