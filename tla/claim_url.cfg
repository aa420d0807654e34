CONSTANTS
  p1 = p1
  MinDirections = 1
  MaxDirections = 1
  MinQuestions = 2
  MaxQuestions = 2
  Passages = {p1}
  Groundings <- OneQuote
  Provider = "BYOK"
  MaxFailures = 2
  MaxSessions = 1
  MaxUploads = 1
  MaxRevision = 8
  MaxInFlight = 2
  MaxMishaps = 2
SPECIFICATION Spec
INVARIANTS
  TheUrlNamesTheSessionShown
