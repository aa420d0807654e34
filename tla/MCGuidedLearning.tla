--------------------------- MODULE MCGuidedLearning ---------------------------
(***************************************************************************)
(* The values the model checker takes for GuidedLearning's constants that  *)
(* a configuration cannot write, and the symmetries of its processes.      *)
(***************************************************************************)
EXTENDS GuidedLearningClaims, TLC

CONSTANTS p1, p2

NoQuote == {{}}
OneQuote == {{p1}}
DistinctQuotes == {{p1}, {p2}}
SomeQuotes == {{}, {p1}}

ProcessSymmetry == Permutations(Apis) \cup Permutations(Workers)
=============================================================================
