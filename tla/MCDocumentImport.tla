-------------------------- MODULE MCDocumentImport --------------------------
(***************************************************************************)
(* Symmetries of the processes, the requests, the keys and the files.      *)
(***************************************************************************)
EXTENDS DocumentImport, TLC

ProcessSymmetry ==
  Permutations(Pids) \cup Permutations(Requests) \cup Permutations(Workers)
    \cup Permutations(Keys) \cup Permutations(Contents)
=============================================================================
