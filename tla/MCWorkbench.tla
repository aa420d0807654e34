----------------------------- MODULE MCWorkbench -----------------------------
(***************************************************************************)
(* The values the model checker takes for Workbench's constants that a     *)
(* configuration cannot write.                                             *)
(***************************************************************************)
EXTENDS WorkbenchClaims

CONSTANT p1

OneQuote == {{p1}}
=============================================================================
