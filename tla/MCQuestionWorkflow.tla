------------------------- MODULE MCQuestionWorkflow -------------------------
(***************************************************************************)
(* Drafts for the model checker, and the symmetries of the processes.      *)
(***************************************************************************)
EXTENDS QuestionWorkflow, TLC

CONSTANT s1

Claim1(type, cites) == [type |-> type, cites |-> cites]
Draft(status, claims) == [status |-> status, claims |-> claims]

GroundedDraft == Draft("SUCCESS", <<Claim1("SUPPORTED", <<s1>>)>>)
Insufficient == Draft("INSUFFICIENT_EVIDENCE", <<Claim1("INSUFFICIENT_EVIDENCE", <<>>)>>)

(* What a reader may send besides: no claim, a claim that cites nothing, a *)
(* refusal dressed as an answer, an unknown passage, one passage twice.    *)
Malformed ==
  {Draft("SUCCESS", <<>>),
   Draft("SUCCESS", <<Claim1("SUPPORTED", <<s1>>), Claim1("SUPPORTED", <<>>)>>),
   Draft("SUCCESS", <<Claim1("INSUFFICIENT_EVIDENCE", <<>>)>>),
   Draft("INSUFFICIENT_EVIDENCE", <<Claim1("SUPPORTED", <<s1>>)>>),
   Draft("SUCCESS", <<Claim1("SUPPORTED", <<"context_missing">>)>>),
   Draft("SUCCESS", <<Claim1("SUPPORTED", <<s1, s1>>)>>)}

OneAnswer == {GroundedDraft}
BothAnswers == {GroundedDraft, Insufficient}
AnyAnswer == BothAnswers \cup Malformed

ProcessSymmetry == Permutations(Apis) \cup Permutations(Workers) \cup Permutations(Keys)
=============================================================================
