---------------------------- MODULE ReviewedWork ----------------------------
(***************************************************************************)
(* What the question workflow promises a reader, with no jobs, processes,  *)
(* requests or revision rows in it: a question counts its versions, and    *)
(* only a question that is confirmed as it stands is answered; the answer  *)
(* keeps the version it was given for. New wording is undecided wording,   *)
(* of a question and of an answer alike; nothing decided is decided again; *)
(* and only an answer with evidence under every claim is confirmed.        *)
(* Questions and answers are never taken away.                             *)
(***************************************************************************)
EXTENDS Integers, Sequences

CONSTANT PlanSize

VARIABLES questions, answers

(* A text of so many versions, the last of which is undecided.             *)
Proposal == [version |-> 1, review |-> "DRAFT"]
Reworded(text) == [text EXCEPT !.version = @ + 1, !.review = "DRAFT"]
Decided(text, review) == [text EXCEPT !.review = review]

Init == questions = <<>> /\ answers = <<>>

ProposePlan ==
  /\ questions' = questions \o [i \in 1..PlanSize |-> Proposal]
  /\ UNCHANGED answers

RewordQuestion(q) ==
  /\ questions' = [questions EXCEPT ![q] = Reworded(@)]
  /\ UNCHANGED answers

DecideQuestion(q, review) ==
  /\ questions[q].review = "DRAFT"
  /\ questions' = [questions EXCEPT ![q] = Decided(@, review)]
  /\ UNCHANGED answers

Answer(q, grounded) ==
  /\ questions[q].review = "CONFIRMED"
  /\ answers' = Append(answers, [question |-> q, asked |-> questions[q].version,
                                 version |-> 1, review |-> "DRAFT", grounded |-> grounded])
  /\ UNCHANGED questions

RewordAnswer(i, grounded) ==
  /\ answers' = [answers EXCEPT ![i] = [Reworded(@) EXCEPT !.grounded = grounded]]
  /\ UNCHANGED questions

DecideAnswer(i, review) ==
  /\ answers[i].review = "DRAFT"
  /\ review = "CONFIRMED" => answers[i].grounded
  /\ answers' = [answers EXCEPT ![i] = Decided(@, review)]
  /\ UNCHANGED questions

Next ==
  \/ ProposePlan
  \/ \E q \in DOMAIN questions :
       \/ RewordQuestion(q)
       \/ \E review \in {"CONFIRMED", "REJECTED"} : DecideQuestion(q, review)
       \/ \E grounded \in BOOLEAN : Answer(q, grounded)
  \/ \E i \in DOMAIN answers :
       \/ \E grounded \in BOOLEAN : RewordAnswer(i, grounded)
       \/ \E review \in {"CONFIRMED", "REJECTED"} : DecideAnswer(i, review)

Spec == Init /\ [][Next]_<<questions, answers>>
=============================================================================
