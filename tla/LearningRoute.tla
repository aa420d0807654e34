---------------------------- MODULE LearningRoute ----------------------------
(***************************************************************************)
(* What guided learning promises a learner, with no processes, jobs or     *)
(* stored snapshots in it: a session walks one locked route. A direction   *)
(* is chosen once; the questions are laid out once and visited in order;   *)
(* each is confirmed or skipped before the next one opens; the summary is  *)
(* written when all are; a failure stops the walk where it is and a retry  *)
(* takes it up at that very place. Every step is one revision.             *)
(***************************************************************************)
EXTENDS Integers

CONSTANTS Ids, Choices, MaxTotal

VARIABLE walk

NoWalk == [phase |-> "ABSENT", rev |-> 0, direction |-> 0, position |-> 0,
           total |-> 0, resolved |-> {}, resume |-> "NONE"]

Init == walk = [id \in Ids |-> NoWalk]

(* Session id moves from phase `from` to walk w, in one revision.          *)
Step(id, from, w) ==
  /\ walk[id].phase = from
  /\ walk' = [walk EXCEPT ![id] = [w EXCEPT !.rev = walk[id].rev + 1]]

To(id, phase) == [walk[id] EXCEPT !.phase = phase]

Create(id) == Step(id, "ABSENT", To(id, "CREATED"))
OfferDirections(id) == Step(id, "CREATED", To(id, "AWAITING_DIRECTION_SELECTION"))
ChooseDirection(id) ==
  \E d \in Choices :
    Step(id, "AWAITING_DIRECTION_SELECTION", [To(id, "ROUTE_LOCKED") EXCEPT !.direction = d])
StartStage(id) == Step(id, "ROUTE_LOCKED", To(id, "QUESTIONS_GENERATING"))
LayOutQuestions(id) ==
  \E n \in 1..MaxTotal :
    Step(id, "QUESTIONS_GENERATING",
         [To(id, "AWAITING_ANSWER") EXCEPT !.total = n, !.position = 1])
Answer(id) == Step(id, "AWAITING_ANSWER", To(id, "ANSWER_SUBMITTED"))
Skip(id) ==
  Step(id, "AWAITING_ANSWER",
       [To(id, "QUESTION_COMPLETED") EXCEPT !.resolved = @ \cup {walk[id].position}])
GiveFeedback(id) == Step(id, "ANSWER_SUBMITTED", To(id, "FEEDBACK_READY"))
Confirm(id) ==
  Step(id, "FEEDBACK_READY",
       [To(id, "QUESTION_COMPLETED") EXCEPT !.resolved = @ \cup {walk[id].position}])
Revise(id) ==
  \E from \in {"FEEDBACK_READY", "QUESTION_COMPLETED"} :
    Step(id, from, [To(id, "ANSWER_SUBMITTED") EXCEPT !.resolved = @ \ {walk[id].position}])
NextQuestion(id) ==
  /\ walk[id].position < walk[id].total
  /\ Step(id, "QUESTION_COMPLETED",
          [To(id, "AWAITING_ANSWER") EXCEPT !.position = @ + 1])
FinishQuestions(id) ==
  /\ walk[id].position = walk[id].total
  /\ walk[id].resolved = 1..walk[id].total
  /\ Step(id, "QUESTION_COMPLETED", [To(id, "SUMMARY_GENERATING") EXCEPT !.position = 0])
Summarise(id) == Step(id, "SUMMARY_GENERATING", To(id, "STAGE_COMPLETED"))
Complete(id) == Step(id, "STAGE_COMPLETED", To(id, "SESSION_COMPLETED"))

(* Where the walk can fail: in front of, or in, a generation.              *)
Fragile == {"CREATED", "ROUTE_LOCKED", "QUESTIONS_GENERATING",
            "ANSWER_SUBMITTED", "QUESTION_COMPLETED", "SUMMARY_GENERATING"}
Fail(id) ==
  \E from \in Fragile, phase \in {"RETRYABLE_FAILURE", "FAILED"} :
    Step(id, from, [To(id, phase) EXCEPT !.resume = from])
Retry(id) ==
  Step(id, "RETRYABLE_FAILURE", [To(id, walk[id].resume) EXCEPT !.resume = "NONE"])

Next ==
  \E id \in Ids :
    Create(id) \/ OfferDirections(id) \/ ChooseDirection(id) \/ StartStage(id)
      \/ LayOutQuestions(id) \/ Answer(id) \/ Skip(id) \/ GiveFeedback(id)
      \/ Confirm(id) \/ Revise(id) \/ NextQuestion(id) \/ FinishQuestions(id)
      \/ Summarise(id) \/ Complete(id) \/ Fail(id) \/ Retry(id)

Spec == Init /\ [][Next]_walk
=============================================================================
