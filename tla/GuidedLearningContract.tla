----------------------- MODULE GuidedLearningContract -----------------------
(***************************************************************************)
(* The guided-learning.v1 contract as pure operators: the transition table *)
(* that API and Worker share, the event reducer, and the consistency       *)
(* validator every persisted session has to pass.                          *)
(*                                                                         *)
(* A session is a record                                                   *)
(*   state       the contract state ("ABSENT": no such row)                *)
(*   rev         session_revision (state_version moves in lockstep)        *)
(*   directions  the set of candidate direction ids                        *)
(*   selected    selected_direction_id, 0 when unset                       *)
(*   route       "ABSENT", or the status of the UNDERSTAND stage           *)
(*   stage       current_stage_id, "NONE" when unset                       *)
(*   current     current_question_order, 0 when unset                      *)
(*   questions   the sequence of questions (order is the index)            *)
(*   summary     the orders stage_summary lists                            *)
(*   failure     the failure object, NoFailure when unset                  *)
(* Prompts, titles, answer texts and timestamps carry no control.          *)
(***************************************************************************)
EXTENDS Integers, Sequences, FiniteSets

States == {"CREATED", "AWAITING_DIRECTION_SELECTION", "ROUTE_LOCKED",
           "QUESTIONS_GENERATING", "AWAITING_ANSWER", "ANSWER_SUBMITTED",
           "FEEDBACK_READY", "QUESTION_COMPLETED", "SUMMARY_GENERATING",
           "STAGE_COMPLETED", "SESSION_COMPLETED", "RETRYABLE_FAILURE",
           "FAILED"}

ClientCommands == {"SELECT_DIRECTION", "START_STAGE", "SUBMIT_ANSWER",
                   "SKIP_QUESTION", "CONFIRM_QUESTION", "EDIT_ANSWER",
                   "ADVANCE_QUESTION", "RETRY"}

(* normalTransitions: <<from, event, to>>.                                 *)
NormalTransitions ==
  {<<"CREATED", "DIRECTIONS_READY", "AWAITING_DIRECTION_SELECTION">>,
   <<"AWAITING_DIRECTION_SELECTION", "SELECT_DIRECTION", "ROUTE_LOCKED">>,
   <<"ROUTE_LOCKED", "START_STAGE", "QUESTIONS_GENERATING">>,
   <<"QUESTIONS_GENERATING", "QUESTIONS_READY", "AWAITING_ANSWER">>,
   <<"AWAITING_ANSWER", "SUBMIT_ANSWER", "ANSWER_SUBMITTED">>,
   <<"AWAITING_ANSWER", "SKIP_QUESTION", "QUESTION_COMPLETED">>,
   <<"ANSWER_SUBMITTED", "FEEDBACK_READY", "FEEDBACK_READY">>,
   <<"FEEDBACK_READY", "CONFIRM_QUESTION", "QUESTION_COMPLETED">>,
   <<"FEEDBACK_READY", "EDIT_ANSWER", "ANSWER_SUBMITTED">>,
   <<"QUESTION_COMPLETED", "EDIT_ANSWER", "ANSWER_SUBMITTED">>,
   <<"QUESTION_COMPLETED", "ADVANCE_QUESTION", "AWAITING_ANSWER">>,
   <<"QUESTION_COMPLETED", "ADVANCE_QUESTION", "SUMMARY_GENERATING">>,
   <<"SUMMARY_GENERATING", "SUMMARY_READY", "STAGE_COMPLETED">>,
   <<"STAGE_COMPLETED", "COMPLETE_SESSION", "SESSION_COMPLETED">>}

(* failureSourceStates, which are also the targets RETRY may resume.       *)
FailureSources == {"CREATED", "ROUTE_LOCKED", "QUESTIONS_GENERATING",
                   "ANSWER_SUBMITTED", "QUESTION_COMPLETED",
                   "SUMMARY_GENERATING"}
FailureStates == {"RETRYABLE_FAILURE", "FAILED"}

NoFailure == [class |-> "NONE", op |-> "NONE", resume |-> "NONE"]
NoSummary == [completed |-> {}, skipped |-> {}]

(* isValidFailureResume.                                                   *)
IsValidFailureResume(op, resume) ==
  \/ op = "GENERATE_DIRECTIONS" /\ resume = "CREATED"
  \/ op = "GENERATE_QUESTIONS" /\ resume \in {"ROUTE_LOCKED", "QUESTIONS_GENERATING"}
  \/ op = "GENERATE_FEEDBACK" /\ resume = "ANSWER_SUBMITTED"
  \/ op = "GENERATE_STAGE_SUMMARY" /\ resume \in {"QUESTION_COMPLETED", "SUMMARY_GENERATING"}

HasRemaining(s) == \E i \in DOMAIN s.questions : i > s.current

(* evidenceReady, the gate the API computes for CONFIRM_QUESTION. Claims   *)
(* and spans are valid by construction, so what is left is the early       *)
(* return on an empty evidence list.                                       *)
EvidenceReady(q) == q.reference # "ABSENT" /\ q.evidence # {}

(***************************************************************************)
(* applyGuidedLearningEvent: the states `event` may lead to from session   *)
(* s; none when the event is rejected. failure is the failure context: the *)
(* stored failure for RETRY, the new one for a failure event.              *)
(***************************************************************************)
EventTargets(s, event, failure) ==
  {to \in States :
     \/ /\ event = "RETRY" /\ s.state = "RETRYABLE_FAILURE"
        /\ failure.class = "RETRYABLE"
        /\ IsValidFailureResume(failure.op, failure.resume)
        /\ to = failure.resume
     \/ /\ event = "RETRYABLE_FAILURE" \/ event = "PERMANENT_FAILURE"
        /\ s.state \in FailureSources
        /\ failure.class = (IF event = "RETRYABLE_FAILURE" THEN "RETRYABLE" ELSE "PERMANENT")
        /\ failure.resume = s.state
        /\ IsValidFailureResume(failure.op, failure.resume)
        /\ to = (IF event = "RETRYABLE_FAILURE" THEN "RETRYABLE_FAILURE" ELSE "FAILED")
     \/ /\ <<s.state, event, to>> \in NormalTransitions
        /\ event = "ADVANCE_QUESTION" =>
             to = (IF HasRemaining(s) THEN "AWAITING_ANSWER" ELSE "SUMMARY_GENERATING")
        /\ event = "CONFIRM_QUESTION" => EvidenceReady(s.questions[s.current])}

-----------------------------------------------------------------------------
(***************************************************************************)
(* validateGuidedLearningSessionConsistency, one operator per group of its *)
(* rules. A failed session is judged by the state it would resume.         *)
(***************************************************************************)
ResumeState(s) == IF s.state \in FailureStates THEN s.failure.resume ELSE s.state

CompletionStates == {"STAGE_COMPLETED", "SESSION_COMPLETED"}
PointerStates == {"AWAITING_ANSWER", "ANSWER_SUBMITTED", "FEEDBACK_READY",
                  "QUESTION_COMPLETED"}
QuestionStates == PointerStates \cup {"SUMMARY_GENERATING"} \cup CompletionStates
SelectionStates == QuestionStates \cup {"ROUTE_LOCKED", "QUESTIONS_GENERATING"}
Resolved == {"CONFIRMED", "SKIPPED"}
FeedbackStatuses == {"FEEDBACK_READY", "CONFIRMED"}

SelectionConsistent(s) ==
  /\ s.selected # 0 => s.selected \in s.directions
  /\ ResumeState(s) \in SelectionStates => s.selected \in s.directions
  /\ ResumeState(s) \in {"CREATED", "AWAITING_DIRECTION_SELECTION"} => s.selected = 0

RouteConsistent(s) ==
  s.route = (IF ResumeState(s) \in CompletionStates THEN "COMPLETED"
             ELSE IF ResumeState(s) \in SelectionStates THEN "OPEN" ELSE "ABSENT")

(* validateQuestionFields.                                                 *)
QuestionConsistent(q) ==
  /\ q.status \in {"UNSEEN", "ACTIVE"} =>
       ~q.answered /\ ~q.skipped /\ q.reference = "ABSENT"
  /\ q.status = "ANSWERED" =>
       q.answered /\ ~q.skipped /\ q.reference = "ABSENT"
  /\ q.status = "SKIPPED" =>
       /\ q.confirmation = "SKIPPED" /\ q.skipped
       /\ ~q.answered /\ q.reference = "ABSENT"
  /\ q.status \in FeedbackStatuses =>
       /\ q.answered /\ ~q.skipped /\ q.reference # "ABSENT"
       /\ q.evidence = {} => q.reference = "INSUFFICIENT"
  /\ q.status = "CONFIRMED" => q.confirmation = "CONFIRMED"

(* validateQuestionEvidence: an evidence id occurs once in a session.      *)
EvidenceDistinct(s) ==
  \A i, j \in DOMAIN s.questions :
    /\ i # j
    /\ s.questions[i].status \in FeedbackStatuses
    /\ s.questions[j].status \in FeedbackStatuses
    => s.questions[i].evidence \cap s.questions[j].evidence = {}

QuestionsConsistent(s) ==
  /\ ResumeState(s) \in QuestionStates => s.questions # <<>>
  /\ \A i \in DOMAIN s.questions : QuestionConsistent(s.questions[i])
  /\ EvidenceDistinct(s)

(* The current question and the ones around it.                            *)
PointerConsistent(s) ==
  LET r == ResumeState(s)
      active == {i \in DOMAIN s.questions : s.questions[i].status = "ACTIVE"}
      status == s.questions[s.current].status
  IN /\ Cardinality(active) <= 1
     /\ r \in PointerStates <=> s.current # 0
     /\ s.current # 0 =>
          /\ s.current \in DOMAIN s.questions
          /\ r = "AWAITING_ANSWER" => active = {s.current}
          /\ r = "ANSWER_SUBMITTED" => status = "ANSWERED"
          /\ r = "FEEDBACK_READY" => status = "FEEDBACK_READY"
          /\ r = "QUESTION_COMPLETED" => status \in Resolved
          /\ \A i \in DOMAIN s.questions :
               /\ i > s.current => s.questions[i].status = "UNSEEN"
               /\ i < s.current => s.questions[i].status \in Resolved

Orders(s, status) == {i \in DOMAIN s.questions : s.questions[i].status = status}

(* Completion rules and validateSummary.                                   *)
CompletionConsistent(s) ==
  /\ ResumeState(s) \in CompletionStates \cup {"SUMMARY_GENERATING"} =>
       \A i \in DOMAIN s.questions : s.questions[i].status \in Resolved
  /\ ResumeState(s) \in CompletionStates => s.summary # NoSummary
  /\ s.summary # NoSummary =>
       /\ s.summary.completed = Orders(s, "CONFIRMED")
       /\ s.summary.skipped = Orders(s, "SKIPPED")
       /\ s.summary.completed \cup s.summary.skipped = DOMAIN s.questions

FailureConsistent(s) ==
  IF s.state \in FailureStates
  THEN /\ s.failure.class = (IF s.state = "FAILED" THEN "PERMANENT" ELSE "RETRYABLE")
       /\ IsValidFailureResume(s.failure.op, s.failure.resume)
  ELSE s.failure = NoFailure

(* validateResumeStateShape: what a state a generation can resume must and *)
(* must not carry, beyond the rules above.                                 *)
ResumeShapeConsistent(s) ==
  LET r == ResumeState(s)
  IN /\ r \in FailureSources \ {"ANSWER_SUBMITTED", "QUESTION_COMPLETED"} => s.summary = NoSummary
     /\ r = "CREATED" =>
          s.directions = {} /\ s.stage = "NONE" /\ s.questions = <<>>
     /\ r \in FailureSources \ {"CREATED"} => s.stage = "UNDERSTAND"
     /\ r \in {"ROUTE_LOCKED", "QUESTIONS_GENERATING"} =>
          s.directions # {} /\ s.questions = <<>>
     /\ r = "ANSWER_SUBMITTED" =>
          LET q == s.questions[s.current]
          IN q.answered /\ ~q.skipped /\ q.reference = "ABSENT" /\ q.evidence = {}

Consistent(s) ==
  /\ SelectionConsistent(s)
  /\ RouteConsistent(s)
  /\ QuestionsConsistent(s)
  /\ PointerConsistent(s)
  /\ CompletionConsistent(s)
  /\ FailureConsistent(s)
  /\ ResumeShapeConsistent(s)
=============================================================================
