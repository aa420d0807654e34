------------------------ MODULE GuidedLearningSession ------------------------
(***************************************************************************)
(* What each client command, each generation result and each failure makes *)
(* of a session: the functions the API runtime and the Worker apply to the *)
(* snapshot they read, before anything is written back.                    *)
(***************************************************************************)
EXTENDS GuidedLearningContract

CONSTANTS MinDirections, MaxDirections,  \* 2 and 3 in the Worker
          MinQuestions, MaxQuestions,    \* 3 and 7 in the Worker
          Passages,                      \* quotable passages of the document
          Groundings                     \* the passage sets a model may quote

ASSUME SessionAssumption ==
  /\ MinDirections \in Nat \ {0} /\ MaxDirections \in Nat
  /\ MinDirections <= MaxDirections
  /\ MinQuestions \in Nat \ {0} /\ MaxQuestions \in Nat
  /\ MinQuestions <= MaxQuestions
  /\ Groundings \subseteq SUBSET Passages

Directions == 1..MaxDirections
Providers == {"MOCK", "BYOK"}

(* evidence_span_id: the mock names its span after session and question,   *)
(* a model's span is named after the quoted passage alone.                 *)
EvidenceIds == ({"question"} \X (1..MaxQuestions)) \cup ({"quote"} \X Passages)

Question == [status : {"UNSEEN", "ACTIVE", "ANSWERED", "FEEDBACK_READY",
                       "CONFIRMED", "SKIPPED"},
             confirmation : {"PENDING", "CONFIRMED", "SKIPPED"},
             answered : BOOLEAN, skipped : BOOLEAN,
             reference : {"ABSENT", "SUPPORTED", "INSUFFICIENT"},
             evidence : SUBSET EvidenceIds]

Failure == [class : {"NONE", "RETRYABLE", "PERMANENT"},
            op : {"NONE", "GENERATE_DIRECTIONS", "GENERATE_QUESTIONS",
                  "GENERATE_FEEDBACK", "GENERATE_STAGE_SUMMARY"},
            resume : FailureSources \cup {"NONE"}]

Session ==
  {s \in [state : States \cup {"ABSENT"}, rev : Nat,
          directions : SUBSET Directions, selected : Directions \cup {0},
          route : {"ABSENT", "OPEN", "COMPLETED"},
          stage : {"NONE", "UNDERSTAND"},
          current : 0..MaxQuestions,
          questions : Seq(Question),
          summary : [completed : SUBSET (1..MaxQuestions), skipped : SUBSET (1..MaxQuestions)],
          failure : Failure] : Len(s.questions) <= MaxQuestions}

NoSession == [state |-> "ABSENT", rev |-> 0, directions |-> {}, selected |-> 0,
              route |-> "ABSENT", stage |-> "NONE", current |-> 0,
              questions |-> <<>>, summary |-> NoSummary, failure |-> NoFailure]

(* newSession.                                                             *)
NewSession == [NoSession EXCEPT !.state = "CREATED", !.rev = 1]

(* Mutant: the revision is not advanced.                                   *)
Moved_SameRevision(s, to) == [s EXCEPT !.state = to]

(* advance and transition: the target state and the next revision.         *)
Moved(s, to) == [s EXCEPT !.state = to, !.rev = @ + 1]

-----------------------------------------------------------------------------
(* Client commands: an event and its payload, reduced to the direction or  *)
(* the question order it names.                                            *)
PointerCommands == {"SUBMIT_ANSWER", "EDIT_ANSWER", "SKIP_QUESTION",
                    "CONFIRM_QUESTION", "ADVANCE_QUESTION"}

Commands == [event : {"SELECT_DIRECTION"}, arg : Directions]
            \cup [event : PointerCommands, arg : 1..MaxQuestions]
            \cup [event : {"START_STAGE", "RETRY"}, arg : {0}]

(* Mutant: requirePointer is not called.                                   *)
PayloadFits_AnyQuestion(s, c) == c.event = "SELECT_DIRECTION" => c.arg \in s.directions

(* requireKeys, requirePointer and the payload checks of each command.     *)
PayloadFits(s, c) ==
  /\ c.event = "SELECT_DIRECTION" => c.arg \in s.directions
  /\ c.event \in PointerCommands => c.arg = s.current

(* Mutant: an edited answer keeps the reference answer of the old one.     *)
Answered_KeepsReference(q) == [q EXCEPT !.status = "ANSWERED", !.confirmation = "PENDING",
                                        !.answered = TRUE, !.skipped = FALSE]

Answered(q) == [q EXCEPT !.status = "ANSWERED", !.confirmation = "PENDING",
                         !.answered = TRUE, !.skipped = FALSE,
                         !.reference = "ABSENT", !.evidence = {}]
Skipped(q) == [q EXCEPT !.status = "SKIPPED", !.confirmation = "SKIPPED",
                        !.skipped = TRUE]
Confirmed(q) == [q EXCEPT !.status = "CONFIRMED", !.confirmation = "CONFIRMED"]
Activated(q) == [q EXCEPT !.status = "ACTIVE", !.confirmation = "PENDING"]

Advanced(s, n) ==
  IF HasRemaining(s)
  THEN [n EXCEPT !.questions[s.current + 1] = Activated(@), !.current = s.current + 1]
  ELSE [n EXCEPT !.current = 0]

(* The body of applyClientCommand, once the event leads to state `to`.     *)
Effect(s, c, to) ==
  LET n == Moved(s, to)
  IN CASE c.event = "SELECT_DIRECTION" ->
            [n EXCEPT !.selected = c.arg, !.route = "OPEN", !.stage = "UNDERSTAND"]
       [] c.event \in {"SUBMIT_ANSWER", "EDIT_ANSWER"} ->
            [n EXCEPT !.questions[s.current] = Answered(@)]
       [] c.event = "SKIP_QUESTION" -> [n EXCEPT !.questions[s.current] = Skipped(@)]
       [] c.event = "CONFIRM_QUESTION" -> [n EXCEPT !.questions[s.current] = Confirmed(@)]
       [] c.event = "ADVANCE_QUESTION" -> Advanced(s, n)
       [] c.event = "RETRY" -> [n EXCEPT !.failure = NoFailure]
       [] OTHER -> n

(* What executeCommand computes from the session it read: one successor,   *)
(* or none when the event or the payload is refused.                       *)
ClientNext(s, c) ==
  IF PayloadFits(s, c)
  THEN {Effect(s, c, to) : to \in EventTargets(s, c.event, s.failure)}
  ELSE {}

-----------------------------------------------------------------------------
(* Generation results. Each is a set: the well-formed outputs the provider *)
(* may return, empty when the event is not legal in the session's state.   *)
DirectionsReady(s, provider) ==
  LET count == IF provider = "MOCK" THEN {MinDirections} ELSE MinDirections..MaxDirections
  IN {[Moved(s, to) EXCEPT !.directions = 1..n] :
        to \in EventTargets(s, "DIRECTIONS_READY", NoFailure), n \in count}

NewQuestion == [status |-> "UNSEEN", confirmation |-> "PENDING",
                answered |-> FALSE, skipped |-> FALSE,
                reference |-> "ABSENT", evidence |-> {}]

NewQuestions(n) == [i \in 1..n |-> IF i = 1 THEN Activated(NewQuestion) ELSE NewQuestion]

WithQuestions(next, n) ==
  [next EXCEPT !.questions = NewQuestions(n), !.stage = "UNDERSTAND", !.current = 1]

QuestionsReady(s, provider) ==
  LET count == IF provider = "MOCK" THEN {MinQuestions} ELSE MinQuestions..MaxQuestions
  IN {WithQuestions(Moved(s, to), n) :
        to \in EventTargets(s, "QUESTIONS_READY", NoFailure), n \in count}

(* Reference answer and evidence: the mock always attaches the leading     *)
(* text of the first page; a model's claims carry one span per passage it  *)
(* quoted and are all INSUFFICIENT_EVIDENCE when it quoted none.           *)
Feedbacks(order, provider) ==
  IF provider = "MOCK"
  THEN [reference : {"SUPPORTED", "INSUFFICIENT"}, evidence : {{<<"question", order>>}}]
  ELSE {[reference |-> IF g = {} THEN "INSUFFICIENT" ELSE "SUPPORTED",
         evidence |-> {"quote"} \X g] : g \in Groundings}

WithFeedback(next, f) ==
  [next EXCEPT !.questions[next.current] =
     [@ EXCEPT !.status = "FEEDBACK_READY", !.reference = f.reference,
               !.evidence = f.evidence]]

FeedbackReady(s, provider) ==
  {WithFeedback(Moved(s, to), f) :
     to \in EventTargets(s, "FEEDBACK_READY", NoFailure),
     f \in Feedbacks(s.current, provider)}

(* Mutant: the questions are cleaned up when the summary is written.       *)
SummaryReady_DropsEvidence(s) ==
  {[Moved(s, to) EXCEPT
      !.questions = [i \in DOMAIN s.questions |-> [s.questions[i] EXCEPT !.evidence = {}]],
      !.summary = [completed |-> Orders(s, "CONFIRMED"), skipped |-> Orders(s, "SKIPPED")],
      !.route = "COMPLETED"] :
     to \in EventTargets(s, "SUMMARY_READY", NoFailure)}

SummaryReady(s) ==
  {[Moved(s, to) EXCEPT
      !.summary = [completed |-> Orders(s, "CONFIRMED"), skipped |-> Orders(s, "SKIPPED")],
      !.route = "COMPLETED"] :
     to \in EventTargets(s, "SUMMARY_READY", NoFailure)}

(* A failure of either class, recorded on the session.                     *)
Failing(s, failure) ==
  LET event == IF failure.class = "RETRYABLE" THEN "RETRYABLE_FAILURE" ELSE "PERMANENT_FAILURE"
  IN {[Moved(s, to) EXCEPT !.failure = failure] : to \in EventTargets(s, event, failure)}

-----------------------------------------------------------------------------
(* One step of a session: what a generation, or the completion, makes of   *)
(* it; what anything makes of it, whoever computes it.                     *)
Generates(s, next) ==
  \E p \in Providers :
    next \in DirectionsReady(s, p) \cup QuestionsReady(s, p)
               \cup FeedbackReady(s, p) \cup SummaryReady(s)
Completes(s, next) ==
  next \in {Moved(s, to) : to \in EventTargets(s, "COMPLETE_SESSION", NoFailure)}

Follows(s, next) ==
  \/ s = NoSession /\ next = NewSession
  \/ \E c \in Commands : next \in ClientNext(s, c)
  \/ Generates(s, next)
  \/ Completes(s, next)
  \/ \E failure \in Failure : next \in Failing(s, failure)
=============================================================================
