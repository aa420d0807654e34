---------------------- MODULE GuidedLearningSessionProofs ----------------------
(***************************************************************************)
(* Lemmas about the reducer and the validator, for any numbers of          *)
(* directions and questions: what commands, generation results and         *)
(* failures make of a session. No lemma mentions a behaviour; the proofs   *)
(* about the service and about the page both rest on them.                 *)
(***************************************************************************)
EXTENDS GuidedLearningSession, FiniteSetTheorems, TLAPS

-----------------------------------------------------------------------------
(* Sequences and records of questions.                                     *)

(* Replacing one element keeps a sequence a sequence of the same length.   *)
LEMMA ReplaceInSeq ==
  ASSUME NEW S, NEW q \in Seq(S), NEW i, NEW v, i \in DOMAIN q => v \in S
  PROVE  /\ [q EXCEPT ![i] = v] \in Seq(S)
         /\ Len([q EXCEPT ![i] = v]) = Len(q)
         /\ DOMAIN [q EXCEPT ![i] = v] = DOMAIN q
<1>1. q \in [1..Len(q) -> S] /\ Len(q) \in Nat
  OBVIOUS
<1>2. [q EXCEPT ![i] = v] \in [1..Len(q) -> S]
  BY <1>1
<1> QED
  BY <1>1, <1>2

(* What the reducer does to a single question keeps it a question.         *)
LEMMA QuestionEffects ==
  ASSUME NEW q \in Question
  PROVE  /\ Answered(q) \in Question /\ Skipped(q) \in Question
         /\ Confirmed(q) \in Question /\ Activated(q) \in Question
BY DEF Question, Answered, Skipped, Confirmed, Activated

(* A session with one question replaced is a session.                      *)
LEMMA ReplaceQuestion ==
  ASSUME NEW s \in Session, NEW i, NEW q, i \in DOMAIN s.questions => q \in Question
  PROVE  [s EXCEPT !.questions = [s.questions EXCEPT ![i] = q]] \in Session
<1>1. s.questions \in Seq(Question)
  BY DEF Session
<1>2. /\ [s.questions EXCEPT ![i] = q] \in Seq(Question)
      /\ Len([s.questions EXCEPT ![i] = q]) = Len(s.questions)
  BY <1>1, ReplaceInSeq
<1> QED
  BY <1>2 DEF Session

LEMMA MovedIsASession ==
  ASSUME NEW s \in Session, NEW to \in States
  PROVE  /\ Moved(s, to) \in Session
         /\ Moved(s, to).rev = s.rev + 1
         /\ Moved(s, to).questions = s.questions
         /\ Moved(s, to).current = s.current
<1>1. /\ s.rev \in Nat
      /\ Moved(s, to) = [[s EXCEPT !.state = to] EXCEPT !.rev = s.rev + 1]
  BY DEF Session, Moved
<1>2. [s EXCEPT !.state = to] \in Session
  BY DEF Session
<1>3. Moved(s, to) \in Session
  <2>1. s.rev + 1 \in Nat
    BY <1>1
  <2>2. \A m \in Session, r \in Nat : [m EXCEPT !.rev = r] \in Session
    BY DEF Session
  <2> QED
    BY <1>1, <1>2, <2>1, <2>2
<1>4. /\ Moved(s, to).rev = s.rev + 1
      /\ Moved(s, to).questions = s.questions
      /\ Moved(s, to).current = s.current
  BY <1>1 DEF Session
<1> QED
  BY <1>3, <1>4

LEMMA TargetsAreStates ==
  ASSUME NEW s, NEW event, NEW failure
  PROVE  EventTargets(s, event, failure) \subseteq States
BY DEF EventTargets

(* A client command makes a session of a session, one revision on.         *)
LEMMA ClientNextIsASession ==
  ASSUME NEW s \in Session, NEW c \in Commands, NEW next \in ClientNext(s, c)
  PROVE  next \in Session /\ next.rev = s.rev + 1
<1>1. PICK to \in States : next = Effect(s, c, to)
  BY TargetsAreStates DEF ClientNext
<1> DEFINE n == Moved(s, to)
           q == s.questions[s.current]
<1>2. /\ n \in Session /\ n.rev = s.rev + 1
      /\ n.questions = s.questions /\ n.current = s.current
  BY MovedIsASession
<1>3. s.current \in DOMAIN s.questions => q \in Question
  BY DEF Session
<1>4. CASE c.event = "SELECT_DIRECTION"
  <2>1. next = [n EXCEPT !.selected = c.arg, !.route = "OPEN", !.stage = "UNDERSTAND"]
    BY <1>1, <1>4 DEF Effect
  <2>2. c.arg \in Directions
    BY <1>4 DEF Commands, PointerCommands
  <2> QED
    BY <2>1, <2>2, <1>2 DEF Session
<1>5. CASE c.event \in {"SUBMIT_ANSWER", "EDIT_ANSWER"}
  <2>1. next = [n EXCEPT !.questions = [s.questions EXCEPT ![s.current] = Answered(q)]]
    BY <1>1, <1>2, <1>5 DEF Effect
  <2>2. s.current \in DOMAIN n.questions => Answered(q) \in Question
    BY <1>2, <1>3, QuestionEffects
  <2> QED
    BY <2>1, <2>2, <1>2, ReplaceQuestion DEF Session
<1>6. CASE c.event = "SKIP_QUESTION"
  <2>1. next = [n EXCEPT !.questions = [s.questions EXCEPT ![s.current] = Skipped(q)]]
    BY <1>1, <1>2, <1>6 DEF Effect
  <2>2. s.current \in DOMAIN n.questions => Skipped(q) \in Question
    BY <1>2, <1>3, QuestionEffects
  <2> QED
    BY <2>1, <2>2, <1>2, ReplaceQuestion DEF Session
<1>7. CASE c.event = "CONFIRM_QUESTION"
  <2>1. next = [n EXCEPT !.questions = [s.questions EXCEPT ![s.current] = Confirmed(q)]]
    BY <1>1, <1>2, <1>7 DEF Effect
  <2>2. s.current \in DOMAIN n.questions => Confirmed(q) \in Question
    BY <1>2, <1>3, QuestionEffects
  <2> QED
    BY <2>1, <2>2, <1>2, ReplaceQuestion DEF Session
<1>8. CASE c.event = "ADVANCE_QUESTION" /\ HasRemaining(s)
  <2> DEFINE i == s.current + 1
             m == [n EXCEPT !.questions = [s.questions EXCEPT ![i] = Activated(s.questions[i])]]
  <2>1. next = [m EXCEPT !.current = i]
    BY <1>1, <1>2, <1>8 DEF Effect, Advanced, Session
  <2>2. i \in DOMAIN s.questions /\ i \in 0..MaxQuestions
    BY <1>8, SessionAssumption DEF HasRemaining, Session
  <2>3. Activated(s.questions[i]) \in Question
    BY <2>2, QuestionEffects DEF Session
  <2>4. m \in Session
    BY <2>3, <1>2, ReplaceQuestion
  <2>5. m.rev = s.rev + 1
    BY <1>2 DEF Session
  <2> QED
    BY <2>1, <2>2, <2>4, <2>5 DEF Session
<1>9. CASE c.event = "ADVANCE_QUESTION" /\ ~HasRemaining(s)
  <2>1. next = [n EXCEPT !.current = 0]
    BY <1>1, <1>9 DEF Effect, Advanced
  <2>2. 0 \in 0..MaxQuestions
    BY SessionAssumption
  <2> QED
    BY <2>1, <2>2, <1>2 DEF Session
<1>10. CASE c.event = "RETRY"
  <2>1. next = [n EXCEPT !.failure = NoFailure]
    BY <1>1, <1>10 DEF Effect
  <2> QED
    BY <2>1, <1>2 DEF Session, Failure, NoFailure
<1>11. CASE c.event = "START_STAGE"
  <2>1. next = n
    BY <1>1, <1>11 DEF Effect
  <2> QED
    BY <2>1, <1>2
<1>12. c.event \in {"SELECT_DIRECTION", "SUBMIT_ANSWER", "EDIT_ANSWER", "SKIP_QUESTION",
                   "CONFIRM_QUESTION", "ADVANCE_QUESTION", "RETRY", "START_STAGE"}
  BY DEF Commands, PointerCommands
<1> QED
  BY <1>4, <1>5, <1>6, <1>7, <1>8, <1>9, <1>10, <1>11, <1>12

(* Generation results are sessions, one revision on.                       *)
LEMMA DirectionsReadyIsASession ==
  ASSUME NEW s \in Session, NEW p \in Providers, NEW next \in DirectionsReady(s, p)
  PROVE  next \in Session /\ next.rev = s.rev + 1
<1>1. PICK to \in States, n \in MinDirections..MaxDirections :
        next = [Moved(s, to) EXCEPT !.directions = 1..n]
  <2>1. MinDirections \in MinDirections..MaxDirections
    BY SessionAssumption
  <2> QED
    BY <2>1, TargetsAreStates DEF DirectionsReady
<1>2. 1..n \in SUBSET Directions
  BY SessionAssumption DEF Directions
<1>3. Moved(s, to) \in Session /\ Moved(s, to).rev = s.rev + 1
  BY MovedIsASession
<1> QED
  BY <1>1, <1>2, <1>3 DEF Session

LEMMA QuestionsReadyIsASession ==
  ASSUME NEW s \in Session, NEW p \in Providers, NEW next \in QuestionsReady(s, p)
  PROVE  next \in Session /\ next.rev = s.rev + 1
<1>1. PICK to \in States, n \in MinQuestions..MaxQuestions :
        next = WithQuestions(Moved(s, to), n)
  <2>1. MinQuestions \in MinQuestions..MaxQuestions
    BY SessionAssumption
  <2> QED
    BY <2>1, TargetsAreStates DEF QuestionsReady
<1>2. NewQuestions(n) \in Seq(Question) /\ Len(NewQuestions(n)) = n
  <2>1. NewQuestion \in Question /\ Activated(NewQuestion) \in Question
    BY DEF NewQuestion, Activated, Question
  <2>2. n \in Nat
    BY SessionAssumption
  <2>3. NewQuestions(n) \in [1..n -> Question]
    BY <2>1 DEF NewQuestions
  <2> QED
    BY <2>2, <2>3
<1>3. n <= MaxQuestions /\ 1 \in 0..MaxQuestions
  BY SessionAssumption
<1>4. Moved(s, to) \in Session /\ Moved(s, to).rev = s.rev + 1
  BY MovedIsASession
<1> QED
  BY <1>1, <1>2, <1>3, <1>4 DEF WithQuestions, Session

LEMMA FeedbackReadyIsASession ==
  ASSUME NEW s \in Session, NEW p \in Providers, NEW next \in FeedbackReady(s, p)
  PROVE  next \in Session /\ next.rev = s.rev + 1
<1>1. PICK to \in States, f \in Feedbacks(s.current, p) :
        next = WithFeedback(Moved(s, to), f)
  BY TargetsAreStates DEF FeedbackReady
<1> DEFINE n == Moved(s, to)
           q == s.questions[s.current]
           r == [q EXCEPT !.status = "FEEDBACK_READY", !.reference = f.reference,
                          !.evidence = f.evidence]
<1>2. /\ n \in Session /\ n.rev = s.rev + 1
      /\ n.questions = s.questions /\ n.current = s.current
  BY MovedIsASession
<1>3. next = [n EXCEPT !.questions = [s.questions EXCEPT ![s.current] = r]]
  BY <1>1, <1>2 DEF WithFeedback
<1>4. f.reference \in {"ABSENT", "SUPPORTED", "INSUFFICIENT"}
  BY DEF Feedbacks
<1>5. ASSUME s.current \in DOMAIN s.questions PROVE f.evidence \in SUBSET EvidenceIds
  <2>1. s.current \in 1..MaxQuestions
    BY <1>5, SessionAssumption DEF Session
  <2>2. CASE p = "MOCK"
    BY <2>1, <2>2 DEF Feedbacks, EvidenceIds
  <2>3. CASE p # "MOCK"
    <3>1. PICK g \in Groundings : f.evidence = {"quote"} \X g
      BY <2>3 DEF Feedbacks
    <3> QED
      BY <3>1, SessionAssumption DEF EvidenceIds
  <2> QED
    BY <2>2, <2>3
<1>6. s.current \in DOMAIN n.questions => r \in Question
  <2> SUFFICES ASSUME s.current \in DOMAIN s.questions PROVE r \in Question
    BY <1>2
  <2>1. q \in Question
    BY DEF Session
  <2> QED
    BY <2>1, <1>4, <1>5 DEF Question
<1> QED
  BY <1>2, <1>3, <1>6, ReplaceQuestion DEF Session

LEMMA SummaryReadyIsASession ==
  ASSUME NEW s \in Session, NEW next \in SummaryReady(s)
  PROVE  next \in Session /\ next.rev = s.rev + 1
<1>1. PICK to \in States :
        next = [Moved(s, to) EXCEPT
                  !.summary = [completed |-> Orders(s, "CONFIRMED"),
                               skipped |-> Orders(s, "SKIPPED")],
                  !.route = "COMPLETED"]
  BY TargetsAreStates DEF SummaryReady
<1>2. \A status : Orders(s, status) \in SUBSET (1..MaxQuestions)
  BY SessionAssumption DEF Orders, Session
<1>3. Moved(s, to) \in Session /\ Moved(s, to).rev = s.rev + 1
  BY MovedIsASession
<1> QED
  BY <1>1, <1>2, <1>3 DEF Session

LEMMA FailingIsASession ==
  ASSUME NEW s \in Session, NEW failure \in Failure, NEW next \in Failing(s, failure)
  PROVE  next \in Session /\ next.rev = s.rev + 1
<1>1. PICK to \in States : next = [Moved(s, to) EXCEPT !.failure = failure]
  BY TargetsAreStates DEF Failing
<1>2. Moved(s, to) \in Session /\ Moved(s, to).rev = s.rev + 1
  BY MovedIsASession
<1> QED
  BY <1>1, <1>2 DEF Session

-----------------------------------------------------------------------------
(* The first snapshots.                                                    *)

LEMMA FirstSessions ==
  NoSession \in Session /\ NewSession \in Session /\ NewSession.rev = 1
<1>1. /\ {} \in SUBSET Directions /\ 0 \in Directions \cup {0} /\ 0 \in 0..MaxQuestions
      /\ NoSummary \in [completed : SUBSET (1..MaxQuestions), skipped : SUBSET (1..MaxQuestions)]
      /\ NoFailure \in Failure /\ 0 <= MaxQuestions
  BY SessionAssumption DEF NoSummary, NoFailure, Failure
<1>2. <<>> \in Seq(Question) /\ Len(<<>>) = 0
  OBVIOUS
<1>3. "CREATED" \in States
  BY DEF States
<1>4. NoSession \in Session
  BY <1>1, <1>2 DEF NoSession, Session
<1>5. [NoSession EXCEPT !.state = "CREATED"] \in Session
  BY <1>3, <1>4 DEF Session
<1>6. \A m \in Session, r \in Nat : [m EXCEPT !.rev = r] \in Session
  BY DEF Session
<1>7. NewSession = [[NoSession EXCEPT !.state = "CREATED"] EXCEPT !.rev = 1]
  BY DEF NewSession
<1>8. NewSession.rev = 1
  BY <1>4, <1>7 DEF Session
<1> QED
  BY <1>4, <1>5, <1>6, <1>7, <1>8

-----------------------------------------------------------------------------
LEMMA FirstSessionsAreConsistent == Consistent(NoSession) /\ Consistent(NewSession)
<1> SUFFICES ASSUME NEW s \in {NoSession, NewSession} PROVE Consistent(s)
  OBVIOUS
<1>1. /\ s.state \in {"ABSENT", "CREATED"} /\ s.directions = {} /\ s.selected = 0
      /\ s.route = "ABSENT" /\ s.stage = "NONE" /\ s.current = 0 /\ s.questions = <<>>
      /\ s.summary = NoSummary /\ s.failure = NoFailure
  <2>1. CASE s = NoSession
    BY <2>1 DEF NoSession
  <2>2. CASE s = NewSession
    BY <2>2 DEF NoSession, NewSession
  <2> QED
    BY <2>1, <2>2
<1>2. ResumeState(s) \in {"ABSENT", "CREATED"}
  BY <1>1 DEF ResumeState, FailureStates
<1>3. SelectionConsistent(s) /\ RouteConsistent(s)
  BY <1>1, <1>2 DEF SelectionConsistent, RouteConsistent, SelectionStates, QuestionStates,
     PointerStates, CompletionStates
<1>4. QuestionsConsistent(s)
  BY <1>1, <1>2 DEF QuestionsConsistent, EvidenceDistinct, QuestionStates, PointerStates,
     CompletionStates
<1>5. PointerConsistent(s)
  <2>1. {i \in DOMAIN s.questions : s.questions[i].status = "ACTIVE"} = {}
    BY <1>1
  <2>2. Cardinality({}) = 0
    BY FS_EmptySet
  <2> QED
    BY <1>1, <1>2, <2>1, <2>2 DEF PointerConsistent, PointerStates
<1>6. CompletionConsistent(s) /\ FailureConsistent(s)
  BY <1>1, <1>2 DEF CompletionConsistent, CompletionStates, FailureConsistent, FailureStates
<1>7. ResumeShapeConsistent(s)
  BY <1>1, <1>2 DEF ResumeShapeConsistent, FailureSources
<1> QED
  BY <1>3, <1>4, <1>5, <1>6, <1>7 DEF Consistent

(* A command has at most one successor.                                    *)
LEMMA CommandsAreDeterministic ==
  ASSUME NEW s, NEW c \in Commands, NEW n \in ClientNext(s, c), NEW m \in ClientNext(s, c)
  PROVE  n = m
<1>1. PICK to \in EventTargets(s, c.event, s.failure) : n = Effect(s, c, to)
  BY DEF ClientNext
<1>2. PICK too \in EventTargets(s, c.event, s.failure) : m = Effect(s, c, too)
  BY DEF ClientNext
<1>3. c.event \in {"SELECT_DIRECTION", "SUBMIT_ANSWER", "EDIT_ANSWER", "SKIP_QUESTION",
                   "CONFIRM_QUESTION", "ADVANCE_QUESTION", "RETRY", "START_STAGE"}
  BY DEF Commands, PointerCommands
<1>4. ASSUME NEW t \in EventTargets(s, c.event, s.failure)
      PROVE  \/ c.event = "RETRY" /\ t = s.failure.resume
             \/ c.event = "SELECT_DIRECTION" /\ t = "ROUTE_LOCKED"
             \/ c.event = "START_STAGE" /\ t = "QUESTIONS_GENERATING"
             \/ c.event \in {"SUBMIT_ANSWER", "EDIT_ANSWER"} /\ t = "ANSWER_SUBMITTED"
             \/ c.event \in {"SKIP_QUESTION", "CONFIRM_QUESTION"} /\ t = "QUESTION_COMPLETED"
             \/ /\ c.event = "ADVANCE_QUESTION"
                /\ t = (IF HasRemaining(s) THEN "AWAITING_ANSWER" ELSE "SUMMARY_GENERATING")
  BY <1>3 DEF EventTargets, NormalTransitions
<1>5. to = too
  BY <1>3, <1>4
<1> QED
  BY <1>1, <1>2, <1>5

-----------------------------------------------------------------------------
(* Legal commands and the validator. What Consistent leaves open, and every*)
(* session the reducer makes keeps: a summary is written last, questions   *)
(* come with the state that asks them, and a direction opens the stage.    *)
Shaped(s) ==
  /\ s.summary # NoSummary => ResumeState(s) \in CompletionStates
  /\ ResumeState(s) \notin QuestionStates => s.questions = <<>>
  /\ ResumeState(s) \in SelectionStates => s.stage = "UNDERSTAND"

Regular(s) == s \in Session /\ Consistent(s) /\ Shaped(s)

LEMMA AtMostOne ==
  ASSUME NEW S, NEW x, S \subseteq {x}
  PROVE  Cardinality(S) <= 1
<1>1. S = {} \/ S = {x}
  OBVIOUS
<1>2. Cardinality({}) = 0 /\ Cardinality({x}) = 1
  BY FS_EmptySet, FS_Singleton
<1> QED
  BY <1>1, <1>2

(* The command answers, skips or confirms the current question, and        *)
(* changes nothing else.                                                   *)
Resolves(s, next, q) ==
  /\ next.questions = [s.questions EXCEPT ![s.current] = q]
  /\ next.directions = s.directions /\ next.selected = s.selected
  /\ next.route = s.route /\ next.stage = s.stage /\ next.current = s.current
  /\ next.summary = s.summary /\ next.failure = s.failure

LEMMA QuestionsAround ==
  ASSUME NEW s, Regular(s), s.state \in PointerStates
  PROVE  /\ ResumeState(s) = s.state /\ s.questions \in Seq(Question)
         /\ s.current \in DOMAIN s.questions /\ s.current # 0
         /\ s.questions[s.current] \in Question
         /\ \A i \in DOMAIN s.questions :
              /\ i > s.current => s.questions[i].status = "UNSEEN"
              /\ i < s.current => s.questions[i].status \in Resolved
              /\ QuestionConsistent(s.questions[i])
         /\ s.summary = NoSummary /\ s.failure = NoFailure
         /\ s.stage = "UNDERSTAND" /\ s.route = "OPEN"
         /\ s.selected \in s.directions
<1>1. s \in Session /\ Consistent(s) /\ Shaped(s)
  BY DEF Regular
<1>2. ResumeState(s) = s.state /\ s.state \notin FailureStates
  BY DEF ResumeState, PointerStates, FailureStates
<1>3. s.questions \in Seq(Question)
  BY <1>1 DEF Session
<1>4. /\ s.current \in DOMAIN s.questions /\ s.current # 0
      /\ \A i \in DOMAIN s.questions :
           /\ i > s.current => s.questions[i].status = "UNSEEN"
           /\ i < s.current => s.questions[i].status \in Resolved
  BY <1>1, <1>2 DEF Consistent, PointerConsistent
<1>5. \A i \in DOMAIN s.questions : QuestionConsistent(s.questions[i])
  BY <1>1 DEF Consistent, QuestionsConsistent
<1>6. s.summary = NoSummary /\ s.stage = "UNDERSTAND"
  BY <1>1, <1>2 DEF Shaped, PointerStates, QuestionStates, SelectionStates, CompletionStates
<1>7. s.failure = NoFailure /\ s.route = "OPEN" /\ s.selected \in s.directions
  BY <1>1, <1>2 DEF Consistent, FailureConsistent, RouteConsistent, SelectionConsistent,
     PointerStates, QuestionStates, SelectionStates, CompletionStates
<1> QED
  BY <1>2, <1>3, <1>4, <1>5, <1>6, <1>7

LEMMA ResolvingIsRegular ==
  ASSUME NEW s, Regular(s), s.state \in PointerStates,
         NEW next \in Session, NEW q \in Question, Resolves(s, next, q), QuestionConsistent(q),
         \/ /\ next.state = "ANSWER_SUBMITTED" /\ q.status = "ANSWERED"
            /\ q.answered /\ ~q.skipped /\ q.reference = "ABSENT" /\ q.evidence = {}
         \/ next.state = "QUESTION_COMPLETED" /\ q.status = "SKIPPED"
         \/ /\ next.state = "QUESTION_COMPLETED" /\ q.status = "CONFIRMED"
            /\ s.questions[s.current].status \in FeedbackStatuses
            /\ q.evidence = s.questions[s.current].evidence
  PROVE  Regular(next)
<1> DEFINE n == s.current
<1>1. /\ s.questions \in Seq(Question) /\ n \in DOMAIN s.questions /\ n # 0
      /\ \A i \in DOMAIN s.questions :
           /\ i > n => s.questions[i].status = "UNSEEN"
           /\ i < n => s.questions[i].status \in Resolved
           /\ QuestionConsistent(s.questions[i])
      /\ s.summary = NoSummary /\ s.failure = NoFailure
      /\ s.stage = "UNDERSTAND" /\ s.route = "OPEN" /\ s.selected \in s.directions
  BY QuestionsAround
<1>2. /\ DOMAIN next.questions = DOMAIN s.questions
      /\ next.questions[n] = q
      /\ \A i \in DOMAIN s.questions \ {n} : next.questions[i] = s.questions[i]
      /\ next.questions # <<>>
  BY <1>1 DEF Resolves
<1>3. /\ next.directions = s.directions /\ next.selected = s.selected
      /\ next.route = "OPEN" /\ next.stage = "UNDERSTAND" /\ next.current = n
      /\ next.summary = NoSummary /\ next.failure = NoFailure
  BY <1>1 DEF Resolves
<1>4. ResumeState(next) = next.state /\ next.state \in {"ANSWER_SUBMITTED", "QUESTION_COMPLETED"}
  BY DEF ResumeState, FailureStates
<1>5. SelectionConsistent(next) /\ RouteConsistent(next) /\ FailureConsistent(next)
  BY <1>1, <1>3, <1>4 DEF SelectionConsistent, RouteConsistent, FailureConsistent, FailureStates,
     SelectionStates, QuestionStates, PointerStates, CompletionStates
<1>6. QuestionsConsistent(next)
  <2>1. \A i \in DOMAIN next.questions : QuestionConsistent(next.questions[i])
    BY <1>1, <1>2
  <2>2. EvidenceDistinct(s)
    BY DEF Regular, Consistent, QuestionsConsistent
  <2>3. \A i \in DOMAIN next.questions :
          next.questions[i].status \in FeedbackStatuses =>
            /\ s.questions[i].status \in FeedbackStatuses
            /\ next.questions[i].evidence = s.questions[i].evidence
    BY <1>2 DEF FeedbackStatuses
  <2>4. EvidenceDistinct(next)
    BY <1>2, <2>2, <2>3 DEF EvidenceDistinct
  <2> QED
    BY <1>2, <2>1, <2>4 DEF QuestionsConsistent
<1>7. PointerConsistent(next)
  <2>1. {i \in DOMAIN next.questions : next.questions[i].status = "ACTIVE"} \subseteq {0}
    <3>1. \A i \in DOMAIN s.questions \ {n} : s.questions[i].status # "ACTIVE"
      BY <1>1 DEF Resolved
    <3> QED
      BY <1>2, <3>1
  <2>2. Cardinality({i \in DOMAIN next.questions : next.questions[i].status = "ACTIVE"}) <= 1
    BY <2>1, AtMostOne
  <2>3. \A i \in DOMAIN next.questions :
          /\ i > n => next.questions[i].status = "UNSEEN"
          /\ i < n => next.questions[i].status \in Resolved
    BY <1>1, <1>2
  <2> QED
    BY <1>1, <1>2, <1>3, <1>4, <2>2, <2>3 DEF PointerConsistent, PointerStates, Resolved
<1>8. CompletionConsistent(next)
  BY <1>3, <1>4 DEF CompletionConsistent, CompletionStates
<1>9. ResumeShapeConsistent(next)
  BY <1>2, <1>3, <1>4 DEF ResumeShapeConsistent, FailureSources
<1>10. Shaped(next)
  BY <1>3, <1>4 DEF Shaped, QuestionStates, PointerStates
<1> QED
  BY <1>5, <1>6, <1>7, <1>8, <1>9, <1>10 DEF Regular, Consistent

(* On to the next question: the one that follows becomes the active one.   *)
LEMMA AdvancingIsRegular ==
  ASSUME NEW s, Regular(s), s.state = "QUESTION_COMPLETED", HasRemaining(s),
         NEW next \in Session, next.state = "AWAITING_ANSWER",
         next.questions = [s.questions EXCEPT ![s.current + 1] = Activated(s.questions[s.current + 1])],
         next.current = s.current + 1, next.directions = s.directions,
         next.selected = s.selected, next.route = s.route, next.stage = s.stage,
         next.summary = s.summary, next.failure = s.failure
  PROVE  Regular(next)
<1> DEFINE n == s.current
           m == n + 1
<1>0. s.state \in PointerStates
  BY DEF PointerStates
<1>1. /\ s.questions \in Seq(Question) /\ n \in DOMAIN s.questions /\ n # 0
      /\ ResumeState(s) = s.state
      /\ \A i \in DOMAIN s.questions :
           /\ i > n => s.questions[i].status = "UNSEEN"
           /\ i < n => s.questions[i].status \in Resolved
           /\ QuestionConsistent(s.questions[i])
      /\ s.summary = NoSummary /\ s.failure = NoFailure
      /\ s.stage = "UNDERSTAND" /\ s.route = "OPEN" /\ s.selected \in s.directions
  BY <1>0, QuestionsAround
<1>2. s.questions[n].status \in Resolved
  BY <1>1 DEF Regular, Consistent, PointerConsistent
<1>3. m \in DOMAIN s.questions /\ m > n /\ m # 0 /\ n \in Nat /\ s.questions[m] \in Question
  BY <1>1 DEF HasRemaining
<1>4. /\ DOMAIN next.questions = DOMAIN s.questions
      /\ next.questions[m] = Activated(s.questions[m])
      /\ \A i \in DOMAIN s.questions \ {m} : next.questions[i] = s.questions[i]
      /\ next.questions # <<>>
  BY <1>1, <1>3
<1>5. /\ Activated(s.questions[m]).status = "ACTIVE"
      /\ QuestionConsistent(Activated(s.questions[m]))
  <2>1. QuestionConsistent(s.questions[m]) /\ s.questions[m].status = "UNSEEN"
    BY <1>1, <1>3
  <2> QED
    BY <1>3, <2>1 DEF Activated, Question, QuestionConsistent, FeedbackStatuses
<1>6. ResumeState(next) = "AWAITING_ANSWER"
  BY DEF ResumeState, FailureStates
<1>7. SelectionConsistent(next) /\ RouteConsistent(next) /\ FailureConsistent(next)
  BY <1>1, <1>6 DEF SelectionConsistent, RouteConsistent, FailureConsistent, FailureStates,
     SelectionStates, QuestionStates, PointerStates, CompletionStates
<1>8. QuestionsConsistent(next)
  <2>1. \A i \in DOMAIN next.questions : QuestionConsistent(next.questions[i])
    BY <1>1, <1>4, <1>5
  <2>2. EvidenceDistinct(s)
    BY DEF Regular, Consistent, QuestionsConsistent
  <2>3. \A i \in DOMAIN next.questions :
          next.questions[i].status \in FeedbackStatuses => next.questions[i] = s.questions[i]
    BY <1>4, <1>5 DEF FeedbackStatuses
  <2>4. EvidenceDistinct(next)
    BY <1>4, <2>2, <2>3 DEF EvidenceDistinct
  <2> QED
    BY <1>4, <2>1, <2>4 DEF QuestionsConsistent
<1>9. PointerConsistent(next)
  <2>1. \A i \in DOMAIN next.questions : i # m => next.questions[i].status # "ACTIVE"
    <3>1. \A i \in DOMAIN s.questions : i = n \/ i > n \/ i < n
      BY <1>1
    <3> QED
      BY <1>1, <1>2, <1>4, <3>1 DEF Resolved
  <2>2. {i \in DOMAIN next.questions : next.questions[i].status = "ACTIVE"} = {m}
    BY <1>3, <1>4, <1>5, <2>1
  <2>3. Cardinality({i \in DOMAIN next.questions : next.questions[i].status = "ACTIVE"}) <= 1
    BY <2>2, AtMostOne
  <2>4. \A i \in DOMAIN next.questions :
          /\ i > m => next.questions[i].status = "UNSEEN"
          /\ i < m => next.questions[i].status \in Resolved
    <3>1. \A i \in DOMAIN s.questions : (i > m => i > n) /\ (i < m => i < n \/ i = n)
      BY <1>1, <1>3
    <3> QED
      BY <1>1, <1>2, <1>4, <3>1
  <2> QED
    BY <1>3, <1>4, <1>6, <2>2, <2>3, <2>4 DEF PointerConsistent, PointerStates
<1>10. CompletionConsistent(next)
  BY <1>1, <1>6 DEF CompletionConsistent, CompletionStates
<1>11. ResumeShapeConsistent(next)
  BY <1>1, <1>6 DEF ResumeShapeConsistent, FailureSources
<1>12. Shaped(next)
  BY <1>1, <1>6 DEF Shaped, QuestionStates, PointerStates
<1> QED
  BY <1>7, <1>8, <1>9, <1>10, <1>11, <1>12 DEF Regular, Consistent

(* Past the last question.                                                 *)
LEMMA FinishingIsRegular ==
  ASSUME NEW s, Regular(s), s.state = "QUESTION_COMPLETED", ~HasRemaining(s),
         NEW next \in Session, next.state = "SUMMARY_GENERATING",
         next.questions = s.questions, next.current = 0, next.directions = s.directions,
         next.selected = s.selected, next.route = s.route, next.stage = s.stage,
         next.summary = s.summary, next.failure = s.failure
  PROVE  Regular(next)
<1> DEFINE n == s.current
<1>0. s.state \in PointerStates
  BY DEF PointerStates
<1>1. /\ s.questions \in Seq(Question) /\ n \in DOMAIN s.questions
      /\ \A i \in DOMAIN s.questions : i < n => s.questions[i].status \in Resolved
      /\ s.summary = NoSummary /\ s.failure = NoFailure
      /\ s.stage = "UNDERSTAND" /\ s.route = "OPEN" /\ s.selected \in s.directions
  BY <1>0, QuestionsAround
<1>2. s.questions[n].status \in Resolved
  BY <1>0, QuestionsAround DEF Regular, Consistent, PointerConsistent
<1>3. \A i \in DOMAIN s.questions : s.questions[i].status \in Resolved
  <2>1. \A i \in DOMAIN s.questions : i = n \/ i < n
    BY <1>1 DEF HasRemaining
  <2> QED
    BY <1>1, <1>2, <2>1
<1>4. ResumeState(next) = "SUMMARY_GENERATING"
  BY DEF ResumeState, FailureStates
<1>5. SelectionConsistent(next) /\ RouteConsistent(next) /\ FailureConsistent(next)
  BY <1>1, <1>4 DEF SelectionConsistent, RouteConsistent, FailureConsistent, FailureStates,
     SelectionStates, QuestionStates, PointerStates, CompletionStates
<1>6. QuestionsConsistent(next)
  <2>1. s.questions # <<>>
    BY <1>1
  <2> QED
    BY <2>1 DEF Regular, Consistent, QuestionsConsistent, EvidenceDistinct
<1>7. PointerConsistent(next)
  <2>1. {i \in DOMAIN next.questions : next.questions[i].status = "ACTIVE"} \subseteq {0}
    BY <1>3 DEF Resolved
  <2>2. Cardinality({i \in DOMAIN next.questions : next.questions[i].status = "ACTIVE"}) <= 1
    BY <2>1, AtMostOne
  <2> QED
    BY <1>4, <2>2 DEF PointerConsistent, PointerStates
<1>8. CompletionConsistent(next)
  BY <1>1, <1>3, <1>4 DEF CompletionConsistent, CompletionStates
<1>9. ResumeShapeConsistent(next)
  BY <1>1, <1>4 DEF ResumeShapeConsistent, FailureSources
<1>10. Shaped(next)
  BY <1>1, <1>4 DEF Shaped, QuestionStates
<1> QED
  BY <1>5, <1>6, <1>7, <1>8, <1>9, <1>10 DEF Regular, Consistent

(* The two commands before there are questions.                            *)
LEMMA OpeningIsRegular ==
  ASSUME NEW s, Regular(s), NEW next \in Session,
         next.questions = s.questions, next.current = s.current, next.directions = s.directions,
         next.summary = s.summary, next.failure = s.failure,
         next.route = "OPEN", next.stage = "UNDERSTAND",
         \/ /\ s.state = "AWAITING_DIRECTION_SELECTION" /\ next.state = "ROUTE_LOCKED"
            /\ next.selected \in s.directions
         \/ /\ s.state = "ROUTE_LOCKED" /\ next.state = "QUESTIONS_GENERATING"
            /\ next.selected = s.selected
  PROVE  Regular(next)
<1>1. ResumeState(s) = s.state /\ ResumeState(next) = next.state /\ Consistent(s) /\ Shaped(s)
  BY DEF Regular, ResumeState, FailureStates
<1>2. s.questions = <<>> /\ s.summary = NoSummary /\ next.selected \in s.directions
  BY <1>1 DEF Shaped, QuestionStates, PointerStates, CompletionStates, SelectionStates,
     Consistent, SelectionConsistent
<1>3. s.failure = NoFailure /\ s.current = 0
  BY <1>1 DEF Consistent, FailureConsistent, FailureStates, PointerConsistent, PointerStates
<1>4. SelectionConsistent(next) /\ RouteConsistent(next) /\ FailureConsistent(next)
  BY <1>1, <1>2, <1>3 DEF SelectionConsistent, RouteConsistent, FailureConsistent, FailureStates,
     SelectionStates, QuestionStates, PointerStates, CompletionStates
<1>5. QuestionsConsistent(next)
  BY <1>1, <1>2 DEF QuestionsConsistent, EvidenceDistinct, QuestionStates, PointerStates,
     CompletionStates
<1>6. PointerConsistent(next)
  <2>1. {i \in DOMAIN next.questions : next.questions[i].status = "ACTIVE"} \subseteq {0}
    BY <1>2
  <2>2. Cardinality({i \in DOMAIN next.questions : next.questions[i].status = "ACTIVE"}) <= 1
    BY <2>1, AtMostOne
  <2> QED
    BY <1>1, <1>3, <2>2 DEF PointerConsistent, PointerStates
<1>7. CompletionConsistent(next)
  BY <1>1, <1>2 DEF CompletionConsistent, CompletionStates
<1>8. ResumeShapeConsistent(next)
  BY <1>1, <1>2 DEF ResumeShapeConsistent
<1>9. Shaped(next)
  BY <1>1, <1>2 DEF Shaped
<1> QED
  BY <1>4, <1>5, <1>6, <1>7, <1>8, <1>9 DEF Regular, Consistent

(* Back from a failure, or into one: a session is judged by the state it   *)
(* resumes, so only the failure itself is judged anew.                     *)
LEMMA ResumingIsRegular ==
  ASSUME NEW s, Regular(s), NEW next \in Session, ResumeState(next) = ResumeState(s),
         FailureConsistent(next),
         next.questions = s.questions, next.current = s.current, next.directions = s.directions,
         next.selected = s.selected, next.route = s.route, next.stage = s.stage,
         next.summary = s.summary
  PROVE  Regular(next)
<1>1. SelectionConsistent(next) /\ RouteConsistent(next)
  BY DEF Regular, Consistent, SelectionConsistent, RouteConsistent
<1>2. QuestionsConsistent(next)
  BY DEF Regular, Consistent, QuestionsConsistent, EvidenceDistinct
<1>3. PointerConsistent(next)
  BY DEF Regular, Consistent, PointerConsistent
<1>4. CompletionConsistent(next) /\ ResumeShapeConsistent(next) /\ Shaped(next)
  BY DEF Regular, Consistent, CompletionConsistent, Orders, ResumeShapeConsistent, Shaped
<1> QED
  BY <1>1, <1>2, <1>3, <1>4 DEF Regular, Consistent

(* The command leaves questions, pointer, directions and summary alone.    *)
Keeps(s, next) ==
  /\ next.questions = s.questions /\ next.current = s.current
  /\ next.directions = s.directions /\ next.summary = s.summary

(* RETRY goes back to where the failure was.                               *)
Resumes(s, next) ==
  /\ s.state = "RETRYABLE_FAILURE" /\ next.state = s.failure.resume
  /\ next.state \in FailureSources /\ next.failure = NoFailure
  /\ next.selected = s.selected /\ next.route = s.route /\ next.stage = s.stage
  /\ Keeps(s, next)

(* SELECT_DIRECTION opens the stage.                                       *)
Opens(s, next) ==
  /\ s.state = "AWAITING_DIRECTION_SELECTION" /\ next.state = "ROUTE_LOCKED"
  /\ next.selected \in s.directions /\ next.route = "OPEN" /\ next.stage = "UNDERSTAND"
  /\ next.failure = s.failure /\ Keeps(s, next)

(* What a command leads to, and which fields it leaves alone.              *)
LEMMA CommandEffects ==
  ASSUME NEW s \in Session, NEW c \in Commands, NEW next \in ClientNext(s, c)
  PROVE  /\ next \in Session
         /\ c.event = "SELECT_DIRECTION" => Opens(s, next)
         /\ c.event = "START_STAGE" =>
              /\ s.state = "ROUTE_LOCKED" /\ next.state = "QUESTIONS_GENERATING"
              /\ next.selected = s.selected /\ next.route = s.route /\ next.stage = s.stage
              /\ next.failure = s.failure /\ Keeps(s, next)
         /\ c.event \in {"SUBMIT_ANSWER", "EDIT_ANSWER"} =>
              /\ s.state \in {"AWAITING_ANSWER", "FEEDBACK_READY", "QUESTION_COMPLETED"}
              /\ next.state = "ANSWER_SUBMITTED"
              /\ Resolves(s, next, Answered(s.questions[s.current]))
         /\ c.event = "SKIP_QUESTION" =>
              /\ s.state = "AWAITING_ANSWER" /\ next.state = "QUESTION_COMPLETED"
              /\ Resolves(s, next, Skipped(s.questions[s.current]))
         /\ c.event = "CONFIRM_QUESTION" =>
              /\ s.state = "FEEDBACK_READY" /\ next.state = "QUESTION_COMPLETED"
              /\ Resolves(s, next, Confirmed(s.questions[s.current]))
         /\ c.event = "ADVANCE_QUESTION" =>
              /\ s.state = "QUESTION_COMPLETED"
              /\ HasRemaining(s) =>
                   /\ next.state = "AWAITING_ANSWER" /\ next.current = s.current + 1
                   /\ next.questions = [s.questions EXCEPT ![s.current + 1] =
                                          Activated(s.questions[s.current + 1])]
              /\ ~HasRemaining(s) =>
                   /\ next.state = "SUMMARY_GENERATING" /\ next.current = 0
                   /\ next.questions = s.questions
              /\ next.directions = s.directions /\ next.selected = s.selected
              /\ next.route = s.route /\ next.stage = s.stage
              /\ next.summary = s.summary /\ next.failure = s.failure
         /\ c.event = "RETRY" => Resumes(s, next)
<1>1. PICK to \in EventTargets(s, c.event, s.failure) : next = Effect(s, c, to) /\ PayloadFits(s, c)
  BY DEF ClientNext
<1> DEFINE n == Moved(s, to)
<1>2. next \in Session /\ to \in States /\ n \in Session
  BY <1>1, ClientNextIsASession, TargetsAreStates, MovedIsASession
<1>3. /\ n.state = to /\ n.directions = s.directions /\ n.selected = s.selected
      /\ n.route = s.route /\ n.stage = s.stage /\ n.current = s.current
      /\ n.questions = s.questions /\ n.summary = s.summary /\ n.failure = s.failure
  BY DEF Moved, Session
<1> HIDE DEF n
<1>4. CASE c.event = "SELECT_DIRECTION"
  <2>1. next = [n EXCEPT !.selected = c.arg, !.route = "OPEN", !.stage = "UNDERSTAND"]
    BY <1>1, <1>4 DEF Effect, n
  <2>2. s.state = "AWAITING_DIRECTION_SELECTION" /\ to = "ROUTE_LOCKED" /\ c.arg \in s.directions
    BY <1>1, <1>4 DEF EventTargets, NormalTransitions, PayloadFits
  <2> QED
    BY <2>1, <2>2, <1>2, <1>3, <1>4 DEF Session, Opens, Keeps
<1>5. CASE c.event = "START_STAGE"
  <2>1. next = n
    BY <1>1, <1>5 DEF Effect, n
  <2>2. s.state = "ROUTE_LOCKED" /\ to = "QUESTIONS_GENERATING"
    BY <1>1, <1>5 DEF EventTargets, NormalTransitions
  <2> QED
    BY <2>1, <2>2, <1>2, <1>3, <1>5 DEF Keeps
<1>6. ASSUME NEW q, next = [n EXCEPT !.questions = [s.questions EXCEPT ![s.current] = q]]
      PROVE  Resolves(s, next, q) /\ next.state = to
  BY <1>2, <1>3, <1>6 DEF Resolves, Session
<1>7. CASE c.event \in {"SUBMIT_ANSWER", "EDIT_ANSWER"}
  <2>1. next = [n EXCEPT !.questions = [s.questions EXCEPT ![s.current] =
                                          Answered(s.questions[s.current])]]
    BY <1>1, <1>3, <1>7 DEF Effect, n
  <2>2. /\ s.state \in {"AWAITING_ANSWER", "FEEDBACK_READY", "QUESTION_COMPLETED"}
        /\ to = "ANSWER_SUBMITTED"
    BY <1>1, <1>7 DEF EventTargets, NormalTransitions
  <2> QED
    BY <2>1, <2>2, <1>2, <1>6, <1>7
<1>8. CASE c.event = "SKIP_QUESTION"
  <2>1. next = [n EXCEPT !.questions = [s.questions EXCEPT ![s.current] =
                                          Skipped(s.questions[s.current])]]
    BY <1>1, <1>3, <1>8 DEF Effect, n
  <2>2. s.state = "AWAITING_ANSWER" /\ to = "QUESTION_COMPLETED"
    BY <1>1, <1>8 DEF EventTargets, NormalTransitions
  <2> QED
    BY <2>1, <2>2, <1>2, <1>6, <1>8
<1>9. CASE c.event = "CONFIRM_QUESTION"
  <2>1. next = [n EXCEPT !.questions = [s.questions EXCEPT ![s.current] =
                                          Confirmed(s.questions[s.current])]]
    BY <1>1, <1>3, <1>9 DEF Effect, n
  <2>2. s.state = "FEEDBACK_READY" /\ to = "QUESTION_COMPLETED"
    BY <1>1, <1>9 DEF EventTargets, NormalTransitions
  <2> QED
    BY <2>1, <2>2, <1>2, <1>6, <1>9
<1>10. CASE c.event = "ADVANCE_QUESTION"
  <2>1. /\ s.state = "QUESTION_COMPLETED"
        /\ to = (IF HasRemaining(s) THEN "AWAITING_ANSWER" ELSE "SUMMARY_GENERATING")
    BY <1>1, <1>10 DEF EventTargets, NormalTransitions
  <2>2. next = Advanced(s, n)
    BY <1>1, <1>10 DEF Effect, n
  <2>3. CASE HasRemaining(s)
    <3>1. next = [n EXCEPT !.questions = [s.questions EXCEPT ![s.current + 1] =
                                            Activated(s.questions[s.current + 1])],
                           !.current = s.current + 1]
      BY <1>3, <2>2, <2>3 DEF Advanced
    <3> QED
      BY <3>1, <2>1, <2>3, <1>2, <1>3, <1>10 DEF Session
  <2>4. CASE ~HasRemaining(s)
    <3>1. next = [n EXCEPT !.current = 0]
      BY <2>2, <2>4 DEF Advanced
    <3> QED
      BY <3>1, <2>1, <2>4, <1>2, <1>3, <1>10 DEF Session
  <2> QED
    BY <2>3, <2>4
<1>11. CASE c.event = "RETRY"
  <2>1. next = [n EXCEPT !.failure = NoFailure]
    BY <1>1, <1>11 DEF Effect, n
  <2>2. s.state = "RETRYABLE_FAILURE" /\ to = s.failure.resume /\ to \in FailureSources
    BY <1>1, <1>11 DEF EventTargets, NormalTransitions, IsValidFailureResume, FailureSources
  <2> QED
    BY <2>1, <2>2, <1>2, <1>3, <1>11 DEF Session, Resumes, Keeps
<1>12. c.event \in {"SELECT_DIRECTION", "SUBMIT_ANSWER", "EDIT_ANSWER", "SKIP_QUESTION",
                    "CONFIRM_QUESTION", "ADVANCE_QUESTION", "RETRY", "START_STAGE"}
  BY DEF Commands, PointerCommands
<1> QED
  BY <1>4, <1>5, <1>7, <1>8, <1>9, <1>10, <1>11, <1>12

(* The reducer and the validator agree: every command that is legal in a   *)
(* regular session makes a regular one of it.                              *)
LEMMA CommandsKeepRegular ==
  ASSUME NEW s, Regular(s), NEW c \in Commands, NEW next \in ClientNext(s, c)
  PROVE  Regular(next)
<1>0. s \in Session
  BY DEF Regular
<1>1. CASE c.event = "SELECT_DIRECTION"
  <2>1. next \in Session /\ Opens(s, next)
    BY <1>0, <1>1, CommandEffects
  <2> QED
    BY <2>1, OpeningIsRegular DEF Opens, Keeps
<1>6. CASE c.event = "START_STAGE"
  <2>1. /\ next \in Session
        /\ s.state = "ROUTE_LOCKED" /\ next.state = "QUESTIONS_GENERATING"
        /\ next.selected = s.selected /\ next.route = s.route /\ next.stage = s.stage
        /\ next.failure = s.failure /\ Keeps(s, next)
    BY <1>0, <1>6, CommandEffects
  <2>2. s.route = "OPEN" /\ s.stage = "UNDERSTAND"
    BY <2>1 DEF Regular, Shaped, Consistent, RouteConsistent, ResumeState, FailureStates,
       SelectionStates, QuestionStates, PointerStates, CompletionStates
  <2> QED
    BY <2>1, <2>2, OpeningIsRegular DEF Keeps
<1>2. CASE c.event \in {"SUBMIT_ANSWER", "EDIT_ANSWER", "SKIP_QUESTION", "CONFIRM_QUESTION"}
  <2> DEFINE q == s.questions[s.current]
  <2>1. /\ next \in Session
        /\ s.state \in {"AWAITING_ANSWER", "FEEDBACK_READY", "QUESTION_COMPLETED"}
        /\ \/ next.state = "ANSWER_SUBMITTED" /\ Resolves(s, next, Answered(q))
           \/ /\ s.state = "AWAITING_ANSWER" /\ next.state = "QUESTION_COMPLETED"
              /\ Resolves(s, next, Skipped(q))
           \/ /\ s.state = "FEEDBACK_READY" /\ next.state = "QUESTION_COMPLETED"
              /\ Resolves(s, next, Confirmed(q))
    BY <1>0, <1>2, CommandEffects
  <2>2. s.state \in PointerStates
    BY <2>1 DEF PointerStates
  <2>3. /\ q \in Question /\ QuestionConsistent(q) /\ s.current \in DOMAIN s.questions
        /\ s.current # 0 /\ ResumeState(s) = s.state
    BY <2>2, QuestionsAround
  <2>4. CASE next.state = "ANSWER_SUBMITTED" /\ Resolves(s, next, Answered(q))
    <3>1. Answered(q) \in Question /\ QuestionConsistent(Answered(q))
      BY <2>3, QuestionEffects DEF Answered, Question, QuestionConsistent, FeedbackStatuses
    <3>2. /\ Answered(q).status = "ANSWERED" /\ Answered(q).answered /\ ~Answered(q).skipped
          /\ Answered(q).reference = "ABSENT" /\ Answered(q).evidence = {}
      BY <2>3 DEF Answered, Question
    <3> QED
      BY <2>1, <2>2, <2>4, <3>1, <3>2, ResolvingIsRegular
  <2>5. CASE /\ s.state = "AWAITING_ANSWER" /\ next.state = "QUESTION_COMPLETED"
             /\ Resolves(s, next, Skipped(q))
    <3>1. q.status = "ACTIVE"
      BY <2>3, <2>5 DEF Regular, Consistent, PointerConsistent
    <3>3. ~q.answered /\ q.reference = "ABSENT"
      BY <2>3, <3>1 DEF QuestionConsistent
    <3>4. /\ Skipped(q).status = "SKIPPED" /\ Skipped(q).confirmation = "SKIPPED"
          /\ Skipped(q).skipped /\ ~Skipped(q).answered /\ Skipped(q).reference = "ABSENT"
      BY <2>3, <3>3 DEF Skipped, Question
    <3>2. Skipped(q) \in Question /\ Skipped(q).status = "SKIPPED" /\ QuestionConsistent(Skipped(q))
      BY <2>3, <3>4, QuestionEffects DEF QuestionConsistent, FeedbackStatuses
    <3> QED
      BY <2>1, <2>2, <2>5, <3>2, ResolvingIsRegular
  <2>6. CASE /\ s.state = "FEEDBACK_READY" /\ next.state = "QUESTION_COMPLETED"
             /\ Resolves(s, next, Confirmed(q))
    <3>1. q.status = "FEEDBACK_READY"
      BY <2>3, <2>6 DEF Regular, Consistent, PointerConsistent
    <3>2. /\ Confirmed(q) \in Question /\ Confirmed(q).status = "CONFIRMED"
          /\ QuestionConsistent(Confirmed(q)) /\ Confirmed(q).evidence = q.evidence
      BY <2>3, <3>1, QuestionEffects DEF Confirmed, Question, QuestionConsistent, FeedbackStatuses
    <3> QED
      BY <2>1, <2>2, <2>6, <3>1, <3>2, ResolvingIsRegular DEF FeedbackStatuses
  <2> QED
    BY <2>1, <2>4, <2>5, <2>6
<1>3. CASE c.event = "ADVANCE_QUESTION"
  <2>1. /\ next \in Session /\ s.state = "QUESTION_COMPLETED"
        /\ \/ /\ HasRemaining(s) /\ next.state = "AWAITING_ANSWER"
              /\ next.current = s.current + 1
              /\ next.questions = [s.questions EXCEPT ![s.current + 1] =
                                     Activated(s.questions[s.current + 1])]
           \/ /\ ~HasRemaining(s) /\ next.state = "SUMMARY_GENERATING"
              /\ next.current = 0 /\ next.questions = s.questions
        /\ next.directions = s.directions /\ next.selected = s.selected
        /\ next.route = s.route /\ next.stage = s.stage
        /\ next.summary = s.summary /\ next.failure = s.failure
    BY <1>0, <1>3, CommandEffects
  <2> QED
    BY <2>1, AdvancingIsRegular, FinishingIsRegular
<1>4. CASE c.event = "RETRY"
  <2>1. next \in Session /\ Resumes(s, next)
    BY <1>0, <1>4, CommandEffects
  <2>2. ResumeState(next) = ResumeState(s) /\ FailureConsistent(next)
    BY <2>1 DEF Resumes, ResumeState, FailureConsistent, FailureStates, FailureSources
  <2> QED
    BY <2>1, <2>2, ResumingIsRegular DEF Resumes, Keeps
<1>5. c.event \in {"SELECT_DIRECTION", "SUBMIT_ANSWER", "EDIT_ANSWER", "SKIP_QUESTION",
                   "CONFIRM_QUESTION", "ADVANCE_QUESTION", "RETRY", "START_STAGE"}
  BY DEF Commands, PointerCommands
<1> QED
  BY <1>1, <1>2, <1>3, <1>4, <1>5, <1>6

(* A failure the contract knows always finds a regular session regular.    *)
LEMMA FailuresKeepRegular ==
  ASSUME NEW s, Regular(s), NEW failure \in Failure, NEW next \in Failing(s, failure)
  PROVE  Regular(next)
<1>0. s \in Session
  BY DEF Regular
<1> DEFINE event == IF failure.class = "RETRYABLE" THEN "RETRYABLE_FAILURE" ELSE "PERMANENT_FAILURE"
<1>1. PICK to \in EventTargets(s, event, failure) : next = [Moved(s, to) EXCEPT !.failure = failure]
  BY DEF Failing
<1>2. /\ s.state \in FailureSources /\ failure.resume = s.state
      /\ failure.class = (IF event = "RETRYABLE_FAILURE" THEN "RETRYABLE" ELSE "PERMANENT")
      /\ IsValidFailureResume(failure.op, failure.resume)
      /\ to = (IF event = "RETRYABLE_FAILURE" THEN "RETRYABLE_FAILURE" ELSE "FAILED")
  BY <1>1 DEF EventTargets, NormalTransitions
<1>3. /\ next \in Session /\ next.state = to /\ next.failure = failure
      /\ next.directions = s.directions /\ next.selected = s.selected
      /\ next.route = s.route /\ next.stage = s.stage /\ next.current = s.current
      /\ next.questions = s.questions /\ next.summary = s.summary
  BY <1>0, <1>1, FailingIsASession DEF Moved, Session
<1>4. ResumeState(next) = ResumeState(s) /\ FailureConsistent(next)
  BY <1>2, <1>3 DEF ResumeState, FailureConsistent, FailureStates, FailureSources
<1> QED
  BY <1>3, <1>4, ResumingIsRegular

(* A generation result or a completion that passes the validator is shaped *)
(* as well.                                                                *)
LEMMA ResultsKeepRegular ==
  ASSUME NEW s, Regular(s), NEW next, Consistent(next), Generates(s, next) \/ Completes(s, next)
  PROVE  Regular(next)
<1>0. s \in Session /\ Shaped(s)
  BY DEF Regular
<1>1. \A to \in States : LET n == Moved(s, to)
                         IN /\ n \in Session /\ n.state = to /\ n.summary = s.summary
                            /\ n.questions = s.questions /\ n.stage = s.stage
  BY <1>0, MovedIsASession DEF Moved, Session
<1>2. ASSUME NEW p \in Providers, next \in DirectionsReady(s, p) PROVE Regular(next)
  <2>0. MinDirections \in MinDirections..MaxDirections
    BY SessionAssumption
  <2>1. PICK to \in EventTargets(s, "DIRECTIONS_READY", NoFailure), n \in MinDirections..MaxDirections :
          next = [Moved(s, to) EXCEPT !.directions = 1..n]
    BY <1>2, <2>0 DEF DirectionsReady
  <2>2. s.state = "CREATED" /\ to = "AWAITING_DIRECTION_SELECTION" /\ to \in States
    BY DEF EventTargets, NormalTransitions
  <2>3. s.questions = <<>> /\ s.summary = NoSummary
    BY <1>0, <2>2 DEF Shaped, ResumeState, FailureStates, QuestionStates, PointerStates,
       CompletionStates
  <2>4. /\ next.state = to /\ next.summary = NoSummary /\ next.questions = <<>>
    BY <1>1, <2>1, <2>2, <2>3 DEF Session
  <2>5. next \in Session
    BY <1>0, <1>2, DirectionsReadyIsASession
  <2> QED
    BY <2>2, <2>4, <2>5 DEF Regular, Shaped, ResumeState, FailureStates, SelectionStates,
       QuestionStates, PointerStates, CompletionStates
<1>3. ASSUME NEW p \in Providers, next \in QuestionsReady(s, p) PROVE Regular(next)
  <2>0. MinQuestions \in MinQuestions..MaxQuestions
    BY SessionAssumption
  <2>1. PICK to \in EventTargets(s, "QUESTIONS_READY", NoFailure), n \in MinQuestions..MaxQuestions :
          next = WithQuestions(Moved(s, to), n)
    BY <1>3, <2>0 DEF QuestionsReady
  <2>2. s.state = "QUESTIONS_GENERATING" /\ to = "AWAITING_ANSWER" /\ to \in States
    BY DEF EventTargets, NormalTransitions
  <2>3. s.summary = NoSummary
    BY <1>0, <2>2 DEF Shaped, ResumeState, FailureStates, CompletionStates
  <2>4. /\ next.state = to /\ next.summary = NoSummary /\ next.stage = "UNDERSTAND"
    BY <1>1, <2>1, <2>2, <2>3 DEF WithQuestions, Session
  <2>5. next \in Session
    BY <1>0, <1>3, QuestionsReadyIsASession
  <2> QED
    BY <2>2, <2>4, <2>5 DEF Regular, Shaped, ResumeState, FailureStates, QuestionStates,
       PointerStates
<1>4. ASSUME NEW p \in Providers, next \in FeedbackReady(s, p) PROVE Regular(next)
  <2>1. PICK to \in EventTargets(s, "FEEDBACK_READY", NoFailure), f \in Feedbacks(s.current, p) :
          next = WithFeedback(Moved(s, to), f)
    BY <1>4 DEF FeedbackReady
  <2>2. s.state = "ANSWER_SUBMITTED" /\ to = "FEEDBACK_READY" /\ to \in States
    BY DEF EventTargets, NormalTransitions
  <2>3. s.summary = NoSummary /\ s.stage = "UNDERSTAND"
    BY <1>0, <2>2 DEF Shaped, ResumeState, FailureStates, CompletionStates, SelectionStates,
       QuestionStates, PointerStates
  <2>4. /\ next.state = to /\ next.summary = NoSummary /\ next.stage = "UNDERSTAND"
    BY <1>1, <2>1, <2>2, <2>3 DEF WithFeedback, Session
  <2>5. next \in Session
    BY <1>0, <1>4, FeedbackReadyIsASession
  <2> QED
    BY <2>2, <2>4, <2>5 DEF Regular, Shaped, ResumeState, FailureStates, QuestionStates,
       PointerStates
<1>5. ASSUME next \in SummaryReady(s) PROVE Regular(next)
  <2>1. PICK to \in EventTargets(s, "SUMMARY_READY", NoFailure) :
          next = [Moved(s, to) EXCEPT
                    !.summary = [completed |-> Orders(s, "CONFIRMED"),
                                 skipped |-> Orders(s, "SKIPPED")],
                    !.route = "COMPLETED"]
    BY <1>5 DEF SummaryReady
  <2>2. s.state = "SUMMARY_GENERATING" /\ to = "STAGE_COMPLETED" /\ to \in States
    BY DEF EventTargets, NormalTransitions
  <2>3. s.stage = "UNDERSTAND"
    BY <1>0, <2>2 DEF Shaped, ResumeState, FailureStates, SelectionStates, QuestionStates
  <2>4. next.state = to /\ next.stage = "UNDERSTAND"
    BY <1>1, <2>1, <2>2, <2>3 DEF Session
  <2>5. next \in Session
    BY <1>0, <1>5, SummaryReadyIsASession
  <2> QED
    BY <2>2, <2>4, <2>5 DEF Regular, Shaped, ResumeState, FailureStates, QuestionStates,
       PointerStates, CompletionStates
<1>6. CASE Completes(s, next)
  <2>1. PICK to \in EventTargets(s, "COMPLETE_SESSION", NoFailure) : next = Moved(s, to)
    BY <1>6 DEF Completes
  <2>2. s.state = "STAGE_COMPLETED" /\ to = "SESSION_COMPLETED" /\ to \in States
    BY DEF EventTargets, NormalTransitions
  <2>3. s.stage = "UNDERSTAND"
    BY <1>0, <2>2 DEF Shaped, ResumeState, FailureStates, SelectionStates, QuestionStates,
       CompletionStates
  <2>4. next.state = to /\ next.stage = "UNDERSTAND" /\ next \in Session
    BY <1>1, <2>1, <2>2, <2>3
  <2> QED
    BY <2>2, <2>4 DEF Regular, Shaped, ResumeState, FailureStates, QuestionStates,
       PointerStates, CompletionStates
<1> QED
  BY <1>2, <1>3, <1>4, <1>5, <1>6 DEF Generates

LEMMA FirstSessionsAreRegular == Regular(NoSession) /\ Regular(NewSession)
<1>1. NewSession \in Session /\ NoSession \in Session
  BY FirstSessions
<1>2. /\ NoSession.state = "ABSENT" /\ NoSession.summary = NoSummary
      /\ NoSession.questions = <<>>
  BY DEF NoSession
<1>3. /\ NewSession.state = "CREATED" /\ NewSession.summary = NoSummary
      /\ NewSession.questions = <<>>
  BY <1>1, <1>2 DEF NewSession, Session
<1> QED
  BY <1>1, <1>2, <1>3, FirstSessionsAreConsistent DEF Regular, Shaped, ResumeState, FailureStates,
     SelectionStates, QuestionStates, PointerStates, CompletionStates

=============================================================================
