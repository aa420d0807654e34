---------------------- MODULE GuidedLearningRouteProofs ----------------------
(***************************************************************************)
(* GuidedLearning implements LearningRoute: with every process, stale read *)
(* and crash in it, each session still walks one locked route. The proof   *)
(* rests on the consistency of what is stored: it turns each step of the   *)
(* system into one step of the reducer on the stored session, and each of  *)
(* those is one step of the walk.                                          *)
(***************************************************************************)
EXTENDS GuidedLearningConsistencyProofs

(* What LearningRoute sees of a session.                                   *)
Done(q) == {i \in DOMAIN q : q[i].status \in Resolved}
Seen(s) == [phase |-> s.state, rev |-> s.rev, direction |-> s.selected,
            position |-> s.current, total |-> Len(s.questions),
            resolved |-> Done(s.questions), resume |-> s.failure.resume]

(* The walk as the refinement maps it.                                     *)
Walk == [id \in SessionIds |-> Route(id)]

LEMMA WalkIsSeen ==
  /\ \A id \in SessionIds : Walk[id] = Seen(sessions[id])
  /\ Walk = [id \in SessionIds |-> Seen(sessions[id])]
  /\ Walk' = [id \in SessionIds |-> Seen(sessions'[id])]
BY DEF Walk, Route, Seen, Done

(* One stored session replaced is one step of one walk.                    *)
LEMMA OneStep ==
  ASSUME TypeOK, NEW id \in SessionIds, NEW next, NEW w, NEW from,
         sessions' = [sessions EXCEPT ![id] = next],
         sessions[id].state = from,
         Seen(next) = [w EXCEPT !.rev = sessions[id].rev + 1]
  PROVE  Abstract!Step(id, from, w)
<1>1. sessions'[id] = next /\ \A i \in SessionIds \ {id} : sessions'[i] = sessions[i]
  BY DEF TypeOK
<1>2. Walk[id].phase = from /\ Walk[id].rev = sessions[id].rev
  BY WalkIsSeen DEF Seen
<1>3. Walk' = [Walk EXCEPT ![id] = [w EXCEPT !.rev = Walk[id].rev + 1]]
  BY <1>1, <1>2, WalkIsSeen
<1> QED
  BY <1>2, <1>3 DEF Abstract!Step, Walk

(* The walk in the terms of the stored session.                            *)
LEMMA Positions ==
  ASSUME NEW id \in SessionIds, NEW phase
  PROVE  Abstract!To(id, phase) = [Seen(sessions[id]) EXCEPT !.phase = phase]
BY WalkIsSeen DEF Abstract!To, Walk

LEMMA WalksStart == Init => Abstract!Init
<1> SUFFICES ASSUME Init PROVE Abstract!Init
  OBVIOUS
<1>1. Seen(NoSession) = Abstract!NoWalk
  <2>1. Done(<<>>) = {} /\ Len(<<>>) = 0
    BY DEF Done
  <2> QED
    BY <2>1 DEF Seen, NoSession, NoFailure, Abstract!NoWalk
<1>2. Walk = [id \in SessionIds |-> Abstract!NoWalk]
  BY <1>1, WalkIsSeen DEF Init
<1> QED
  BY <1>2 DEF Abstract!Init, Walk

-----------------------------------------------------------------------------
(* What a step of the reducer changes of what is seen.                     *)
LEMMA SeenIsARecord ==
  ASSUME NEW s \in Session
  PROVE  /\ s.rev \in Nat /\ s.current \in Nat /\ s.questions \in Seq(Question)
         /\ Len(s.questions) \in 0..MaxQuestions
BY DEF Session

LEMMA OtherPhase ==
  ASSUME NEW s, NEW m, NEW to, m.state = to, m.rev = s.rev, m.selected = s.selected,
         m.current = s.current, m.questions = s.questions,
         m.failure.resume = s.failure.resume
  PROVE  Seen(m) = [Seen(s) EXCEPT !.phase = to]
BY DEF Seen

LEMMA OtherRevision ==
  ASSUME NEW s, NEW m, NEW r, m.state = s.state, m.rev = r, m.selected = s.selected,
         m.current = s.current, m.questions = s.questions,
         m.failure.resume = s.failure.resume
  PROVE  Seen(m) = [Seen(s) EXCEPT !.rev = r]
BY DEF Seen

LEMMA PhaseAndRevision ==
  ASSUME NEW s, NEW m, m.selected = s.selected, m.current = s.current,
         m.questions = s.questions, m.failure.resume = s.failure.resume
  PROVE  Seen(m) = [[Seen(s) EXCEPT !.phase = m.state] EXCEPT !.rev = m.rev]
<1> DEFINE k == [state |-> m.state, rev |-> s.rev, selected |-> s.selected,
                 current |-> s.current, questions |-> s.questions, failure |-> s.failure]
<1>1. /\ k.state = m.state /\ k.rev = s.rev /\ k.selected = s.selected
      /\ k.current = s.current /\ k.questions = s.questions
      /\ k.failure.resume = s.failure.resume
  OBVIOUS
<1> HIDE DEF k
<1>2. Seen(k) = [Seen(s) EXCEPT !.phase = m.state]
  BY <1>1, OtherPhase
<1>3. Seen(m) = [Seen(k) EXCEPT !.rev = m.rev]
  BY <1>1, OtherRevision
<1> QED
  BY <1>2, <1>3

LEMMA MovedIsSeen ==
  ASSUME NEW s \in Session, NEW to \in States
  PROVE  /\ Seen(Moved(s, to)) = [[Seen(s) EXCEPT !.phase = to] EXCEPT !.rev = s.rev + 1]
         /\ Moved(s, to).state = to
         /\ Moved(s, to) \in Session
         /\ Moved(s, to).questions = s.questions /\ Moved(s, to).current = s.current
<1>1. Moved(s, to) = [[s EXCEPT !.state = to] EXCEPT !.rev = s.rev + 1]
  BY SeenIsARecord DEF Moved, Session
<1>2. Moved(s, to) \in Session
  BY MovedIsASession
<1>3. /\ Moved(s, to).state = to /\ Moved(s, to).rev = s.rev + 1
      /\ Moved(s, to).selected = s.selected /\ Moved(s, to).current = s.current
      /\ Moved(s, to).questions = s.questions
      /\ Moved(s, to).failure.resume = s.failure.resume
  BY <1>1 DEF Session
<1>4. Seen(Moved(s, to)) = [[Seen(s) EXCEPT !.phase = to] EXCEPT !.rev = s.rev + 1]
  <2> DEFINE m == Moved(s, to)
  <2>1. Seen(m) = [[Seen(s) EXCEPT !.phase = m.state] EXCEPT !.rev = m.rev]
    <3> HIDE DEF m
    <3> QED
      BY <1>3, PhaseAndRevision DEF m
  <2> QED
    BY <1>3, <2>1
<1> QED
  BY <1>2, <1>3, <1>4

(* Other questions in a session.                                           *)
LEMMA QuestionsAreSeen ==
  ASSUME NEW n, NEW next,
         next.state = n.state, next.rev = n.rev, next.selected = n.selected,
         next.current = n.current, next.failure = n.failure,
         Len(next.questions) = Len(n.questions)
  PROVE  Seen(next) = [Seen(n) EXCEPT !.resolved = Done(next.questions)]
BY DEF Seen

(* A question that becomes resolved, or stops being so.                    *)
LEMMA OneQuestion ==
  ASSUME NEW q \in Seq(Question), NEW c \in DOMAIN q, NEW v
  PROVE  LET r == [q EXCEPT ![c] = v]
         IN /\ Len(r) = Len(q)
            /\ v.status \in Resolved => Done(r) = Done(q) \cup {c}
            /\ v.status \notin Resolved => Done(r) = Done(q) \ {c}
<1> DEFINE r == [q EXCEPT ![c] = v]
<1>1. DOMAIN q = 1..Len(q) /\ Len(q) \in Nat /\ DOMAIN r = DOMAIN q
  OBVIOUS
<1>2. Len(r) = Len(q)
  BY <1>1
<1>3. r[c] = v /\ \A i \in DOMAIN q \ {c} : r[i] = q[i]
  OBVIOUS
<1> QED
  BY <1>1, <1>2, <1>3 DEF Done

(* Where the current question stands, as the validator has it.             *)
LEMMA CurrentQuestion ==
  ASSUME NEW s \in Session, Consistent(s), s.state \in PointerStates
  PROVE  /\ s.current \in DOMAIN s.questions
         /\ s.state = "AWAITING_ANSWER" => s.questions[s.current].status = "ACTIVE"
         /\ s.state = "ANSWER_SUBMITTED" => s.questions[s.current].status = "ANSWERED"
         /\ s.state = "FEEDBACK_READY" => s.questions[s.current].status = "FEEDBACK_READY"
         /\ s.state = "QUESTION_COMPLETED" => s.questions[s.current].status \in Resolved
         /\ \A i \in DOMAIN s.questions :
              /\ i > s.current => s.questions[i].status = "UNSEEN"
              /\ i < s.current => s.questions[i].status \in Resolved
<1>1. ResumeState(s) = s.state
  BY DEF ResumeState, FailureStates, PointerStates
<1>2. PointerConsistent(s)
  BY DEF Consistent
<1>3. s.current # 0
  BY <1>1, <1>2 DEF PointerConsistent
<1>4. s.state = "AWAITING_ANSWER" =>
        {i \in DOMAIN s.questions : s.questions[i].status = "ACTIVE"} = {s.current}
  BY <1>1, <1>2, <1>3 DEF PointerConsistent
<1> QED
  BY <1>1, <1>2, <1>3, <1>4 DEF PointerConsistent

-----------------------------------------------------------------------------
(* One step of a walk for every way a session may be followed.             *)
LEMMA CreationWalks ==
  ASSUME TypeOK, NEW id \in SessionIds, sessions[id] = NoSession,
         sessions' = [sessions EXCEPT ![id] = NewSession]
  PROVE  Abstract!Create(id)
<1>1. sessions[id].state = "ABSENT" /\ sessions[id].rev = 0
  BY DEF NoSession
<1>2. Seen(NewSession) = [[Seen(NoSession) EXCEPT !.phase = "CREATED"] EXCEPT !.rev = 0 + 1]
  <2>1. /\ NewSession.state = "CREATED" /\ NewSession.rev = 1
        /\ NewSession.selected = 0 /\ NewSession.current = 0
        /\ NewSession.questions = <<>> /\ NewSession.failure = NoFailure
    BY DEF NewSession, NoSession
  <2>2. /\ NoSession.rev = 0 /\ NoSession.selected = 0 /\ NoSession.current = 0
        /\ NoSession.questions = <<>> /\ NoSession.failure = NoFailure
    BY DEF NoSession
  <2>3. Seen(NewSession) = [[Seen(NoSession) EXCEPT !.phase = "CREATED"] EXCEPT !.rev = 1]
    <3>1. Seen(NewSession) = [[Seen(NoSession) EXCEPT !.phase = NewSession.state]
                                EXCEPT !.rev = NewSession.rev]
      <4> SUFFICES ASSUME NEW a, NEW b, a = NoSession, b = NewSession
                   PROVE  Seen(b) = [[Seen(a) EXCEPT !.phase = b.state] EXCEPT !.rev = b.rev]
        OBVIOUS
      <4>1. /\ b.selected = a.selected /\ b.current = a.current
            /\ b.questions = a.questions /\ b.failure.resume = a.failure.resume
        BY <2>1, <2>2
      <4> QED
        BY <4>1, PhaseAndRevision
    <3> QED
      BY <2>1, <3>1
  <2> QED
    BY <2>3
<1> QED
  BY <1>1, <1>2, OneStep, Positions DEF Abstract!Create

LEMMA CommandsWalk ==
  ASSUME TypeOK, NEW id \in SessionIds, Consistent(sessions[id]), NEW c \in Commands,
         NEW next \in ClientNext(sessions[id], c),
         sessions' = [sessions EXCEPT ![id] = next]
  PROVE  Abstract!Next
<1> DEFINE s == sessions[id]
           q == s.questions[s.current]
<1>1. PICK to \in EventTargets(s, c.event, s.failure) : next = Effect(s, c, to)
  BY DEF ClientNext
<1> DEFINE n == Moved(s, to)
<1>2. s \in Session /\ to \in States
  BY <1>1, TargetsAreStates DEF TypeOK
<1>3. /\ n \in Session /\ n.questions = s.questions /\ n.current = s.current
      /\ Seen(n) = [[Seen(s) EXCEPT !.phase = to] EXCEPT !.rev = s.rev + 1]
  BY <1>2, MovedIsSeen
<1>4. s.rev \in Nat /\ s.current \in Nat /\ s.questions \in Seq(Question)
  BY <1>2, SeenIsARecord
<1>5. \A phase : Abstract!To(id, phase) = [Seen(s) EXCEPT !.phase = phase]
  BY Positions
<1>6. c.event \in {"SELECT_DIRECTION", "SUBMIT_ANSWER", "EDIT_ANSWER", "SKIP_QUESTION",
                   "CONFIRM_QUESTION", "ADVANCE_QUESTION", "RETRY", "START_STAGE"}
  BY DEF Commands, PointerCommands
<1>7. CASE c.event = "SELECT_DIRECTION"
  <2>1. s.state = "AWAITING_DIRECTION_SELECTION" /\ to = "ROUTE_LOCKED" /\ c.arg \in Directions
    BY <1>1, <1>7 DEF EventTargets, NormalTransitions, Commands, PointerCommands
  <2>2. next = [n EXCEPT !.selected = c.arg, !.route = "OPEN", !.stage = "UNDERSTAND"]
    BY <1>1, <1>7 DEF Effect
  <2>3. Seen(next) = [Seen(n) EXCEPT !.direction = c.arg]
    BY <1>3, <2>2 DEF Seen, Session
  <2>4. Seen(next) = [[[Seen(s) EXCEPT !.phase = "ROUTE_LOCKED"] EXCEPT !.direction = c.arg]
                        EXCEPT !.rev = s.rev + 1]
    BY <1>3, <2>1, <2>3 DEF Seen
  <2>5. Abstract!ChooseDirection(id)
    BY <1>5, <2>1, <2>4, OneStep DEF Abstract!ChooseDirection
  <2> QED
    BY <2>5 DEF Abstract!Next
<1>8. CASE c.event = "START_STAGE"
  <2>1. s.state = "ROUTE_LOCKED" /\ to = "QUESTIONS_GENERATING"
    BY <1>1, <1>8 DEF EventTargets, NormalTransitions
  <2>2. next = n
    BY <1>1, <1>8 DEF Effect
  <2>3. Seen(next) = [[Seen(s) EXCEPT !.phase = "QUESTIONS_GENERATING"] EXCEPT !.rev = s.rev + 1]
    BY <1>3, <2>1, <2>2 DEF Seen
  <2>4. Abstract!StartStage(id)
    BY <1>5, <2>1, <2>3, OneStep DEF Abstract!StartStage
  <2> QED
    BY <2>4 DEF Abstract!Next
<1>9. CASE c.event \in {"SUBMIT_ANSWER", "EDIT_ANSWER"}
  <2>1. /\ to = "ANSWER_SUBMITTED"
        /\ \/ c.event = "SUBMIT_ANSWER" /\ s.state = "AWAITING_ANSWER"
           \/ c.event = "EDIT_ANSWER" /\ s.state \in {"FEEDBACK_READY", "QUESTION_COMPLETED"}
    BY <1>1, <1>9 DEF EventTargets, NormalTransitions
  <2>2. s.current \in DOMAIN s.questions /\ (s.state = "AWAITING_ANSWER" => q.status = "ACTIVE")
    BY <1>2, <2>1, CurrentQuestion DEF PointerStates
  <2>3. next = [n EXCEPT !.questions = [s.questions EXCEPT ![s.current] = Answered(q)]]
    BY <1>1, <1>3, <1>9 DEF Effect
  <2>4. Answered(q).status \notin Resolved
    <3>1. q \in Question
      BY <1>4, <2>2
    <3> QED
      BY <3>1 DEF Answered, Resolved, Question
  <2>5. Seen(next) = [Seen(n) EXCEPT !.resolved = Done(s.questions) \ {s.current}]
    <3>1. /\ Len([s.questions EXCEPT ![s.current] = Answered(q)]) = Len(s.questions)
          /\ Done([s.questions EXCEPT ![s.current] = Answered(q)]) = Done(s.questions) \ {s.current}
      BY <1>4, <2>2, <2>4, OneQuestion
    <3>2. /\ next.state = n.state /\ next.rev = n.rev /\ next.selected = n.selected
          /\ next.current = n.current /\ next.failure = n.failure
      BY <1>3, <2>3 DEF Session
    <3>3. next.questions = [s.questions EXCEPT ![s.current] = Answered(q)]
      BY <1>3, <2>3 DEF Session
    <3>4. Len(next.questions) = Len(n.questions)
      BY <1>3, <3>1, <3>3
    <3>5. Seen(next) = [Seen(n) EXCEPT !.resolved = Done(next.questions)]
      <4> HIDE DEF n
      <4> QED
        BY <3>2, <3>4, QuestionsAreSeen
    <3> QED
      BY <3>1, <3>3, <3>5
  <2>6. CASE c.event = "SUBMIT_ANSWER"
    <3>1. Done(s.questions) \ {s.current} = Done(s.questions)
      BY <2>1, <2>2, <2>6 DEF Done, Resolved
    <3>2. Seen(next) = [[Seen(s) EXCEPT !.phase = "ANSWER_SUBMITTED"] EXCEPT !.rev = s.rev + 1]
      BY <1>3, <2>1, <2>5, <3>1 DEF Seen
    <3>3. Abstract!Answer(id)
      BY <1>5, <2>1, <2>6, <3>2, OneStep DEF Abstract!Answer
    <3> QED
      BY <3>3 DEF Abstract!Next
  <2>7. CASE c.event = "EDIT_ANSWER"
    <3>1. Seen(next) = [[[Seen(s) EXCEPT !.phase = "ANSWER_SUBMITTED"]
                           EXCEPT !.resolved = @ \ {s.current}] EXCEPT !.rev = s.rev + 1]
      BY <1>3, <2>1, <2>5 DEF Seen
    <3>2. Walk[id].position = s.current
      BY WalkIsSeen DEF Seen
    <3>3. Abstract!Revise(id)
      BY <1>5, <2>1, <2>7, <3>1, <3>2, OneStep DEF Abstract!Revise, Walk
    <3> QED
      BY <3>3 DEF Abstract!Next
  <2> QED
    BY <1>9, <2>6, <2>7
<1>10. CASE c.event \in {"SKIP_QUESTION", "CONFIRM_QUESTION"}
  <2>1. /\ to = "QUESTION_COMPLETED"
        /\ \/ c.event = "SKIP_QUESTION" /\ s.state = "AWAITING_ANSWER"
           \/ c.event = "CONFIRM_QUESTION" /\ s.state = "FEEDBACK_READY"
    BY <1>1, <1>10 DEF EventTargets, NormalTransitions
  <2>2. s.current \in DOMAIN s.questions
    BY <1>2, <2>1, CurrentQuestion DEF PointerStates
  <2> DEFINE v == IF c.event = "SKIP_QUESTION" THEN Skipped(q) ELSE Confirmed(q)
  <2>3. next = [n EXCEPT !.questions = [s.questions EXCEPT ![s.current] = v]]
    BY <1>1, <1>3, <1>10 DEF Effect
  <2>4. v.status \in Resolved
    <3>1. q \in Question
      BY <1>4, <2>2
    <3> QED
      BY <3>1 DEF Skipped, Confirmed, Resolved, Question
  <2>5. Seen(next) = [Seen(n) EXCEPT !.resolved = Done(s.questions) \cup {s.current}]
    <3> HIDE DEF v
    <3>1. /\ Len([s.questions EXCEPT ![s.current] = v]) = Len(s.questions)
          /\ Done([s.questions EXCEPT ![s.current] = v]) = Done(s.questions) \cup {s.current}
      BY <1>4, <2>2, <2>4, OneQuestion
    <3>2. /\ next.state = n.state /\ next.rev = n.rev /\ next.selected = n.selected
          /\ next.current = n.current /\ next.failure = n.failure
      BY <1>3, <2>3 DEF Session
    <3>3. next.questions = [s.questions EXCEPT ![s.current] = v]
      BY <1>3, <2>3 DEF Session
    <3>4. Len(next.questions) = Len(n.questions)
      BY <1>3, <3>1, <3>3
    <3>5. Seen(next) = [Seen(n) EXCEPT !.resolved = Done(next.questions)]
      <4> HIDE DEF n
      <4> QED
        BY <3>2, <3>4, QuestionsAreSeen
    <3> QED
      BY <3>1, <3>3, <3>5
  <2>6. Seen(next) = [[[Seen(s) EXCEPT !.phase = "QUESTION_COMPLETED"]
                         EXCEPT !.resolved = @ \cup {s.current}] EXCEPT !.rev = s.rev + 1]
    BY <1>3, <2>1, <2>5 DEF Seen
  <2>7. Walk[id].position = s.current
    BY WalkIsSeen DEF Seen
  <2>8. Abstract!Skip(id) \/ Abstract!Confirm(id)
    BY <1>5, <2>1, <2>6, <2>7, OneStep DEF Abstract!Skip, Abstract!Confirm, Walk
  <2> QED
    BY <2>8 DEF Abstract!Next
<1>11. CASE c.event = "ADVANCE_QUESTION" /\ HasRemaining(s)
  <2>1. s.state = "QUESTION_COMPLETED" /\ to = "AWAITING_ANSWER"
    BY <1>1, <1>11 DEF EventTargets, NormalTransitions
  <2>2. /\ s.current + 1 \in DOMAIN s.questions /\ s.current < Len(s.questions)
        /\ s.current + 1 \in 0..MaxQuestions
    BY <1>2, <1>4, <1>11, SessionAssumption DEF HasRemaining, Session
  <2> DEFINE v == Activated(s.questions[s.current + 1])
  <2>3. s.questions[s.current + 1].status = "UNSEEN"
    BY <1>2, <1>4, <2>1, <2>2, CurrentQuestion DEF PointerStates
  <2>4. next = [[n EXCEPT !.questions = [s.questions EXCEPT ![s.current + 1] = v]]
                  EXCEPT !.current = s.current + 1]
    BY <1>1, <1>3, <1>11 DEF Effect, Advanced, Session
  <2>5. v.status \notin Resolved
    <3>1. s.questions[s.current + 1] \in Question
      BY <1>4, <2>2
    <3> QED
      BY <3>1 DEF Activated, Resolved, Question
  <2>6. Done(s.questions) \ {s.current + 1} = Done(s.questions)
    BY <2>3 DEF Done, Resolved
  <2>7. Seen(next) = [Seen(n) EXCEPT !.position = s.current + 1]
    <3> HIDE DEF v
    <3> DEFINE qs == [s.questions EXCEPT ![s.current + 1] = v]
    <3>1. Len(qs) = Len(s.questions) /\ Done(qs) = Done(s.questions)
      BY <1>4, <2>2, <2>5, <2>6, OneQuestion
    <3>2. /\ next.state = n.state /\ next.rev = n.rev /\ next.selected = n.selected
          /\ next.current = s.current + 1 /\ next.questions = qs
          /\ next.failure = n.failure
      BY <1>3, <2>4 DEF Session
    <3> HIDE DEF qs
    <3> QED
      BY <1>3, <3>1, <3>2 DEF Seen
  <2>8. Seen(next) = [[[Seen(s) EXCEPT !.phase = "AWAITING_ANSWER"]
                         EXCEPT !.position = @ + 1] EXCEPT !.rev = s.rev + 1]
    BY <1>3, <2>1, <2>7 DEF Seen
  <2>9. Walk[id].position = s.current /\ Walk[id].total = Len(s.questions)
    BY WalkIsSeen DEF Seen
  <2>10. Abstract!NextQuestion(id)
    BY <1>5, <2>1, <2>2, <2>8, <2>9, OneStep DEF Abstract!NextQuestion, Walk
  <2> QED
    BY <2>10 DEF Abstract!Next
<1>12. CASE c.event = "ADVANCE_QUESTION" /\ ~HasRemaining(s)
  <2>1. s.state = "QUESTION_COMPLETED" /\ to = "SUMMARY_GENERATING"
    BY <1>1, <1>12 DEF EventTargets, NormalTransitions
  <2>2. /\ s.current \in DOMAIN s.questions /\ q.status \in Resolved
        /\ \A i \in DOMAIN s.questions : i < s.current => s.questions[i].status \in Resolved
    BY <1>2, <2>1, CurrentQuestion DEF PointerStates
  <2>3. DOMAIN s.questions = 1..Len(s.questions) /\ Len(s.questions) \in Nat
    BY <1>4
  <2>4. \A i \in DOMAIN s.questions : i <= s.current
    BY <1>4, <1>12, <2>3 DEF HasRemaining
  <2>5. s.current = Len(s.questions)
    <3>1. Len(s.questions) \in DOMAIN s.questions /\ s.current <= Len(s.questions)
      BY <2>2, <2>3
    <3> QED
      BY <1>4, <2>3, <2>4, <3>1
  <2>6. Done(s.questions) = 1..Len(s.questions)
    BY <2>2, <2>3, <2>4 DEF Done
  <2>7. next = [n EXCEPT !.current = 0]
    BY <1>1, <1>12 DEF Effect, Advanced
  <2>8. Seen(next) = [Seen(n) EXCEPT !.position = 0]
    BY <1>3, <2>7 DEF Seen, Session
  <2>9. Seen(next) = [[[Seen(s) EXCEPT !.phase = "SUMMARY_GENERATING"]
                         EXCEPT !.position = 0] EXCEPT !.rev = s.rev + 1]
    BY <1>3, <2>1, <2>8 DEF Seen
  <2>10. /\ Walk[id].position = s.current /\ Walk[id].total = Len(s.questions)
         /\ Walk[id].resolved = Done(s.questions)
    BY WalkIsSeen DEF Seen
  <2>11. Abstract!FinishQuestions(id)
    BY <1>5, <2>1, <2>5, <2>6, <2>9, <2>10, OneStep DEF Abstract!FinishQuestions, Walk
  <2> QED
    BY <2>11 DEF Abstract!Next
<1>13. CASE c.event = "RETRY"
  <2>1. s.state = "RETRYABLE_FAILURE" /\ to = s.failure.resume
    BY <1>1, <1>13 DEF EventTargets, NormalTransitions
  <2>2. next = [n EXCEPT !.failure = NoFailure]
    BY <1>1, <1>13 DEF Effect
  <2>3. Seen(next) = [Seen(n) EXCEPT !.resume = "NONE"]
    BY <1>3, <2>2 DEF Seen, Session, NoFailure
  <2>4. Seen(next) = [[[Seen(s) EXCEPT !.phase = s.failure.resume] EXCEPT !.resume = "NONE"]
                        EXCEPT !.rev = s.rev + 1]
    BY <1>3, <2>1, <2>3 DEF Seen
  <2>5. Walk[id].resume = s.failure.resume
    BY WalkIsSeen DEF Seen
  <2> DEFINE w == [Abstract!To(id, Walk[id].resume) EXCEPT !.resume = "NONE"]
  <2>6. Seen(next) = [w EXCEPT !.rev = s.rev + 1]
    BY <1>5, <2>4, <2>5
  <2>7. Abstract!Step(id, "RETRYABLE_FAILURE", w)
    <3> HIDE DEF w
    <3> QED
      BY <2>1, <2>6, OneStep
  <2>8. Abstract!Retry(id)
    BY <2>7 DEF Abstract!Retry, Walk
  <2> QED
    BY <2>8 DEF Abstract!Next
<1> QED
  BY <1>6, <1>7, <1>8, <1>9, <1>10, <1>11, <1>12, <1>13

(* Everything seen is as it was, or one step of the phase further.         *)
LEMMA SameIsSeen ==
  ASSUME NEW n, NEW next, next.state = n.state, next.rev = n.rev,
         next.selected = n.selected, next.current = n.current,
         next.questions = n.questions, next.failure = n.failure
  PROVE  Seen(next) = Seen(n)
BY DEF Seen

LEMMA NewQuestionsAreOpen ==
  ASSUME NEW n \in Nat
  PROVE  Len(NewQuestions(n)) = n /\ Done(NewQuestions(n)) = {}
<1>1. NewQuestion.status = "UNSEEN" /\ Activated(NewQuestion).status = "ACTIVE"
  BY DEF NewQuestion, Activated
<1>2. DOMAIN NewQuestions(n) = 1..n /\ Len(NewQuestions(n)) = n
  BY DEF NewQuestions
<1>3. \A i \in 1..n : NewQuestions(n)[i].status \in {"UNSEEN", "ACTIVE"}
  BY <1>1 DEF NewQuestions
<1> QED
  BY <1>2, <1>3 DEF Done, Resolved

LEMMA LaidOutIsSeen ==
  ASSUME NEW s, NEW m, NEW n, m.selected = s.selected,
         Done(m.questions) = Done(s.questions), m.failure.resume = s.failure.resume,
         Len(m.questions) = n, m.current = 1
  PROVE  Seen(m) = [[[Seen(s) EXCEPT !.phase = m.state] EXCEPT !.total = n, !.position = 1]
                      EXCEPT !.rev = m.rev]
<1> DEFINE k == [phase |-> m.state, rev |-> s.rev, direction |-> s.selected,
                 position |-> s.current, total |-> Len(s.questions),
                 resolved |-> Done(s.questions), resume |-> s.failure.resume]
           l == [phase |-> m.state, rev |-> s.rev, direction |-> s.selected,
                 position |-> 1, total |-> n,
                 resolved |-> Done(s.questions), resume |-> s.failure.resume]
<1>1. [Seen(s) EXCEPT !.phase = m.state] = k
  BY DEF Seen
<1> DEFINE j == [phase |-> m.state, rev |-> s.rev, direction |-> s.selected,
                 position |-> s.current, total |-> n,
                 resolved |-> Done(s.questions), resume |-> s.failure.resume]
<1>2. [k EXCEPT !.total = n, !.position = 1] = l
  <2>1. [k EXCEPT !.total = n] = j
    OBVIOUS
  <2>2. [j EXCEPT !.position = 1] = l
    OBVIOUS
  <2> HIDE DEF k, j, l
  <2>3. [k EXCEPT !.total = n, !.position = 1] = [[k EXCEPT !.total = n] EXCEPT !.position = 1]
    OBVIOUS
  <2> QED
    BY <2>1, <2>2, <2>3
<1>3. [l EXCEPT !.rev = m.rev] = Seen(m)
  BY DEF Seen
<1> HIDE DEF k, j, l
<1> QED
  BY <1>1, <1>2, <1>3

LEMMA FailedIsSeen ==
  ASSUME NEW s, NEW m, NEW to, m.state = to, m.rev = s.rev + 1, m.selected = s.selected,
         m.questions = s.questions, m.current = s.current, m.failure.resume = s.state
  PROVE  Seen(m) = [[[Seen(s) EXCEPT !.phase = to] EXCEPT !.resume = s.state]
                      EXCEPT !.rev = s.rev + 1]
<1> DEFINE k == [phase |-> to, rev |-> s.rev, direction |-> s.selected,
                 position |-> s.current, total |-> Len(s.questions),
                 resolved |-> Done(s.questions), resume |-> s.failure.resume]
           l == [phase |-> to, rev |-> s.rev, direction |-> s.selected,
                 position |-> s.current, total |-> Len(s.questions),
                 resolved |-> Done(s.questions), resume |-> s.state]
<1>1. [Seen(s) EXCEPT !.phase = to] = k
  BY DEF Seen
<1>2. [k EXCEPT !.resume = s.state] = l
  OBVIOUS
<1>3. [l EXCEPT !.rev = s.rev + 1] = Seen(m)
  BY DEF Seen
<1> HIDE DEF k, l
<1> QED
  BY <1>1, <1>2, <1>3

LEMMA GenerationsWalk ==
  ASSUME TypeOK, NEW id \in SessionIds, Consistent(sessions[id]), NEW next,
         Generates(sessions[id], next),
         sessions' = [sessions EXCEPT ![id] = next]
  PROVE  Abstract!Next
<1> DEFINE s == sessions[id]
<1>1. PICK p \in Providers :
        next \in DirectionsReady(s, p) \cup QuestionsReady(s, p)
                   \cup FeedbackReady(s, p) \cup SummaryReady(s)
  BY DEF Generates
<1>2. s \in Session
  BY DEF TypeOK
<1>3. \A phase : Abstract!To(id, phase) = [Seen(s) EXCEPT !.phase = phase]
  BY Positions
<1>4. \A to \in States :
        /\ Moved(s, to) \in Session /\ Moved(s, to).state = to
        /\ Moved(s, to).questions = s.questions /\ Moved(s, to).current = s.current
        /\ Seen(Moved(s, to)) = [[Seen(s) EXCEPT !.phase = to] EXCEPT !.rev = s.rev + 1]
  BY <1>2, MovedIsSeen
<1>5. CASE next \in DirectionsReady(s, p)
  <2>1. PICK to \in EventTargets(s, "DIRECTIONS_READY", NoFailure), n \in Nat :
          next = [Moved(s, to) EXCEPT !.directions = 1..n]
    BY <1>5, SessionAssumption DEF DirectionsReady
  <2>2. /\ s.state = "CREATED" /\ to = "AWAITING_DIRECTION_SELECTION" /\ to \in States
    BY <2>1 DEF EventTargets, NormalTransitions
  <2> DEFINE m == Moved(s, to)
  <2>3. Seen(next) = Seen(m)
    <3>1. next = [m EXCEPT !.directions = 1..n]
      BY <2>1
    <3>2. /\ next.state = m.state /\ next.rev = m.rev /\ next.selected = m.selected
          /\ next.current = m.current /\ next.questions = m.questions
          /\ next.failure = m.failure
      <4>1. m \in Session
        BY <1>4, <2>2
      <4> HIDE DEF m
      <4> QED
        BY <3>1, <4>1 DEF Session
    <3> HIDE DEF m
    <3> QED
      BY <3>2, SameIsSeen
  <2>4. Abstract!OfferDirections(id)
    BY <1>3, <1>4, <2>2, <2>3, OneStep DEF Abstract!OfferDirections
  <2> QED
    BY <2>4 DEF Abstract!Next
<1>6. CASE next \in QuestionsReady(s, p)
  <2>1. PICK to \in EventTargets(s, "QUESTIONS_READY", NoFailure), n \in 1..MaxQuestions :
          next = WithQuestions(Moved(s, to), n)
    BY <1>6, SessionAssumption DEF QuestionsReady
  <2>2. s.state = "QUESTIONS_GENERATING" /\ to = "AWAITING_ANSWER" /\ to \in States
    BY <2>1 DEF EventTargets, NormalTransitions
  <2>3. s.questions = <<>>
    BY <2>2 DEF Consistent, ResumeShapeConsistent, ResumeState, FailureStates
  <2>4. Len(NewQuestions(n)) = n /\ Done(NewQuestions(n)) = {} /\ Done(s.questions) = {}
    BY <2>3, NewQuestionsAreOpen DEF Done
  <2> DEFINE m == Moved(s, to)
  <2>5. /\ m.selected = s.selected /\ m.rev = s.rev + 1 /\ m.failure = s.failure
    BY <1>2, <2>2 DEF Moved, Session
  <2>6. /\ next.state = "AWAITING_ANSWER" /\ next.rev = s.rev + 1 /\ next.selected = s.selected
        /\ next.current = 1 /\ next.questions = NewQuestions(n)
        /\ next.failure = s.failure
    <3>1. m \in Session /\ m.state = "AWAITING_ANSWER"
      BY <1>4, <2>2
    <3>2. next = [m EXCEPT !.questions = NewQuestions(n), !.stage = "UNDERSTAND", !.current = 1]
      BY <2>1 DEF WithQuestions
    <3>3. next.rev = m.rev /\ next.selected = m.selected /\ next.failure = m.failure
      <4> HIDE DEF m
      <4> QED
        BY <3>1, <3>2 DEF Session
    <3>4. next.state = m.state /\ next.current = 1 /\ next.questions = NewQuestions(n)
      <4> HIDE DEF m
      <4> QED
        BY <3>1, <3>2 DEF Session
    <3> QED
      BY <2>5, <3>1, <3>3, <3>4
  <2>7. Seen(next) = [[[Seen(s) EXCEPT !.phase = next.state] EXCEPT !.total = n, !.position = 1]
                        EXCEPT !.rev = next.rev]
    <3>1. /\ next.selected = s.selected /\ Done(next.questions) = Done(s.questions)
          /\ next.failure.resume = s.failure.resume
          /\ Len(next.questions) = n /\ next.current = 1
      BY <2>4, <2>6
    <3> QED
      BY <3>1, LaidOutIsSeen
  <2> DEFINE w == [Abstract!To(id, "AWAITING_ANSWER") EXCEPT !.total = n, !.position = 1]
  <2>8. Seen(next) = [w EXCEPT !.rev = s.rev + 1]
    BY <1>3, <2>6, <2>7
  <2>9. Abstract!Step(id, "QUESTIONS_GENERATING", w)
    <3> HIDE DEF w
    <3> QED
      BY <2>2, <2>8, OneStep
  <2>10. Abstract!LayOutQuestions(id)
    BY <2>9 DEF Abstract!LayOutQuestions
  <2> QED
    BY <2>10 DEF Abstract!Next
<1>7. CASE next \in FeedbackReady(s, p)
  <2>1. PICK to \in EventTargets(s, "FEEDBACK_READY", NoFailure),
             f \in Feedbacks(s.current, p) : next = WithFeedback(Moved(s, to), f)
    BY <1>7 DEF FeedbackReady
  <2>2. s.state = "ANSWER_SUBMITTED" /\ to = "FEEDBACK_READY" /\ to \in States
    BY <2>1 DEF EventTargets, NormalTransitions
  <2>3. /\ s.current \in DOMAIN s.questions /\ s.questions[s.current].status = "ANSWERED"
        /\ s.questions \in Seq(Question)
    BY <1>2, <2>2, CurrentQuestion, SeenIsARecord DEF PointerStates
  <2> DEFINE m == Moved(s, to)
             v == [s.questions[s.current] EXCEPT !.status = "FEEDBACK_READY",
                                                 !.reference = f.reference,
                                                 !.evidence = f.evidence]
             qs == [s.questions EXCEPT ![s.current] = v]
  <2>4. next = [m EXCEPT !.questions = qs]
    BY <1>4, <2>1, <2>2 DEF WithFeedback
  <2>5. v.status \notin Resolved
    <3>1. s.questions[s.current] \in Question
      BY <2>3
    <3> QED
      BY <3>1 DEF Resolved, Question
  <2>6. Len(qs) = Len(s.questions) /\ Done(qs) = Done(s.questions)
    <3> HIDE DEF v
    <3>1. Done(s.questions) \ {s.current} = Done(s.questions)
      BY <2>3 DEF Done, Resolved
    <3> QED
      BY <2>3, <2>5, <3>1, OneQuestion
  <2>7. Seen(next) = Seen(m)
    <3>1. /\ next.state = m.state /\ next.rev = m.rev /\ next.selected = m.selected
          /\ next.current = m.current /\ next.questions = qs /\ next.failure = m.failure
      <4>1. m \in Session
        BY <1>4, <2>2
      <4> HIDE DEF m, qs
      <4> QED
        BY <2>4, <4>1 DEF Session
    <3>2. m.questions = s.questions
      BY <1>4, <2>2
    <3> HIDE DEF m, qs
    <3> QED
      BY <2>6, <3>1, <3>2 DEF Seen
  <2>8. Abstract!GiveFeedback(id)
    BY <1>3, <1>4, <2>2, <2>7, OneStep DEF Abstract!GiveFeedback
  <2> QED
    BY <2>8 DEF Abstract!Next
<1>8. CASE next \in SummaryReady(s)
  <2>1. PICK to \in EventTargets(s, "SUMMARY_READY", NoFailure) :
          next = [Moved(s, to) EXCEPT
                    !.summary = [completed |-> Orders(s, "CONFIRMED"),
                                 skipped |-> Orders(s, "SKIPPED")],
                    !.route = "COMPLETED"]
    BY <1>8 DEF SummaryReady
  <2>2. s.state = "SUMMARY_GENERATING" /\ to = "STAGE_COMPLETED" /\ to \in States
    BY <2>1 DEF EventTargets, NormalTransitions
  <2> DEFINE m == Moved(s, to)
  <2>3. Seen(next) = Seen(m)
    <3>1. next = [m EXCEPT !.summary = [completed |-> Orders(s, "CONFIRMED"),
                                        skipped |-> Orders(s, "SKIPPED")],
                           !.route = "COMPLETED"]
      BY <2>1
    <3>2. /\ next.state = m.state /\ next.rev = m.rev /\ next.selected = m.selected
          /\ next.current = m.current /\ next.questions = m.questions
          /\ next.failure = m.failure
      <4>1. m \in Session
        BY <1>4, <2>2
      <4> HIDE DEF m
      <4> QED
        BY <3>1, <4>1 DEF Session
    <3> HIDE DEF m
    <3> QED
      BY <3>2, SameIsSeen
  <2>4. Abstract!Summarise(id)
    BY <1>3, <1>4, <2>2, <2>3, OneStep DEF Abstract!Summarise
  <2> QED
    BY <2>4 DEF Abstract!Next
<1> QED
  BY <1>1, <1>5, <1>6, <1>7, <1>8

LEMMA EndingsWalk ==
  ASSUME TypeOK, NEW id \in SessionIds, NEW next,
         \/ Completes(sessions[id], next)
         \/ \E failure \in Failure : next \in Failing(sessions[id], failure),
         sessions' = [sessions EXCEPT ![id] = next]
  PROVE  Abstract!Next
<1> DEFINE s == sessions[id]
<1>1. s \in Session
  BY DEF TypeOK
<1>2. \A phase : Abstract!To(id, phase) = [Seen(s) EXCEPT !.phase = phase]
  BY Positions
<1>3. \A to \in States :
        /\ Moved(s, to) \in Session
        /\ Seen(Moved(s, to)) = [[Seen(s) EXCEPT !.phase = to] EXCEPT !.rev = s.rev + 1]
  BY <1>1, MovedIsSeen
<1>4. CASE Completes(s, next)
  <2>1. /\ s.state = "STAGE_COMPLETED" /\ next = Moved(s, "SESSION_COMPLETED")
        /\ "SESSION_COMPLETED" \in States
    BY <1>4 DEF Completes, EventTargets, NormalTransitions, States
  <2>2. Abstract!Complete(id)
    BY <1>2, <1>3, <2>1, OneStep DEF Abstract!Complete
  <2> QED
    BY <2>2 DEF Abstract!Next
<1>5. ASSUME NEW failure \in Failure, next \in Failing(s, failure)
      PROVE  Abstract!Next
  <2>1. PICK to \in {"RETRYABLE_FAILURE", "FAILED"} :
          /\ next = [Moved(s, to) EXCEPT !.failure = failure]
          /\ s.state \in FailureSources /\ failure.resume = s.state
    BY <1>5 DEF Failing, EventTargets, NormalTransitions
  <2>2. to \in States
    BY DEF States
  <2> DEFINE m == Moved(s, to)
  <2>4. Seen(next) = [[[Seen(s) EXCEPT !.phase = to] EXCEPT !.resume = s.state]
                        EXCEPT !.rev = s.rev + 1]
    <3>1. m.state = to /\ m.rev = s.rev + 1 /\ m.selected = s.selected
          /\ m.current = s.current /\ m.questions = s.questions
      BY <1>1, <2>2 DEF Moved, Session
    <3>2. /\ next.state = to /\ next.rev = s.rev + 1 /\ next.selected = s.selected
          /\ next.current = s.current /\ next.questions = s.questions
          /\ next.failure.resume = s.state
      <4>1. m \in Session /\ next = [m EXCEPT !.failure = failure]
        BY <1>3, <2>1, <2>2
      <4> HIDE DEF m
      <4> QED
        BY <2>1, <3>1, <4>1 DEF Session
    <3> QED
      BY <3>2, FailedIsSeen
  <2>5. Abstract!Step(id, s.state, [Abstract!To(id, to) EXCEPT !.resume = s.state])
    BY <1>2, <2>4, OneStep
  <2>6. s.state \in Abstract!Fragile
    BY <2>1 DEF Abstract!Fragile, FailureSources
  <2>7. Abstract!Fail(id)
    BY <2>5, <2>6 DEF Abstract!Fail
  <2> QED
    BY <2>7 DEF Abstract!Next
<1> QED
  BY <1>4, <1>5

-----------------------------------------------------------------------------
(* Every step of the system is one step of the walk, or none.              *)
LEMMA StepsWalk ==
  ASSUME ConsistencyInv, [Next]_vars
  PROVE  [Abstract!Next]_Walk
<1>1. TypeOK /\ StoredSessionsAreConsistent
  BY DEF ConsistencyInv, RevisionInv, TypeInv
<1>2. CASE sessions' = sessions
  BY <1>2, WalkIsSeen
<1>3. ASSUME NEW id \in SessionIds, NEW next, Writes(id, next) PROVE Abstract!Next
  <2>1. /\ Follows(sessions[id], next) /\ Consistent(sessions[id])
        /\ sessions' = [sessions EXCEPT ![id] = next]
    BY <1>1, <1>3 DEF Writes, StoredSessionsAreConsistent
  <2>2. CASE sessions[id] = NoSession /\ next = NewSession
    <3>1. Abstract!Create(id)
      BY <1>1, <2>1, <2>2, CreationWalks
    <3> QED
      BY <3>1 DEF Abstract!Next
  <2>3. CASE \E c \in Commands : next \in ClientNext(sessions[id], c)
    BY <1>1, <2>1, <2>3, CommandsWalk
  <2>4. CASE Generates(sessions[id], next)
    BY <1>1, <2>1, <2>4, GenerationsWalk
  <2>5. CASE \/ Completes(sessions[id], next)
             \/ \E failure \in Failure : next \in Failing(sessions[id], failure)
    BY <1>1, <2>1, <2>5, EndingsWalk
  <2> QED
    BY <2>1, <2>2, <2>3, <2>4, <2>5 DEF Follows
<1> QED
  BY <1>2, <1>3, SessionSteps

(* Every session walks one locked route, as LearningRoute says: whatever   *)
(* the API processes, the Workers and the faults do to each other, what is *)
(* stored of a session moves only by steps of the walk (save,              *)
(* applyGuidedLearningEvent and the Worker's writes).                      *)
THEOREM SessionsWalkTheRoute == Spec => WalksTheRoute
<1>1. Init => Abstract!Init
  BY WalksStart
<1>2. ConsistencyInv /\ [Next]_vars => [Abstract!Next]_Walk
  BY StepsWalk
<1>3. Spec => []ConsistencyInv
  BY ConsistencyInvHolds
<1> QED
  BY <1>1, <1>2, <1>3, PTL DEF Spec, WalksTheRoute, Abstract!Spec, Walk
=============================================================================
