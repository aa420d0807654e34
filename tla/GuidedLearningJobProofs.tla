----------------------- MODULE GuidedLearningJobProofs -----------------------
(***************************************************************************)
(* The jobs table, the failure table and the commands table tell the story *)
(* of the sessions, for any number of processes and any faults: no job is  *)
(* ahead of its session, an open failure is the one the session carries,   *)
(* and what a command's answer promised is there.                          *)
(***************************************************************************)
EXTENDS GuidedLearningConsistencyProofs

(* The five ways a step of the system deals with sessions, jobs and        *)
(* failures. All but the first replace one stored session.                 *)
JobsStay == /\ DOMAIN jobs' = DOMAIN jobs
            /\ \A k \in DOMAIN jobs : jobs'[k].expected = jobs[k].expected

Rests == sessions' = sessions /\ failures' = failures /\ JobsStay

Starts(id) ==
  /\ sessions[id] = NoSession /\ sessions' = [sessions EXCEPT ![id] = NewSession]
  /\ \/ jobs' = WithJobs(Job(id, "GENERATE_DIRECTIONS", NewSession.rev, "CREATED", 0))
     \/ DirectWrites /\ jobs' = jobs
  /\ failures' = failures

Obeys(id, c, next) ==
  /\ next \in ClientNext(sessions[id], c)
  /\ sessions' = [sessions EXCEPT ![id] = next]
  /\ jobs' = WithJobs(Requested(id, sessions[id], next, c.event))
  /\ failures' = IF c.event = "RETRY" THEN Superseded(id) ELSE failures

Produces(id, next) ==
  /\ Generates(sessions[id], next) \/ Completes(sessions[id], next)
  /\ sessions' = [sessions EXCEPT ![id] = next]
  /\ jobs' = jobs /\ failures' = failures

Fails(id, failure, next) ==
  /\ failure \in Failure /\ next \in Failing(sessions[id], failure)
  /\ sessions' = [sessions EXCEPT ![id] = next]
  /\ failures' = failures \cup {FailureRow(id, sessions[id].rev, failure)}
  /\ jobs' = jobs
  /\ \/ DirectWrites
     \/ \E w \in Workers : /\ workers[w].pc = "RECORDING"
                           /\ failure.op = workers[w].job.op
                           /\ failure.resume = jobs[workers[w].job].expected

AStep == \/ Rests
         \/ \E id \in SessionIds : Starts(id)
         \/ \E id \in SessionIds, c \in Commands : \E next \in Session : Obeys(id, c, next)
         \/ \E id \in SessionIds : \E next \in Session : Produces(id, next)
         \/ \E id \in SessionIds, failure \in Failure : \E next \in Session : Fails(id, failure, next)

-----------------------------------------------------------------------------
LEMMA ResultsAreSessions ==
  ASSUME NEW s \in Session, NEW next, Generates(s, next) \/ Completes(s, next)
  PROVE  next \in Session /\ next.rev = s.rev + 1
<1>1. CASE Generates(s, next)
  BY <1>1, DirectionsReadyIsASession, QuestionsReadyIsASession, FeedbackReadyIsASession,
     SummaryReadyIsASession DEF Generates
<1>2. CASE Completes(s, next)
  BY <1>2, MovedIsASession, TargetsAreStates DEF Completes
<1> QED
  BY <1>1, <1>2

LEMMA CommandsAreSteps ==
  ASSUME RevisionInv, NEW a \in Apis, SaveCommand(a)
  PROVE  AStep
<1> DEFINE p == api[a]
<1>1. /\ p.session \in SessionIds /\ p.command \in Commands /\ p.pc = "SAVING"
      /\ Held(p.base, sessions[p.session]) /\ sessions[p.session] \in Session
  BY DEF RevisionInv, TypeInv, TypeOK, ApiProcess, RequestsAreComplete, SaveCommand, HeldByApis
<1>2. PICK next \in ClientNext(p.base, p.command) :
        /\ sessions[p.session].rev = p.base.rev
        /\ sessions' = [sessions EXCEPT ![p.session] = next]
        /\ jobs' = WithJobs(NewJobs(p, next))
  BY DEF SaveCommand, Accepts, Current
<1>3. p.base = sessions[p.session]
  BY <1>1, <1>2 DEF Held
<1>4. next \in Session
  BY <1>1, <1>2, <1>3, ClientNextIsASession
<1>5. failures' = IF p.command.event = "RETRY" THEN Superseded(p.session) ELSE failures
  BY DEF SaveCommand
<1>6. Obeys(p.session, p.command, next)
  BY <1>2, <1>3, <1>5 DEF Obeys, NewJobs
<1> QED
  BY <1>1, <1>4, <1>6 DEF AStep

LEMMA DirectWritesAreSteps ==
  ASSUME RevisionInv, NEW i \in SessionIds, Direct(i)
  PROVE  AStep
<1>1. sessions[i] \in Session /\ provider[i] \in Providers
  BY DEF RevisionInv, TypeInv, TypeOK
<1>2. CASE WriteDirectly(i)
  <2>1. PICK next \in DirectResults(sessions[i], provider[i]) :
          sessions' = [sessions EXCEPT ![i] = next]
    BY <1>2 DEF WriteDirectly
  <2>2. "MOCK" \in Providers /\ "BYOK" \in Providers
    BY DEF Providers
  <2>3. Generates(sessions[i], next) \/ Completes(sessions[i], next)
    BY <1>1, <2>1, <2>2 DEF DirectResults, Generates, Completes
  <2>4. Produces(i, next)
    BY <1>2, <2>1, <2>3 DEF Produces, WriteDirectly
  <2> QED
    BY <1>1, <2>3, <2>4, ResultsAreSessions DEF AStep
<1>3. CASE RecordFailure(i)
  <2>1. PICK op \in Operations :
          \E next \in Failing(sessions[i], [class |-> "RETRYABLE", op |-> op,
                                            resume |-> sessions[i].state]) :
            /\ sessions' = [sessions EXCEPT ![i] = next]
            /\ failures' = failures \cup {FailureRow(i, sessions[i].rev,
                             [class |-> "RETRYABLE", op |-> op, resume |-> sessions[i].state])}
    BY <1>3 DEF RecordFailure
  <2> DEFINE failure == [class |-> "RETRYABLE", op |-> op, resume |-> sessions[i].state]
  <2>2. PICK next \in Failing(sessions[i], failure) :
          /\ sessions' = [sessions EXCEPT ![i] = next]
          /\ failures' = failures \cup {FailureRow(i, sessions[i].rev, failure)}
    BY <2>1
  <2>3. failure \in Failure
    BY <1>1, <2>2, FailureIsTyped
  <2>4. jobs' = jobs /\ DirectWrites
    BY <1>3 DEF RecordFailure
  <2> HIDE DEF failure
  <2>5. next \in Session
    BY <1>1, <2>2, <2>3, FailingIsASession
  <2>6. Fails(i, failure, next)
    BY <2>2, <2>3, <2>4 DEF Fails
  <2> QED
    BY <2>3, <2>5, <2>6 DEF AStep
<1> QED
  BY <1>2, <1>3 DEF Direct

LEMMA WorkerWritesAreSteps ==
  ASSUME RevisionInv, NEW w \in Workers, SaveGenerated(w) \/ SaveFailure(w)
  PROVE  AStep
<1> DEFINE k == workers[w].job
<1>1. /\ workers[w].pc \in {"GENERATING", "RECORDING"} /\ sessions[k.session].rev = k.rev
  BY DEF SaveGenerated, SaveFailure
<1>2. /\ k \in JobKey /\ k.session \in SessionIds /\ k.op \in Operations
      /\ provider[k.session] \in Providers
  BY <1>1 DEF RevisionInv, TypeInv, TypeOK, ClaimIsExclusive, JobKey
<1>3. workers[w].snap = sessions[k.session] /\ sessions[k.session] \in Session
  BY <1>1, <1>2 DEF RevisionInv, TypeInv, HeldByWorkers, Held, TypeOK
<1>4. CASE SaveGenerated(w)
  <2>1. PICK next \in Results(w) : sessions' = [sessions EXCEPT ![k.session] = next]
    BY <1>4 DEF SaveGenerated
  <2>2. next \in Generated(k, sessions[k.session])
    BY <2>1, <1>3 DEF Results
  <2>3. Generates(sessions[k.session], next)
    BY <1>2, <2>2 DEF Generated, Generates, Operations
  <2>4. Produces(k.session, next)
    BY <1>4, <2>1, <2>3 DEF Produces, SaveGenerated
  <2> QED
    BY <1>2, <1>3, <2>3, <2>4, ResultsAreSessions DEF AStep
<1>5. CASE SaveFailure(w)
  <2>1. PICK next \in Failing(sessions[k.session], FailureOf(w)) :
          sessions' = [sessions EXCEPT ![k.session] = next]
    BY <1>5, <1>3 DEF SaveFailure
  <2>2. FailureOf(w) \in Failure
    BY <1>3, <2>1, FailureIsTyped DEF FailureOf
  <2>3. /\ failures' = failures \cup {FailureRow(k.session, sessions[k.session].rev, FailureOf(w))}
        /\ jobs' = jobs /\ workers[w].pc = "RECORDING"
    BY <1>1, <1>5 DEF SaveFailure
  <2>4. FailureOf(w).op = k.op /\ FailureOf(w).resume = jobs[k].expected
    BY DEF FailureOf
  <2>5. Fails(k.session, FailureOf(w), next)
    BY <2>1, <2>2, <2>3, <2>4 DEF Fails
  <2>6. next \in Session
    BY <1>3, <2>1, <2>2, FailingIsASession
  <2> QED
    BY <1>2, <2>2, <2>5, <2>6 DEF AStep
<1> QED
  BY <1>4, <1>5

LEMMA StepsOfTheSystem == RevisionInv /\ [Next]_vars => AStep
<1> SUFFICES ASSUME RevisionInv, [Next]_vars PROVE AStep
  OBVIOUS
<1>1. ASSUME NEW id \in SessionIds, NEW p \in Offered, Creation(id, p) PROVE AStep
  BY <1>1 DEF Creation, RequestDirections, CreateSession, Starts, AStep
<1>2. ASSUME NEW a \in Apis, Command(a), ~SaveCommand(a) PROVE AStep
  BY <1>2 DEF Command, LookUp, ReadAndApply, Refuse, SaveRefused, ApiCrash, db, AStep, Rests,
     JobsStay
<1>3. ASSUME NEW w \in Workers, Claim(w) \/ FinishJob(w) PROVE AStep
  <2>1. \A l \in DOMAIN jobs : jobs[l] \in JobRow
    BY DEF RevisionInv, TypeInv, TypeOK
  <2>2. ASSUME NEW k \in DOMAIN jobs, NEW row, row.expected = jobs[k].expected,
               jobs' = [jobs EXCEPT ![k] = row]
        PROVE  JobsStay
    BY <2>2 DEF JobsStay
  <2>3. ASSUME Claim(w) PROVE JobsStay
    <3>1. PICK k \in DOMAIN jobs :
            jobs' = [jobs EXCEPT ![k] = [jobs[k] EXCEPT !.state = "RUNNING", !.worker = w]]
      BY <2>3 DEF Claim
    <3>2. [jobs[k] EXCEPT !.state = "RUNNING", !.worker = w].expected = jobs[k].expected
      BY <2>1 DEF JobRow
    <3> DEFINE row == [jobs[k] EXCEPT !.state = "RUNNING", !.worker = w]
    <3>3. jobs' = [jobs EXCEPT ![k] = row] /\ row.expected = jobs[k].expected
      BY <3>1, <3>2
    <3> HIDE DEF row
    <3> QED
      BY <3>3, <2>2
  <2>5. ASSUME FinishJob(w) PROVE JobsStay
    <3>1. PICK state : jobs' = [jobs EXCEPT ![workers[w].job] =
                                  [jobs[workers[w].job] EXCEPT !.state = state]]
      BY <2>5 DEF FinishJob
    <3>2. workers[w].job \in DOMAIN jobs
      BY <2>5 DEF FinishJob, RevisionInv, TypeInv, ClaimIsExclusive
    <3>3. [jobs[workers[w].job] EXCEPT !.state = state].expected = jobs[workers[w].job].expected
      BY <2>1, <3>2 DEF JobRow
    <3> DEFINE row == [jobs[workers[w].job] EXCEPT !.state = state]
    <3>4. jobs' = [jobs EXCEPT ![workers[w].job] = row]
          /\ row.expected = jobs[workers[w].job].expected
      BY <3>1, <3>3
    <3> HIDE DEF row
    <3> QED
      BY <3>2, <3>4, <2>2
  <2>4. sessions' = sessions /\ failures' = failures
    BY <1>3 DEF Claim, FinishJob
  <2> QED
    BY <1>3, <2>3, <2>4, <2>5 DEF AStep, Rests
<1>4. ASSUME NEW w \in Workers, Work(w) \/ WorkerCrash(w),
             ~(SaveGenerated(w) \/ SaveFailure(w) \/ Claim(w) \/ FinishJob(w))
      PROVE  AStep
  BY <1>4 DEF Work, WorkerCrash, ReadSession, GatewayFails, OutputRejected,
     QuestionPointerChanged, SaveConflicts, ReadForFailure, SaveFailureRefused,
     StorageFails, db, AStep, Rests, JobsStay
<1>5. CASE UNCHANGED vars
  BY <1>5 DEF vars, AStep, Rests, JobsStay
<1> QED
  BY <1>1, <1>2, <1>3, <1>4, <1>5, CommandsAreSteps, DirectWritesAreSteps,
     WorkerWritesAreSteps DEF Next

-----------------------------------------------------------------------------
(* Jobs and their sessions.                                                *)
Key(id, op, rev) == [session |-> id, op |-> op, rev |-> rev]

(* The state a command leads to is the target of its event.                *)
LEMMA CommandTargets ==
  ASSUME NEW s \in Session, NEW c \in Commands, NEW next \in ClientNext(s, c)
  PROVE  next.state \in EventTargets(s, c.event, s.failure)
<1>1. PICK to \in EventTargets(s, c.event, s.failure) : next = Effect(s, c, to)
  BY DEF ClientNext
<1>2. to \in States
  BY <1>1, TargetsAreStates
<1>3. Moved(s, to) \in Session /\ Moved(s, to).state = to
  <2>1. Moved(s, to).state = to
    BY DEF Moved, Session
  <2> QED
    BY <1>2, <2>1, MovedIsASession
<1>4. next.state = Moved(s, to).state
  BY <1>1, <1>3 DEF Effect, Advanced, Session
<1> QED
  BY <1>1, <1>3, <1>4

(* A command that leads to a waiting state queues the one job this state   *)
(* waits for, or, when it is a RETRY, the job that failed.                 *)
QueuesOne(id, s, next, event, op) ==
  Requested(id, s, next, event) = Job(id, op, next.rev, next.state,
                                      IF op = "GENERATE_FEEDBACK" /\ event # "RETRY"
                                      THEN next.current ELSE 0)
LEMMA CommandsQueue ==
  ASSUME NEW id \in SessionIds, NEW s \in Session, NEW c \in Commands, NEW next \in ClientNext(s, c)
  PROVE  \/ /\ Requested(id, s, next, c.event) = NoJobs
            /\ c.event \notin Generating
            /\ next.state \notin {"CREATED", "QUESTIONS_GENERATING", "ANSWER_SUBMITTED",
                                  "SUMMARY_GENERATING"}
         \/ \E op \in Operations :
              /\ QueuesOne(id, s, next, c.event, op)
              /\ \/ <<next.state, op>> \in Awaits
                 \/ c.event = "RETRY" /\ next.state = s.failure.resume /\ op = s.failure.op
              /\ \A q \in Operations : <<next.state, q>> \in Awaits => q = op
<1>1. next.state \in EventTargets(s, c.event, s.failure)
  BY CommandTargets
<1>2. c.event \in {"SELECT_DIRECTION", "SUBMIT_ANSWER", "EDIT_ANSWER", "SKIP_QUESTION",
                   "CONFIRM_QUESTION", "ADVANCE_QUESTION", "RETRY", "START_STAGE"}
  BY DEF Commands, PointerCommands
<1>3. CASE c.event = "START_STAGE"
  <2>1. next.state = "QUESTIONS_GENERATING"
    BY <1>1, <1>3 DEF EventTargets, NormalTransitions
  <2>2. QueuesOne(id, s, next, c.event, "GENERATE_QUESTIONS")
    BY <1>3, <2>1 DEF QueuesOne, Requested
  <2> QED
    BY <2>1, <2>2 DEF Awaits, Operations
<1>4. CASE c.event \in {"SUBMIT_ANSWER", "EDIT_ANSWER"}
  <2>1. next.state = "ANSWER_SUBMITTED"
    BY <1>1, <1>4 DEF EventTargets, NormalTransitions
  <2>2. QueuesOne(id, s, next, c.event, "GENERATE_FEEDBACK")
    BY <1>4, <2>1 DEF QueuesOne, Requested
  <2> QED
    BY <2>1, <2>2 DEF Awaits, Operations
<1>5. CASE c.event = "ADVANCE_QUESTION" /\ ~HasRemaining(s)
  <2>1. next.state = "SUMMARY_GENERATING"
    BY <1>1, <1>5 DEF EventTargets, NormalTransitions
  <2>2. QueuesOne(id, s, next, c.event, "GENERATE_STAGE_SUMMARY")
    BY <1>5, <2>1 DEF QueuesOne, Requested
  <2> QED
    BY <2>1, <2>2 DEF Awaits, Operations
<1>6. CASE c.event = "RETRY"
  <2>1. next.state = s.failure.resume /\ IsValidFailureResume(s.failure.op, s.failure.resume)
    BY <1>1, <1>6 DEF EventTargets, NormalTransitions
  <2>2. QueuesOne(id, s, next, c.event, s.failure.op)
    BY <1>6, <2>1 DEF QueuesOne, Requested
  <2>3. s.failure.op \in Operations
    BY <2>1 DEF IsValidFailureResume, Operations
  <2>4. \A q \in Operations : <<next.state, q>> \in Awaits => q = s.failure.op
    BY <2>1 DEF IsValidFailureResume, Awaits, Operations
  <2> QED
    BY <1>6, <2>1, <2>2, <2>3, <2>4
<1>7. CASE \/ c.event \in {"SELECT_DIRECTION", "SKIP_QUESTION", "CONFIRM_QUESTION"}
           \/ c.event = "ADVANCE_QUESTION" /\ HasRemaining(s)
  <2>1. next.state \in {"ROUTE_LOCKED", "QUESTION_COMPLETED", "AWAITING_ANSWER"}
    BY <1>1, <1>7 DEF EventTargets, NormalTransitions
  <2>2. Requested(id, s, next, c.event) = NoJobs
    BY <1>7 DEF Requested
  <2> QED
    BY <1>7, <2>1, <2>2 DEF Generating
<1> QED
  BY <1>2, <1>3, <1>4, <1>5, <1>6, <1>7

(* What a step adds to the jobs table: nothing, or one row at the revision *)
(* and for the state its session has just reached.                         *)
LEMMA NewJobsFit ==
  ASSUME RevisionInv, AStep
  PROVE  /\ \A k \in DOMAIN jobs : /\ k \in DOMAIN jobs'
                                   /\ jobs'[k].expected = jobs[k].expected
         /\ \A k \in DOMAIN jobs' \ DOMAIN jobs :
              /\ k.session \in SessionIds
              /\ k.rev = sessions'[k.session].rev /\ k.rev = sessions[k.session].rev + 1
              /\ jobs'[k].expected = sessions'[k.session].state
              /\ jobs'[k].state = "QUEUED"
<1> DEFINE Old == \A k \in DOMAIN jobs : k \in DOMAIN jobs' /\ jobs'[k].expected = jobs[k].expected
           New == \A k \in DOMAIN jobs' \ DOMAIN jobs :
                    /\ k.session \in SessionIds
                    /\ k.rev = sessions'[k.session].rev /\ k.rev = sessions[k.session].rev + 1
                    /\ jobs'[k].expected = sessions'[k.session].state
                    /\ jobs'[k].state = "QUEUED"
<1>1. sessions \in [SessionIds -> Session]
  BY DEF RevisionInv, TypeInv, TypeOK
<1>2. CASE jobs' = jobs \/ Rests
  BY <1>2 DEF Rests, JobsStay
<1>3. ASSUME NEW id \in SessionIds, NEW next, NEW op, NEW question,
             next.rev = sessions[id].rev + 1,
             sessions' = [sessions EXCEPT ![id] = next],
             jobs' = WithJobs(Job(id, op, next.rev, next.state, question))
      PROVE  Old /\ New
  <2> DEFINE new == Job(id, op, next.rev, next.state, question)
             k == Key(id, op, next.rev)
  <2>1. /\ DOMAIN new = {k} /\ new[k].expected = next.state /\ new[k].state = "QUEUED"
        /\ k.session = id /\ k.rev = next.rev
    BY DEF Job, Key, QueuedRow
  <2>2. jobs' = WithJobs(new) /\ sessions'[id] = next
    BY <1>1, <1>3
  <2> HIDE DEF new, k
  <2>3. /\ DOMAIN jobs' = DOMAIN jobs \cup {k}
        /\ \A l \in DOMAIN jobs : jobs'[l] = jobs[l]
        /\ k \notin DOMAIN jobs => jobs'[k] = new[k]
    BY <2>1, <2>2, WithJobsKeepsRows
  <2> QED
    BY <1>3, <2>1, <2>2, <2>3
<1>4. ASSUME NEW id \in SessionIds, Starts(id), jobs' # jobs PROVE Old /\ New
  <2>1. NewSession.rev = sessions[id].rev + 1 /\ NewSession.state = "CREATED"
    BY <1>4, FirstSessions DEF Starts, NoSession, NewSession
  <2>2. jobs' = WithJobs(Job(id, "GENERATE_DIRECTIONS", NewSession.rev, NewSession.state, 0))
    BY <1>4, <2>1 DEF Starts
  <2> QED
    BY <1>3, <1>4, <2>1, <2>2 DEF Starts
<1>5. ASSUME NEW id \in SessionIds, NEW c \in Commands, NEW next \in Session, Obeys(id, c, next)
      PROVE  Old /\ New
  <2>1. /\ next \in ClientNext(sessions[id], c) /\ next.rev = sessions[id].rev + 1
        /\ sessions' = [sessions EXCEPT ![id] = next]
        /\ jobs' = WithJobs(Requested(id, sessions[id], next, c.event))
    BY <1>1, <1>5, ClientNextIsASession DEF Obeys
  <2>2. CASE Requested(id, sessions[id], next, c.event) = NoJobs
    <3>1. DOMAIN jobs' = DOMAIN jobs /\ \A k \in DOMAIN jobs : jobs'[k] = jobs[k]
      BY <2>1, <2>2, WithJobsKeepsRows DEF NoJobs
    <3> QED
      BY <3>1
  <2>3. CASE \E op \in Operations : QueuesOne(id, sessions[id], next, c.event, op)
    <3>1. PICK op \in Operations : QueuesOne(id, sessions[id], next, c.event, op)
      BY <2>3
    <3> QED
      BY <1>3, <2>1, <3>1 DEF QueuesOne
  <2> QED
    BY <1>1, <2>1, <2>2, <2>3, CommandsQueue
<1> QED
  BY <1>2, <1>4, <1>5 DEF AStep, Produces, Fails

(* No job is ahead of its session: a step that adds a job moves its session*)
(* to the revision of the job.                                             *)
LEMMA BoundaryStays ==
  ASSUME RevisionInv, [Next]_vars, GenerationBoundary
  PROVE  GenerationBoundary'
<1> SUFFICES ASSUME NEW k \in DOMAIN jobs'
             PROVE  /\ k.rev <= sessions'[k.session].rev
                    /\ k.rev = sessions'[k.session].rev =>
                         jobs'[k].expected = sessions'[k.session].state
  BY DEF GenerationBoundary
<1>1. AStep /\ Advancing
  BY StepsOfTheSystem, StepsAdvance
<1>2. CASE k \notin DOMAIN jobs
  <2>1. /\ k.rev = sessions'[k.session].rev /\ k.session \in SessionIds
        /\ jobs'[k].expected = sessions'[k.session].state
    BY <1>1, <1>2, NewJobsFit
  <2>2. sessions'[k.session].rev \in Nat
    BY <2>1, TypeInvStep DEF RevisionInv, TypeInv, TypeOK, Session
  <2> QED
    BY <2>1, <2>2
<1>3. CASE k \in DOMAIN jobs
  <2>1. jobs'[k].expected = jobs[k].expected
    BY <1>1, <1>3, NewJobsFit
  <2>2. k \in JobKey /\ k.session \in SessionIds /\ k.rev \in Nat
    BY <1>3 DEF RevisionInv, TypeInv, TypeOK, JobKey
  <2>3. sessions[k.session].rev \in Nat /\ sessions'[k.session].rev \in Nat
    BY <2>2, TypeInvStep DEF RevisionInv, TypeInv, TypeOK, Session
  <2>4. \/ sessions'[k.session] = sessions[k.session]
        \/ sessions'[k.session].rev > sessions[k.session].rev
    BY <1>1, <2>2 DEF Advancing
  <2> QED
    BY <1>3, <2>1, <2>2, <2>3, <2>4 DEF GenerationBoundary
<1> QED
  BY <1>2, <1>3

-----------------------------------------------------------------------------
(* Failures.                                                               *)
WaitingStates == {"CREATED", "QUESTIONS_GENERATING", "ANSWER_SUBMITTED", "SUMMARY_GENERATING"}

(* Results come from waiting or completed sessions and lead to settled ones*)
LEMMA ResultStates ==
  ASSUME NEW s \in Session, NEW next, Generates(s, next) \/ Completes(s, next)
  PROVE  s.state \in States \ FailureStates /\ next.state \in States \ (FailureStates \cup WaitingStates)
<1> DEFINE Fits(to) == /\ to \in States /\ s.state \in States \ FailureStates
                       /\ to \notin FailureStates \cup WaitingStates
<1>1. \A to \in States : Moved(s, to).state = to /\ Moved(s, to) \in Session
  BY MovedIsASession DEF Moved, Session
<1>2. ASSUME NEW event \in {"DIRECTIONS_READY", "QUESTIONS_READY", "FEEDBACK_READY",
                            "SUMMARY_READY", "COMPLETE_SESSION"},
             NEW to \in EventTargets(s, event, NoFailure)
      PROVE  Fits(to)
  BY DEF EventTargets, NormalTransitions, States, FailureStates, WaitingStates
<1> HIDE DEF Fits
<1>3. ASSUME NEW p \in Providers, next \in DirectionsReady(s, p)
      PROVE  \E to : Fits(to) /\ next.state = to
  <2>1. PICK to \in EventTargets(s, "DIRECTIONS_READY", NoFailure) :
          \E n : next = [Moved(s, to) EXCEPT !.directions = 1..n]
    BY <1>3 DEF DirectionsReady
  <2>2. Fits(to) /\ to \in States
    BY <1>2, TargetsAreStates
  <2> QED
    BY <1>1, <2>1, <2>2 DEF Session
<1>4. ASSUME NEW p \in Providers, next \in QuestionsReady(s, p)
      PROVE  \E to : Fits(to) /\ next.state = to
  <2>1. PICK to \in EventTargets(s, "QUESTIONS_READY", NoFailure) :
          \E n : next = WithQuestions(Moved(s, to), n)
    BY <1>4 DEF QuestionsReady
  <2>2. Fits(to) /\ to \in States
    BY <1>2, TargetsAreStates
  <2> QED
    BY <1>1, <2>1, <2>2 DEF Session, WithQuestions
<1>5. ASSUME NEW p \in Providers, next \in FeedbackReady(s, p)
      PROVE  \E to : Fits(to) /\ next.state = to
  <2>1. PICK to \in EventTargets(s, "FEEDBACK_READY", NoFailure) :
          \E f : next = WithFeedback(Moved(s, to), f)
    BY <1>5 DEF FeedbackReady
  <2>2. Fits(to) /\ to \in States
    BY <1>2, TargetsAreStates
  <2> QED
    BY <1>1, <2>1, <2>2 DEF Session, WithFeedback
<1>6. ASSUME next \in SummaryReady(s)
      PROVE  \E to : Fits(to) /\ next.state = to
  <2>1. PICK to \in EventTargets(s, "SUMMARY_READY", NoFailure) :
          next = [Moved(s, to) EXCEPT
                    !.summary = [completed |-> Orders(s, "CONFIRMED"),
                                 skipped |-> Orders(s, "SKIPPED")],
                    !.route = "COMPLETED"]
    BY <1>6 DEF SummaryReady
  <2>2. Fits(to) /\ to \in States
    BY <1>2, TargetsAreStates
  <2> QED
    BY <1>1, <2>1, <2>2 DEF Session
<1>7. ASSUME Completes(s, next) PROVE \E to : Fits(to) /\ next.state = to
  <2>1. PICK to \in EventTargets(s, "COMPLETE_SESSION", NoFailure) : next = Moved(s, to)
    BY <1>7 DEF Completes
  <2>2. Fits(to) /\ to \in States
    BY <1>2, TargetsAreStates
  <2> QED
    BY <1>1, <2>1, <2>2
<1>8. \E to : Fits(to) /\ next.state = to
  BY <1>3, <1>4, <1>5, <1>6, <1>7 DEF Generates
<1> QED
  BY <1>8 DEF Fits

(* A failure leaves a source of failures and is what the session carries.  *)
LEMMA FailureEffect ==
  ASSUME NEW s \in Session, NEW failure \in Failure, NEW next \in Failing(s, failure)
  PROVE  /\ s.state \in FailureSources /\ next.state \in FailureStates
         /\ next.failure = failure /\ next.rev = s.rev + 1
         /\ failure.resume = s.state /\ IsValidFailureResume(failure.op, failure.resume)
<1>1. PICK event \in {"RETRYABLE_FAILURE", "PERMANENT_FAILURE"} :
        \E t \in EventTargets(s, event, failure) : next = [Moved(s, t) EXCEPT !.failure = failure]
  BY DEF Failing
<1>2. PICK to \in EventTargets(s, event, failure) : next = [Moved(s, to) EXCEPT !.failure = failure]
  BY <1>1
<1>3. /\ s.state \in FailureSources /\ to \in FailureStates /\ failure.resume = s.state
      /\ IsValidFailureResume(failure.op, failure.resume)
  BY <1>2 DEF EventTargets, NormalTransitions, FailureStates
<1>4. Moved(s, to).state = to /\ Moved(s, to) \in Session /\ Moved(s, to).rev = s.rev + 1
  BY <1>2, TargetsAreStates, MovedIsASession DEF Moved, Session
<1> QED
  BY <1>2, <1>3, <1>4 DEF Session

(* Which failures of a session are open, and what the ledger says of them. *)
Open(rows, id) == {row \in rows : row.session = id /\ ~row.superseded}
LedgerOf(s, rows, id) ==
  IF s.state \in FailureStates
  THEN Open(rows, id) = {FailureRow(id, s.rev - 1, s.failure)}
  ELSE Open(rows, id) = {}

LEMMA LedgerIsPerSession ==
  /\ FailureLedger <=> \A id \in SessionIds : LedgerOf(sessions[id], failures, id)
  /\ FailureLedger' <=> \A id \in SessionIds : LedgerOf(sessions'[id], failures', id)
BY DEF FailureLedger, LedgerOf, Open

(* RETRY closes the failures of its session and of no other.               *)
LEMMA SupersededRows ==
  ASSUME failures \subseteq FailureRows, NEW j \in SessionIds
  PROVE  /\ Open(Superseded(j), j) = {}
         /\ \A id \in SessionIds \ {j} : Open(Superseded(j), id) = Open(failures, id)
<1>1. ASSUME NEW row \in failures
      PROVE  LET closed == [row EXCEPT !.superseded = TRUE]
             IN closed.session = row.session /\ closed.superseded
  BY DEF FailureRows
<1>2. Open(Superseded(j), j) = {}
  <2> SUFFICES ASSUME NEW row \in failures,
                      NEW new, new = (IF row.session = j THEN [row EXCEPT !.superseded = TRUE]
                                      ELSE row),
                      new.session = j, ~new.superseded
               PROVE  FALSE
    BY DEF Superseded, Open
  <2> QED
    BY <1>1
<1>3. ASSUME NEW id \in SessionIds \ {j} PROVE Open(Superseded(j), id) = Open(failures, id)
  <2>1. ASSUME NEW new \in Superseded(j), new.session = id PROVE new \in failures
    <3>1. PICK row \in failures : new = (IF row.session = j THEN [row EXCEPT !.superseded = TRUE]
                                         ELSE row)
      BY <2>1 DEF Superseded
    <3> QED
      BY <1>1, <2>1, <3>1
  <2>2. ASSUME NEW row \in failures, row.session = id PROVE row \in Superseded(j)
    BY <2>2 DEF Superseded
  <2> QED
    BY <2>1, <2>2 DEF Open
<1> QED
  BY <1>2, <1>3

LEMMA LedgerStays ==
  ASSUME RevisionInv, [Next]_vars, FailureLedger
  PROVE  FailureLedger'
<1> SUFFICES ASSUME NEW id \in SessionIds PROVE LedgerOf(sessions'[id], failures', id)
  BY LedgerIsPerSession
<1>1. /\ LedgerOf(sessions[id], failures, id)
      /\ sessions \in [SessionIds -> Session] /\ failures \subseteq FailureRows
  BY LedgerIsPerSession DEF RevisionInv, TypeInv, TypeOK
<1>2. AStep
  BY StepsOfTheSystem
<1>3. CASE sessions'[id] = sessions[id] /\ Open(failures', id) = Open(failures, id)
  BY <1>1, <1>3 DEF LedgerOf
<1>4. ASSUME NEW j \in SessionIds, Starts(j) PROVE LedgerOf(sessions'[id], failures', id)
  <2>1. CASE j = id
    BY <1>1, <1>4, <2>1 DEF Starts, LedgerOf, NoSession, NewSession, FailureStates
  <2>2. CASE j # id
    BY <1>1, <1>3, <1>4, <2>2 DEF Starts
  <2> QED
    BY <2>1, <2>2
<1>5. ASSUME NEW j \in SessionIds, NEW c \in Commands, NEW next \in Session, Obeys(j, c, next)
      PROVE  LedgerOf(sessions'[id], failures', id)
  <2>1. CASE j # id
    <3>1. Open(failures', id) = Open(failures, id)
      BY <1>1, <1>5, <2>1, SupersededRows DEF Obeys
    <3> QED
      BY <1>1, <1>3, <1>5, <2>1, <3>1 DEF Obeys
  <2>2. CASE j = id
    <3>1. sessions'[id] = next /\ next.state \in EventTargets(sessions[id], c.event, sessions[id].failure)
      BY <1>1, <1>5, <2>2, CommandTargets DEF Obeys
    <3>2. CASE c.event = "RETRY"
      <4>1. Open(failures', id) = {}
        BY <1>1, <1>5, <2>2, <3>2, SupersededRows DEF Obeys
      <4>2. next.state \notin FailureStates
        BY <3>1, <3>2 DEF EventTargets, NormalTransitions, IsValidFailureResume, FailureStates
      <4> QED
        BY <3>1, <4>1, <4>2 DEF LedgerOf
    <3>3. CASE c.event # "RETRY"
      <4>1. failures' = failures
        BY <1>5, <3>3 DEF Obeys
      <4>2. c.event \notin {"RETRYABLE_FAILURE", "PERMANENT_FAILURE"}
        BY DEF Commands, PointerCommands
      <4>3. sessions[id].state \notin FailureStates /\ next.state \notin FailureStates
        BY <3>1, <3>3, <4>2 DEF EventTargets, NormalTransitions, FailureStates
      <4> QED
        BY <1>1, <3>1, <4>1, <4>3 DEF LedgerOf
    <3> QED
      BY <3>2, <3>3
  <2> QED
    BY <2>1, <2>2
<1>6. ASSUME NEW j \in SessionIds, NEW next \in Session, Produces(j, next)
      PROVE  LedgerOf(sessions'[id], failures', id)
  <2>1. CASE j = id
    <3>1. sessions'[id] = next /\ failures' = failures
      BY <1>1, <1>6, <2>1 DEF Produces
    <3>2. sessions[id].state \notin FailureStates /\ next.state \notin FailureStates
      BY <1>1, <1>6, <2>1, ResultStates DEF Produces
    <3> QED
      BY <1>1, <3>1, <3>2 DEF LedgerOf
  <2>2. CASE j # id
    BY <1>1, <1>3, <1>6, <2>2 DEF Produces
  <2> QED
    BY <2>1, <2>2
<1>7. ASSUME NEW j \in SessionIds, NEW failure \in Failure, NEW next \in Session,
             Fails(j, failure, next)
      PROVE  LedgerOf(sessions'[id], failures', id)
  <2> DEFINE row == FailureRow(j, sessions[j].rev, failure)
  <2>1. /\ sessions' = [sessions EXCEPT ![j] = next] /\ failures' = failures \cup {row}
        /\ next \in Failing(sessions[j], failure)
    BY <1>7 DEF Fails
  <2>2. row.session = j /\ row.superseded = FALSE
    BY DEF FailureRow
  <2>3. CASE j = id
    <3>1. /\ sessions[id].state \in FailureSources /\ next.state \in FailureStates
          /\ next.failure = failure /\ next.rev = sessions[id].rev + 1
      BY <1>1, <2>1, <2>3, FailureEffect
    <3>2. Open(failures, id) = {}
      BY <1>1, <3>1 DEF LedgerOf, FailureSources, FailureStates
    <3>3. Open(failures', id) = {row}
      <4> HIDE DEF row
      <4> QED
        BY <2>1, <2>2, <2>3, <3>2 DEF Open
    <3>4. sessions[id].rev \in Nat /\ next.rev - 1 = sessions[id].rev
      BY <1>1, <3>1 DEF Session
    <3>5. row = FailureRow(id, next.rev - 1, next.failure)
      BY <2>3, <3>1, <3>4
    <3> QED
      BY <1>1, <2>1, <2>3, <3>1, <3>3, <3>5 DEF LedgerOf
  <2>4. CASE j # id
    <3>1. Open(failures', id) = Open(failures, id)
      <4> HIDE DEF row
      <4> QED
        BY <2>1, <2>2, <2>4 DEF Open
    <3> QED
      BY <1>1, <1>3, <2>1, <2>4, <3>1
  <2> QED
    BY <2>3, <2>4
<1> QED
  BY <1>2, <1>3, <1>4, <1>5, <1>6, <1>7 DEF AStep, Rests

-----------------------------------------------------------------------------
(* Recorded commands.                                                      *)
AnsweredJobs ==
  \A row \in commands : row.event \in Generating =>
    \E k \in DOMAIN jobs : k.session = row.session /\ k.rev = row.rev

LEMMA RequestedKeys ==
  ASSUME NEW id \in SessionIds, NEW s \in Session, NEW c \in Commands, NEW next \in ClientNext(s, c)
  PROVE  /\ \A k \in DOMAIN Requested(id, s, next, c.event) :
              k.session = id /\ k.rev = next.rev
         /\ c.event \in Generating =>
              \E k \in DOMAIN Requested(id, s, next, c.event) : k.session = id /\ k.rev = next.rev
<1>1. CASE Requested(id, s, next, c.event) = NoJobs /\ c.event \notin Generating
  BY <1>1 DEF NoJobs
<1>2. CASE \E op \in Operations : QueuesOne(id, s, next, c.event, op)
  <2>1. PICK op \in Operations : QueuesOne(id, s, next, c.event, op)
    BY <1>2
  <2>2. DOMAIN Requested(id, s, next, c.event) = {Key(id, op, next.rev)}
    BY <2>1 DEF QueuesOne, Job, Key
  <2>3. Key(id, op, next.rev).session = id /\ Key(id, op, next.rev).rev = next.rev
    BY DEF Key
  <2> QED
    BY <2>2, <2>3
<1> QED
  BY <1>1, <1>2, CommandsQueue

LEMMA AnsweredJobsStay ==
  ASSUME RevisionInv, [Next]_vars, AnsweredJobs
  PROVE  AnsweredJobs'
<1>1. \A k \in DOMAIN jobs : k \in DOMAIN jobs'
  BY StepsOfTheSystem, NewJobsFit
<1>2. CASE commands' = commands
  BY <1>1, <1>2 DEF AnsweredJobs
<1>3. ASSUME NEW a \in Apis, SaveCommand(a) PROVE AnsweredJobs'
  <2> DEFINE p == api[a]
  <2>1. p.session \in SessionIds /\ p.command \in Commands /\ p.base \in Session
    BY <1>3 DEF RevisionInv, TypeInv, TypeOK, ApiProcess, RequestsAreComplete, SaveCommand
  <2>2. PICK next \in ClientNext(p.base, p.command) :
          /\ jobs' = WithJobs(Requested(p.session, p.base, next, p.command.event))
          /\ commands' \subseteq commands \cup {[key |-> p.key, session |-> p.session,
                                                 event |-> p.command.event, rev |-> next.rev]}
    BY <1>3 DEF SaveCommand, NewJobs
  <2>3. p.command.event \in Generating =>
          \E k \in DOMAIN jobs' : k.session = p.session /\ k.rev = next.rev
    <3> DEFINE c == p.command
               base == p.base
               id == p.session
               new == Requested(id, base, next, c.event)
    <3>1. id \in SessionIds /\ c \in Commands /\ base \in Session /\ next \in ClientNext(base, c)
      BY <2>1, <2>2
    <3>2. DOMAIN jobs' = DOMAIN jobs \cup DOMAIN new
      BY <2>2, WithJobsKeepsRows
    <3> HIDE DEF c, base, id
    <3>3. c.event \in Generating => \E k \in DOMAIN new : k.session = id /\ k.rev = next.rev
      BY <3>1, RequestedKeys
    <3> HIDE DEF new
    <3>4. c.event \in Generating => \E k \in DOMAIN jobs' : k.session = id /\ k.rev = next.rev
      BY <3>2, <3>3
    <3> QED
      BY <3>4 DEF c, id
  <2> SUFFICES ASSUME NEW row \in commands', row.event \in Generating
               PROVE  \E k \in DOMAIN jobs' : k.session = row.session /\ k.rev = row.rev
    BY DEF AnsweredJobs
  <2>4. CASE row \in commands
    BY <1>1, <2>4 DEF AnsweredJobs
  <2>5. CASE row \notin commands
    <3>1. row.session = p.session /\ row.event = p.command.event /\ row.rev = next.rev
      BY <2>2, <2>5
    <3> QED
      BY <2>3, <3>1
  <2> QED
    BY <2>4, <2>5
<1>4. ASSUME NEW a \in Apis, Command(a), ~SaveCommand(a) PROVE commands' = commands
  BY <1>4 DEF Command, LookUp, ReadAndApply, Refuse, SaveRefused, ApiCrash, db
<1>5. ASSUME NEW id \in SessionIds, NEW p \in Offered, Creation(id, p) PROVE commands' = commands
  BY <1>5 DEF Creation, RequestDirections, CreateSession
<1>6. ASSUME NEW id \in SessionIds, Direct(id) PROVE commands' = commands
  BY <1>6 DEF Direct, WriteDirectly, RecordFailure
<1>7. ASSUME NEW w \in Workers, Work(w) \/ WorkerCrash(w) PROVE commands' = commands
  BY <1>7 DEF Work, WorkerCrash, Claim, ReadSession, GatewayFails, OutputRejected,
     QuestionPointerChanged, SaveGenerated, SaveConflicts, ReadForFailure, SaveFailure,
     SaveFailureRefused, FinishJob, StorageFails, db
<1>8. CASE UNCHANGED vars
  BY <1>8, <1>2 DEF vars
<1> QED
  BY <1>2, <1>3, <1>4, <1>5, <1>6, <1>7, <1>8 DEF Next

-----------------------------------------------------------------------------
(* The invariant.                                                          *)
JobInv == RevisionInv /\ GenerationBoundary /\ FailureLedger /\ AnsweredJobs

LEMMA JobInvInit == Init => JobInv
<1> SUFFICES ASSUME Init PROVE JobInv
  OBVIOUS
<1>1. GenerationBoundary
  BY DEF Init, NoJobs, GenerationBoundary
<1>2. FailureLedger
  BY DEF Init, NoSession, FailureStates, FailureLedger
<1>3. AnsweredJobs
  BY DEF Init, AnsweredJobs
<1> QED
  BY <1>1, <1>2, <1>3, RevisionInvInit DEF JobInv

LEMMA JobInvStep == JobInv /\ [Next]_vars => JobInv'
BY RevisionInvStep, BoundaryStays, LedgerStays, AnsweredJobsStay DEF JobInv

LEMMA JobInvHolds == Spec => []JobInv
BY JobInvInit, JobInvStep, PTL DEF Spec

(* A queued generation is never ahead of its session, and fits the state   *)
(* of the session for as long as the session is at its revision: whatever  *)
(* a Worker compares (runGeneration, recordFailureIfCurrent), the revision *)
(* alone decides.                                                          *)
THEOREM JobsFitTheirSessions == Spec => []GenerationBoundary
<1>1. JobInv => GenerationBoundary
  BY DEF JobInv
<1> QED
  BY <1>1, JobInvHolds, PTL

(* The failure table and the snapshots tell one story, whatever failed,    *)
(* was retried and failed again, in whatever process.                      *)
THEOREM FailuresAreAccountedFor == Spec => []FailureLedger
<1>1. JobInv => FailureLedger
  BY DEF JobInv
<1> QED
  BY <1>1, JobInvHolds, PTL

(* What the answer to a command that was recorded says is true: its        *)
(* revision was reached and the job it names was queued.                   *)
THEOREM RecordedAnswersAreTrue == Spec => []RecordedAnswerIsTrue
<1>1. JobInv => RecordedAnswerIsTrue
  BY DEF JobInv, RevisionInv, RecordedRevisions, AnsweredJobs, RecordedAnswerIsTrue
<1> QED
  BY <1>1, JobInvHolds, PTL

(* A command that is current is never turned down because its job's key is *)
(* taken: jobs are never ahead, and its job is of the next revision.       *)
THEOREM FreshKeysForFreshJobs == Spec => []JobKeyNeverCollides
<1>1. JobInv => JobKeyNeverCollides
  <2> SUFFICES ASSUME JobInv, NEW a \in Apis, api[a].pc = "SAVING",
                      NEW next \in ClientNext(api[a].base, api[a].command),
                      KeyIsFree(api[a].key), Current(api[a]),
                      NEW k \in DOMAIN NewJobs(api[a], next) \cap DOMAIN jobs
               PROVE  FALSE
    BY DEF JobKeyNeverCollides, Accepts
  <2> DEFINE p == api[a]
  <2>1. p.session \in SessionIds /\ p.command \in Commands /\ p.base \in Session
    BY DEF JobInv, RevisionInv, TypeInv, TypeOK, ApiProcess, RequestsAreComplete
  <2>2. p.base.rev = sessions[p.session].rev /\ p.base.rev \in Nat
    BY <2>1 DEF Current, Session
  <2>3. next.rev = p.base.rev + 1
    BY <2>1, ClientNextIsASession
  <2>4. k.session = p.session /\ k.rev = next.rev
    <3> DEFINE c == p.command
               base == p.base
               id == p.session
    <3>1. /\ id \in SessionIds /\ c \in Commands /\ base \in Session /\ next \in ClientNext(base, c)
          /\ k \in DOMAIN Requested(id, base, next, c.event)
      BY <2>1 DEF NewJobs
    <3> HIDE DEF c, base, id
    <3>2. k.session = id /\ k.rev = next.rev
      BY <3>1, RequestedKeys
    <3> QED
      BY <3>2 DEF id
  <2>5. k.rev <= sessions[p.session].rev
    BY <2>4 DEF JobInv, GenerationBoundary
  <2> QED
    BY <2>2, <2>3, <2>4, <2>5
<1> QED
  BY <1>1, JobInvHolds, PTL

-----------------------------------------------------------------------------
(* Where clients have the command interface only, a session that waits has *)
(* its job and nobody else to write it. Two more facts carry the proof: a  *)
(* job is for the generation its state waits for, and so is the one a      *)
(* failure would resume.                                                   *)
JobsAreAwaited == \A k \in DOMAIN jobs : <<jobs[k].expected, k.op>> \in Awaits
FailuresAreAwaited ==
  \A id \in SessionIds : sessions[id].state \in FailureStates =>
    <<sessions[id].failure.resume, sessions[id].failure.op>> \in Awaits
QueuedJobsFit == \A k \in DOMAIN jobs : jobs[k].state = "QUEUED" => AtBoundary(k)

AwaitInv == JobInv /\ JobsAreAwaited /\ FailuresAreAwaited /\ WaitingSessionHasItsJob

LEMMA AwaitInvInit == Init => AwaitInv
<1> SUFFICES ASSUME Init PROVE AwaitInv
  OBVIOUS
<1>1. JobsAreAwaited
  BY DEF Init, NoJobs, JobsAreAwaited
<1>2. FailuresAreAwaited /\ WaitingSessionHasItsJob
  BY DEF Init, NoSession, FailureStates, FailuresAreAwaited, WaitingSessionHasItsJob, Waiting, Awaits
<1> QED
  BY <1>1, <1>2, JobInvInit DEF AwaitInv

LEMMA JobsStayAwaited ==
  ASSUME AwaitInv, AStep
  PROVE  JobsAreAwaited'
<1> SUFFICES ASSUME NEW k \in DOMAIN jobs' PROVE <<jobs'[k].expected, k.op>> \in Awaits
  BY DEF JobsAreAwaited
<1>1. RevisionInv /\ sessions \in [SessionIds -> Session]
  BY DEF AwaitInv, JobInv, RevisionInv, TypeInv, TypeOK
<1>2. CASE k \in DOMAIN jobs
  <2>1. jobs'[k].expected = jobs[k].expected
    BY <1>1, <1>2, NewJobsFit
  <2> QED
    BY <1>2, <2>1 DEF AwaitInv, JobsAreAwaited
<1>3. CASE k \notin DOMAIN jobs
  <2>1. jobs'[k].expected = sessions'[k.session].state /\ k.session \in SessionIds
    BY <1>1, <1>3, NewJobsFit
  <2>2. ASSUME NEW id \in SessionIds, Starts(id) PROVE <<jobs'[k].expected, k.op>> \in Awaits
    <3>1. DOMAIN jobs' \subseteq DOMAIN jobs \cup {Key(id, "GENERATE_DIRECTIONS", NewSession.rev)}
      BY <2>2, WithJobsKeepsRows DEF Starts, Job, Key
    <3>2. k.op = "GENERATE_DIRECTIONS" /\ k.session = id
      BY <1>3, <3>1 DEF Key
    <3>3. sessions'[id].state = "CREATED"
      BY <1>1, <2>2 DEF Starts, NewSession, NoSession
    <3> QED
      BY <2>1, <3>2, <3>3 DEF Awaits
  <2>3. ASSUME NEW id \in SessionIds, NEW c \in Commands, NEW next \in Session, Obeys(id, c, next)
        PROVE  <<jobs'[k].expected, k.op>> \in Awaits
    <3>1. /\ next \in ClientNext(sessions[id], c) /\ sessions'[id] = next
          /\ jobs' = WithJobs(Requested(id, sessions[id], next, c.event))
          /\ sessions[id] \in Session
      BY <1>1, <2>3 DEF Obeys
    <3>2. k \in DOMAIN Requested(id, sessions[id], next, c.event)
      BY <1>3, <3>1, WithJobsKeepsRows
    <3>0. Requested(id, sessions[id], next, c.event) # NoJobs
      BY <3>2 DEF NoJobs
    <3>3. PICK op \in Operations :
            /\ QueuesOne(id, sessions[id], next, c.event, op)
            /\ \/ <<next.state, op>> \in Awaits
               \/ /\ c.event = "RETRY" /\ next.state = sessions[id].failure.resume
                  /\ op = sessions[id].failure.op
      BY <3>0, <3>1, CommandsQueue
    <3>4. k = Key(id, op, next.rev) /\ k.op = op /\ k.session = id
      BY <3>2, <3>3 DEF QueuesOne, Job, Key
    <3>5. CASE c.event = "RETRY"
      <4>1. sessions[id].state \in FailureStates
        BY <3>1, <3>5, CommandTargets DEF EventTargets, NormalTransitions, FailureStates
      <4> QED
        BY <2>1, <3>1, <3>3, <3>4, <4>1 DEF AwaitInv, FailuresAreAwaited
    <3> QED
      BY <2>1, <3>1, <3>3, <3>4, <3>5
  <2>4. ~Rests /\ jobs' # jobs
    BY <1>3 DEF Rests, JobsStay
  <2> QED
    BY <2>2, <2>3, <2>4 DEF AStep, Produces, Fails
<1> QED
  BY <1>2, <1>3

LEMMA FailuresStayAwaited ==
  ASSUME AwaitInv, AStep, ~DirectWrites
  PROVE  FailuresAreAwaited'
<1> SUFFICES ASSUME NEW id \in SessionIds, sessions'[id].state \in FailureStates
             PROVE  <<sessions'[id].failure.resume, sessions'[id].failure.op>> \in Awaits
  BY DEF FailuresAreAwaited
<1>1. sessions \in [SessionIds -> Session]
  BY DEF AwaitInv, JobInv, RevisionInv, TypeInv, TypeOK
<1>2. CASE sessions'[id] = sessions[id]
  BY <1>2 DEF AwaitInv, FailuresAreAwaited
<1>3. ASSUME NEW j \in SessionIds, Starts(j), sessions'[id] # sessions[id] PROVE FALSE
  BY <1>1, <1>3 DEF Starts, NewSession, NoSession, FailureStates
<1>4. ASSUME NEW j \in SessionIds, NEW c \in Commands, NEW next \in Session,
             Obeys(j, c, next), sessions'[id] # sessions[id]
      PROVE  FALSE
  <2>1. j = id /\ sessions'[id] = next /\ next \in ClientNext(sessions[id], c)
    BY <1>1, <1>4 DEF Obeys
  <2>2. next.state \in EventTargets(sessions[id], c.event, sessions[id].failure)
    BY <1>1, <2>1, CommandTargets
  <2>3. c.event \notin {"RETRYABLE_FAILURE", "PERMANENT_FAILURE"}
    BY DEF Commands, PointerCommands
  <2> QED
    BY <2>1, <2>2, <2>3 DEF EventTargets, NormalTransitions, IsValidFailureResume, FailureStates
<1>5. ASSUME NEW j \in SessionIds, NEW next \in Session, Produces(j, next),
             sessions'[id] # sessions[id]
      PROVE  FALSE
  <2>1. j = id /\ sessions'[id] = next
    BY <1>1, <1>5 DEF Produces
  <2> QED
    BY <1>1, <1>5, <2>1, ResultStates DEF Produces
<1>6. ASSUME NEW j \in SessionIds, NEW failure \in Failure, NEW next \in Session,
             Fails(j, failure, next), sessions'[id] # sessions[id]
      PROVE  <<sessions'[id].failure.resume, sessions'[id].failure.op>> \in Awaits
  <2>1. j = id /\ sessions'[id] = next /\ next \in Failing(sessions[id], failure)
    BY <1>1, <1>6 DEF Fails
  <2>2. next.failure = failure
    BY <1>1, <2>1, FailureEffect
  <2>3. PICK w \in Workers : /\ workers[w].pc = "RECORDING" /\ failure.op = workers[w].job.op
                             /\ failure.resume = jobs[workers[w].job].expected
    BY <1>6 DEF Fails
  <2>4. workers[w].job \in DOMAIN jobs
    BY <2>3 DEF AwaitInv, JobInv, RevisionInv, TypeInv, ClaimIsExclusive
  <2> QED
    BY <2>1, <2>2, <2>3, <2>4 DEF AwaitInv, JobsAreAwaited
<1> QED
  BY <1>2, <1>3, <1>4, <1>5, <1>6 DEF AStep, Rests

(* One job of the session's current revision, for what its state awaits.   *)
HasItsJob(id, s, table) ==
  \E k \in DOMAIN table :
    /\ k.session = id /\ k.rev = s.rev
    /\ <<s.state, k.op>> \in Awaits
    /\ table[k].expected = s.state
    /\ \A l \in DOMAIN table : l.session = id /\ l.rev = k.rev => l = k
Awaiting(s) == \E op \in Operations : <<s.state, op>> \in Awaits

LEMMA WaitingIsPerSession ==
  /\ WaitingSessionHasItsJob <=>
       \A id \in SessionIds : Awaiting(sessions[id]) => HasItsJob(id, sessions[id], jobs)
  /\ WaitingSessionHasItsJob' <=>
       \A id \in SessionIds : Awaiting(sessions'[id]) => HasItsJob(id, sessions'[id], jobs')
BY DEF WaitingSessionHasItsJob, Waiting, Awaiting, HasItsJob

(* A job queued in the step that makes its revision is the only one there. *)
LEMMA OnlyJob ==
  ASSUME JobInv, NEW id \in SessionIds, NEW next \in Session, NEW op \in Operations, NEW question,
         next.rev = sessions[id].rev + 1, <<next.state, op>> \in Awaits,
         jobs' = WithJobs(Job(id, op, next.rev, next.state, question))
  PROVE  HasItsJob(id, next, jobs')
<1> DEFINE new == Job(id, op, next.rev, next.state, question)
           k == Key(id, op, next.rev)
<1>1. /\ DOMAIN new = {k} /\ new[k].expected = next.state
      /\ k.session = id /\ k.rev = next.rev /\ k.op = op
  BY DEF Job, Key, QueuedRow
<1>2. \A l \in DOMAIN jobs : l.session = id => l.rev < next.rev
  <2> SUFFICES ASSUME NEW l \in DOMAIN jobs, l.session = id PROVE l.rev < next.rev
    OBVIOUS
  <2>1. l.rev \in Nat /\ sessions[id].rev \in Nat
    BY DEF JobInv, RevisionInv, TypeInv, TypeOK, JobKey, Session
  <2> QED
    BY <2>1 DEF JobInv, GenerationBoundary
<1>3. jobs' = WithJobs(new)
  OBVIOUS
<1> HIDE DEF new, k
<1>4. DOMAIN jobs' = DOMAIN jobs \cup {k} /\ (k \notin DOMAIN jobs => jobs'[k] = new[k])
  <2>1. /\ DOMAIN WithJobs(new) = DOMAIN jobs \cup DOMAIN new
        /\ \A l \in DOMAIN new \ DOMAIN jobs : WithJobs(new)[l] = new[l]
    BY WithJobsKeepsRows
  <2> QED
    BY <1>1, <1>3, <2>1
<1>5. next.rev \in Nat
  BY DEF Session
<1>6. k \notin DOMAIN jobs
  BY <1>1, <1>2, <1>5
<1>7. \A l \in DOMAIN jobs' : l.session = id /\ l.rev = next.rev => l = k
  BY <1>2, <1>4, <1>5
<1> QED
  BY <1>1, <1>4, <1>6, <1>7 DEF HasItsJob

LEMMA WaitingStaysServed ==
  ASSUME AwaitInv, [Next]_vars, ~DirectWrites
  PROVE  WaitingSessionHasItsJob'
<1> SUFFICES ASSUME NEW id \in SessionIds, Awaiting(sessions'[id])
             PROVE  HasItsJob(id, sessions'[id], jobs')
  BY WaitingIsPerSession
<1>1. sessions \in [SessionIds -> Session] /\ RevisionInv /\ JobInv
  BY DEF AwaitInv, JobInv, RevisionInv, TypeInv, TypeOK
<1>2. AStep
  BY <1>1, StepsOfTheSystem
<1>3. CASE sessions'[id] = sessions[id]
  <2>1. PICK k \in DOMAIN jobs :
          /\ k.session = id /\ k.rev = sessions[id].rev
          /\ <<sessions[id].state, k.op>> \in Awaits
          /\ jobs[k].expected = sessions[id].state
          /\ \A l \in DOMAIN jobs : l.session = id /\ l.rev = k.rev => l = k
    BY <1>3, WaitingIsPerSession DEF AwaitInv, HasItsJob
  <2>2. k \in DOMAIN jobs' /\ jobs'[k].expected = jobs[k].expected
    BY <1>1, <1>2, NewJobsFit
  <2>3. ASSUME NEW l \in DOMAIN jobs', l.session = id, l.rev = k.rev PROVE l = k
    <3>1. l \in DOMAIN jobs \/ l.rev = sessions[id].rev + 1
      BY <1>1, <1>2, <2>3, NewJobsFit
    <3>2. sessions[id].rev \in Nat
      BY <1>1 DEF Session
    <3> QED
      BY <2>1, <2>3, <3>1, <3>2
  <2> QED
    BY <1>3, <2>1, <2>2, <2>3 DEF HasItsJob
<1>4. ASSUME NEW j \in SessionIds, Starts(j), sessions'[id] # sessions[id]
      PROVE  HasItsJob(id, sessions'[id], jobs')
  <2>1. j = id /\ sessions'[id] = NewSession
    BY <1>1, <1>4 DEF Starts
  <2>2. /\ NewSession.rev = sessions[id].rev + 1 /\ NewSession.state = "CREATED"
        /\ NewSession \in Session
    BY <1>4, <2>1, FirstSessions DEF Starts, NoSession, NewSession
  <2>3. jobs' = WithJobs(Job(id, "GENERATE_DIRECTIONS", NewSession.rev, NewSession.state, 0))
    BY <1>4, <2>1, <2>2 DEF Starts
  <2>4. <<NewSession.state, "GENERATE_DIRECTIONS">> \in Awaits /\ "GENERATE_DIRECTIONS" \in Operations
    BY <2>2 DEF Awaits, Operations
  <2> QED
    BY <1>1, <2>1, <2>2, <2>3, <2>4, OnlyJob
<1>5. ASSUME NEW j \in SessionIds, NEW c \in Commands, NEW next \in Session,
             Obeys(j, c, next), sessions'[id] # sessions[id]
      PROVE  HasItsJob(id, sessions'[id], jobs')
  <2>1. /\ j = id /\ sessions'[id] = next /\ next \in ClientNext(sessions[id], c)
        /\ jobs' = WithJobs(Requested(id, sessions[id], next, c.event))
    BY <1>1, <1>5 DEF Obeys
  <2>2. next.state \in WaitingStates
    BY <2>1 DEF Awaiting, Awaits, WaitingStates
  <2>3. PICK op \in Operations :
          /\ QueuesOne(id, sessions[id], next, c.event, op)
          /\ \A q \in Operations : <<next.state, q>> \in Awaits => q = op
    <3>1. \/ next.state \notin WaitingStates
          \/ \E op \in Operations :
               /\ QueuesOne(id, sessions[id], next, c.event, op)
               /\ \A q \in Operations : <<next.state, q>> \in Awaits => q = op
      <4> DEFINE s == sessions[id]
      <4>1. s \in Session /\ next \in ClientNext(s, c)
        BY <1>1, <2>1
      <4> HIDE DEF s
      <4>2. \/ next.state \notin WaitingStates
            \/ \E op \in Operations :
                 /\ QueuesOne(id, s, next, c.event, op)
                 /\ \A q \in Operations : <<next.state, q>> \in Awaits => q = op
        BY <4>1, CommandsQueue DEF WaitingStates
      <4> QED
        BY <4>2 DEF s
    <3> QED
      BY <2>2, <3>1
  <2>4. <<next.state, op>> \in Awaits
    BY <2>1, <2>3 DEF Awaiting
  <2>5. next.rev = sessions[id].rev + 1
    BY <1>1, <2>1, ClientNextIsASession
  <2> QED
    BY <1>1, <2>1, <2>3, <2>4, <2>5, OnlyJob DEF QueuesOne
<1>6. ASSUME NEW j \in SessionIds, NEW next \in Session, Produces(j, next),
             sessions'[id] # sessions[id]
      PROVE  FALSE
  <2>1. j = id /\ sessions'[id] = next
    BY <1>1, <1>6 DEF Produces
  <2>2. next.state \notin WaitingStates
    BY <1>1, <1>6, <2>1, ResultStates DEF Produces
  <2> QED
    BY <2>1, <2>2 DEF Awaiting, Awaits, WaitingStates
<1>7. ASSUME NEW j \in SessionIds, NEW failure \in Failure, NEW next \in Session,
             Fails(j, failure, next), sessions'[id] # sessions[id]
      PROVE  FALSE
  <2>1. j = id /\ sessions'[id] = next /\ next \in Failing(sessions[id], failure)
    BY <1>1, <1>7 DEF Fails
  <2>2. next.state \in FailureStates
    BY <1>1, <2>1, FailureEffect
  <2> QED
    BY <2>1, <2>2 DEF Awaiting, Awaits, FailureStates
<1> QED
  BY <1>2, <1>3, <1>4, <1>5, <1>6, <1>7 DEF AStep, Rests

LEMMA AwaitInvStep == ~DirectWrites /\ AwaitInv /\ [Next]_vars => AwaitInv'
<1> SUFFICES ASSUME ~DirectWrites, AwaitInv, [Next]_vars PROVE AwaitInv'
  OBVIOUS
<1>1. AStep /\ JobInv'
  BY StepsOfTheSystem, JobInvStep DEF AwaitInv, JobInv
<1> QED
  BY <1>1, JobsStayAwaited, FailuresStayAwaited, WaitingStaysServed DEF AwaitInv

(* Where clients have the command interface only, a session that waits for *)
(* a generation has the one job it waits for, at its revision and for its  *)
(* state: the transaction of save leaves no session behind without one.    *)
THEOREM WaitingSessionsAreServed ==
  ASSUME ~DirectWrites
  PROVE  Spec => []WaitingSessionHasItsJob
<1>1. AwaitInv /\ [Next]_vars => AwaitInv'
  BY AwaitInvStep
<1>2. AwaitInv => WaitingSessionHasItsJob
  BY DEF AwaitInv
<1> QED
  BY <1>1, <1>2, AwaitInvInit, PTL DEF Spec

-----------------------------------------------------------------------------
(* A running generation. The job that fits its session is the only one of  *)
(* its revision, so the Worker that holds it is the only process that can  *)
(* write the session: clients have no command for a session that waits.    *)
Holding == {"CLAIMED", "GENERATING", "ERRING", "RECORDING"}
QuietInv == AwaitInv /\ QueuedJobsFit /\ GenerationUndisturbed

(* Two jobs that fit one session are one.                                  *)
LEMMA FittingJobIsUnique ==
  ASSUME AwaitInv, NEW k \in DOMAIN jobs, NEW l \in DOMAIN jobs, k.session = l.session,
         AtBoundary(k), AtBoundary(l)
  PROVE  k = l
<1>1. k \in JobKey /\ k.session \in SessionIds /\ k.op \in Operations
  BY DEF AwaitInv, JobInv, RevisionInv, TypeInv, TypeOK, JobKey
<1>2. <<sessions[k.session].state, k.op>> \in Awaits
  BY DEF AwaitInv, JobsAreAwaited, AtBoundary
<1>3. HasItsJob(k.session, sessions[k.session], jobs)
  BY <1>1, <1>2, WaitingIsPerSession DEF AwaitInv, Awaiting
<1> QED
  BY <1>3 DEF HasItsJob, AtBoundary

(* What fits goes on to fit, but for the write of the Worker that holds it.*)
LEMMA BoundaryIsKept ==
  ASSUME QuietInv, [Next]_vars, ~DirectWrites, NEW k \in DOMAIN jobs, AtBoundary(k),
         \A w \in Workers : SaveGenerated(w) \/ SaveFailure(w) => workers[w].job # k
  PROVE  AtBoundary(k)'
<1>1. /\ RevisionInv /\ sessions \in [SessionIds -> Session]
      /\ k.session \in SessionIds /\ AwaitInv
  BY DEF QuietInv, AwaitInv, JobInv, RevisionInv, TypeInv, TypeOK, JobKey
<1>2. jobs'[k].expected = jobs[k].expected
  BY <1>1, StepsOfTheSystem, NewJobsFit
<1>3. sessions[k.session].state \in WaitingStates
  BY <1>1 DEF AwaitInv, JobsAreAwaited, AtBoundary, Awaits, WaitingStates
<1>4. ASSUME NEW id \in SessionIds, NEW p \in Offered, Creation(id, p)
      PROVE  sessions'[k.session] = sessions[k.session]
  BY <1>1, <1>3, <1>4 DEF Creation, RequestDirections, CreateSession, NoSession, WaitingStates
<1>5. ASSUME NEW a \in Apis, SaveCommand(a) PROVE sessions'[k.session] = sessions[k.session]
  <2> DEFINE p == api[a]
  <2>1. /\ p.session \in SessionIds /\ p.command \in Commands /\ p.pc = "SAVING"
        /\ Held(p.base, sessions[p.session])
    BY <1>1, <1>5 DEF RevisionInv, TypeInv, TypeOK, ApiProcess, RequestsAreComplete, SaveCommand,
       HeldByApis
  <2>2. PICK next \in ClientNext(p.base, p.command) :
          /\ sessions[p.session].rev = p.base.rev
          /\ sessions' = [sessions EXCEPT ![p.session] = next]
    BY <1>5 DEF SaveCommand, Accepts, Current
  <2>3. p.base = sessions[p.session]
    BY <2>1, <2>2 DEF Held
  <2>4. EventTargets(p.base, p.command.event, p.base.failure) # {}
    BY <2>2 DEF ClientNext
  <2>5. p.command.event \in {"SELECT_DIRECTION", "SUBMIT_ANSWER", "EDIT_ANSWER", "SKIP_QUESTION",
                             "CONFIRM_QUESTION", "ADVANCE_QUESTION", "RETRY", "START_STAGE"}
    BY <2>1 DEF Commands, PointerCommands
  <2>6. p.base.state \notin WaitingStates
    BY <2>4, <2>5 DEF EventTargets, NormalTransitions, WaitingStates
  <2> QED
    BY <1>1, <1>3, <2>2, <2>3, <2>6
<1>6. ASSUME NEW w \in Workers, SaveGenerated(w) \/ SaveFailure(w)
      PROVE  sessions'[k.session] = sessions[k.session]
  <2> DEFINE l == workers[w].job
  <2>1. /\ workers[w].pc \in {"GENERATING", "RECORDING"} /\ l # k
        /\ \E next : sessions' = [sessions EXCEPT ![l.session] = next]
    BY <1>6 DEF SaveGenerated, SaveFailure
  <2>2. l \in DOMAIN jobs /\ AtBoundary(l)
    BY <1>1, <2>1 DEF QuietInv, RevisionInv, TypeInv, ClaimIsExclusive, GenerationUndisturbed
  <2>3. l.session # k.session
    BY <1>1, <2>1, <2>2, FittingJobIsUnique
  <2> QED
    BY <1>1, <2>1, <2>3
<1>7. ASSUME NEW a \in Apis, Command(a), ~SaveCommand(a) PROVE sessions' = sessions
  BY <1>7 DEF Command, LookUp, ReadAndApply, Refuse, SaveRefused, ApiCrash, db
<1>8. ASSUME NEW w \in Workers, Work(w) \/ WorkerCrash(w), ~(SaveGenerated(w) \/ SaveFailure(w))
      PROVE  sessions' = sessions
  BY <1>8 DEF Work, WorkerCrash, Claim, ReadSession, GatewayFails, OutputRejected,
     QuestionPointerChanged, SaveConflicts, ReadForFailure, SaveFailureRefused,
     FinishJob, StorageFails, db
<1>9. CASE UNCHANGED vars
  BY <1>9, <1>1 DEF vars, AtBoundary
<1>10. ASSUME NEW id \in SessionIds PROVE ~Direct(id)
  BY DEF Direct, WriteDirectly, RecordFailure
<1>11. sessions'[k.session] = sessions[k.session]
  BY <1>4, <1>5, <1>6, <1>7, <1>8, <1>9, <1>10 DEF Next, vars
<1> QED
  BY <1>2, <1>11 DEF AtBoundary

(* What a step does to a row: Claim takes a queued one, FinishJob ends the *)
(* one its Worker holds.                                                   *)
LEMMA RowSteps ==
  ASSUME RevisionInv, [Next]_vars, NEW k \in DOMAIN jobs
  PROVE  \/ jobs'[k] = jobs[k]
         \/ jobs'[k].state = "RUNNING" /\ jobs[k].state = "QUEUED"
         \/ \E w \in Workers : /\ FinishJob(w) /\ workers[w].job = k
                               /\ jobs'[k].state \in {"SUCCEEDED", "FAILED"}
                               /\ jobs'[k].state = "SUCCEEDED" => workers[w].pc = "SUCCEEDING"
<1> DEFINE Good == \/ jobs'[k] = jobs[k]
                   \/ jobs'[k].state = "RUNNING" /\ jobs[k].state = "QUEUED"
                   \/ \E w \in Workers :
                        /\ FinishJob(w) /\ workers[w].job = k
                        /\ jobs'[k].state \in {"SUCCEEDED", "FAILED"}
                        /\ jobs'[k].state = "SUCCEEDED" => workers[w].pc = "SUCCEEDING"
<1>1. \A l \in DOMAIN jobs : jobs[l] \in JobRow
  BY DEF RevisionInv, TypeInv, TypeOK
<1>2. ASSUME NEW w \in Workers, Claim(w) PROVE Good
  <2>1. PICK l \in DOMAIN jobs :
          /\ jobs[l].state = "QUEUED"
          /\ jobs' = [jobs EXCEPT ![l] = [jobs[l] EXCEPT !.state = "RUNNING", !.worker = w]]
    BY <1>2 DEF Claim
  <2>2. [jobs[l] EXCEPT !.state = "RUNNING", !.worker = w].state = "RUNNING"
    BY <1>1 DEF JobRow
  <2>3. CASE l = k
    BY <2>1, <2>2, <2>3
  <2>4. CASE l # k
    BY <2>1, <2>4
  <2> QED
    BY <2>3, <2>4
<1>3. ASSUME NEW w \in Workers, FinishJob(w) PROVE Good
  <2>1. PICK outcome \in {"SUCCEEDED", "FAILED"} :
          /\ outcome = "SUCCEEDED" => workers[w].pc = "SUCCEEDING"
          /\ jobs' = [jobs EXCEPT ![workers[w].job] =
                        [jobs[workers[w].job] EXCEPT !.state = outcome]]
    BY <1>3 DEF FinishJob
  <2>2. CASE workers[w].job = k
    <3>1. jobs'[k] = [jobs[k] EXCEPT !.state = outcome]
      BY <2>1, <2>2
    <3>2. jobs'[k].state = outcome
      BY <1>1, <3>1 DEF JobRow
    <3> QED
      BY <1>3, <2>1, <2>2, <3>2
  <2>3. CASE workers[w].job # k
    BY <2>1, <2>3
  <2> QED
    BY <2>2, <2>3
<1>5. ASSUME NEW new, jobs' = WithJobs(new) PROVE Good
  BY <1>5, WithJobsKeepsRows
<1>6. ASSUME NEW id \in SessionIds, NEW p \in Offered, Creation(id, p) PROVE Good
  BY <1>5, <1>6 DEF Creation, RequestDirections, CreateSession
<1>7. ASSUME NEW a \in Apis, Command(a) PROVE Good
  BY <1>5, <1>7 DEF Command, LookUp, ReadAndApply, Refuse, SaveCommand, SaveRefused, ApiCrash, db
<1>8. ASSUME NEW id \in SessionIds, Direct(id) PROVE Good
  BY <1>8 DEF Direct, WriteDirectly, RecordFailure
<1>9. ASSUME NEW w \in Workers, Work(w) \/ WorkerCrash(w), ~(Claim(w) \/ FinishJob(w)) PROVE Good
  BY <1>9 DEF Work, WorkerCrash, ReadSession, GatewayFails, OutputRejected,
     QuestionPointerChanged, SaveGenerated, SaveConflicts, ReadForFailure, SaveFailure,
     SaveFailureRefused, StorageFails, db
<1>10. CASE UNCHANGED vars
  BY <1>10 DEF vars
<1> QED
  BY <1>2, <1>3, <1>6, <1>7, <1>8, <1>9, <1>10 DEF Next

(* How a Worker comes to hold a job that is not done: it goes on with it,  *)
(* without having written its session, or has just claimed it; and how it  *)
(* comes to report success.                                                *)
LEMMA HoldingSteps ==
  ASSUME TypeInv, [Next]_vars, NEW w \in Workers
  PROVE  /\ workers'[w].pc \in Holding =>
              \/ /\ workers[w].pc \in Holding /\ workers'[w].job = workers[w].job
                 /\ ~(SaveGenerated(w) \/ SaveFailure(w))
              \/ /\ workers'[w].job \in DOMAIN jobs /\ jobs[workers'[w].job].state = "QUEUED"
                 /\ \A v \in Workers : ~(SaveGenerated(v) \/ SaveFailure(v))
         /\ workers'[w].pc = "SUCCEEDING" =>
              /\ workers'[w].job = workers[w].job
              /\ \/ workers[w].pc = "SUCCEEDING"
                 \/ SaveGenerated(w)
                 \/ workers[w].pc = "CLAIMED" /\ AlreadyDone(workers[w].job)
<1> DEFINE Held1 == /\ workers[w].pc \in Holding /\ workers'[w].job = workers[w].job
                    /\ ~(SaveGenerated(w) \/ SaveFailure(w))
           Claimed1 == /\ workers'[w].job \in DOMAIN jobs /\ jobs[workers'[w].job].state = "QUEUED"
                       /\ \A v \in Workers : ~(SaveGenerated(v) \/ SaveFailure(v))
           Done1 == /\ workers'[w].job = workers[w].job
                    /\ \/ workers[w].pc = "SUCCEEDING"
                       \/ SaveGenerated(w)
                       \/ workers[w].pc = "CLAIMED" /\ AlreadyDone(workers[w].job)
           Good == /\ workers'[w].pc \in Holding => Held1 \/ Claimed1
                   /\ workers'[w].pc = "SUCCEEDING" => Done1
<1>1. workers \in [Workers -> WorkerProcess]
  BY DEF TypeInv, TypeOK
<1>2. ASSUME NEW x \in Workers, SaveGenerated(x) \/ SaveFailure(x)
      PROVE  /\ workers[x].pc \in {"GENERATING", "RECORDING"}
             /\ \E pc \in {"SUCCEEDING", "FAILING"} : WorkerGoes(x, pc)
  BY <1>2 DEF SaveGenerated, SaveFailure
<1>3. ASSUME NEW x \in Workers, NEW pc, WorkerGoes(x, pc)
      PROVE  /\ workers'[x].pc = pc /\ workers'[x].job = workers[x].job
             /\ \A y \in Workers \ {x} : workers'[y] = workers[y]
  <2>1. /\ [workers[x] EXCEPT !.pc = pc].pc = pc
        /\ [workers[x] EXCEPT !.pc = pc].job = workers[x].job
    BY <1>1 DEF WorkerProcess
  <2> QED
    BY <1>1, <1>3, <2>1 DEF WorkerGoes
<1>4. ASSUME NEW x \in Workers, NEW pc, NEW error, NEW snap,
             workers' = [workers EXCEPT ![x] = [@ EXCEPT !.pc = pc, !.error = error, !.snap = snap]]
      PROVE  /\ workers'[x].pc = pc /\ workers'[x].job = workers[x].job
             /\ \A y \in Workers \ {x} : workers'[y] = workers[y]
  <2>1. /\ [workers[x] EXCEPT !.pc = pc, !.error = error, !.snap = snap].pc = pc
        /\ [workers[x] EXCEPT !.pc = pc, !.error = error, !.snap = snap].job = workers[x].job
    BY <1>1 DEF WorkerProcess
  <2> QED
    BY <1>1, <1>4, <2>1
<1>5. ASSUME NEW x \in Workers, NEW pc, NEW snap,
             workers' = [workers EXCEPT ![x] = [@ EXCEPT !.pc = pc, !.snap = snap]]
      PROVE  /\ workers'[x].pc = pc /\ workers'[x].job = workers[x].job
             /\ \A y \in Workers \ {x} : workers'[y] = workers[y]
  <2>1. /\ [workers[x] EXCEPT !.pc = pc, !.snap = snap].pc = pc
        /\ [workers[x] EXCEPT !.pc = pc, !.snap = snap].job = workers[x].job
    BY <1>1 DEF WorkerProcess
  <2> QED
    BY <1>1, <1>5, <2>1
<1>6. ASSUME NEW x \in Workers, NEW error, WorkerErrs(x, error)
      PROVE  /\ workers'[x].pc = "ERRING" /\ workers'[x].job = workers[x].job
             /\ \A y \in Workers \ {x} : workers'[y] = workers[y]
  BY <1>4, <1>6 DEF WorkerErrs
<1>7. ASSUME NEW x \in Workers, SaveGenerated(x) \/ SaveFailure(x)
      PROVE  workers'[x].pc \in {"SUCCEEDING", "FAILING"} /\ workers[x].pc \in Holding
  BY <1>2, <1>3, <1>7 DEF Holding
<1>8. CASE workers'[w] = workers[w]
  BY <1>7, <1>8 DEF Holding
<1>9. ASSUME workers[w].pc \in Holding, workers'[w].job = workers[w].job,
             workers'[w].pc \in Holding \cup {"FAILING"}
      PROVE  Good
  BY <1>7, <1>9 DEF Holding
<1>10. ASSUME NEW x \in Workers, Claim(x) PROVE Good
  <2>1. PICK k \in DOMAIN jobs :
          /\ jobs[k].state = "QUEUED" /\ workers[x].pc = "IDLE"
          /\ workers' = [workers EXCEPT ![x] = [IdleWorker EXCEPT !.pc = "CLAIMED", !.job = k]]
    BY <1>10 DEF Claim
  <2>2. /\ [IdleWorker EXCEPT !.pc = "CLAIMED", !.job = k].job = k
        /\ [IdleWorker EXCEPT !.pc = "CLAIMED", !.job = k].pc = "CLAIMED"
    BY DEF IdleWorker
  <2>3. CASE x = w
    <3>1. workers'[w].job = k /\ workers'[w].pc = "CLAIMED"
      BY <1>1, <2>1, <2>2, <2>3
    <3>2. \A v \in Workers : ~(SaveGenerated(v) \/ SaveFailure(v))
      <4> SUFFICES ASSUME NEW v \in Workers, SaveGenerated(v) \/ SaveFailure(v) PROVE FALSE
        OBVIOUS
      <4>1. workers'[v].pc \in {"SUCCEEDING", "FAILING"} /\ workers[v].pc \in Holding
        BY <1>7
      <4>2. v # x
        BY <2>1, <4>1 DEF Holding
      <4>3. workers'[v] = workers[v]
        BY <1>1, <2>1, <4>2
      <4> QED
        BY <4>1, <4>3 DEF Holding
    <3> QED
      BY <2>1, <3>1, <3>2
  <2>4. CASE x # w
    BY <1>1, <1>8, <2>1, <2>4
  <2> QED
    BY <2>3, <2>4
<1>11. ASSUME NEW x \in Workers, workers' = [workers EXCEPT ![x] = IdleWorker] PROVE Good
  BY <1>1, <1>8, <1>11, IdleWorkerType DEF Holding
<1>12. ASSUME NEW x \in Workers, ReadSession(x) PROVE Good
  <2>1. workers[x].pc = "CLAIMED"
    BY <1>12 DEF ReadSession
  <2>2. \/ AlreadyDone(workers[x].job) /\ WorkerGoes(x, "SUCCEEDING")
        \/ \E error : WorkerErrs(x, error)
        \/ \E snap : workers' = [workers EXCEPT ![x] = [@ EXCEPT !.pc = "GENERATING", !.snap = snap]]
    BY <1>12 DEF ReadSession
  <2>3. /\ workers'[x].job = workers[x].job
        /\ \A y \in Workers \ {x} : workers'[y] = workers[y]
        /\ \/ workers'[x].pc = "SUCCEEDING" /\ AlreadyDone(workers[x].job)
           \/ workers'[x].pc \in Holding
    <3>1. CASE AlreadyDone(workers[x].job) /\ WorkerGoes(x, "SUCCEEDING")
      BY <1>3, <3>1
    <3>2. ASSUME NEW error, WorkerErrs(x, error)
          PROVE  /\ workers'[x].pc = "ERRING" /\ workers'[x].job = workers[x].job
                 /\ \A y \in Workers \ {x} : workers'[y] = workers[y]
      BY <1>6, <3>2
    <3>3. ASSUME NEW snap,
                 workers' = [workers EXCEPT ![x] = [@ EXCEPT !.pc = "GENERATING", !.snap = snap]]
          PROVE  /\ workers'[x].pc = "GENERATING" /\ workers'[x].job = workers[x].job
                 /\ \A y \in Workers \ {x} : workers'[y] = workers[y]
      BY <1>5, <3>3
    <3> QED
      BY <2>2, <3>1, <3>2, <3>3 DEF Holding
  <2>4. CASE x = w
    <3>1. CASE workers'[w].pc \in Holding
      BY <1>9, <2>1, <2>3, <2>4, <3>1 DEF Holding
    <3>2. CASE workers'[w].pc = "SUCCEEDING" /\ AlreadyDone(workers[w].job)
      BY <2>1, <2>3, <2>4, <3>2 DEF Holding
    <3> QED
      BY <2>3, <2>4, <3>1, <3>2
  <2> QED
    BY <1>8, <2>3, <2>4
<1>13. ASSUME NEW x \in Workers,
              GatewayFails(x) \/ OutputRejected(x) \/ QuestionPointerChanged(x) \/ SaveConflicts(x)
       PROVE  Good
  <2>1. workers[x].pc = "GENERATING" /\ \E error : WorkerErrs(x, error)
    BY <1>13 DEF GatewayFails, OutputRejected, QuestionPointerChanged, SaveConflicts
  <2> QED
    BY <1>6, <1>8, <1>9, <2>1 DEF Holding
<1>14. ASSUME NEW x \in Workers, SaveGenerated(x) PROVE Good
  <2>1. workers[x].pc = "GENERATING" /\ WorkerGoes(x, "SUCCEEDING")
    BY <1>14 DEF SaveGenerated
  <2>2. CASE x = w
    BY <1>3, <1>14, <2>1, <2>2 DEF Holding
  <2> QED
    BY <1>3, <1>8, <2>1, <2>2
<1>15. ASSUME NEW x \in Workers, SaveFailure(x) \/ SaveFailureRefused(x) PROVE Good
  <2>1. workers[x].pc = "RECORDING" /\ WorkerGoes(x, "FAILING")
    BY <1>15 DEF SaveFailure, SaveFailureRefused
  <2> QED
    BY <1>3, <1>8, <1>9, <2>1 DEF Holding
<1>16. ASSUME NEW x \in Workers, ReadForFailure(x) PROVE Good
  <2>1. /\ workers[x].pc = "ERRING"
        /\ \/ WorkerGoes(x, "FAILING")
           \/ \E snap : workers' = [workers EXCEPT ![x] = [@ EXCEPT !.pc = "RECORDING", !.snap = snap]]
    BY <1>16 DEF ReadForFailure
  <2>2. CASE WorkerGoes(x, "FAILING")
    BY <1>3, <1>8, <1>9, <2>1, <2>2 DEF Holding
  <2>3. ASSUME NEW snap,
               workers' = [workers EXCEPT ![x] = [@ EXCEPT !.pc = "RECORDING", !.snap = snap]]
        PROVE  /\ workers'[x].pc = "RECORDING" /\ workers'[x].job = workers[x].job
               /\ \A y \in Workers \ {x} : workers'[y] = workers[y]
    BY <1>5, <2>3
  <2>4. ASSUME /\ workers'[x].pc = "RECORDING" /\ workers'[x].job = workers[x].job
               /\ \A y \in Workers \ {x} : workers'[y] = workers[y]
        PROVE  Good
    <3>1. CASE x = w
      BY <1>9, <2>1, <2>4, <3>1 DEF Holding
    <3>2. CASE x # w
      BY <1>8, <2>4, <3>2
    <3> QED
      BY <3>1, <3>2
  <2> QED
    BY <2>1, <2>2, <2>3, <2>4
<1>17. ASSUME NEW x \in Workers, StorageFails(x) PROVE Good
  <2>1. \/ workers[x].pc \in {"CLAIMED", "GENERATING"} /\ WorkerErrs(x, "STORAGE")
        \/ workers[x].pc \in {"ERRING", "RECORDING", "SUCCEEDING"} /\ WorkerGoes(x, "FAILING")
        \/ workers' = [workers EXCEPT ![x] = IdleWorker]
    BY <1>17 DEF StorageFails
  <2>2. CASE workers[x].pc = "SUCCEEDING" /\ WorkerGoes(x, "FAILING")
    BY <1>3, <1>8, <2>2 DEF Holding
  <2> QED
    BY <1>3, <1>6, <1>8, <1>9, <1>11, <2>1, <2>2 DEF Holding
<1>18. ASSUME NEW x \in Workers, Work(x) \/ WorkerCrash(x) PROVE Good
  <2>1. ASSUME FinishJob(x) \/ WorkerCrash(x) PROVE workers' = [workers EXCEPT ![x] = IdleWorker]
    BY <2>1 DEF FinishJob, WorkerCrash
  <2> QED
    BY <1>10, <1>11, <1>12, <1>13, <1>14, <1>15, <1>16, <1>17, <1>18, <2>1 DEF Work
<1>19. ASSUME NEW a \in Apis, Command(a) PROVE workers' = workers
  BY <1>19 DEF Command, LookUp, ReadAndApply, Refuse, SaveCommand, SaveRefused, ApiCrash
<1>20. ASSUME NEW id \in SessionIds, NEW p \in Offered, Creation(id, p) PROVE workers' = workers
  BY <1>20 DEF Creation, RequestDirections, CreateSession
<1>21. ASSUME NEW id \in SessionIds, Direct(id) PROVE workers' = workers
  BY <1>21 DEF Direct, WriteDirectly, RecordFailure
<1>22. CASE UNCHANGED vars
  BY <1>8, <1>22 DEF vars
<1> QED
  BY <1>8, <1>18, <1>19, <1>20, <1>21, <1>22 DEF Next

LEMMA QueuedJobsStayFit ==
  ASSUME ~DirectWrites, QuietInv, [Next]_vars
  PROVE  QueuedJobsFit'
<1> SUFFICES ASSUME NEW k \in DOMAIN jobs', jobs'[k].state = "QUEUED" PROVE AtBoundary(k)'
  BY DEF QueuedJobsFit
<1>1. RevisionInv /\ AStep
  BY StepsOfTheSystem DEF QuietInv, AwaitInv, JobInv
<1>2. CASE k \notin DOMAIN jobs
  BY <1>1, <1>2, NewJobsFit DEF AtBoundary
<1>3. CASE k \in DOMAIN jobs
  <2>1. jobs[k].state = "QUEUED"
    BY <1>1, <1>3, RowSteps
  <2>2. \A w \in Workers : SaveGenerated(w) \/ SaveFailure(w) => workers[w].job # k
    BY <1>1, <2>1 DEF RevisionInv, TypeInv, ClaimIsExclusive, SaveGenerated, SaveFailure
  <2>3. AtBoundary(k)
    BY <1>3, <2>1 DEF QuietInv, QueuedJobsFit
  <2> QED
    BY <1>3, <2>2, <2>3, BoundaryIsKept
<1> QED
  BY <1>2, <1>3

LEMMA HeldJobsStayFit ==
  ASSUME ~DirectWrites, QuietInv, [Next]_vars
  PROVE  GenerationUndisturbed'
<1> SUFFICES ASSUME NEW w \in Workers, workers'[w].pc \in Holding PROVE AtBoundary(workers[w].job)'
  BY DEF GenerationUndisturbed, Holding
<1>1. RevisionInv /\ TypeInv /\ ClaimIsExclusive
  BY DEF QuietInv, AwaitInv, JobInv, RevisionInv, TypeInv
<1>2. CASE /\ workers[w].pc \in Holding /\ workers'[w].job = workers[w].job
           /\ ~(SaveGenerated(w) \/ SaveFailure(w))
  <2>1. PICK k \in DOMAIN jobs : k = workers[w].job
    BY <1>1, <1>2 DEF ClaimIsExclusive, Holding
  <2>2. AtBoundary(k) /\ jobs[k].worker = w
    BY <1>1, <1>2, <2>1 DEF QuietInv, GenerationUndisturbed, ClaimIsExclusive, Holding
  <2>3. ASSUME NEW v \in Workers, SaveGenerated(v) \/ SaveFailure(v) PROVE workers[v].job # k
    <3>1. jobs[workers[v].job].worker = v /\ v # w
      BY <1>1, <1>2, <2>3 DEF ClaimIsExclusive, SaveGenerated, SaveFailure
    <3> QED
      BY <2>2, <3>1
  <2>4. AtBoundary(k)'
    BY <2>2, <2>3, BoundaryIsKept
  <2> QED
    BY <1>2, <2>1, <2>4 DEF AtBoundary
<1>3. CASE /\ workers'[w].job \in DOMAIN jobs /\ jobs[workers'[w].job].state = "QUEUED"
           /\ \A v \in Workers : ~(SaveGenerated(v) \/ SaveFailure(v))
  <2>1. PICK k \in DOMAIN jobs : k = workers'[w].job /\ jobs[k].state = "QUEUED"
    BY <1>3
  <2>2. AtBoundary(k)
    BY <2>1 DEF QuietInv, QueuedJobsFit
  <2>3. AtBoundary(k)'
    BY <1>3, <2>2, BoundaryIsKept
  <2> QED
    BY <2>1, <2>3 DEF AtBoundary
<1> QED
  BY <1>1, <1>2, <1>3, HoldingSteps

LEMMA QuietInvInit == Init => QuietInv
<1> SUFFICES ASSUME Init PROVE QuietInv
  OBVIOUS
<1>1. QueuedJobsFit
  BY DEF Init, NoJobs, QueuedJobsFit
<1>2. GenerationUndisturbed
  BY DEF Init, IdleWorker, GenerationUndisturbed
<1> QED
  BY <1>1, <1>2, AwaitInvInit DEF QuietInv

LEMMA QuietInvStep == ~DirectWrites /\ QuietInv /\ [Next]_vars => QuietInv'
BY AwaitInvStep, QueuedJobsStayFit, HeldJobsStayFit DEF QuietInv

(* Where clients have the command interface only, nothing changes a        *)
(* session under a running generation: the comparisons of runGeneration    *)
(* and the compare-and-set of save never find it moved on.                 *)
THEOREM GenerationsAreUndisturbed ==
  ASSUME ~DirectWrites
  PROVE  Spec => []GenerationUndisturbed
<1>1. QuietInv /\ [Next]_vars => QuietInv'
  BY QuietInvStep
<1>2. QuietInv => GenerationUndisturbed
  BY DEF QuietInv
<1> QED
  BY <1>1, <1>2, QuietInvInit, PTL DEF Spec

-----------------------------------------------------------------------------
(* Reported successes. A job landed when its session is past it and no     *)
(* failure of its revision is on record; both are there for good.          *)
Landed(k) == /\ sessions[k.session].rev > k.rev
             /\ \A row \in failures : row.session = k.session => row.rev # k.rev
FailuresArePast == \A row \in failures : row.rev < sessions[row.session].rev
ReportsAreTrue == \A w \in Workers : workers[w].pc = "SUCCEEDING" => Landed(workers[w].job)

LandedInv == QuietInv /\ FailuresArePast /\ ReportsAreTrue /\ SuccessMeansTheResultLanded

(* A failure on record was there before, or is that of the revision its    *)
(* session has just left.                                                  *)
LEMMA NewFailures ==
  ASSUME RevisionInv, AStep, NEW row \in failures'
  PROVE  /\ row.session \in SessionIds
         /\ \/ \E old \in failures : old.session = row.session /\ old.rev = row.rev
            \/ /\ row.rev = sessions[row.session].rev
               /\ sessions'[row.session].rev = sessions[row.session].rev + 1
<1>1. sessions \in [SessionIds -> Session] /\ failures \subseteq FailureRows
  BY DEF RevisionInv, TypeInv, TypeOK
<1> DEFINE Good == /\ row.session \in SessionIds
                   /\ \/ \E old \in failures : old.session = row.session /\ old.rev = row.rev
                      \/ /\ row.rev = sessions[row.session].rev
                         /\ sessions'[row.session].rev = sessions[row.session].rev + 1
<1>2. CASE row \in failures
  BY <1>1, <1>2 DEF FailureRows
<1>3. ASSUME NEW id \in SessionIds, row \in Superseded(id) PROVE Good
  <2>1. PICK old \in failures : row = (IF old.session = id THEN [old EXCEPT !.superseded = TRUE]
                                       ELSE old)
    BY <1>3 DEF Superseded
  <2>2. /\ [old EXCEPT !.superseded = TRUE].session = old.session
        /\ [old EXCEPT !.superseded = TRUE].rev = old.rev
        /\ old.session \in SessionIds
    BY <1>1, <2>1 DEF FailureRows
  <2> QED
    BY <2>1, <2>2
<1>4. ASSUME NEW id \in SessionIds, NEW c \in Commands, NEW next \in Session, Obeys(id, c, next)
      PROVE  Good
  BY <1>2, <1>3, <1>4 DEF Obeys
<1>5. ASSUME NEW id \in SessionIds, NEW failure \in Failure, NEW next \in Session,
             Fails(id, failure, next)
      PROVE  Good
  <2>1. sessions'[id] = next /\ next.rev = sessions[id].rev + 1
    BY <1>1, <1>5, FailureEffect DEF Fails
  <2>2. CASE row = FailureRow(id, sessions[id].rev, failure)
    <3>1. row.session = id /\ row.rev = sessions[id].rev
      BY <2>2 DEF FailureRow
    <3> QED
      BY <2>1, <3>1
  <2> QED
    BY <1>2, <1>5, <2>2 DEF Fails
<1> QED
  BY <1>2, <1>4, <1>5 DEF AStep, Rests, Starts, Produces

LEMMA LandedStays ==
  ASSUME RevisionInv, [Next]_vars, NEW k \in JobKey, Landed(k)
  PROVE  Landed(k)'
<1>1. AStep /\ Advancing /\ k.session \in SessionIds /\ k.rev \in Nat
  BY StepsOfTheSystem, StepsAdvance DEF JobKey
<1>2. sessions[k.session].rev \in Nat /\ sessions'[k.session].rev \in Nat
  BY <1>1, TypeInvStep DEF RevisionInv, TypeInv, TypeOK, Session
<1>3. sessions'[k.session].rev > k.rev
  BY <1>1, <1>2 DEF Advancing, Landed
<1>4. ASSUME NEW row \in failures', row.session = k.session PROVE row.rev # k.rev
  BY <1>1, <1>2, <1>4, NewFailures DEF Landed
<1> QED
  BY <1>3, <1>4 DEF Landed

LEMMA FailuresStayPast ==
  ASSUME RevisionInv, [Next]_vars, FailuresArePast
  PROVE  FailuresArePast'
<1> SUFFICES ASSUME NEW row \in failures' PROVE row.rev < sessions'[row.session].rev
  BY DEF FailuresArePast
<1>1. AStep /\ Advancing
  BY StepsOfTheSystem, StepsAdvance
<1>2. row.session \in SessionIds
  BY <1>1, NewFailures
<1>3. sessions[row.session].rev \in Nat /\ sessions'[row.session].rev \in Nat
  BY <1>2, TypeInvStep DEF RevisionInv, TypeInv, TypeOK, Session
<1>4. CASE \E old \in failures : old.session = row.session /\ old.rev = row.rev
  <2>1. PICK old \in failures : old.session = row.session /\ old.rev = row.rev
    BY <1>4
  <2>2. row.rev < sessions[row.session].rev /\ row.rev \in Nat
    BY <2>1 DEF FailuresArePast, RevisionInv, TypeInv, TypeOK, FailureRows
  <2> QED
    BY <1>1, <1>2, <1>3, <2>2 DEF Advancing
<1>5. CASE /\ row.rev = sessions[row.session].rev
           /\ sessions'[row.session].rev = sessions[row.session].rev + 1
  BY <1>3, <1>5
<1> QED
  BY <1>1, <1>4, <1>5, NewFailures

LEMMA ReportsStayTrue ==
  ASSUME LandedInv, [Next]_vars
  PROVE  ReportsAreTrue'
<1> SUFFICES ASSUME NEW w \in Workers, workers'[w].pc = "SUCCEEDING"
             PROVE  Landed(workers[w].job)'
  BY DEF ReportsAreTrue
<1>1. RevisionInv /\ TypeInv /\ ClaimIsExclusive /\ sessions \in [SessionIds -> Session]
  BY DEF LandedInv, QuietInv, AwaitInv, JobInv, RevisionInv, TypeInv, TypeOK
<1>2. /\ workers'[w].job = workers[w].job
      /\ \/ workers[w].pc = "SUCCEEDING"
         \/ SaveGenerated(w)
         \/ workers[w].pc = "CLAIMED" /\ AlreadyDone(workers[w].job)
  BY <1>1, HoldingSteps
<1>3. workers[w].pc # "IDLE"
  BY <1>2 DEF SaveGenerated
<1>4. PICK k \in DOMAIN jobs : k = workers[w].job
  BY <1>1, <1>3 DEF ClaimIsExclusive
<1>5. k \in JobKey /\ k.session \in SessionIds /\ k.rev \in Nat
  BY <1>1 DEF TypeInv, TypeOK, JobKey
<1>6. CASE workers[w].pc = "SUCCEEDING"
  <2>1. Landed(k)'
    BY <1>1, <1>4, <1>5, <1>6, LandedStays DEF LandedInv, ReportsAreTrue
  <2> QED
    BY <1>2, <1>4, <2>1 DEF Landed
<1>7. CASE SaveGenerated(w)
  <2>1. sessions[k.session].rev = k.rev /\ failures' = failures
    BY <1>4, <1>7 DEF SaveGenerated
  <2>2. sessions'[k.session].rev = k.rev + 1
    BY <1>1, <1>4, <1>5, <1>7, <2>1, WorkerWrites
  <2>3. \A row \in failures : row.session = k.session => row.rev # k.rev
    <3> SUFFICES ASSUME NEW row \in failures, row.session = k.session PROVE row.rev # k.rev
      OBVIOUS
    <3>1. row.rev < k.rev
      BY <2>1 DEF LandedInv, FailuresArePast
    <3> QED
      BY <1>5, <3>1
  <2>4. Landed(k)'
    BY <1>5, <2>1, <2>2, <2>3 DEF Landed
  <2> QED
    BY <1>2, <1>4, <2>4 DEF Landed
<1>8. CASE workers[w].pc = "CLAIMED" /\ AlreadyDone(workers[w].job)
  <2>1. sessions[k.session].rev = k.rev /\ sessions[k.session].rev > k.rev
    BY <1>4, <1>8 DEF LandedInv, QuietInv, GenerationUndisturbed, AtBoundary, AlreadyDone
  <2> QED
    BY <1>5, <2>1
<1> QED
  BY <1>2, <1>6, <1>7, <1>8

LEMMA SuccessesStayTrue ==
  ASSUME LandedInv, [Next]_vars
  PROVE  SuccessMeansTheResultLanded'
<1> SUFFICES ASSUME NEW k \in DOMAIN jobs', jobs'[k].state = "SUCCEEDED" PROVE Landed(k)'
  BY DEF SuccessMeansTheResultLanded, Landed
<1>1. RevisionInv /\ AStep
  BY StepsOfTheSystem DEF LandedInv, QuietInv, AwaitInv, JobInv
<1>2. k \in DOMAIN jobs
  BY <1>1, NewJobsFit
<1>3. k \in JobKey
  BY <1>1, <1>2 DEF RevisionInv, TypeInv, TypeOK
<1>4. \/ jobs[k].state = "SUCCEEDED"
      \/ \E w \in Workers : workers[w].job = k /\ workers[w].pc = "SUCCEEDING"
  BY <1>1, <1>2, RowSteps
<1>5. Landed(k)
  BY <1>2, <1>4 DEF LandedInv, SuccessMeansTheResultLanded, ReportsAreTrue, Landed
<1> QED
  BY <1>1, <1>3, <1>5, LandedStays

LEMMA LandedInvInit == Init => LandedInv
<1> SUFFICES ASSUME Init PROVE LandedInv
  OBVIOUS
<1>1. FailuresArePast /\ SuccessMeansTheResultLanded
  BY DEF Init, NoJobs, FailuresArePast, SuccessMeansTheResultLanded
<1>2. ReportsAreTrue
  BY DEF Init, IdleWorker, ReportsAreTrue
<1> QED
  BY <1>1, <1>2, QuietInvInit DEF LandedInv

LEMMA LandedInvStep == ~DirectWrites /\ LandedInv /\ [Next]_vars => LandedInv'
<1> SUFFICES ASSUME ~DirectWrites, LandedInv, [Next]_vars PROVE LandedInv'
  OBVIOUS
<1>1. RevisionInv /\ QuietInv
  BY DEF LandedInv, QuietInv, AwaitInv, JobInv
<1> QED
  BY <1>1, QuietInvStep, FailuresStayPast, ReportsStayTrue, SuccessesStayTrue DEF LandedInv

(* A job is reported SUCCEEDED only when its result is in the session: not *)
(* when the session moved on without it, and not after its own failure.    *)
THEOREM NoGenerationIsLostQuietly ==
  ASSUME ~DirectWrites
  PROVE  Spec => []SuccessMeansTheResultLanded
<1>1. LandedInv /\ [Next]_vars => LandedInv'
  BY LandedInvStep
<1>2. LandedInv => SuccessMeansTheResultLanded
  BY DEF LandedInv
<1> QED
  BY <1>1, <1>2, LandedInvInit, PTL DEF Spec
-----------------------------------------------------------------------------
(* Without crashes and storage errors nobody gives a fitting job up: it is *)
(* queued, or held by the Worker that is at it.                            *)
Kept(k) == \/ jobs[k].state = "QUEUED"
           \/ /\ jobs[k].state = "RUNNING"
              /\ \E w \in Workers : workers[w].job = k /\ workers[w].pc \in Holding
FittingJobsAreKept == \A k \in DOMAIN jobs : AtBoundary(k) => Kept(k)

LiveInv == QuietInv /\ SessionsAreRegular /\ FittingJobsAreKept

(* Only Claim takes a job from the queue, and its Worker is then at it.    *)
LEMMA TakenJobsAreHeld ==
  ASSUME TypeInv, [Next]_vars, NEW k \in DOMAIN jobs, jobs[k].state = "QUEUED"
  PROVE  Kept(k)'
<1>1. (\A l \in DOMAIN jobs : jobs[l] \in JobRow) /\ workers \in [Workers -> WorkerProcess]
  BY DEF TypeInv, TypeOK
<1>2. ASSUME NEW w \in Workers, Claim(w) PROVE Kept(k)'
  <2>1. PICK l \in DOMAIN jobs :
          /\ jobs' = [jobs EXCEPT ![l] = [jobs[l] EXCEPT !.state = "RUNNING", !.worker = w]]
          /\ workers' = [workers EXCEPT ![w] = [IdleWorker EXCEPT !.pc = "CLAIMED", !.job = l]]
    BY <1>2 DEF Claim
  <2>2. CASE l = k
    <3>1. jobs'[k].state = "RUNNING"
      BY <1>1, <2>1, <2>2 DEF JobRow
    <3>2. /\ [IdleWorker EXCEPT !.pc = "CLAIMED", !.job = l].job = k
          /\ [IdleWorker EXCEPT !.pc = "CLAIMED", !.job = l].pc = "CLAIMED"
      BY <2>2 DEF IdleWorker
    <3>3. workers'[w].job = k /\ workers'[w].pc = "CLAIMED"
      BY <1>1, <2>1, <3>2
    <3> QED
      BY <3>1, <3>3 DEF Kept, Holding
  <2>3. CASE l # k
    BY <2>1, <2>3 DEF Kept
  <2> QED
    BY <2>2, <2>3
<1>3. ASSUME NEW w \in Workers, FinishJob(w) PROVE Kept(k)'
  <2>1. workers[w].job # k
    BY <1>3 DEF FinishJob
  <2>2. jobs'[k] = jobs[k]
    BY <1>3, <2>1 DEF FinishJob
  <2> QED
    BY <2>2 DEF Kept
<1>4. ASSUME NEW new, jobs' = WithJobs(new) PROVE Kept(k)'
  BY <1>4, WithJobsKeepsRows DEF Kept
<1>5. CASE jobs' = jobs
  BY <1>5 DEF Kept
<1>6. ASSUME NEW id \in SessionIds, NEW p \in Offered, Creation(id, p) PROVE Kept(k)'
  BY <1>4, <1>5, <1>6 DEF Creation, RequestDirections, CreateSession
<1>7. ASSUME NEW a \in Apis, Command(a) PROVE Kept(k)'
  BY <1>4, <1>5, <1>7 DEF Command, LookUp, ReadAndApply, Refuse, SaveCommand, SaveRefused, ApiCrash, db
<1>8. ASSUME NEW id \in SessionIds, Direct(id) PROVE jobs' = jobs
  BY <1>8 DEF Direct, WriteDirectly, RecordFailure
<1>9. ASSUME NEW w \in Workers, Work(w) \/ WorkerCrash(w), ~(Claim(w) \/ FinishJob(w))
      PROVE  jobs' = jobs
  BY <1>9 DEF Work, WorkerCrash, ReadSession, GatewayFails, OutputRejected,
     QuestionPointerChanged, SaveGenerated, SaveConflicts, ReadForFailure, SaveFailure,
     SaveFailureRefused, StorageFails, db
<1> QED
  BY <1>2, <1>3, <1>5, <1>6, <1>7, <1>8, <1>9 DEF Next, vars

(* The failure of a job that fits is always recorded: it leads to a        *)
(* regular session, so neither the event nor the validator refuses it.     *)
LEMMA FailuresAreRecorded ==
  ASSUME QuietInv, SessionsAreRegular, NEW w \in Workers, workers[w].pc = "RECORDING"
  PROVE  ~SaveFailureRefused(w)
<1> DEFINE k == workers[w].job
           s == sessions[k.session]
           failure == FailureOf(w)
<1>1. /\ RevisionInv /\ k \in DOMAIN jobs /\ AtBoundary(k)
      /\ k \in JobKey /\ k.session \in SessionIds
  BY DEF QuietInv, AwaitInv, JobInv, RevisionInv, TypeInv, TypeOK, ClaimIsExclusive,
     GenerationUndisturbed, JobKey
<1>2. s.rev = k.rev /\ s.state = jobs[k].expected /\ Regular(s) /\ s \in Session
  BY <1>1 DEF AtBoundary, SessionsAreRegular, Regular
<1>3. workers[w].snap = s
  BY <1>1, <1>2 DEF RevisionInv, HeldByWorkers, Held
<1>4. <<s.state, k.op>> \in Awaits
  BY <1>1, <1>2 DEF QuietInv, AwaitInv, JobsAreAwaited
<1>5. /\ s.state \in FailureSources /\ IsValidFailureResume(k.op, s.state)
  BY <1>4 DEF Awaits, FailureSources, IsValidFailureResume
<1>6. /\ failure = [class |-> failure.class, op |-> failure.op, resume |-> failure.resume]
      /\ failure.class \in {"RETRYABLE", "PERMANENT"} /\ failure.op = k.op
      /\ failure.resume = s.state
  BY <1>2 DEF FailureOf
<1> HIDE DEF failure
<1> DEFINE event == IF failure.class = "RETRYABLE" THEN "RETRYABLE_FAILURE" ELSE "PERMANENT_FAILURE"
           target == IF event = "RETRYABLE_FAILURE" THEN "RETRYABLE_FAILURE" ELSE "FAILED"
<1>7. target \in EventTargets(s, event, failure)
  BY <1>5, <1>6 DEF EventTargets, States
<1>8. [Moved(s, target) EXCEPT !.failure = failure] \in Failing(s, failure)
  BY <1>7 DEF Failing
<1>9. PICK next \in Failing(s, failure) : TRUE
  BY <1>8
<1>10. failure \in Failure
  BY <1>2, <1>6, <1>9, FailureIsTyped
<1>11. Consistent(next)
  BY <1>2, <1>10, FailuresKeepRegular DEF Regular
<1> QED
  BY <1>2, <1>3, <1>11 DEF SaveFailureRefused, failure

(* A Worker lets go of the job it is at only by writing its session.       *)
LEMMA HeldJobsAreKept ==
  ASSUME QuietInv, SessionsAreRegular, [Next]_vars, "STORAGE" \notin Faults, "CRASH" \notin Faults,
         NEW w \in Workers, workers[w].pc \in Holding, ~SaveGenerated(w), ~SaveFailure(w)
  PROVE  workers'[w].job = workers[w].job /\ workers'[w].pc \in Holding
<1> DEFINE Good == workers'[w].job = workers[w].job /\ workers'[w].pc \in Holding
<1>1. /\ workers \in [Workers -> WorkerProcess] /\ workers[w].job \in JobKey
      /\ AtBoundary(workers[w].job) /\ sessions \in [SessionIds -> Session]
  BY DEF QuietInv, AwaitInv, JobInv, RevisionInv, TypeInv, TypeOK, ClaimIsExclusive,
     GenerationUndisturbed, Holding
<1>2. ~AlreadyDone(workers[w].job)
  <2>1. workers[w].job.session \in SessionIds /\ workers[w].job.rev \in Nat
    BY <1>1 DEF JobKey
  <2> QED
    BY <1>1, <2>1 DEF AlreadyDone, AtBoundary
<1>3. CASE workers'[w] = workers[w]
  BY <1>3
<1>4. ASSUME NEW x \in Workers, x # w, Work(x) PROVE Good
  <2>1. \E v : workers' = [workers EXCEPT ![x] = v]
    BY <1>4 DEF Work, Claim, ReadSession, GatewayFails, OutputRejected, QuestionPointerChanged,
       SaveGenerated, SaveConflicts, ReadForFailure, SaveFailure, SaveFailureRefused, FinishJob,
       StorageFails, WorkerGoes, WorkerErrs
  <2> QED
    BY <1>1, <1>3, <1>4, <2>1
<1>5. ASSUME NEW pc \in Holding, NEW error, NEW snap,
             \/ workers' = [workers EXCEPT ![w] = [workers[w] EXCEPT !.pc = pc, !.error = error,
                                                                     !.snap = snap]]
             \/ workers' = [workers EXCEPT ![w] = [workers[w] EXCEPT !.pc = pc, !.snap = snap]]
      PROVE  Good
  <2>1. /\ [workers[w] EXCEPT !.pc = pc, !.error = error, !.snap = snap].pc = pc
        /\ [workers[w] EXCEPT !.pc = pc, !.error = error, !.snap = snap].job = workers[w].job
        /\ [workers[w] EXCEPT !.pc = pc, !.snap = snap].pc = pc
        /\ [workers[w] EXCEPT !.pc = pc, !.snap = snap].job = workers[w].job
    BY <1>1 DEF WorkerProcess
  <2> QED
    BY <1>1, <1>5, <2>1
<1>6. ASSUME NEW error, WorkerErrs(w, error) PROVE Good
  BY <1>5, <1>6 DEF WorkerErrs, Holding
<1>7. CASE ReadSession(w)
  <2>1. \/ \E error : WorkerErrs(w, error)
        \/ \E snap : workers' = [workers EXCEPT ![w] = [workers[w] EXCEPT !.pc = "GENERATING",
                                                                          !.snap = snap]]
    BY <1>2, <1>7 DEF ReadSession
  <2> QED
    BY <1>5, <1>6, <2>1 DEF Holding
<1>8. CASE GatewayFails(w) \/ OutputRejected(w) \/ QuestionPointerChanged(w) \/ SaveConflicts(w)
  BY <1>6, <1>8 DEF GatewayFails, OutputRejected, QuestionPointerChanged, SaveConflicts
<1>9. CASE ReadForFailure(w)
  <2>1. \E snap : workers' = [workers EXCEPT ![w] = [workers[w] EXCEPT !.pc = "RECORDING",
                                                                       !.snap = snap]]
    BY <1>1, <1>9 DEF ReadForFailure
  <2> QED
    BY <1>5, <2>1 DEF Holding
<1>10. ~Claim(w) /\ ~FinishJob(w) /\ ~StorageFails(w) /\ ~SaveFailureRefused(w)
  <2>1. ~Claim(w) /\ ~FinishJob(w) /\ ~StorageFails(w)
    BY DEF Claim, FinishJob, StorageFails, Holding
  <2>2. ~SaveFailureRefused(w)
    BY FailuresAreRecorded DEF SaveFailureRefused
  <2> QED
    BY <2>1, <2>2
<1>11. ASSUME NEW x \in Workers, Work(x) PROVE Good
  BY <1>4, <1>7, <1>8, <1>9, <1>10, <1>11 DEF Work
<1>12. ASSUME NEW x \in Workers PROVE ~WorkerCrash(x)
  BY DEF WorkerCrash
<1>13. ASSUME NEW a \in Apis, Command(a) PROVE workers' = workers
  BY <1>13 DEF Command, LookUp, ReadAndApply, Refuse, SaveCommand, SaveRefused, ApiCrash
<1>14. ASSUME NEW id \in SessionIds, NEW p \in Offered, Creation(id, p) PROVE workers' = workers
  BY <1>14 DEF Creation, RequestDirections, CreateSession
<1>15. ASSUME NEW id \in SessionIds, Direct(id) PROVE workers' = workers
  BY <1>15 DEF Direct, WriteDirectly, RecordFailure
<1> QED
  BY <1>3, <1>11, <1>12, <1>13, <1>14, <1>15 DEF Next, vars

LEMMA FittingJobsStayKept ==
  ASSUME LiveInv, [Next]_vars, ~DirectWrites, "STORAGE" \notin Faults, "CRASH" \notin Faults
  PROVE  FittingJobsAreKept'
<1> SUFFICES ASSUME NEW k \in DOMAIN jobs', AtBoundary(k)' PROVE Kept(k)'
  BY DEF FittingJobsAreKept
<1>1. RevisionInv /\ TypeInv /\ ClaimIsExclusive /\ AStep /\ Advancing /\ GenerationBoundary
  BY StepsOfTheSystem, StepsAdvance DEF LiveInv, QuietInv, AwaitInv, JobInv, RevisionInv, TypeInv
<1>2. CASE k \notin DOMAIN jobs
  BY <1>1, <1>2, NewJobsFit DEF Kept
<1>3. CASE k \in DOMAIN jobs
  <2>1. k \in JobKey /\ k.session \in SessionIds /\ k.rev \in Nat
    BY <1>1, <1>3 DEF TypeInv, TypeOK, JobKey
  <2>2. sessions[k.session].rev \in Nat /\ sessions'[k.session].rev = k.rev
    BY <1>1, <2>1 DEF TypeInv, TypeOK, Session, AtBoundary
  <2>3. k.rev <= sessions[k.session].rev
    BY <1>1, <1>3 DEF GenerationBoundary
  <2>4. sessions'[k.session] = sessions[k.session]
    BY <1>1, <2>1, <2>2, <2>3 DEF Advancing
  <2>5. AtBoundary(k)
    BY <1>1, <1>3, <2>2, <2>4 DEF AtBoundary, GenerationBoundary
  <2>6. CASE jobs[k].state = "QUEUED"
    BY <1>1, <1>3, <2>6, TakenJobsAreHeld
  <2>7. CASE jobs[k].state # "QUEUED"
    <3>1. jobs[k].state = "RUNNING"
      BY <1>3, <2>5, <2>7 DEF LiveInv, FittingJobsAreKept, Kept
    <3>2. PICK w \in Workers : workers[w].job = k /\ workers[w].pc \in Holding
      BY <1>3, <2>5, <2>7 DEF LiveInv, FittingJobsAreKept, Kept
    <3>3. jobs'[k] = jobs[k]
      <4>1. ASSUME NEW v \in Workers, FinishJob(v), workers[v].job = k PROVE FALSE
        <5>1. jobs[k].worker = v /\ jobs[k].worker = w
          BY <1>1, <3>2, <4>1 DEF FinishJob, ClaimIsExclusive, Holding
        <5> QED
          BY <3>2, <4>1, <5>1 DEF FinishJob, Holding
      <4> QED
        BY <1>1, <1>3, <3>1, <4>1, RowSteps
    <3>4. ~SaveGenerated(w) /\ ~SaveFailure(w)
      <4>1. ASSUME SaveGenerated(w) \/ SaveFailure(w) PROVE FALSE
        <5>1. PICK next \in Session : /\ next.rev = k.rev + 1
                                      /\ sessions' = [sessions EXCEPT ![k.session] = next]
          BY <1>1, <3>2, <4>1, WorkerWrites
        <5>2. sessions'[k.session].rev = k.rev + 1
          BY <1>1, <2>1, <5>1 DEF TypeInv, TypeOK
        <5> QED
          BY <2>1, <2>2, <5>2
      <4> QED
        BY <4>1
    <3>5. workers'[w].job = k /\ workers'[w].pc \in Holding
      BY <3>2, <3>4, HeldJobsAreKept DEF LiveInv
    <3> QED
      BY <3>1, <3>3, <3>5 DEF Kept
  <2> QED
    BY <2>6, <2>7
<1> QED
  BY <1>2, <1>3

LEMMA LiveInvInit == Init => LiveInv
<1> SUFFICES ASSUME Init PROVE LiveInv
  OBVIOUS
<1>1. FittingJobsAreKept
  BY DEF Init, NoJobs, FittingJobsAreKept
<1> QED
  BY <1>1, QuietInvInit, RegularInvInit DEF LiveInv, RegularInv

(* Where clients have the command interface only, and neither processes    *)
(* nor the database fail, a session that waits always has a job somebody   *)
(* will get to or is at: no path through the Worker, not even one that     *)
(* records a failure, drops the job before its session has moved on.       *)
THEOREM WaitingSessionsHaveALiveJob ==
  ASSUME ~DirectWrites, "STORAGE" \notin Faults, "CRASH" \notin Faults
  PROVE  Spec => []WaitingSessionHasALiveJob
<1>1. RegularInv /\ LiveInv /\ [Next]_vars => RegularInv' /\ LiveInv'
  BY RegularInvStep, QuietInvStep, FittingJobsStayKept DEF LiveInv, RegularInv
<1>2. LiveInv => WaitingSessionHasALiveJob
  <2> SUFFICES ASSUME LiveInv, NEW id \in SessionIds, Waiting(id)
               PROVE  \E k \in DOMAIN jobs : k.session = id /\ k.rev = sessions[id].rev /\ Live(k)
    BY DEF WaitingSessionHasALiveJob
  <2>1. PICK k \in DOMAIN jobs : /\ k.session = id /\ k.rev = sessions[id].rev
                                 /\ jobs[k].expected = sessions[id].state
    BY DEF LiveInv, QuietInv, AwaitInv, WaitingSessionHasItsJob
  <2>2. Kept(k)
    BY <2>1 DEF LiveInv, FittingJobsAreKept, AtBoundary
  <2> QED
    BY <2>1, <2>2 DEF Kept, Live
<1>3. Init => RegularInv /\ LiveInv
  BY RegularInvInit, LiveInvInit
<1> QED
  BY <1>1, <1>2, <1>3, PTL DEF Spec
=============================================================================
