------------------------- MODULE GuidedLearningProofs -------------------------
(***************************************************************************)
(* Invariance proofs about GuidedLearning, for any number of sessions,     *)
(* processes, questions and revisions and for any set of faults: types and *)
(* claims; and what session_revision buys. Every write moves a session one *)
(* revision on, so a snapshot read earlier is either current or            *)
(* recognisably old, a recorded command owns its revision, and a           *)
(* generation lands on the revision it was requested for or not at all.    *)
(***************************************************************************)
EXTENDS GuidedLearning, GuidedLearningSessionProofs

-----------------------------------------------------------------------------
(* What the jobs table holds.                                              *)

(* A queued job is a row under a key.                                      *)
LEMMA JobIsTyped ==
  ASSUME NEW id \in SessionIds, NEW op \in Operations, NEW rev \in Nat,
         NEW expected \in States, NEW question \in 0..MaxQuestions
  PROVE  /\ DOMAIN Job(id, op, rev, expected, question) \subseteq JobKey
         /\ \A k \in DOMAIN Job(id, op, rev, expected, question) :
              Job(id, op, rev, expected, question)[k] \in JobRow
<1>1. QueuedRow(expected, question) \in JobRow
  BY DEF QueuedRow, JobRow
<1>2. [session |-> id, op |-> op, rev |-> rev] \in JobKey
  BY DEF JobKey
<1> QED
  BY <1>1, <1>2 DEF Job

(* The state a command leads to, and the failure a RETRY is about.         *)
LEMMA ClientNextState ==
  ASSUME NEW s \in Session, NEW c \in Commands, NEW next \in ClientNext(s, c)
  PROVE  /\ next.state \in States
         /\ c.event = "RETRY" => s.failure.op \in Operations
<1>1. PICK to \in EventTargets(s, c.event, s.failure) : next = Effect(s, c, to)
  BY DEF ClientNext
<1>2. to \in States
  BY <1>1, TargetsAreStates
<1>3. Moved(s, to) \in Session /\ Moved(s, to).state = to
  <2>1. Moved(s, to).state = to
    BY DEF Moved, Session
  <2> QED
    BY <1>2, <2>1, MovedIsASession
<1>4. next.state = Moved(s, to).state
  BY <1>1, <1>3 DEF Effect, Advanced, Session
<1>5. ASSUME c.event = "RETRY" PROVE s.failure.op \in Operations
  BY <1>1, <1>5 DEF EventTargets, IsValidFailureResume, Operations, NormalTransitions
<1> QED
  BY <1>2, <1>3, <1>4, <1>5

LEMMA RequestedIsTyped ==
  ASSUME NEW id \in SessionIds, NEW s \in Session, NEW c \in Commands,
         NEW next \in ClientNext(s, c)
  PROVE  /\ DOMAIN Requested(id, s, next, c.event) \subseteq JobKey
         /\ \A k \in DOMAIN Requested(id, s, next, c.event) :
              Requested(id, s, next, c.event)[k] \in JobRow
<1>1. /\ next \in Session /\ next.rev \in Nat /\ next.current \in 0..MaxQuestions
      /\ next.state \in States
      /\ c.event = "RETRY" => s.failure.op \in Operations
  BY ClientNextIsASession, ClientNextState DEF Session
<1>2. 0 \in 0..MaxQuestions
  BY SessionAssumption
<1>3. {"GENERATE_QUESTIONS", "GENERATE_FEEDBACK", "GENERATE_STAGE_SUMMARY"} \subseteq Operations
  BY DEF Operations
<1>4. {"QUESTIONS_GENERATING", "ANSWER_SUBMITTED", "SUMMARY_GENERATING"} \subseteq States
  BY DEF States
<1>5. DOMAIN NoJobs = {}
  BY DEF NoJobs
<1>6. CASE c.event = "START_STAGE"
  <2>1. Requested(id, s, next, c.event)
          = Job(id, "GENERATE_QUESTIONS", next.rev, "QUESTIONS_GENERATING", 0)
    BY <1>6 DEF Requested
  <2> QED
    BY <2>1, <1>1, <1>2, <1>3, <1>4, JobIsTyped
<1>7. CASE c.event \in {"SUBMIT_ANSWER", "EDIT_ANSWER"}
  <2>1. Requested(id, s, next, c.event)
          = Job(id, "GENERATE_FEEDBACK", next.rev, "ANSWER_SUBMITTED", next.current)
    BY <1>7 DEF Requested
  <2> QED
    BY <2>1, <1>1, <1>3, <1>4, JobIsTyped
<1>8. CASE c.event = "ADVANCE_QUESTION"
  <2>1. Requested(id, s, next, c.event)
          \in {Job(id, "GENERATE_STAGE_SUMMARY", next.rev, "SUMMARY_GENERATING", 0), NoJobs}
    BY <1>8 DEF Requested
  <2> QED
    BY <2>1, <1>1, <1>2, <1>3, <1>4, <1>5, JobIsTyped
<1>9. CASE c.event = "RETRY"
  <2>1. Requested(id, s, next, c.event) = Job(id, s.failure.op, next.rev, next.state, 0)
    BY <1>9 DEF Requested
  <2>2. s.failure.op \in Operations
    BY <1>1, <1>9
  <2> DEFINE j == Job(id, s.failure.op, next.rev, next.state, 0)
  <2>3. DOMAIN j \subseteq JobKey /\ \A k \in DOMAIN j : j[k] \in JobRow
    BY <2>2, <1>1, <1>2, JobIsTyped
  <2> QED
    BY <2>1, <2>3
<1>10. CASE c.event \notin {"START_STAGE", "SUBMIT_ANSWER", "EDIT_ANSWER",
                           "ADVANCE_QUESTION", "RETRY"}
  <2>1. Requested(id, s, next, c.event) = NoJobs
    BY <1>10 DEF Requested
  <2> QED
    BY <2>1, <1>5
<1> QED
  BY <1>6, <1>7, <1>8, <1>9, <1>10

JobsTyped(table) ==
  DOMAIN table \subseteq JobKey /\ \A k \in DOMAIN table : table[k] \in JobRow

(* Inserting jobs leaves every row there was as it was.                    *)
LEMMA WithJobsKeepsRows ==
  ASSUME NEW new
  PROVE  /\ DOMAIN WithJobs(new) = DOMAIN jobs \cup DOMAIN new
         /\ \A k \in DOMAIN jobs : WithJobs(new)[k] = jobs[k]
         /\ \A k \in DOMAIN new \ DOMAIN jobs : WithJobs(new)[k] = new[k]
         /\ JobsTyped(jobs) /\ JobsTyped(new) => JobsTyped(WithJobs(new))
<1>1. /\ DOMAIN WithJobs(new) = DOMAIN jobs \cup DOMAIN new
      /\ \A k \in DOMAIN jobs : WithJobs(new)[k] = jobs[k]
      /\ \A k \in DOMAIN new \ DOMAIN jobs : WithJobs(new)[k] = new[k]
  BY DEF WithJobs
<1> HIDE DEF WithJobs
<1>2. JobsTyped(jobs) /\ JobsTyped(new) => JobsTyped(WithJobs(new))
  BY <1>1 DEF JobsTyped
<1> QED
  BY <1>1, <1>2
-----------------------------------------------------------------------------
(* Types and claims.                                                       *)

(* A request about to be saved names a session and a command.              *)
RequestsAreComplete ==
  \A a \in Apis : api[a].pc = "SAVING" =>
    api[a].session \in SessionIds /\ api[a].command \in Commands

(* The inductive invariant behind type correctness. A Worker reads the row *)
(* of the job it holds, so the row has to exist: ClaimIsExclusive.         *)
TypeInv == TypeOK /\ ClaimIsExclusive /\ RequestsAreComplete

-----------------------------------------------------------------------------
LEMMA TypeInvInit == Init => TypeInv
<1> SUFFICES ASSUME Init PROVE TypeInv
  OBVIOUS
<1>1. sessions \in [SessionIds -> Session] /\ provider \in [SessionIds -> Providers]
  BY FirstSessions DEF Init, Providers
<1>2. DOMAIN jobs = {}
  BY DEF Init, NoJobs
<1>3. api \in [Apis -> ApiProcess] /\ RequestsAreComplete
  <2>1. IdleApi \in ApiProcess /\ IdleApi.pc = "IDLE"
    BY FirstSessions DEF IdleApi, ApiProcess
  <2> QED
    BY <2>1 DEF Init, RequestsAreComplete
<1>4. workers \in [Workers -> WorkerProcess] /\ ClaimIsExclusive
  <2>1. IdleWorker \in WorkerProcess /\ IdleWorker.pc = "IDLE"
    BY FirstSessions DEF IdleWorker, WorkerProcess, Errors
  <2> QED
    BY <2>1 DEF Init, ClaimIsExclusive
<1> QED
  BY <1>1, <1>2, <1>3, <1>4 DEF Init, TypeInv, TypeOK

(* Queueing jobs disturbs no row that is there.                            *)
LEMMA InsertKeepsJobs ==
  ASSUME TypeInv, NEW new, JobsTyped(new), jobs' = WithJobs(new), workers' = workers
  PROVE  JobsTyped(jobs') /\ ClaimIsExclusive'
<1>1. JobsTyped(jobs)
  BY DEF TypeInv, TypeOK, JobsTyped
<1>2. JobsTyped(jobs')
  BY <1>1, WithJobsKeepsRows
<1>3. \A k \in DOMAIN jobs : k \in DOMAIN jobs' /\ jobs'[k] = jobs[k]
  BY WithJobsKeepsRows
<1>4. ClaimIsExclusive'
  BY <1>3 DEF TypeInv, ClaimIsExclusive
<1> QED
  BY <1>2, <1>4

LEMMA RequestDirectionsType ==
  ASSUME TypeInv, NEW id \in SessionIds, NEW p \in Offered, RequestDirections(id, p)
  PROVE  TypeInv'
<1>1. /\ sessions' \in [SessionIds -> Session]
      /\ provider' \in [SessionIds -> Providers]
  BY FirstSessions, GuidedLearningAssumption DEF TypeInv, TypeOK, RequestDirections
<1>2. JobsTyped(Job(id, "GENERATE_DIRECTIONS", NewSession.rev, "CREATED", 0))
  <2>1. /\ "GENERATE_DIRECTIONS" \in Operations /\ "CREATED" \in States
        /\ NewSession.rev \in Nat /\ 0 \in 0..MaxQuestions
    BY FirstSessions, SessionAssumption DEF Operations, States
  <2> QED
    BY <2>1, JobIsTyped DEF JobsTyped
<1>3. JobsTyped(jobs') /\ ClaimIsExclusive'
  BY <1>2, InsertKeepsJobs DEF RequestDirections
<1> QED
  BY <1>1, <1>3 DEF TypeInv, TypeOK, JobsTyped, RequestsAreComplete, RequestDirections

LEMMA CreateSessionType ==
  ASSUME TypeInv, NEW id \in SessionIds, NEW p \in Offered, CreateSession(id, p)
  PROVE  TypeInv'
<1>1. /\ sessions' \in [SessionIds -> Session]
      /\ provider' \in [SessionIds -> Providers]
  BY FirstSessions, GuidedLearningAssumption DEF TypeInv, TypeOK, CreateSession
<1> QED
  BY <1>1 DEF TypeInv, TypeOK, ClaimIsExclusive, RequestsAreComplete, CreateSession

-----------------------------------------------------------------------------
(* API processes.                                                          *)

LEMMA IdleApiType == IdleApi \in ApiProcess /\ IdleApi.pc = "IDLE"
BY FirstSessions DEF IdleApi, ApiProcess

(* A request that ends without a write leaves the invariant alone.         *)
LEMMA ApiGivesUpType ==
  ASSUME TypeInv, NEW a \in Apis, api' = [api EXCEPT ![a] = IdleApi], UNCHANGED <<db, workers>>
  PROVE  TypeInv'
BY IdleApiType DEF TypeInv, TypeOK, ClaimIsExclusive, RequestsAreComplete, db

LEMMA LookUpType ==
  ASSUME TypeInv, NEW a \in Apis, LookUp(a)
  PROVE  TypeInv'
<1>1. PICK key \in Keys \cup {OneShot} :
        api' = [api EXCEPT ![a] = [@ EXCEPT !.pc = "LOOKED_UP", !.key = key]]
  BY DEF LookUp
<1>2. [api[a] EXCEPT !.pc = "LOOKED_UP", !.key = key] \in ApiProcess
  BY DEF TypeInv, TypeOK, ApiProcess
<1>3. [api[a] EXCEPT !.pc = "LOOKED_UP", !.key = key].pc = "LOOKED_UP"
  BY DEF TypeInv, TypeOK, ApiProcess
<1>4. api' \in [Apis -> ApiProcess] /\ RequestsAreComplete'
  BY <1>1, <1>2, <1>3 DEF TypeInv, TypeOK, RequestsAreComplete
<1> QED
  BY <1>4 DEF TypeInv, TypeOK, ClaimIsExclusive, LookUp, db

LEMMA ReadAndApplyType ==
  ASSUME TypeInv, NEW a \in Apis, ReadAndApply(a)
  PROVE  TypeInv'
<1>1. PICK id \in SessionIds, c \in Commands :
        api' = [api EXCEPT ![a] = [@ EXCEPT !.pc = "SAVING", !.session = id,
                                            !.command = c, !.base = sessions[id]]]
  BY DEF ReadAndApply
<1> DEFINE p == [api[a] EXCEPT !.pc = "SAVING", !.session = id,
                               !.command = c, !.base = sessions[id]]
<1>2. p \in ApiProcess /\ p.session = id /\ p.command = c
  BY DEF TypeInv, TypeOK, ApiProcess
<1>3. api' \in [Apis -> ApiProcess] /\ RequestsAreComplete'
  BY <1>1, <1>2 DEF TypeInv, TypeOK, RequestsAreComplete
<1> QED
  BY <1>3 DEF TypeInv, TypeOK, ClaimIsExclusive, ReadAndApply, db

LEMMA SaveCommandType ==
  ASSUME TypeInv, NEW a \in Apis, SaveCommand(a)
  PROVE  TypeInv'
<1> DEFINE p == api[a]
<1>1. /\ p \in ApiProcess /\ p.session \in SessionIds
      /\ p.command \in Commands /\ p.base \in Session
  BY DEF TypeInv, TypeOK, ApiProcess, RequestsAreComplete, SaveCommand
<1>2. PICK next \in ClientNext(p.base, p.command) :
        /\ sessions' = [sessions EXCEPT ![p.session] = next]
        /\ jobs' = WithJobs(NewJobs(p, next))
        /\ commands' = IF p.key \in Keys
                       THEN commands \cup {[key |-> p.key, session |-> p.session,
                                            event |-> p.command.event, rev |-> next.rev]}
                       ELSE commands
  BY DEF SaveCommand
<1>3. next \in Session /\ next.rev \in Nat
  BY <1>1, <1>2, ClientNextIsASession DEF Session
<1>4. sessions' \in [SessionIds -> Session]
  BY <1>2, <1>3 DEF TypeInv, TypeOK
<1>5. JobsTyped(jobs') /\ ClaimIsExclusive'
  <2>1. JobsTyped(NewJobs(p, next))
    BY <1>1, <1>2, RequestedIsTyped DEF NewJobs, JobsTyped
  <2> QED
    BY <2>1, <1>2, InsertKeepsJobs DEF SaveCommand
<1>6. commands' \subseteq CommandRow
  <2>1. p.command.event \in ClientCommands
    BY <1>1 DEF Commands, PointerCommands, ClientCommands
  <2> QED
    BY <2>1, <1>1, <1>2, <1>3 DEF TypeInv, TypeOK, CommandRow
<1>7. failures' \subseteq FailureRows
  <2>1. \A row \in failures : [row EXCEPT !.superseded = TRUE] \in FailureRows
    BY DEF TypeInv, TypeOK, FailureRows
  <2>2. Superseded(p.session) \subseteq FailureRows
    BY <2>1 DEF Superseded, TypeInv, TypeOK
  <2> QED
    BY <2>2 DEF TypeInv, TypeOK, SaveCommand
<1>8. api' \in [Apis -> ApiProcess] /\ RequestsAreComplete'
  BY IdleApiType DEF TypeInv, TypeOK, RequestsAreComplete, SaveCommand
<1> QED
  BY <1>4, <1>5, <1>6, <1>7, <1>8 DEF TypeInv, TypeOK, JobsTyped, SaveCommand

-----------------------------------------------------------------------------
(* In-process writes.                                                      *)

LEMMA WriteDirectlyType ==
  ASSUME TypeInv, NEW id \in SessionIds, WriteDirectly(id)
  PROVE  TypeInv'
<1> DEFINE s == sessions[id]
<1>1. PICK next \in DirectResults(s, provider[id]) : sessions' = [sessions EXCEPT ![id] = next]
  BY DEF WriteDirectly
<1>2. s \in Session /\ provider[id] \in Providers /\ {"MOCK", "BYOK"} \subseteq Providers
  BY DEF TypeInv, TypeOK, Providers
<1>3. next \in Session
  <2>1. CASE next \in DirectionsReady(s, "MOCK")
    BY <2>1, <1>2, DirectionsReadyIsASession
  <2>2. CASE next \in QuestionsReady(s, "BYOK")
    BY <2>2, <1>2, QuestionsReadyIsASession
  <2>3. CASE next \in FeedbackReady(s, provider[id])
    BY <2>3, <1>2, FeedbackReadyIsASession
  <2>4. CASE next \in SummaryReady(s)
    BY <2>4, <1>2, SummaryReadyIsASession
  <2>5. CASE next \in {Moved(s, to) : to \in EventTargets(s, "COMPLETE_SESSION", NoFailure)}
    BY <2>5, <1>2, MovedIsASession, TargetsAreStates
  <2> QED
    BY <1>1, <2>1, <2>2, <2>3, <2>4, <2>5 DEF DirectResults
<1>4. sessions' \in [SessionIds -> Session]
  BY <1>1, <1>3 DEF TypeInv, TypeOK
<1> QED
  BY <1>4 DEF TypeInv, TypeOK, ClaimIsExclusive, RequestsAreComplete, WriteDirectly

(* A failure that may be recorded is one: its resume state is a source.    *)
LEMMA FailureIsTyped ==
  ASSUME NEW s \in Session, NEW failure, NEW next \in Failing(s, failure),
         failure.class \in {"RETRYABLE", "PERMANENT"},
         failure = [class |-> failure.class, op |-> failure.op, resume |-> failure.resume]
  PROVE  failure \in Failure /\ failure.resume = s.state
<1>1. PICK event \in {"RETRYABLE_FAILURE", "PERMANENT_FAILURE"} :
        EventTargets(s, event, failure) # {}
  BY DEF Failing
<1>2. /\ s.state \in FailureSources /\ failure.resume = s.state
      /\ IsValidFailureResume(failure.op, failure.resume)
  BY <1>1 DEF EventTargets, NormalTransitions
<1> QED
  BY <1>2 DEF Failure, IsValidFailureResume

LEMMA RecordFailureType ==
  ASSUME TypeInv, NEW id \in SessionIds, RecordFailure(id)
  PROVE  TypeInv'
<1>1. PICK op \in Operations :
        LET failure == [class |-> "RETRYABLE", op |-> op, resume |-> sessions[id].state]
        IN \E next \in Failing(sessions[id], failure) :
             /\ sessions' = [sessions EXCEPT ![id] = next]
             /\ failures' = failures \cup {FailureRow(id, sessions[id].rev, failure)}
  BY DEF RecordFailure
<1> DEFINE failure == [class |-> "RETRYABLE", op |-> op, resume |-> sessions[id].state]
<1>2. PICK next \in Failing(sessions[id], failure) :
        /\ sessions' = [sessions EXCEPT ![id] = next]
        /\ failures' = failures \cup {FailureRow(id, sessions[id].rev, failure)}
  BY <1>1
<1>3. sessions[id] \in Session /\ sessions[id].rev \in Nat
  BY DEF TypeInv, TypeOK, Session
<1>4. failure \in Failure
  BY <1>2, <1>3, FailureIsTyped
<1>5. next \in Session
  BY <1>2, <1>3, <1>4, FailingIsASession
<1>6. FailureRow(id, sessions[id].rev, failure) \in FailureRows
  BY <1>3, <1>4 DEF FailureRow, FailureRows
<1>7. sessions' \in [SessionIds -> Session] /\ failures' \subseteq FailureRows
  BY <1>2, <1>5, <1>6 DEF TypeInv, TypeOK
<1> QED
  BY <1>7 DEF TypeInv, TypeOK, ClaimIsExclusive, RequestsAreComplete, RecordFailure

-----------------------------------------------------------------------------
(* Worker processes.                                                       *)

LEMMA IdleWorkerType == IdleWorker \in WorkerProcess /\ IdleWorker.pc = "IDLE"
BY FirstSessions DEF IdleWorker, WorkerProcess, Errors

(* A Worker that holds a job and goes on with it holds it still.           *)
LEMMA HoldingOn ==
  ASSUME TypeInv, NEW w \in Workers, workers[w].pc # "IDLE",
         NEW v \in WorkerProcess, v.job = workers[w].job,
         workers' = [workers EXCEPT ![w] = v], jobs' = jobs
  PROVE  workers' \in [Workers -> WorkerProcess] /\ ClaimIsExclusive'
BY DEF TypeInv, TypeOK, ClaimIsExclusive

LEMMA GoesOn ==
  ASSUME TypeInv, NEW w \in Workers, workers[w].pc # "IDLE", jobs' = jobs,
         NEW pc \in {"CLAIMED", "GENERATING", "ERRING", "RECORDING", "SUCCEEDING", "FAILING"},
         WorkerGoes(w, pc)
  PROVE  workers' \in [Workers -> WorkerProcess] /\ ClaimIsExclusive'
<1> DEFINE v == [workers[w] EXCEPT !.pc = pc]
<1>1. v \in WorkerProcess /\ v.job = workers[w].job
  BY DEF TypeInv, TypeOK, WorkerProcess
<1>2. workers' = [workers EXCEPT ![w] = v]
  BY DEF WorkerGoes
<1> QED
  BY <1>1, <1>2, HoldingOn

LEMMA ErrsOn ==
  ASSUME TypeInv, NEW w \in Workers, workers[w].pc # "IDLE", jobs' = jobs,
         NEW error \in Errors, WorkerErrs(w, error)
  PROVE  workers' \in [Workers -> WorkerProcess] /\ ClaimIsExclusive'
<1> DEFINE v == [workers[w] EXCEPT !.pc = "ERRING", !.error = error, !.snap = NoSession]
<1>1. v \in WorkerProcess /\ v.job = workers[w].job
  BY FirstSessions DEF TypeInv, TypeOK, WorkerProcess
<1>2. workers' = [workers EXCEPT ![w] = v]
  BY DEF WorkerErrs
<1> QED
  BY <1>1, <1>2, HoldingOn

LEMMA ReadsOn ==
  ASSUME TypeInv, NEW w \in Workers, workers[w].pc # "IDLE", jobs' = jobs,
         NEW pc \in {"GENERATING", "RECORDING"}, NEW s \in Session,
         workers' = [workers EXCEPT ![w] = [@ EXCEPT !.pc = pc, !.snap = s]]
  PROVE  workers' \in [Workers -> WorkerProcess] /\ ClaimIsExclusive'
<1> DEFINE v == [workers[w] EXCEPT !.pc = pc, !.snap = s]
<1>1. v \in WorkerProcess /\ v.job = workers[w].job
  BY DEF TypeInv, TypeOK, WorkerProcess
<1> QED
  BY <1>1, HoldingOn

(* Claiming a queued row takes it from nobody.                             *)
LEMMA ClaimType ==
  ASSUME TypeInv, NEW w \in Workers, Claim(w)
  PROVE  TypeInv'
<1>1. PICK k \in DOMAIN jobs :
        /\ jobs[k].state = "QUEUED"
        /\ jobs' = [jobs EXCEPT ![k] = [@ EXCEPT !.state = "RUNNING", !.worker = w]]
        /\ workers' = [workers EXCEPT ![w] = [IdleWorker EXCEPT !.pc = "CLAIMED", !.job = k]]
  BY DEF Claim
<1> DEFINE row == [jobs[k] EXCEPT !.state = "RUNNING", !.worker = w]
           v == [IdleWorker EXCEPT !.pc = "CLAIMED", !.job = k]
<1>2. row \in JobRow /\ row.state = "RUNNING" /\ row.worker = w
  BY DEF TypeInv, TypeOK, JobRow
<1>3. DOMAIN jobs' = DOMAIN jobs /\ jobs'[k] = row
      /\ \A l \in DOMAIN jobs : l # k => jobs'[l] = jobs[l]
  BY <1>1
<1>4. JobsTyped(jobs')
  BY <1>2, <1>3 DEF TypeInv, TypeOK, JobsTyped
<1>5. v \in WorkerProcess /\ v.job = k
  BY IdleWorkerType DEF TypeInv, TypeOK, WorkerProcess
<1>6. /\ workers' \in [Workers -> WorkerProcess] /\ workers'[w] = v
      /\ \A x \in Workers \ {w} : workers'[x] = workers[x]
  BY <1>1, <1>5 DEF TypeInv, TypeOK
<1>7. ClaimIsExclusive'
  <2> SUFFICES ASSUME NEW x \in Workers, workers'[x].pc # "IDLE"
               PROVE  /\ workers'[x].job \in DOMAIN jobs'
                      /\ jobs'[workers'[x].job].state = "RUNNING"
                      /\ jobs'[workers'[x].job].worker = x
    BY DEF ClaimIsExclusive
  <2>1. CASE x = w
    BY <2>1, <1>2, <1>3, <1>5, <1>6
  <2>2. CASE x # w
    <3>1. /\ workers'[x] = workers[x] /\ workers[x].job \in DOMAIN jobs
          /\ jobs[workers[x].job].state = "RUNNING" /\ jobs[workers[x].job].worker = x
      BY <2>2, <1>6 DEF TypeInv, ClaimIsExclusive
    <3> QED
      BY <3>1, <1>1, <1>3
  <2> QED
    BY <2>1, <2>2
<1> QED
  BY <1>4, <1>6, <1>7 DEF TypeInv, TypeOK, JobsTyped, RequestsAreComplete, Claim

(* A finished row was this Worker's, so no other Worker loses its claim.   *)
LEMMA FinishJobType ==
  ASSUME TypeInv, NEW w \in Workers, FinishJob(w)
  PROVE  TypeInv'
<1> DEFINE k == workers[w].job
<1>1. PICK outcome \in {"SUCCEEDED", "FAILED"} :
        jobs' = [jobs EXCEPT ![k] = [@ EXCEPT !.state = outcome]]
  BY DEF FinishJob
<1>2. workers[w].pc # "IDLE" /\ workers' = [workers EXCEPT ![w] = IdleWorker]
  BY DEF FinishJob
<1>3. k \in DOMAIN jobs /\ jobs[k] \in JobRow
  BY <1>2 DEF TypeInv, TypeOK, ClaimIsExclusive
<1>4. [jobs[k] EXCEPT !.state = outcome] \in JobRow
  BY <1>3 DEF JobRow
<1>5. JobsTyped(jobs') /\ \A l \in DOMAIN jobs : l # k => jobs'[l] = jobs[l]
  BY <1>1, <1>4 DEF TypeInv, TypeOK, JobsTyped
<1>6. /\ workers' \in [Workers -> WorkerProcess] /\ workers'[w].pc = "IDLE"
      /\ \A x \in Workers \ {w} : workers'[x] = workers[x]
  BY <1>2, IdleWorkerType DEF TypeInv, TypeOK
<1>7. ClaimIsExclusive'
  <2> SUFFICES ASSUME NEW x \in Workers, workers'[x].pc # "IDLE"
               PROVE  /\ workers'[x].job \in DOMAIN jobs'
                      /\ jobs'[workers'[x].job].state = "RUNNING"
                      /\ jobs'[workers'[x].job].worker = x
    BY DEF ClaimIsExclusive
  <2>1. x # w /\ workers'[x] = workers[x]
    BY <1>6
  <2>2. /\ workers[x].job \in DOMAIN jobs
        /\ jobs[workers[x].job].state = "RUNNING" /\ jobs[workers[x].job].worker = x
    BY <2>1 DEF TypeInv, ClaimIsExclusive
  <2>3. workers[x].job # k
    BY <2>1, <2>2, <1>2 DEF TypeInv, ClaimIsExclusive
  <2>4. DOMAIN jobs' = DOMAIN jobs
    BY <1>1
  <2> QED
    BY <2>1, <2>2, <2>3, <2>4, <1>5
<1> QED
  BY <1>5, <1>6, <1>7 DEF TypeInv, TypeOK, JobsTyped, RequestsAreComplete, FinishJob

(* A Worker step that leaves the database alone.                           *)
LEMMA WorkerOnlyType ==
  ASSUME TypeInv, UNCHANGED <<db, api>>,
         workers' \in [Workers -> WorkerProcess], ClaimIsExclusive'
  PROVE  TypeInv'
BY DEF TypeInv, TypeOK, RequestsAreComplete, db

LEMMA StopsType ==
  ASSUME TypeInv, NEW w \in Workers, workers' = [workers EXCEPT ![w] = IdleWorker],
         UNCHANGED <<db, api>>
  PROVE  TypeInv'
<1>1. workers' \in [Workers -> WorkerProcess] /\ ClaimIsExclusive'
  BY IdleWorkerType DEF TypeInv, TypeOK, ClaimIsExclusive, db
<1> QED
  BY <1>1, WorkerOnlyType

LEMMA ReadSessionType ==
  ASSUME TypeInv, NEW w \in Workers, ReadSession(w)
  PROVE  TypeInv'
<1> DEFINE k == workers[w].job
<1>1. workers[w].pc # "IDLE" /\ UNCHANGED <<db, api>> /\ jobs' = jobs
  BY DEF ReadSession, db
<1>2. sessions[k.session] \in Session
  BY <1>1 DEF TypeInv, TypeOK, ClaimIsExclusive, JobKey
<1>3. CASE WorkerGoes(w, "SUCCEEDING")
  BY <1>1, <1>3, GoesOn, WorkerOnlyType
<1>4. CASE WorkerErrs(w, "STALE") \/ WorkerErrs(w, "PAGES")
  <2>1. "STALE" \in Errors /\ "PAGES" \in Errors
    BY DEF Errors
  <2> QED
    BY <2>1, <1>1, <1>4, ErrsOn, WorkerOnlyType
<1>5. CASE workers' = [workers EXCEPT ![w] = [@ EXCEPT !.pc = "GENERATING",
                                                      !.snap = sessions[k.session]]]
  BY <1>1, <1>2, <1>5, ReadsOn, WorkerOnlyType
<1> QED
  BY <1>3, <1>4, <1>5 DEF ReadSession

LEMMA ErringType ==
  ASSUME TypeInv, NEW w \in Workers,
         \/ GatewayFails(w) \/ OutputRejected(w)
         \/ QuestionPointerChanged(w) \/ SaveConflicts(w)
  PROVE  TypeInv'
<1>1. PICK error \in {"GATEWAY", "OUTPUT", "POINTER", "STORAGE"} : WorkerErrs(w, error)
  BY DEF GatewayFails, OutputRejected, QuestionPointerChanged, SaveConflicts
<1>2. workers[w].pc # "IDLE" /\ UNCHANGED <<db, api>> /\ jobs' = jobs
  BY DEF GatewayFails, OutputRejected, QuestionPointerChanged, SaveConflicts, db
<1>3. error \in Errors
  BY DEF Errors
<1> QED
  BY <1>1, <1>2, <1>3, ErrsOn, WorkerOnlyType

LEMMA GeneratedIsASession ==
  ASSUME TypeInv, NEW w \in Workers, workers[w].pc # "IDLE", NEW next \in Results(w)
  PROVE  next \in Session /\ next.rev = workers[w].snap.rev + 1
<1> DEFINE k == workers[w].job
           snap == workers[w].snap
           p == provider[k.session]
<1>1. k \in JobKey /\ p \in Providers /\ snap \in Session
  BY DEF TypeInv, TypeOK, ClaimIsExclusive, JobKey, WorkerProcess
<1>2. next \in Generated(k, snap) /\ k.op \in Operations
  BY <1>1 DEF Results, JobKey
<1>3. CASE k.op = "GENERATE_DIRECTIONS"
  <2>1. next \in DirectionsReady(snap, p)
    BY <1>2, <1>3 DEF Generated
  <2> QED
    BY <2>1, <1>1, DirectionsReadyIsASession
<1>4. CASE k.op = "GENERATE_QUESTIONS"
  <2>1. next \in QuestionsReady(snap, p)
    BY <1>2, <1>4 DEF Generated
  <2> QED
    BY <2>1, <1>1, QuestionsReadyIsASession
<1>5. CASE k.op = "GENERATE_FEEDBACK"
  <2>1. next \in FeedbackReady(snap, p)
    BY <1>2, <1>5 DEF Generated
  <2> QED
    BY <2>1, <1>1, FeedbackReadyIsASession
<1>6. CASE k.op = "GENERATE_STAGE_SUMMARY"
  <2>1. next \in SummaryReady(snap)
    BY <1>2, <1>6 DEF Generated
  <2> QED
    BY <2>1, <1>1, SummaryReadyIsASession
<1> QED
  BY <1>2, <1>3, <1>4, <1>5, <1>6 DEF Operations

LEMMA SaveGeneratedType ==
  ASSUME TypeInv, NEW w \in Workers, SaveGenerated(w)
  PROVE  TypeInv'
<1>1. workers[w].pc # "IDLE" /\ jobs' = jobs /\ WorkerGoes(w, "SUCCEEDING")
  BY DEF SaveGenerated
<1>2. PICK next \in Results(w) :
        sessions' = [sessions EXCEPT ![workers[w].job.session] = next]
  BY DEF SaveGenerated
<1>3. sessions' \in [SessionIds -> Session]
  BY <1>1, <1>2, GeneratedIsASession DEF TypeInv, TypeOK
<1>4. workers' \in [Workers -> WorkerProcess] /\ ClaimIsExclusive'
  BY <1>1, GoesOn
<1> QED
  BY <1>3, <1>4 DEF TypeInv, TypeOK, RequestsAreComplete, SaveGenerated

LEMMA ReadForFailureType ==
  ASSUME TypeInv, NEW w \in Workers, ReadForFailure(w)
  PROVE  TypeInv'
<1> DEFINE k == workers[w].job
<1>1. workers[w].pc # "IDLE" /\ UNCHANGED <<db, api>> /\ jobs' = jobs
  BY DEF ReadForFailure, db
<1>2. sessions[k.session] \in Session
  BY <1>1 DEF TypeInv, TypeOK, ClaimIsExclusive, JobKey
<1>3. CASE AtBoundary(k)
  <2>1. workers' = [workers EXCEPT ![w] = [@ EXCEPT !.pc = "RECORDING",
                                                    !.snap = sessions[k.session]]]
    BY <1>3 DEF ReadForFailure
  <2> QED
    BY <2>1, <1>1, <1>2, ReadsOn, WorkerOnlyType
<1>4. CASE ~AtBoundary(k)
  <2>1. WorkerGoes(w, "FAILING")
    BY <1>4 DEF ReadForFailure
  <2> QED
    BY <2>1, <1>1, GoesOn, WorkerOnlyType
<1> QED
  BY <1>3, <1>4

LEMMA SaveFailureType ==
  ASSUME TypeInv, NEW w \in Workers, SaveFailure(w)
  PROVE  TypeInv'
<1> DEFINE k == workers[w].job
           failure == FailureOf(w)
<1>1. workers[w].pc # "IDLE" /\ jobs' = jobs /\ WorkerGoes(w, "FAILING")
  BY DEF SaveFailure
<1>2. PICK next \in Failing(workers[w].snap, failure) :
        sessions' = [sessions EXCEPT ![k.session] = next]
  BY DEF SaveFailure
<1>3. workers[w].snap \in Session /\ k \in JobKey
  BY <1>1 DEF TypeInv, TypeOK, WorkerProcess, ClaimIsExclusive
<1>4. failure \in Failure
  BY <1>2, <1>3, FailureIsTyped DEF FailureOf
<1>5. sessions' \in [SessionIds -> Session]
  BY <1>2, <1>3, <1>4, FailingIsASession DEF TypeInv, TypeOK
<1>6. failures' \subseteq FailureRows
  <2>1. FailureRow(k.session, k.rev, failure) \in FailureRows
    BY <1>3, <1>4 DEF FailureRow, FailureRows, JobKey
  <2> QED
    BY <2>1 DEF TypeInv, TypeOK, SaveFailure
<1>7. workers' \in [Workers -> WorkerProcess] /\ ClaimIsExclusive'
  BY <1>1, GoesOn
<1> QED
  BY <1>5, <1>6, <1>7 DEF TypeInv, TypeOK, RequestsAreComplete, SaveFailure

LEMMA SaveFailureRefusedType ==
  ASSUME TypeInv, NEW w \in Workers, SaveFailureRefused(w)
  PROVE  TypeInv'
<1>1. /\ workers[w].pc # "IDLE" /\ UNCHANGED <<db, api>> /\ jobs' = jobs
      /\ WorkerGoes(w, "FAILING")
  BY DEF SaveFailureRefused, db
<1> QED
  BY <1>1, GoesOn, WorkerOnlyType

LEMMA StorageFailsType ==
  ASSUME TypeInv, NEW w \in Workers, StorageFails(w)
  PROVE  TypeInv'
<1>1. workers[w].pc # "IDLE" /\ UNCHANGED <<db, api>> /\ jobs' = jobs
  BY DEF StorageFails, db
<1>2. CASE WorkerErrs(w, "STORAGE")
  <2>1. "STORAGE" \in Errors
    BY DEF Errors
  <2> QED
    BY <2>1, <1>1, <1>2, ErrsOn, WorkerOnlyType
<1>3. CASE WorkerGoes(w, "FAILING")
  BY <1>1, <1>3, GoesOn, WorkerOnlyType
<1>4. CASE workers' = [workers EXCEPT ![w] = IdleWorker]
  BY <1>1, <1>4, StopsType
<1> QED
  BY <1>2, <1>3, <1>4 DEF StorageFails

-----------------------------------------------------------------------------
LEMMA TypeInvStep == TypeInv /\ [Next]_vars => TypeInv'
<1> SUFFICES ASSUME TypeInv, [Next]_vars PROVE TypeInv'
  OBVIOUS
<1>1. ASSUME NEW id \in SessionIds, NEW p \in Offered, Creation(id, p) PROVE TypeInv'
  BY <1>1, RequestDirectionsType, CreateSessionType DEF Creation
<1>2. ASSUME NEW a \in Apis, Command(a) PROVE TypeInv'
  <2>1. CASE LookUp(a)
    BY <2>1, LookUpType
  <2>2. CASE ReadAndApply(a)
    BY <2>2, ReadAndApplyType
  <2>3. CASE SaveCommand(a)
    BY <2>3, SaveCommandType
  <2>4. CASE Refuse(a) \/ SaveRefused(a) \/ ApiCrash(a)
    <3>1. api' = [api EXCEPT ![a] = IdleApi] /\ UNCHANGED <<db, workers>>
      BY <2>4 DEF Refuse, SaveRefused, ApiCrash
    <3> QED
      BY <3>1, ApiGivesUpType
  <2> QED
    BY <1>2, <2>1, <2>2, <2>3, <2>4 DEF Command
<1>3. ASSUME NEW id \in SessionIds, Direct(id) PROVE TypeInv'
  BY <1>3, WriteDirectlyType, RecordFailureType DEF Direct
<1>4. ASSUME NEW w \in Workers, Work(w) PROVE TypeInv'
  BY <1>4, ClaimType, ReadSessionType, ErringType, SaveGeneratedType, ReadForFailureType,
     SaveFailureType, SaveFailureRefusedType, FinishJobType, StorageFailsType DEF Work
<1>5. ASSUME NEW w \in Workers, WorkerCrash(w) PROVE TypeInv'
  BY <1>5, StopsType DEF WorkerCrash
<1>6. CASE UNCHANGED vars
  BY <1>6 DEF vars, TypeInv, TypeOK, ClaimIsExclusive, RequestsAreComplete
<1> QED
  BY <1>1, <1>2, <1>3, <1>4, <1>5, <1>6 DEF Next

LEMMA TypeInvHolds == Spec => []TypeInv
BY TypeInvInit, TypeInvStep, PTL DEF Spec

(* Every variable keeps its type in every behaviour.                       *)
THEOREM TypeCorrect == Spec => []TypeOK
<1>1. TypeInv => TypeOK
  BY DEF TypeInv
<1> QED
  BY <1>1, TypeInvHolds, PTL

(* No two Workers ever run the same job: whoever holds a job holds a row   *)
(* that is RUNNING under its own name.                                     *)
THEOREM ClaimsAreExclusive == Spec => []ClaimIsExclusive
<1>1. TypeInv => ClaimIsExclusive
  BY DEF TypeInv
<1> QED
  BY <1>1, TypeInvHolds, PTL
-----------------------------------------------------------------------------
(* Revisions.                                                              *)

(* b is the stored session s, or an earlier revision of it.                *)
Held(b, s) == b.rev <= s.rev /\ (b.rev = s.rev => b = s)

HeldByApis ==
  \A a \in Apis : api[a].pc = "SAVING" => Held(api[a].base, sessions[api[a].session])
HeldByWorkers ==
  \A w \in Workers : workers[w].pc \in {"GENERATING", "RECORDING"} =>
    /\ workers[w].snap.rev = workers[w].job.rev
    /\ Held(workers[w].snap, sessions[workers[w].job.session])
RecordedRevisions ==
  \A row \in commands : row.rev <= sessions[row.session].rev

(* The inductive invariant. RevisionIdentifiesSnapshot alone is not: it    *)
(* says nothing of a snapshot that carries a later revision than its       *)
(* session, which could become current by a write that has nothing to do   *)
(* with it.                                                                *)
RevisionInv == /\ TypeInv /\ HeldByApis /\ HeldByWorkers
               /\ RecordedRevisions /\ KeyAppliedOnce

(* A step leaves a session alone or moves its revision on.                 *)
Advancing ==
  \A id \in SessionIds :
    sessions'[id] = sessions[id] \/ sessions'[id].rev > sessions[id].rev

-----------------------------------------------------------------------------
LEMMA RevisionInvInit == Init => RevisionInv
<1> SUFFICES ASSUME Init PROVE RevisionInv
  OBVIOUS
<1>1. HeldByApis
  BY IdleApiType DEF Init, HeldByApis
<1>2. HeldByWorkers
  BY IdleWorkerType DEF Init, HeldByWorkers
<1>3. RecordedRevisions /\ KeyAppliedOnce
  BY DEF Init, RecordedRevisions, KeyAppliedOnce
<1> QED
  BY <1>1, <1>2, <1>3, TypeInvInit DEF RevisionInv

LEMMA RevisionsAreNumbers ==
  ASSUME TypeOK, NEW id \in SessionIds
  PROVE  sessions[id] \in Session /\ sessions[id].rev \in Nat
BY DEF TypeOK, Session

(* One session replaced by one with a later revision.                      *)
LEMMA OneAdvances ==
  ASSUME TypeOK, NEW id \in SessionIds, NEW next,
         next.rev > sessions[id].rev, sessions' = [sessions EXCEPT ![id] = next]
  PROVE  Advancing
BY DEF TypeOK, Advancing

LEMMA SaveCommandAdvances ==
  ASSUME RevisionInv, NEW a \in Apis, SaveCommand(a)
  PROVE  Advancing
<1> DEFINE p == api[a]
<1>1. TypeOK /\ p.session \in SessionIds /\ p.command \in Commands /\ p.base \in Session
  BY DEF RevisionInv, TypeInv, TypeOK, ApiProcess, RequestsAreComplete, SaveCommand
<1>2. PICK next \in ClientNext(p.base, p.command) :
        /\ sessions[p.session].rev = p.base.rev
        /\ sessions' = [sessions EXCEPT ![p.session] = next]
  BY DEF SaveCommand, Accepts, Current
<1>3. next.rev = p.base.rev + 1
  BY <1>1, <1>2, ClientNextIsASession
<1>4. next.rev > sessions[p.session].rev
  BY <1>1, <1>2, <1>3, RevisionsAreNumbers
<1> QED
  BY <1>1, <1>2, <1>4, OneAdvances

LEMMA CreationAdvances ==
  ASSUME RevisionInv, NEW id \in SessionIds, NEW p \in Offered, Creation(id, p)
  PROVE  Advancing
<1>1. TypeOK /\ sessions[id] = NoSession /\ sessions' = [sessions EXCEPT ![id] = NewSession]
  BY DEF RevisionInv, TypeInv, Creation, RequestDirections, CreateSession
<1>2. NewSession.rev > NoSession.rev
  BY FirstSessions DEF NoSession
<1> QED
  BY <1>1, <1>2, OneAdvances

LEMMA DirectAdvances ==
  ASSUME RevisionInv, NEW id \in SessionIds, Direct(id)
  PROVE  Advancing
<1> DEFINE s == sessions[id]
<1>1. TypeOK /\ s \in Session /\ s.rev \in Nat
  BY RevisionsAreNumbers DEF RevisionInv, TypeInv
<1>2. CASE WriteDirectly(id)
  <2>1. PICK next \in DirectResults(s, provider[id]) : sessions' = [sessions EXCEPT ![id] = next]
    BY <1>2 DEF WriteDirectly
  <2>2. provider[id] \in Providers /\ {"MOCK", "BYOK"} \subseteq Providers
    BY <1>1 DEF TypeOK, Providers
  <2>3. next.rev = s.rev + 1
    <3>1. CASE next \in DirectionsReady(s, "MOCK")
      BY <3>1, <1>1, <2>2, DirectionsReadyIsASession
    <3>2. CASE next \in QuestionsReady(s, "BYOK")
      BY <3>2, <1>1, <2>2, QuestionsReadyIsASession
    <3>3. CASE next \in FeedbackReady(s, provider[id])
      BY <3>3, <1>1, <2>2, FeedbackReadyIsASession
    <3>4. CASE next \in SummaryReady(s)
      BY <3>4, <1>1, SummaryReadyIsASession
    <3>5. CASE next \in {Moved(s, to) : to \in EventTargets(s, "COMPLETE_SESSION", NoFailure)}
      BY <3>5, <1>1, MovedIsASession, TargetsAreStates
    <3> QED
      BY <2>1, <3>1, <3>2, <3>3, <3>4, <3>5 DEF DirectResults
  <2>4. next.rev > s.rev
    BY <2>3, <1>1
  <2> QED
    BY <2>1, <2>4, <1>1, OneAdvances
<1>3. CASE RecordFailure(id)
  <2>a. PICK op \in Operations :
          \E next \in Failing(s, [class |-> "RETRYABLE", op |-> op, resume |-> s.state]) :
            sessions' = [sessions EXCEPT ![id] = next]
    BY <1>3 DEF RecordFailure
  <2> DEFINE failure == [class |-> "RETRYABLE", op |-> op, resume |-> s.state]
  <2>1. PICK next \in Failing(s, failure) : sessions' = [sessions EXCEPT ![id] = next]
    BY <2>a
  <2>2. failure \in Failure
    BY <1>1, <2>1, FailureIsTyped
  <2>3. next.rev = s.rev + 1
    BY <1>1, <2>1, <2>2, FailingIsASession
  <2>4. next.rev > s.rev
    BY <2>3, <1>1
  <2> QED
    BY <2>1, <2>4, <1>1, OneAdvances
<1> QED
  BY <1>2, <1>3 DEF Direct

(* The two writes of a Worker: only at the revision of its job, and one on *)
(* from there.                                                             *)
LEMMA WorkerWrites ==
  ASSUME RevisionInv, NEW w \in Workers, SaveGenerated(w) \/ SaveFailure(w)
  PROVE  LET k == workers[w].job
         IN /\ k.session \in SessionIds
            /\ sessions[k.session].rev = k.rev
            /\ \E next \in Session : /\ next.rev = k.rev + 1
                                     /\ sessions' = [sessions EXCEPT ![k.session] = next]
<1> DEFINE k == workers[w].job
           snap == workers[w].snap
<1>1. /\ TypeInv /\ workers[w].pc \in {"GENERATING", "RECORDING"}
      /\ sessions[k.session].rev = k.rev /\ snap.rev = k.rev
  BY DEF RevisionInv, HeldByWorkers, SaveGenerated, SaveFailure
<1>2. k \in JobKey /\ k.session \in SessionIds /\ snap \in Session
  BY <1>1 DEF TypeInv, TypeOK, ClaimIsExclusive, JobKey, WorkerProcess
<1>3. CASE SaveGenerated(w)
  <2>1. PICK next \in Results(w) : sessions' = [sessions EXCEPT ![k.session] = next]
    BY <1>3 DEF SaveGenerated
  <2>2. next \in Session /\ next.rev = snap.rev + 1
    BY <1>1, <2>1, GeneratedIsASession
  <2> QED
    BY <1>1, <1>2, <2>1, <2>2
<1>4. CASE SaveFailure(w)
  <2>1. PICK next \in Failing(snap, FailureOf(w)) : sessions' = [sessions EXCEPT ![k.session] = next]
    BY <1>4 DEF SaveFailure
  <2>2. FailureOf(w) \in Failure
    BY <1>2, <2>1, FailureIsTyped DEF FailureOf
  <2>3. next \in Session /\ next.rev = snap.rev + 1
    BY <1>2, <2>1, <2>2, FailingIsASession
  <2> QED
    BY <1>1, <1>2, <2>1, <2>3
<1> QED
  BY <1>3, <1>4

LEMMA WorkAdvances ==
  ASSUME RevisionInv, NEW w \in Workers, Work(w) \/ WorkerCrash(w)
  PROVE  Advancing
<1>1. CASE SaveGenerated(w) \/ SaveFailure(w)
  <2> DEFINE id == workers[w].job.session
  <2>1. PICK next \in Session : /\ id \in SessionIds
                                /\ next.rev = sessions[id].rev + 1
                                /\ sessions' = [sessions EXCEPT ![id] = next]
    BY <1>1, WorkerWrites
  <2>2. TypeOK /\ sessions[id].rev \in Nat
    BY <2>1, RevisionsAreNumbers DEF RevisionInv, TypeInv
  <2>3. next.rev > sessions[id].rev
    BY <2>1, <2>2
  <2> QED
    BY <2>1, <2>2, <2>3, OneAdvances
<1>2. CASE ~(SaveGenerated(w) \/ SaveFailure(w))
  <2>1. sessions' = sessions
    BY <1>2 DEF Work, WorkerCrash, Claim, ReadSession, GatewayFails, OutputRejected,
       QuestionPointerChanged, SaveConflicts, ReadForFailure, SaveFailureRefused,
       FinishJob, StorageFails, db
  <2> QED
    BY <2>1 DEF Advancing
<1> QED
  BY <1>1, <1>2

(* Every step of the system: sessions only move on.                        *)
LEMMA StepsAdvance == RevisionInv /\ [Next]_vars => Advancing
<1> SUFFICES ASSUME RevisionInv, [Next]_vars PROVE Advancing
  OBVIOUS
<1>1. ASSUME NEW a \in Apis, Command(a) PROVE Advancing
  <2>1. CASE SaveCommand(a)
    BY <2>1, SaveCommandAdvances
  <2>2. CASE ~SaveCommand(a)
    BY <1>1, <2>2 DEF Command, LookUp, ReadAndApply, Refuse, SaveRefused, ApiCrash, db, Advancing
  <2> QED
    BY <2>1, <2>2
<1>2. CASE UNCHANGED vars
  BY <1>2 DEF vars, Advancing
<1> QED
  BY <1>1, <1>2, CreationAdvances, DirectAdvances, WorkAdvances DEF Next

-----------------------------------------------------------------------------
(* A snapshot that is held is still held after sessions moved on.          *)
LEMMA StillHeld ==
  ASSUME TypeOK, TypeOK', Advancing, NEW id \in SessionIds, NEW b, b.rev \in Int,
         Held(b, sessions[id])
  PROVE  Held(b, sessions'[id])
<1>1. /\ sessions[id].rev \in Nat /\ sessions'[id].rev \in Nat
  BY DEF TypeOK, Session
<1>2. CASE sessions'[id] = sessions[id]
  BY <1>2 DEF Held
<1>3. CASE sessions'[id].rev > sessions[id].rev
  BY <1>1, <1>3 DEF Held
<1> QED
  BY <1>2, <1>3 DEF Advancing

(* An API process saves what it held before the step, or what it has just  *)
(* read.                                                                   *)
LEMMA ApiSteps ==
  ASSUME TypeInv, [Next]_vars, NEW a \in Apis, api'[a].pc = "SAVING"
  PROVE  \/ api'[a] = api[a]
         \/ /\ sessions' = sessions
            /\ api'[a].base = sessions[api'[a].session]
<1>1. api \in [Apis -> ApiProcess]
  BY DEF TypeInv, TypeOK
<1>2. ASSUME NEW b \in Apis, LookUp(b) PROVE api'[a] = api[a]
  <2>1. PICK key : api' = [api EXCEPT ![b] = [@ EXCEPT !.pc = "LOOKED_UP", !.key = key]]
    BY <1>2 DEF LookUp
  <2>2. [api[b] EXCEPT !.pc = "LOOKED_UP", !.key = key].pc = "LOOKED_UP"
    BY <1>1 DEF ApiProcess
  <2> QED
    BY <2>1, <2>2, <1>1
<1>3. ASSUME NEW b \in Apis, ReadAndApply(b)
      PROVE  \/ api'[a] = api[a]
             \/ sessions' = sessions /\ api'[a].base = sessions[api'[a].session]
  <2>1. PICK id \in SessionIds, c \in Commands :
          api' = [api EXCEPT ![b] = [@ EXCEPT !.pc = "SAVING", !.session = id,
                                              !.command = c, !.base = sessions[id]]]
    BY <1>3 DEF ReadAndApply
  <2> DEFINE p == [api[b] EXCEPT !.pc = "SAVING", !.session = id,
                                 !.command = c, !.base = sessions[id]]
  <2>2. p.base = sessions[p.session]
    BY <1>1 DEF ApiProcess
  <2>3. sessions' = sessions
    BY <1>3 DEF ReadAndApply, db
  <2> QED
    BY <2>1, <2>2, <2>3, <1>1
<1>4. ASSUME NEW b \in Apis, api' = [api EXCEPT ![b] = IdleApi] PROVE api'[a] = api[a]
  BY <1>1, <1>4, IdleApiType
<1>5. ASSUME NEW b \in Apis, Command(b)
      PROVE  LookUp(b) \/ ReadAndApply(b) \/ api' = [api EXCEPT ![b] = IdleApi]
  BY <1>5 DEF Command, Refuse, SaveCommand, SaveRefused, ApiCrash
<1>6. ASSUME NEW id \in SessionIds, NEW p \in Offered, Creation(id, p) PROVE api' = api
  BY <1>6 DEF Creation, RequestDirections, CreateSession
<1>7. ASSUME NEW id \in SessionIds, Direct(id) PROVE api' = api
  BY <1>7 DEF Direct, WriteDirectly, RecordFailure
<1>8. ASSUME NEW w \in Workers, Work(w) \/ WorkerCrash(w) PROVE api' = api
  BY <1>8 DEF Work, WorkerCrash, Claim, ReadSession, GatewayFails, OutputRejected,
     QuestionPointerChanged, SaveGenerated, SaveConflicts, ReadForFailure, SaveFailure,
     SaveFailureRefused, FinishJob, StorageFails
<1>9. CASE UNCHANGED vars
  BY <1>9 DEF vars
<1> QED
  BY <1>2, <1>3, <1>4, <1>5, <1>6, <1>7, <1>8, <1>9 DEF Next

(* A Worker generates from, or records a failure against, what it held     *)
(* before the step or what it has just read at the boundary of its job.    *)
LEMMA WorkerSteps ==
  ASSUME TypeInv, [Next]_vars, NEW w \in Workers, workers'[w].pc \in {"GENERATING", "RECORDING"}
  PROVE  \/ workers'[w] = workers[w]
         \/ /\ sessions' = sessions
            /\ workers'[w].snap = sessions[workers'[w].job.session]
            /\ workers'[w].snap.rev = workers'[w].job.rev
<1>1. workers \in [Workers -> WorkerProcess]
  BY DEF TypeInv, TypeOK
<1> DEFINE Kept == workers'[w] = workers[w]
           Read == /\ sessions' = sessions
                   /\ workers'[w].snap = sessions[workers'[w].job.session]
                   /\ workers'[w].snap.rev = workers'[w].job.rev
<1>2. ASSUME NEW x \in Workers, workers' = [workers EXCEPT ![x] = IdleWorker] PROVE Kept
  BY <1>1, <1>2, IdleWorkerType
<1>3. ASSUME NEW x \in Workers, NEW pc \in {"SUCCEEDING", "FAILING"}, WorkerGoes(x, pc) PROVE Kept
  <2>1. [workers[x] EXCEPT !.pc = pc].pc = pc
    BY <1>1 DEF WorkerProcess
  <2> QED
    BY <2>1, <1>1, <1>3 DEF WorkerGoes
<1>4. ASSUME NEW x \in Workers, NEW error, WorkerErrs(x, error) PROVE Kept
  <2>1. [workers[x] EXCEPT !.pc = "ERRING", !.error = error, !.snap = NoSession].pc = "ERRING"
    BY <1>1 DEF WorkerProcess
  <2> QED
    BY <2>1, <1>1, <1>4 DEF WorkerErrs
<1>5. ASSUME NEW x \in Workers, NEW pc \in {"GENERATING", "RECORDING"}, sessions' = sessions,
             AtBoundary(workers[x].job),
             workers' = [workers EXCEPT ![x] = [@ EXCEPT !.pc = pc,
                                                         !.snap = sessions[workers[x].job.session]]]
      PROVE  Kept \/ Read
  <2> DEFINE v == [workers[x] EXCEPT !.pc = pc, !.snap = sessions[workers[x].job.session]]
  <2>1. v.job = workers[x].job /\ v.snap = sessions[v.job.session] /\ v.snap.rev = v.job.rev
    BY <1>1, <1>5 DEF WorkerProcess, AtBoundary
  <2> QED
    BY <2>1, <1>1, <1>5
<1>6. ASSUME NEW x \in Workers, Claim(x) PROVE Kept
  <2>1. PICK k : workers' = [workers EXCEPT ![x] = [IdleWorker EXCEPT !.pc = "CLAIMED", !.job = k]]
    BY <1>6 DEF Claim
  <2>2. [IdleWorker EXCEPT !.pc = "CLAIMED", !.job = k].pc = "CLAIMED"
    BY DEF IdleWorker
  <2> QED
    BY <2>1, <2>2, <1>1
<1>7. ASSUME NEW x \in Workers, ReadSession(x) PROVE Kept \/ Read
  <2>1. \/ WorkerGoes(x, "SUCCEEDING")
        \/ WorkerErrs(x, "STALE") \/ WorkerErrs(x, "PAGES")
        \/ /\ sessions' = sessions /\ AtBoundary(workers[x].job)
           /\ workers' = [workers EXCEPT ![x] = [@ EXCEPT !.pc = "GENERATING",
                                                         !.snap = sessions[workers[x].job.session]]]
    BY <1>7 DEF ReadSession, db
  <2> QED
    BY <2>1, <1>3, <1>4, <1>5
<1>8. ASSUME NEW x \in Workers, ReadForFailure(x) PROVE Kept \/ Read
  <2>1. \/ WorkerGoes(x, "FAILING")
        \/ /\ sessions' = sessions /\ AtBoundary(workers[x].job)
           /\ workers' = [workers EXCEPT ![x] = [@ EXCEPT !.pc = "RECORDING",
                                                         !.snap = sessions[workers[x].job.session]]]
    BY <1>8 DEF ReadForFailure, db
  <2> QED
    BY <2>1, <1>3, <1>5
<1>9. ASSUME NEW x \in Workers, Work(x) \/ WorkerCrash(x) PROVE Kept \/ Read
  <2>1. CASE Claim(x) \/ ReadSession(x) \/ ReadForFailure(x)
    BY <2>1, <1>6, <1>7, <1>8
  <2>2. CASE GatewayFails(x) \/ OutputRejected(x) \/ QuestionPointerChanged(x) \/ SaveConflicts(x)
    BY <2>2, <1>4 DEF GatewayFails, OutputRejected, QuestionPointerChanged, SaveConflicts
  <2>3. CASE SaveGenerated(x) \/ SaveFailure(x) \/ SaveFailureRefused(x)
    BY <2>3, <1>3 DEF SaveGenerated, SaveFailure, SaveFailureRefused
  <2>4. CASE FinishJob(x) \/ WorkerCrash(x)
    BY <2>4, <1>2 DEF FinishJob, WorkerCrash
  <2>5. CASE StorageFails(x)
    BY <2>5, <1>2, <1>3, <1>4 DEF StorageFails
  <2> QED
    BY <1>9, <2>1, <2>2, <2>3, <2>4, <2>5 DEF Work
<1>10. ASSUME NEW a \in Apis, Command(a) PROVE Kept
  BY <1>10 DEF Command, LookUp, ReadAndApply, Refuse, SaveCommand, SaveRefused, ApiCrash
<1>11. ASSUME NEW id \in SessionIds, NEW p \in Offered, Creation(id, p) PROVE Kept
  BY <1>11 DEF Creation, RequestDirections, CreateSession
<1>12. ASSUME NEW id \in SessionIds, Direct(id) PROVE Kept
  BY <1>12 DEF Direct, WriteDirectly, RecordFailure
<1>13. CASE UNCHANGED vars
  BY <1>13 DEF vars
<1> QED
  BY <1>9, <1>10, <1>11, <1>12, <1>13 DEF Next

(* The commands table grows only by the row of a save, under a free key    *)
(* and with the revision that save has just made.                          *)
LEMMA CommandSteps ==
  ASSUME RevisionInv, [Next]_vars
  PROVE  \/ commands' = commands
         \/ \E row : /\ commands' = commands \cup {row}
                     /\ KeyIsFree(row.key)
                     /\ row.session \in SessionIds
                     /\ row.rev = sessions'[row.session].rev
                     /\ row.rev > sessions[row.session].rev
<1>1. ASSUME NEW a \in Apis, SaveCommand(a), commands' # commands
      PROVE  \E row : /\ commands' = commands \cup {row}
                      /\ KeyIsFree(row.key)
                      /\ row.session \in SessionIds
                      /\ row.rev = sessions'[row.session].rev
                      /\ row.rev > sessions[row.session].rev
  <2> DEFINE p == api[a]
  <2>1. TypeOK /\ p.session \in SessionIds /\ p.command \in Commands /\ p.base \in Session
    BY <1>1 DEF RevisionInv, TypeInv, TypeOK, ApiProcess, RequestsAreComplete, SaveCommand
  <2>2. PICK next \in ClientNext(p.base, p.command) :
          /\ Accepts(p, next)
          /\ sessions' = [sessions EXCEPT ![p.session] = next]
          /\ commands' = IF p.key \in Keys
                         THEN commands \cup {[key |-> p.key, session |-> p.session,
                                              event |-> p.command.event, rev |-> next.rev]}
                         ELSE commands
    BY <1>1 DEF SaveCommand
  <2>3. next.rev = sessions[p.session].rev + 1 /\ KeyIsFree(p.key)
    BY <2>1, <2>2, ClientNextIsASession DEF Accepts, Current
  <2>4. sessions[p.session].rev \in Nat /\ sessions'[p.session] = next
    BY <2>1, <2>2, RevisionsAreNumbers DEF TypeOK
  <2> DEFINE row == [key |-> p.key, session |-> p.session,
                     event |-> p.command.event, rev |-> next.rev]
  <2>5. /\ commands' = commands \cup {row} /\ row.key = p.key
        /\ row.session = p.session /\ row.rev = next.rev
    BY <1>1, <2>2
  <2>6. next.rev > sessions[p.session].rev
    BY <2>3, <2>4
  <2> QED
    BY <2>1, <2>3, <2>4, <2>5, <2>6
<1>2. ASSUME NEW a \in Apis, Command(a), ~SaveCommand(a) PROVE commands' = commands
  BY <1>2 DEF Command, LookUp, ReadAndApply, Refuse, SaveRefused, ApiCrash, db
<1>3. ASSUME NEW id \in SessionIds, NEW p \in Offered, Creation(id, p) PROVE commands' = commands
  BY <1>3 DEF Creation, RequestDirections, CreateSession
<1>4. ASSUME NEW id \in SessionIds, Direct(id) PROVE commands' = commands
  BY <1>4 DEF Direct, WriteDirectly, RecordFailure
<1>5. ASSUME NEW w \in Workers, Work(w) \/ WorkerCrash(w) PROVE commands' = commands
  BY <1>5 DEF Work, WorkerCrash, Claim, ReadSession, GatewayFails, OutputRejected,
     QuestionPointerChanged, SaveGenerated, SaveConflicts, ReadForFailure, SaveFailure,
     SaveFailureRefused, FinishJob, StorageFails, db
<1>6. CASE UNCHANGED vars
  BY <1>6 DEF vars
<1> QED
  BY <1>1, <1>2, <1>3, <1>4, <1>5, <1>6 DEF Next

-----------------------------------------------------------------------------
LEMMA RevisionInvStep == RevisionInv /\ [Next]_vars => RevisionInv'
<1> SUFFICES ASSUME RevisionInv, [Next]_vars PROVE RevisionInv'
  OBVIOUS
<1>1. TypeInv /\ TypeInv' /\ TypeOK /\ TypeOK' /\ Advancing
  BY TypeInvStep, StepsAdvance DEF RevisionInv, TypeInv
<1>2. HeldByApis'
  <2> SUFFICES ASSUME NEW a \in Apis, api'[a].pc = "SAVING"
               PROVE  Held(api'[a].base, sessions'[api'[a].session])
    BY DEF HeldByApis
  <2>1. /\ api'[a].session \in SessionIds /\ api'[a].base \in Session
        /\ api'[a].base.rev \in Int
    BY <1>1 DEF TypeInv, TypeOK, ApiProcess, RequestsAreComplete, Session
  <2>2. CASE api'[a] = api[a]
    <3>1. Held(api'[a].base, sessions[api'[a].session])
      BY <2>2 DEF RevisionInv, HeldByApis
    <3> QED
      BY <3>1, <2>1, <2>2, <1>1, StillHeld
  <2>3. CASE sessions' = sessions /\ api'[a].base = sessions[api'[a].session]
    BY <2>3, <2>1 DEF Held
  <2> QED
    BY <2>2, <2>3, <1>1, ApiSteps
<1>3. HeldByWorkers'
  <2> SUFFICES ASSUME NEW w \in Workers, workers'[w].pc \in {"GENERATING", "RECORDING"}
               PROVE  /\ workers'[w].snap.rev = workers'[w].job.rev
                      /\ Held(workers'[w].snap, sessions'[workers'[w].job.session])
    BY DEF HeldByWorkers
  <2>1. /\ workers'[w].job.session \in SessionIds /\ workers'[w].snap \in Session
        /\ workers'[w].snap.rev \in Int
    <3>1. workers'[w] \in WorkerProcess /\ workers'[w].job \in DOMAIN jobs'
      BY <1>1 DEF TypeInv, TypeOK, ClaimIsExclusive
    <3>2. workers'[w].job \in JobKey /\ workers'[w].snap \in Session
      BY <3>1, <1>1 DEF TypeOK, WorkerProcess
    <3> QED
      BY <3>2 DEF JobKey, Session
  <2>2. CASE workers'[w] = workers[w]
    <3>1. /\ Held(workers'[w].snap, sessions[workers'[w].job.session])
          /\ workers'[w].snap.rev = workers'[w].job.rev
      BY <2>2 DEF RevisionInv, HeldByWorkers
    <3> QED
      BY <3>1, <2>1, <2>2, <1>1, StillHeld
  <2>3. CASE /\ sessions' = sessions
             /\ workers'[w].snap = sessions[workers'[w].job.session]
             /\ workers'[w].snap.rev = workers'[w].job.rev
    BY <2>3, <2>1 DEF Held
  <2> QED
    BY <2>2, <2>3, <1>1, WorkerSteps
<1>4. RecordedRevisions' /\ KeyAppliedOnce'
  <2>1. \A r \in commands : /\ r.rev \in Nat /\ r.session \in SessionIds
                            /\ r.rev <= sessions[r.session].rev
    BY <1>1 DEF TypeOK, CommandRow, RevisionInv, RecordedRevisions
  <2>2. \A id \in SessionIds : /\ sessions[id].rev \in Nat /\ sessions'[id].rev \in Nat
                               /\ sessions[id].rev <= sessions'[id].rev
    <3>1. \A s \in Session : s.rev \in Nat
      BY DEF Session
    <3>2. \A id \in SessionIds : sessions[id].rev \in Nat /\ sessions'[id].rev \in Nat
      BY <3>1, <1>1 DEF TypeOK
    <3> QED
      BY <3>2, <1>1 DEF Advancing
  <2>3. CASE commands' = commands
    BY <2>1, <2>2, <2>3 DEF RevisionInv, RecordedRevisions, KeyAppliedOnce
  <2>4. CASE \E row : /\ commands' = commands \cup {row}
                      /\ KeyIsFree(row.key)
                      /\ row.session \in SessionIds
                      /\ row.rev = sessions'[row.session].rev
                      /\ row.rev > sessions[row.session].rev
    <3>1. PICK row : /\ commands' = commands \cup {row}
                     /\ KeyIsFree(row.key)
                     /\ row.session \in SessionIds
                     /\ row.rev = sessions'[row.session].rev
                     /\ row.rev > sessions[row.session].rev
      BY <2>4
    <3>2. RecordedRevisions'
      BY <3>1, <2>1, <2>2 DEF RecordedRevisions
    <3>3. \A r \in commands : r.key # row.key /\ (r.session = row.session => r.rev # row.rev)
      BY <3>1, <2>1, <2>2 DEF KeyIsFree
    <3>4. KeyAppliedOnce'
      BY <3>1, <3>3 DEF RevisionInv, KeyAppliedOnce
    <3> QED
      BY <3>2, <3>4
  <2> QED
    BY <2>3, <2>4, CommandSteps
<1> QED
  BY <1>1, <1>2, <1>3, <1>4 DEF RevisionInv

LEMMA RevisionInvHolds == Spec => []RevisionInv
BY RevisionInvInit, RevisionInvStep, PTL DEF Spec

(* Whatever an API process or a Worker read and still means to write back  *)
(* is the stored session if its revision is still the stored one: the      *)
(* compare-and-set of save and saveFailure cannot be fooled.               *)
THEOREM SnapshotsAreIdentified == Spec => []RevisionIdentifiesSnapshot
<1>1. RevisionInv => RevisionIdentifiesSnapshot
  BY DEF RevisionInv, HeldByApis, HeldByWorkers, Held, RevisionIdentifiesSnapshot, Current
<1> QED
  BY <1>1, RevisionInvHolds, PTL

(* A key names one command for good, and no two recorded commands of a     *)
(* session share a revision, however many processes execute the same key.  *)
THEOREM KeysApplyOnce == Spec => []KeyAppliedOnce
<1>1. RevisionInv => KeyAppliedOnce
  BY DEF RevisionInv
<1> QED
  BY <1>1, RevisionInvHolds, PTL

(* A Worker's write takes its session from the revision its job was        *)
(* requested for to the one right after it, and touches no other session.  *)
THEOREM LateGenerationsAreLost == Spec => GenerationsLandOnTheirRevision
<1> DEFINE Landing == \A w \in Workers, id \in SessionIds :
                        workers'[w] # workers[w] /\ sessions'[id] # sessions[id] =>
                          /\ workers[w].job.session = id
                          /\ sessions[id].rev = workers[w].job.rev
                          /\ sessions'[id].rev = workers[w].job.rev + 1
<1>1. RevisionInv /\ [Next]_vars => [Landing]_vars
  <2> SUFFICES ASSUME RevisionInv, [Next]_vars, NEW w \in Workers, NEW id \in SessionIds,
                      workers'[w] # workers[w], sessions'[id] # sessions[id]
               PROVE  /\ workers[w].job.session = id
                      /\ sessions[id].rev = workers[w].job.rev
                      /\ sessions'[id].rev = workers[w].job.rev + 1
    OBVIOUS
  <2>1. sessions \in [SessionIds -> Session] /\ workers \in [Workers -> WorkerProcess]
    BY DEF RevisionInv, TypeInv, TypeOK
  <2>2. PICK x \in Workers : SaveGenerated(x) \/ SaveFailure(x)
    <3>1. ASSUME NEW a \in Apis, Command(a) PROVE workers' = workers
      BY <3>1 DEF Command, LookUp, ReadAndApply, Refuse, SaveCommand, SaveRefused, ApiCrash
    <3>2. ASSUME NEW i \in SessionIds, NEW p \in Offered, Creation(i, p) PROVE workers' = workers
      BY <3>2 DEF Creation, RequestDirections, CreateSession
    <3>3. ASSUME NEW i \in SessionIds, Direct(i) PROVE workers' = workers
      BY <3>3 DEF Direct, WriteDirectly, RecordFailure
    <3>4. ASSUME NEW x \in Workers, Work(x) \/ WorkerCrash(x), ~(SaveGenerated(x) \/ SaveFailure(x))
          PROVE  sessions' = sessions
      BY <3>4 DEF Work, WorkerCrash, Claim, ReadSession, GatewayFails, OutputRejected,
         QuestionPointerChanged, SaveConflicts, ReadForFailure, SaveFailureRefused,
         FinishJob, StorageFails, db
    <3>5. ~ UNCHANGED vars
      BY DEF vars
    <3> QED
      BY <3>1, <3>2, <3>3, <3>4, <3>5 DEF Next
  <2>3. x = w
    BY <2>1, <2>2 DEF SaveGenerated, SaveFailure, WorkerGoes
  <2> DEFINE k == workers[w].job
  <2>4. PICK next \in Session :
          /\ k.session \in SessionIds
          /\ sessions[k.session].rev = k.rev
          /\ next.rev = k.rev + 1
          /\ sessions' = [sessions EXCEPT ![k.session] = next]
    BY <2>2, <2>3, WorkerWrites
  <2>5. k.session = id
    BY <2>1, <2>4
  <2> QED
    BY <2>1, <2>4, <2>5
<1>2. RevisionInv /\ [Next]_vars => [Landing]_vars
  BY <1>1
<1> QED
  BY <1>2, RevisionInvHolds, PTL DEF Spec, GenerationsLandOnTheirRevision
=============================================================================
