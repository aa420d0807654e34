--------------------------- MODULE GuidedLearning ---------------------------
(***************************************************************************)
(* Guided learning as it runs: API processes that execute client commands, *)
(* Worker processes that execute generation jobs, and the SQLite database  *)
(* both open. Every action is what one process does between two accesses   *)
(* to the database; a transaction is one action. Nothing but the database  *)
(* is shared, and nothing but a compare-and-set on session_revision and    *)
(* the idempotency keys protects a session from a write based on an old    *)
(* read.                                                                   *)
(***************************************************************************)
EXTENDS GuidedLearningSession

CONSTANTS SessionIds,   \* session_id values
          Apis,         \* API processes
          Workers,      \* Worker processes
          Keys,         \* idempotency keys a client may send again
          OneShot,      \* any idempotency key that is never sent again
          NoWorker,     \* jobs.worker_id IS NULL
          NoId,         \* the session of a process that holds none
          Offered,      \* the providers a session may be created with
          Faults,       \* what may go wrong around the program
          DirectWrites, \* whether the API's in-process operations are called
          MaxRevision   \* bound: clients leave a session alone from here on

ASSUME GuidedLearningAssumption ==
  /\ OneShot \notin Keys
  /\ NoWorker \notin Workers
  /\ NoId \notin SessionIds
  /\ Offered \subseteq Providers
  /\ Faults \subseteq {"GATEWAY", "OUTPUT", "PAGES", "STORAGE", "CRASH"}
  /\ DirectWrites \in BOOLEAN
  /\ MaxRevision \in Nat

VARIABLES sessions,  \* guided_learning_sessions: the snapshot per session_id
          provider,  \* guided_learning_provider_configs
          jobs,      \* jobs: a row per <<session, kind, revision>> key
          commands,  \* guided_learning_commands, the rows of Keys
          failures,  \* guided_learning_failures
          api,       \* the request each API process is executing
          workers    \* the job each Worker process is executing

db == <<sessions, provider, jobs, commands, failures>>
vars == <<sessions, provider, jobs, commands, failures, api, workers>>

-----------------------------------------------------------------------------
(* Jobs. A job kind is named after the operation it performs.              *)
Operations == {"GENERATE_DIRECTIONS", "GENERATE_QUESTIONS",
               "GENERATE_FEEDBACK", "GENERATE_STAGE_SUMMARY"}

(* idempotency_key, UNIQUE: session, kind and expected_revision.           *)
JobKey == [session : SessionIds, op : Operations, rev : Nat]

(* The rest of a job's payload and its scheduling columns; question is 0   *)
(* when the payload carries no question pointer.                           *)
JobRow == [expected : States, question : 0..MaxQuestions,
           state : {"QUEUED", "RUNNING", "SUCCEEDED", "FAILED"},
           worker : Workers \cup {NoWorker}]

(* Mutant: a state the column's CHECK does not list.                       *)
QueuedRow_Pending(expected, question) ==
  [expected |-> expected, question |-> question, state |-> "PENDING", worker |-> NoWorker]

QueuedRow(expected, question) ==
  [expected |-> expected, question |-> question, state |-> "QUEUED", worker |-> NoWorker]

(* Mutant: a job one revision ahead.                                       *)
Job_Ahead(id, op, rev, expected, question) ==
  [k \in {[session |-> id, op |-> op, rev |-> rev + 1]} |-> QueuedRow(expected, question)]

(* generationJob: one row under its key.                                   *)
Job(id, op, rev, expected, question) ==
  [k \in {[session |-> id, op |-> op, rev |-> rev]} |-> QueuedRow(expected, question)]
NoJobs == [k \in {} |-> QueuedRow("CREATED", 0)]

(* Mutant: RETRY goes back to the failed state without a new job.          *)
Requested_NothingOnRetry(id, prev, next, event) ==
  CASE event = "START_STAGE" ->
         Job(id, "GENERATE_QUESTIONS", next.rev, "QUESTIONS_GENERATING", 0)
    [] event \in {"SUBMIT_ANSWER", "EDIT_ANSWER"} ->
         Job(id, "GENERATE_FEEDBACK", next.rev, "ANSWER_SUBMITTED", next.current)
    [] event = "ADVANCE_QUESTION" /\ ~HasRemaining(prev) ->
         Job(id, "GENERATE_STAGE_SUMMARY", next.rev, "SUMMARY_GENERATING", 0)
    [] OTHER -> NoJobs

(* jobForCommand: the generation a command requests, if any.               *)
Requested(id, prev, next, event) ==
  CASE event = "START_STAGE" ->
         Job(id, "GENERATE_QUESTIONS", next.rev, "QUESTIONS_GENERATING", 0)
    [] event \in {"SUBMIT_ANSWER", "EDIT_ANSWER"} ->
         Job(id, "GENERATE_FEEDBACK", next.rev, "ANSWER_SUBMITTED", next.current)
    [] event = "ADVANCE_QUESTION" /\ ~HasRemaining(prev) ->
         Job(id, "GENERATE_STAGE_SUMMARY", next.rev, "SUMMARY_GENERATING", 0)
    [] event = "RETRY" -> Job(id, prev.failure.op, next.rev, next.state, 0)
    [] OTHER -> NoJobs

(* The jobs table after inserting the rows of `new`.                       *)
WithJobs(new) ==
  [k \in DOMAIN jobs \cup DOMAIN new |-> IF k \in DOMAIN jobs THEN jobs[k] ELSE new[k]]

(* The session state a finished generation leaves behind.                  *)
CompletedState(op) ==
  CASE op = "GENERATE_DIRECTIONS" -> "AWAITING_DIRECTION_SELECTION"
    [] op = "GENERATE_QUESTIONS" -> "AWAITING_ANSWER"
    [] op = "GENERATE_FEEDBACK" -> "FEEDBACK_READY"
    [] op = "GENERATE_STAGE_SUMMARY" -> "STAGE_COMPLETED"

(* The row saveFailure inserts; rev is the revision that failed.           *)
FailureRow(id, rev, failure) ==
  [session |-> id, rev |-> rev, failure |-> failure, superseded |-> FALSE]

-----------------------------------------------------------------------------
(* Processes.                                                              *)
ApiProcess == [pc : {"IDLE", "LOOKED_UP", "SAVING"},
               key : Keys \cup {OneShot},
               session : SessionIds \cup {NoId},
               command : Commands \cup {[event |-> "NONE", arg |-> 0]},
               base : Session]
IdleApi == [pc |-> "IDLE", key |-> OneShot, session |-> NoId,
            command |-> [event |-> "NONE", arg |-> 0], base |-> NoSession]

Errors == {"NONE", "GATEWAY", "OUTPUT", "PAGES", "POINTER", "STALE", "STORAGE"}
NoJob == [session |-> NoId, op |-> "NONE", rev |-> 0]
WorkerProcess == [pc : {"IDLE", "CLAIMED", "GENERATING", "ERRING", "RECORDING",
                        "SUCCEEDING", "FAILING"},
                  job : JobKey \cup {NoJob},
                  snap : Session,
                  error : Errors]
IdleWorker == [pc |-> "IDLE", job |-> NoJob, snap |-> NoSession, error |-> "NONE"]

Init == /\ sessions = [id \in SessionIds |-> NoSession]
        /\ provider = [id \in SessionIds |-> "MOCK"]
        /\ jobs = NoJobs
        /\ commands = {}
        /\ failures = {}
        /\ api = [a \in Apis |-> IdleApi]
        /\ workers = [w \in Workers |-> IdleWorker]

-----------------------------------------------------------------------------
(* API: creating a session.                                                *)

(* requestDirectionsGeneration: session, provider and job in one           *)
(* transaction.                                                            *)
RequestDirections(id, p) ==
  /\ sessions[id] = NoSession
  /\ sessions' = [sessions EXCEPT ![id] = NewSession]
  /\ provider' = [provider EXCEPT ![id] = p]
  /\ jobs' = WithJobs(Job(id, "GENERATE_DIRECTIONS", NewSession.rev, "CREATED", 0))
  /\ UNCHANGED <<commands, failures, api, workers>>

-----------------------------------------------------------------------------
(* API: executeCommand, in three steps.                                    *)

(* Mutant: the commands table is never consulted.                          *)
KeyIsFree_Always(key) == TRUE

KeyIsFree(key) == \A row \in commands : row.key # key

(* findCommand finds no row: a recorded key is answered from its row and   *)
(* changes nothing.                                                        *)
LookUp(a) ==
  /\ api[a].pc = "IDLE"
  /\ \E key \in Keys \cup {OneShot} :
       /\ KeyIsFree(key)
       /\ api' = [api EXCEPT ![a] = [@ EXCEPT !.pc = "LOOKED_UP", !.key = key]]
  /\ UNCHANGED <<db, workers>>

(* getSession, applyClientCommand and assertConsistent: the session is     *)
(* read and the whole successor computed from what was read.               *)
ReadAndApply(a) ==
  /\ api[a].pc = "LOOKED_UP"
  /\ \E id \in SessionIds, c \in Commands :
       /\ sessions[id].rev < MaxRevision
       /\ \E next \in ClientNext(sessions[id], c) : Consistent(next)
       /\ api' = [api EXCEPT ![a] = [@ EXCEPT !.pc = "SAVING", !.session = id,
                                              !.command = c, !.base = sessions[id]]]
  /\ UNCHANGED <<db, workers>>

(* Unknown session, illegal event, payload that does not fit.              *)
Refuse(a) ==
  /\ api[a].pc = "LOOKED_UP"
  /\ api' = [api EXCEPT ![a] = IdleApi]
  /\ UNCHANGED <<db, workers>>

(* Mutants: RETRY closes every session's failures; RETRY closes none.      *)
Superseded_InEverySession(id) == {[row EXCEPT !.superseded = TRUE] : row \in failures}
Superseded_Never(id) == failures

Superseded(id) ==
  {IF row.session = id THEN [row EXCEPT !.superseded = TRUE] ELSE row : row \in failures}

(* What save checks inside its transaction: the key again, the revision,   *)
(* and the UNIQUE key of the job it inserts.                               *)
(* Mutant: the UPDATE is not conditional on the revision.                  *)
Current_Always(p) == TRUE

Current(p) == sessions[p.session].rev = p.base.rev
NewJobs(p, next) == Requested(p.session, p.base, next, p.command.event)
(* Mutant: the key is looked up before the transaction only.               *)
Accepts_WithoutKeyCheck(p, next) ==
  Current(p) /\ DOMAIN NewJobs(p, next) \cap DOMAIN jobs = {}

Accepts(p, next) ==
  KeyIsFree(p.key) /\ Current(p) /\ DOMAIN NewJobs(p, next) \cap DOMAIN jobs = {}

(* save: snapshot, command row, superseded failures and job, atomically.   *)
SaveCommand(a) ==
  LET p == api[a]
  IN /\ p.pc = "SAVING"
     /\ \E next \in ClientNext(p.base, p.command) :
          /\ Accepts(p, next)
          /\ sessions' = [sessions EXCEPT ![p.session] = next]
          /\ jobs' = WithJobs(NewJobs(p, next))
          /\ commands' = IF p.key \in Keys
                         THEN commands \cup {[key |-> p.key, session |-> p.session,
                                              event |-> p.command.event, rev |-> next.rev]}
                         ELSE commands
     /\ failures' = IF p.command.event = "RETRY" THEN Superseded(p.session) ELSE failures
     /\ api' = [api EXCEPT ![a] = IdleApi]
     /\ UNCHANGED <<provider, workers>>

(* The transaction rolls back: IDEMPOTENCY_CONFLICT, REVISION_CONFLICT or  *)
(* a storage error; the client gets the other row's answer or an error.    *)
SaveRefused(a) ==
  /\ api[a].pc = "SAVING"
  /\ \/ \A next \in ClientNext(api[a].base, api[a].command) : ~Accepts(api[a], next)
     \/ "STORAGE" \in Faults
  /\ api' = [api EXCEPT ![a] = IdleApi]
  /\ UNCHANGED <<db, workers>>

ApiCrash(a) ==
  /\ "CRASH" \in Faults /\ api[a].pc # "IDLE"
  /\ api' = [api EXCEPT ![a] = IdleApi]
  /\ UNCHANGED <<db, workers>>

-----------------------------------------------------------------------------
(* API: the operations tests and embedders call in process. Each reads and *)
(* commits in one synchronous call guarded by the same compare-and-set.    *)

CreateSession(id, p) ==
  /\ DirectWrites /\ sessions[id] = NoSession
  /\ sessions' = [sessions EXCEPT ![id] = NewSession]
  /\ provider' = [provider EXCEPT ![id] = p]
  /\ UNCHANGED <<jobs, commands, failures, api, workers>>

(* generateDirections, writeQuestions, writeFeedback, writeSummary and     *)
(* completeSession.                                                        *)
DirectResults(s, p) ==
  DirectionsReady(s, "MOCK") \cup QuestionsReady(s, "BYOK") \cup FeedbackReady(s, p)
    \cup SummaryReady(s)
    \cup {Moved(s, to) : to \in EventTargets(s, "COMPLETE_SESSION", NoFailure)}

WriteDirectly(id) ==
  /\ DirectWrites /\ sessions[id].rev < MaxRevision
  /\ \E next \in DirectResults(sessions[id], provider[id]) :
       /\ Consistent(next)
       /\ sessions' = [sessions EXCEPT ![id] = next]
  /\ UNCHANGED <<provider, jobs, commands, failures, api, workers>>

(* recordFailure. Its event is checked against a stand-in failure of class *)
(* RETRYABLE, so only a retryable one ever passes.                         *)
RecordFailure(id) ==
  /\ DirectWrites /\ sessions[id].rev < MaxRevision
  /\ \E op \in Operations :
       LET failure == [class |-> "RETRYABLE", op |-> op, resume |-> sessions[id].state]
       IN \E next \in Failing(sessions[id], failure) :
            /\ Consistent(next)
            /\ sessions' = [sessions EXCEPT ![id] = next]
            /\ failures' = failures \cup {FailureRow(id, sessions[id].rev, failure)}
  /\ UNCHANGED <<provider, jobs, commands, api, workers>>

-----------------------------------------------------------------------------
(* Worker: JobRuntime.runOnce and the generation handler.                  *)

WorkerGoes(w, pc) == workers' = [workers EXCEPT ![w] = [@ EXCEPT !.pc = pc]]
WorkerErrs(w, error) ==
  workers' = [workers EXCEPT ![w] = [@ EXCEPT !.pc = "ERRING", !.error = error,
                                              !.snap = NoSession]]

(* Mutant: any row is claimed, not only a QUEUED one.                      *)
Claim_AnyJob(w) ==
  /\ workers[w].pc = "IDLE"
  /\ \E k \in DOMAIN jobs :
       /\ jobs' = [jobs EXCEPT ![k] = [@ EXCEPT !.state = "RUNNING", !.worker = w]]
       /\ workers' = [workers EXCEPT ![w] = [IdleWorker EXCEPT !.pc = "CLAIMED", !.job = k]]
  /\ UNCHANGED <<sessions, provider, commands, failures, api>>

(* claimNextJob.                                                           *)
Claim(w) ==
  /\ workers[w].pc = "IDLE"
  /\ \E k \in DOMAIN jobs :
       /\ jobs[k].state = "QUEUED"
       /\ jobs' = [jobs EXCEPT ![k] = [@ EXCEPT !.state = "RUNNING", !.worker = w]]
       /\ workers' = [workers EXCEPT ![w] = [IdleWorker EXCEPT !.pc = "CLAIMED", !.job = k]]
  /\ UNCHANGED <<sessions, provider, commands, failures, api>>

AtBoundary(k) == /\ sessions[k.session].rev = k.rev
                 /\ sessions[k.session].state = jobs[k].expected
AlreadyDone(k) == /\ sessions[k.session].rev > k.rev
                  /\ sessions[k.session].state = CompletedState(k.op)

(* runGeneration up to the model call: already done, stale, no page of the *)
(* document extracted (yet), or generate.                                  *)
ReadSession(w) ==
  /\ workers[w].pc = "CLAIMED"
  /\ LET k == workers[w].job
     IN \/ AlreadyDone(k) /\ WorkerGoes(w, "SUCCEEDING")
        \/ ~AlreadyDone(k) /\ ~AtBoundary(k) /\ WorkerErrs(w, "STALE")
        \/ /\ ~AlreadyDone(k) /\ AtBoundary(k) /\ "PAGES" \in Faults
           /\ WorkerErrs(w, "PAGES")
        \/ /\ ~AlreadyDone(k) /\ AtBoundary(k)
           /\ workers' = [workers EXCEPT ![w] = [@ EXCEPT !.pc = "GENERATING",
                                                          !.snap = sessions[k.session]]]
  /\ UNCHANGED <<db, api>>

(* What the handler makes of a well-formed answer to the snapshot it read. *)
Generated(k, snap) ==
  CASE k.op = "GENERATE_DIRECTIONS" -> DirectionsReady(snap, provider[k.session])
    [] k.op = "GENERATE_QUESTIONS" -> QuestionsReady(snap, provider[k.session])
    [] k.op = "GENERATE_FEEDBACK" -> FeedbackReady(snap, provider[k.session])
    [] k.op = "GENERATE_STAGE_SUMMARY" -> SummaryReady(snap)

(* The mock summary is the one generation that calls no gateway.           *)
CallsGateway(k) == provider[k.session] = "BYOK" \/ k.op # "GENERATE_STAGE_SUMMARY"

(* withModelFeedback compares the payload's pointer with the session's.    *)
PointerChanged(k, snap) ==
  /\ provider[k.session] = "BYOK" /\ k.op = "GENERATE_FEEDBACK"
  /\ jobs[k].question # snap.current

(* Mutant: a failed call is swallowed and the job reported done.           *)
GatewayFails_Quietly(w) ==
  /\ workers[w].pc = "GENERATING"
  /\ "GATEWAY" \in Faults /\ CallsGateway(workers[w].job)
  /\ WorkerGoes(w, "SUCCEEDING")
  /\ UNCHANGED <<db, api>>

GatewayFails(w) ==
  /\ workers[w].pc = "GENERATING"
  /\ "GATEWAY" \in Faults /\ CallsGateway(workers[w].job)
  /\ WorkerErrs(w, "GATEWAY")
  /\ UNCHANGED <<db, api>>

(* A malformed answer, an event the state does not allow, or a successor   *)
(* the validator refuses.                                                  *)
OutputRejected(w) ==
  LET k == workers[w].job
      results == Generated(k, workers[w].snap)
  IN /\ workers[w].pc = "GENERATING"
     /\ \/ "OUTPUT" \in Faults /\ CallsGateway(k)
        \/ results = {}
        \/ \E next \in results : ~Consistent(next)
     /\ WorkerErrs(w, "OUTPUT")
     /\ UNCHANGED <<db, api>>

QuestionPointerChanged(w) ==
  /\ workers[w].pc = "GENERATING"
  /\ PointerChanged(workers[w].job, workers[w].snap)
  /\ WorkerErrs(w, "POINTER")
  /\ UNCHANGED <<db, api>>

Results(w) ==
  {next \in Generated(workers[w].job, workers[w].snap) :
     Consistent(next) /\ ~PointerChanged(workers[w].job, workers[w].snap)}

(* Mutant: the result is written whatever the revision is by now.          *)
SaveGenerated_Blindly(w) ==
  /\ workers[w].pc = "GENERATING"
  /\ \E next \in Results(w) :
       sessions' = [sessions EXCEPT ![workers[w].job.session] = next]
  /\ WorkerGoes(w, "SUCCEEDING")
  /\ UNCHANGED <<provider, jobs, commands, failures, api>>

(* save with the revision the job was created for.                         *)
SaveGenerated(w) ==
  LET k == workers[w].job
  IN /\ workers[w].pc = "GENERATING"
     /\ sessions[k.session].rev = k.rev
     /\ \E next \in Results(w) : sessions' = [sessions EXCEPT ![k.session] = next]
     /\ WorkerGoes(w, "SUCCEEDING")
     /\ UNCHANGED <<provider, jobs, commands, failures, api>>

SaveConflicts(w) ==
  LET k == workers[w].job
  IN /\ workers[w].pc = "GENERATING"
     /\ sessions[k.session].rev # k.rev /\ Results(w) # {}
     /\ WorkerErrs(w, "STORAGE")
     /\ UNCHANGED <<db, api>>

(* recordFailureIfCurrent reads the session again ...                      *)
ReadForFailure(w) ==
  /\ workers[w].pc = "ERRING"
  /\ LET k == workers[w].job
     IN IF AtBoundary(k)
        THEN workers' = [workers EXCEPT ![w] = [@ EXCEPT !.pc = "RECORDING",
                                                         !.snap = sessions[k.session]]]
        ELSE WorkerGoes(w, "FAILING")
  /\ UNCHANGED <<db, api>>

(* Anything that is not a GuidedLearningWorkerError counts as retryable.   *)
Retryable(error) == error \in {"GATEWAY", "STORAGE"}

FailureOf(w) ==
  [class |-> IF Retryable(workers[w].error) THEN "RETRYABLE" ELSE "PERMANENT",
   op |-> workers[w].job.op, resume |-> jobs[workers[w].job].expected]

(* ... and records the failure if nobody wrote in between.                 *)
SaveFailure(w) ==
  LET k == workers[w].job
  IN /\ workers[w].pc = "RECORDING"
     /\ sessions[k.session].rev = k.rev
     /\ \E next \in Failing(workers[w].snap, FailureOf(w)) :
          /\ Consistent(next)
          /\ sessions' = [sessions EXCEPT ![k.session] = next]
     /\ failures' = failures \cup {FailureRow(k.session, k.rev, FailureOf(w))}
     /\ WorkerGoes(w, "FAILING")
     /\ UNCHANGED <<provider, jobs, commands, api>>

SaveFailureRefused(w) ==
  LET k == workers[w].job
  IN /\ workers[w].pc = "RECORDING"
     /\ ~ (/\ sessions[k.session].rev = k.rev
           /\ \E next \in Failing(workers[w].snap, FailureOf(w)) : Consistent(next))
     /\ WorkerGoes(w, "FAILING")
     /\ UNCHANGED <<db, api>>

(* succeedJob and failJob, which insist on a RUNNING row of this worker.   *)
FinishJob(w) ==
  LET k == workers[w].job
      outcome == IF workers[w].pc = "SUCCEEDING" THEN "SUCCEEDED" ELSE "FAILED"
  IN /\ workers[w].pc \in {"SUCCEEDING", "FAILING"}
     /\ jobs[k].state = "RUNNING" /\ jobs[k].worker = w
     /\ jobs' = [jobs EXCEPT ![k] = [@ EXCEPT !.state = outcome]]
     /\ workers' = [workers EXCEPT ![w] = IdleWorker]
     /\ UNCHANGED <<sessions, provider, commands, failures, api>>

(* A storage call throws: before the result is saved it becomes a          *)
(* retryable failure; while that is recorded, or in succeedJob, the job    *)
(* fails; in failJob the exception leaves runOnce and the row RUNNING.     *)
StorageFails(w) ==
  /\ "STORAGE" \in Faults
  /\ \/ workers[w].pc \in {"CLAIMED", "GENERATING"} /\ WorkerErrs(w, "STORAGE")
     \/ workers[w].pc \in {"ERRING", "RECORDING", "SUCCEEDING"} /\ WorkerGoes(w, "FAILING")
     \/ workers[w].pc = "FAILING" /\ workers' = [workers EXCEPT ![w] = IdleWorker]
  /\ UNCHANGED <<db, api>>

(* The process dies and is started again; nothing requeues its job.        *)
WorkerCrash(w) ==
  /\ "CRASH" \in Faults /\ workers[w].pc # "IDLE"
  /\ workers' = [workers EXCEPT ![w] = IdleWorker]
  /\ UNCHANGED <<db, api>>

-----------------------------------------------------------------------------
Command(a) == LookUp(a) \/ ReadAndApply(a) \/ Refuse(a) \/ SaveCommand(a)
              \/ SaveRefused(a) \/ ApiCrash(a)

Creation(id, p) == RequestDirections(id, p) \/ CreateSession(id, p)

Direct(id) == WriteDirectly(id) \/ RecordFailure(id)

Work(w) == Claim(w) \/ ReadSession(w) \/ GatewayFails(w) \/ OutputRejected(w)
           \/ QuestionPointerChanged(w) \/ SaveGenerated(w) \/ SaveConflicts(w)
           \/ ReadForFailure(w) \/ SaveFailure(w) \/ SaveFailureRefused(w)
           \/ FinishJob(w) \/ StorageFails(w)

Next == \/ \E id \in SessionIds, p \in Offered : Creation(id, p)
        \/ \E a \in Apis : Command(a)
        \/ \E id \in SessionIds : Direct(id)
        \/ \E w \in Workers : Work(w) \/ WorkerCrash(w)

Spec == Init /\ [][Next]_vars

(* Clients may fall silent at any time; a Worker that can go on does.      *)
FairSpec == Spec /\ \A w \in Workers : WF_vars(Work(w))

-----------------------------------------------------------------------------
(* Properties.                                                             *)

CommandRow == [key : Keys, session : SessionIds, event : ClientCommands, rev : Nat]
FailureRows == [session : SessionIds, rev : Nat, failure : Failure, superseded : BOOLEAN]

(* Every variable keeps its type.                                          *)
TypeOK ==
  /\ sessions \in [SessionIds -> Session]
  /\ provider \in [SessionIds -> Providers]
  /\ DOMAIN jobs \subseteq JobKey
  /\ \A k \in DOMAIN jobs : jobs[k] \in JobRow
  /\ commands \subseteq CommandRow
  /\ failures \subseteq FailureRows
  /\ api \in [Apis -> ApiProcess]
  /\ workers \in [Workers -> WorkerProcess]

(* The revision identifies the snapshot: whatever a process read and still *)
(* holds is either the stored session or carries another revision. This is *)
(* what the compare-and-set in save and saveFailure relies on.             *)
RevisionIdentifiesSnapshot ==
  /\ \A a \in Apis : api[a].pc = "SAVING" /\ Current(api[a]) =>
       sessions[api[a].session] = api[a].base
  /\ \A w \in Workers :
       LET s == sessions[workers[w].job.session]
       IN workers[w].pc \in {"GENERATING", "RECORDING"} /\ s.rev = workers[w].snap.rev =>
            s = workers[w].snap

(* The API's own reducer and the contract's validator agree: no command    *)
(* that is legal in a stored session is turned down because its result     *)
(* fails assertConsistent.                                                 *)
LegalCommandsPassTheValidator ==
  \A id \in SessionIds, c \in Commands :
    \A next \in ClientNext(sessions[id], c) : Consistent(next)

(* A key is bound to one command for good, and each recorded command made  *)
(* a revision of its own: a command sent twice, by any API process, takes  *)
(* effect once.                                                            *)
KeyAppliedOnce ==
  \A r1, r2 \in commands :
    r1.key = r2.key \/ (r1.session = r2.session /\ r1.rev = r2.rev) => r1 = r2

(* The states that wait for a Worker, and the generation each waits for.   *)
Awaits == {<<"CREATED", "GENERATE_DIRECTIONS">>,
           <<"QUESTIONS_GENERATING", "GENERATE_QUESTIONS">>,
           <<"ANSWER_SUBMITTED", "GENERATE_FEEDBACK">>,
           <<"SUMMARY_GENERATING", "GENERATE_STAGE_SUMMARY">>}
Waiting(id) == \E op \in Operations : <<sessions[id].state, op>> \in Awaits

(* The job is queued, or a Worker that runs it is still at it.             *)
Live(k) ==
  \/ jobs[k].state = "QUEUED"
  \/ /\ jobs[k].state = "RUNNING"
     /\ \E w \in Workers : workers[w].job = k

(* A waiting session is never orphaned: the job its commit enqueued exists *)
(* under its revision, is for the generation the state waits for, and is   *)
(* the only one of that revision.                                          *)
WaitingSessionHasItsJob ==
  \A id \in SessionIds : Waiting(id) =>
    \E k \in DOMAIN jobs :
      /\ k.session = id /\ k.rev = sessions[id].rev
      /\ <<sessions[id].state, k.op>> \in Awaits
      /\ jobs[k].expected = sessions[id].state
      /\ \A l \in DOMAIN jobs : l.session = id /\ l.rev = k.rev => l = k

(* Without crashes and storage errors that job has not been given up       *)
(* either: it is queued, or a Worker is at it.                             *)
WaitingSessionHasALiveJob ==
  \A id \in SessionIds : Waiting(id) =>
    \E k \in DOMAIN jobs : k.session = id /\ k.rev = sessions[id].rev /\ Live(k)

(* What a client is told when it sends a key again is true: the revision   *)
(* the recorded answer names was reached, and the job it names was queued. *)
Generating == {"START_STAGE", "SUBMIT_ANSWER", "EDIT_ANSWER", "RETRY"}
RecordedAnswerIsTrue ==
  \A row \in commands :
    /\ row.rev <= sessions[row.session].rev
    /\ row.event \in Generating =>
         \E k \in DOMAIN jobs : k.session = row.session /\ k.rev = row.rev

(* No job is ahead of its session, and one whose revision is the session's *)
(* current one expects exactly the state the session is in.                *)
GenerationBoundary ==
  \A k \in DOMAIN jobs :
    /\ k.rev <= sessions[k.session].rev
    /\ k.rev = sessions[k.session].rev => jobs[k].expected = sessions[k.session].state

(* With clients on the command interface only, nothing changes a session   *)
(* under a running generation: the job a Worker holds still fits, and its  *)
(* save cannot conflict.                                                   *)
GenerationUndisturbed ==
  \A w \in Workers :
    workers[w].pc \in {"CLAIMED", "GENERATING", "ERRING", "RECORDING"} =>
      AtBoundary(workers[w].job)

(* The UNIQUE job key never turns a command down that passed every other   *)
(* check of the save.                                                      *)
JobKeyNeverCollides ==
  \A a \in Apis : api[a].pc = "SAVING" =>
    \A next \in ClientNext(api[a].base, api[a].command) :
      KeyIsFree(api[a].key) /\ Current(api[a]) => Accepts(api[a], next)

(* A RUNNING job belongs to the Worker that claimed it and to no other.    *)
ClaimIsExclusive ==
  \A w \in Workers : workers[w].pc # "IDLE" =>
    /\ workers[w].job \in DOMAIN jobs
    /\ jobs[workers[w].job].state = "RUNNING"
    /\ jobs[workers[w].job].worker = w

(* A job is reported SUCCEEDED only if its session moved past it, and not  *)
(* by way of a failure of that very job: no generation is lost quietly.    *)
SuccessMeansTheResultLanded ==
  \A k \in DOMAIN jobs : jobs[k].state = "SUCCEEDED" =>
    /\ sessions[k.session].rev > k.rev
    /\ \A row \in failures : row.session = k.session => row.rev # k.rev

(* The failure table and the snapshots tell the same story: a session has  *)
(* an open failure row exactly while it is in a failure state, the row is  *)
(* the failure the snapshot carries, and it was recorded one revision ago. *)
FailureLedger ==
  \A id \in SessionIds :
    LET open == {row \in failures : row.session = id /\ ~row.superseded}
    IN IF sessions[id].state \in FailureStates
       THEN open = {FailureRow(id, sessions[id].rev - 1, sessions[id].failure)}
       ELSE open = {}

(* An answer that was confirmed or skipped and left behind stays as it is: *)
(* edits reach the current question only, and no late write rolls one back.*)
LeftQuestionsAreFrozen ==
  [][\A id \in SessionIds : \A i \in DOMAIN sessions[id].questions :
       /\ sessions[id].questions[i].status \in Resolved
       /\ i # sessions[id].current
       => i \in DOMAIN sessions'[id].questions
          /\ sessions'[id].questions[i] = sessions[id].questions[i]]_vars

(* A generation writes at most the revision right after the one it was     *)
(* requested for: a second run of a job, or a late answer, changes nothing.*)
GenerationsLandOnTheirRevision ==
  [][\A w \in Workers, id \in SessionIds :
       workers'[w] # workers[w] /\ sessions'[id] # sessions[id] =>
         /\ workers[w].job.session = id
         /\ sessions[id].rev = workers[w].job.rev
         /\ sessions'[id].rev = workers[w].job.rev + 1]_vars

(* Processes read, compute and write in separate steps, yet each write is  *)
(* one step of one session as it is stored then: a command, a result, the  *)
(* completion or a failure the validator lets pass, never one computed     *)
(* from a session that has changed since.                                  *)
EveryWriteIsOneStep ==
  [][sessions' # sessions =>
       \E id \in SessionIds :
         /\ sessions' = [sessions EXCEPT ![id] = sessions'[id]]
         /\ Follows(sessions[id], sessions'[id]) /\ Consistent(sessions'[id])]_vars

(* Every session walks one route, as LearningRoute says.                   *)
Route(id) ==
  LET s == sessions[id]
  IN [phase |-> s.state, rev |-> s.rev, direction |-> s.selected,
      position |-> s.current, total |-> Len(s.questions),
      resolved |-> {i \in DOMAIN s.questions : s.questions[i].status \in Resolved},
      resume |-> s.failure.resume]
Abstract == INSTANCE LearningRoute
              WITH Ids <- SessionIds, Choices <- Directions, MaxTotal <- MaxQuestions,
                   walk <- [id \in SessionIds |-> Route(id)]
WalksTheRoute == Abstract!Spec

(* A session that waits for a generation gets past it, to the result or to *)
(* a recorded failure.                                                     *)
EveryGenerationSettles ==
  \A id \in SessionIds : \A r \in 1..(MaxRevision + 1) :
    (Waiting(id) /\ sessions[id].rev = r) ~> (sessions[id].rev > r)
=============================================================================
