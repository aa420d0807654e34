------------------- MODULE GuidedLearningConsistencyProofs -------------------
(***************************************************************************)
(* What a learner can rely on, for any number of processes and questions:  *)
(* every stored session passes the validator, every step of the system is  *)
(* one atomic step of the reducer on the stored session, and a question    *)
(* that was left keeps its answer.                                         *)
(***************************************************************************)
EXTENDS GuidedLearningProofs

(* Every stored session is consistent, and so is the only successor an API *)
(* process that is about to save would write.                              *)
StoredSessionsAreConsistent == \A id \in SessionIds : Consistent(sessions[id])
SavesAreConsistent ==
  \A a \in Apis : api[a].pc = "SAVING" =>
    \A next \in ClientNext(api[a].base, api[a].command) : Consistent(next)

ConsistencyInv == RevisionInv /\ StoredSessionsAreConsistent /\ SavesAreConsistent

-----------------------------------------------------------------------------
(* A step of the system writes no session, or puts in the place of one     *)
(* stored session one successor of that very session that passes the       *)
(* validator: nothing computed from an older snapshot is ever stored.      *)
Writes(id, next) ==
  /\ sessions' = [sessions EXCEPT ![id] = next]
  /\ Follows(sessions[id], next)
  /\ Consistent(next)

LEMMA SessionSteps ==
  ASSUME ConsistencyInv, [Next]_vars
  PROVE  sessions' = sessions \/ \E id \in SessionIds : \E next : Writes(id, next)
<1> DEFINE Good == sessions' = sessions \/ \E id \in SessionIds : \E next : Writes(id, next)
<1>1. TypeOK /\ TypeInv /\ RevisionInv
  BY DEF ConsistencyInv, RevisionInv, TypeInv
<1>2. ASSUME NEW i \in SessionIds, NEW p \in Offered, Creation(i, p) PROVE Good
  <2>1. sessions[i] = NoSession /\ sessions' = [sessions EXCEPT ![i] = NewSession]
    BY <1>2 DEF Creation, RequestDirections, CreateSession
  <2>2. Follows(sessions[i], NewSession)
    BY <2>1 DEF Follows
  <2> QED
    BY <2>1, <2>2, FirstSessionsAreConsistent DEF Writes
<1>3. ASSUME NEW a \in Apis, SaveCommand(a) PROVE Good
  <2> DEFINE p == api[a]
  <2>1. /\ p.session \in SessionIds /\ p.command \in Commands /\ p.pc = "SAVING"
        /\ Held(p.base, sessions[p.session])
    BY <1>1, <1>3 DEF TypeInv, TypeOK, ApiProcess, RequestsAreComplete, SaveCommand,
       RevisionInv, HeldByApis
  <2>2. PICK next \in ClientNext(p.base, p.command) :
          /\ sessions[p.session].rev = p.base.rev
          /\ sessions' = [sessions EXCEPT ![p.session] = next]
    BY <1>3 DEF SaveCommand, Accepts, Current
  <2>3. p.base = sessions[p.session]
    BY <2>1, <2>2 DEF Held
  <2>4. Consistent(next)
    BY <2>1, <2>2 DEF ConsistencyInv, SavesAreConsistent
  <2>5. Follows(sessions[p.session], next)
    BY <2>1, <2>2, <2>3 DEF Follows
  <2> QED
    BY <2>1, <2>2, <2>4, <2>5 DEF Writes
<1>4. ASSUME NEW i \in SessionIds, WriteDirectly(i) PROVE Good
  <2>1. PICK next \in DirectResults(sessions[i], provider[i]) :
          Consistent(next) /\ sessions' = [sessions EXCEPT ![i] = next]
    BY <1>4 DEF WriteDirectly
  <2>2. provider[i] \in Providers /\ "MOCK" \in Providers /\ "BYOK" \in Providers
    BY <1>1 DEF TypeOK, Providers
  <2>3. Generates(sessions[i], next) \/ Completes(sessions[i], next)
    BY <2>1, <2>2 DEF DirectResults, Generates, Completes
  <2>4. Follows(sessions[i], next)
    BY <2>3 DEF Follows
  <2> QED
    BY <2>1, <2>4 DEF Writes
<1>5. ASSUME NEW i \in SessionIds, RecordFailure(i) PROVE Good
  <2>1. PICK op \in Operations :
          \E next \in Failing(sessions[i], [class |-> "RETRYABLE", op |-> op,
                                            resume |-> sessions[i].state]) :
            Consistent(next) /\ sessions' = [sessions EXCEPT ![i] = next]
    BY <1>5 DEF RecordFailure
  <2> DEFINE failure == [class |-> "RETRYABLE", op |-> op, resume |-> sessions[i].state]
  <2>2. PICK next \in Failing(sessions[i], failure) :
          Consistent(next) /\ sessions' = [sessions EXCEPT ![i] = next]
    BY <2>1
  <2>3. failure \in Failure
    BY <1>1, <2>2, RevisionsAreNumbers, FailureIsTyped
  <2>4. Follows(sessions[i], next)
    BY <2>2, <2>3 DEF Follows
  <2> QED
    BY <2>2, <2>4 DEF Writes
<1>6. ASSUME NEW w \in Workers, SaveGenerated(w) \/ SaveFailure(w) PROVE Good
  <2> DEFINE k == workers[w].job
  <2>1. /\ workers[w].pc \in {"GENERATING", "RECORDING"} /\ sessions[k.session].rev = k.rev
    BY <1>6 DEF SaveGenerated, SaveFailure
  <2>2. k \in JobKey /\ k.session \in SessionIds /\ k.op \in Operations
    BY <1>1, <2>1 DEF TypeInv, TypeOK, ClaimIsExclusive, JobKey
  <2>3. workers[w].snap = sessions[k.session] /\ sessions[k.session] \in Session
    BY <1>1, <2>1, <2>2 DEF RevisionInv, HeldByWorkers, Held, TypeOK
  <2>4. CASE SaveGenerated(w)
    <3>1. PICK next \in Results(w) : sessions' = [sessions EXCEPT ![k.session] = next]
      BY <2>4 DEF SaveGenerated
    <3>2. next \in Generated(k, sessions[k.session]) /\ Consistent(next)
      BY <3>1, <2>3 DEF Results
    <3>3. provider[k.session] \in Providers
      BY <1>1, <2>2 DEF TypeOK
    <3>4. Generates(sessions[k.session], next)
      BY <2>2, <3>2, <3>3 DEF Generated, Generates, Operations
    <3>5. Follows(sessions[k.session], next)
      BY <3>4 DEF Follows
    <3> QED
      BY <3>1, <3>2, <3>5, <2>2 DEF Writes
  <2>5. CASE SaveFailure(w)
    <3>1. PICK next \in Failing(sessions[k.session], FailureOf(w)) :
            Consistent(next) /\ sessions' = [sessions EXCEPT ![k.session] = next]
      BY <2>5, <2>3 DEF SaveFailure
    <3>2. FailureOf(w) \in Failure
      BY <2>3, <3>1, FailureIsTyped DEF FailureOf
    <3>3. Follows(sessions[k.session], next)
      BY <3>1, <3>2 DEF Follows
    <3> QED
      BY <3>1, <3>3, <2>2 DEF Writes
  <2> QED
    BY <1>6, <2>4, <2>5
<1>7. ASSUME NEW a \in Apis, Command(a), ~SaveCommand(a) PROVE Good
  BY <1>7 DEF Command, LookUp, ReadAndApply, Refuse, SaveRefused, ApiCrash, db
<1>8. ASSUME NEW w \in Workers, Work(w) \/ WorkerCrash(w), ~(SaveGenerated(w) \/ SaveFailure(w))
      PROVE  Good
  BY <1>8 DEF Work, WorkerCrash, Claim, ReadSession, GatewayFails, OutputRejected,
     QuestionPointerChanged, SaveConflicts, ReadForFailure, SaveFailureRefused,
     FinishJob, StorageFails, db
<1>9. CASE UNCHANGED vars
  BY <1>9 DEF vars
<1> QED
  BY <1>2, <1>3, <1>4, <1>5, <1>6, <1>7, <1>8, <1>9 DEF Next, Direct

-----------------------------------------------------------------------------
(* The invariant.                                                          *)
LEMMA ConsistencyInvInit == Init => ConsistencyInv
<1> SUFFICES ASSUME Init PROVE ConsistencyInv
  OBVIOUS
<1>1. StoredSessionsAreConsistent
  BY FirstSessionsAreConsistent DEF Init, StoredSessionsAreConsistent
<1>2. SavesAreConsistent
  BY IdleApiType DEF Init, SavesAreConsistent
<1> QED
  BY <1>1, <1>2, RevisionInvInit DEF ConsistencyInv

(* An API process goes on with what it checked before, or has just checked *)
(* the only successor of what it read.                                     *)
LEMMA SavesStayConsistent ==
  ASSUME ConsistencyInv, [Next]_vars
  PROVE  SavesAreConsistent'
<1> SUFFICES ASSUME NEW a \in Apis, api'[a].pc = "SAVING",
                    NEW next \in ClientNext(api'[a].base, api'[a].command)
             PROVE  Consistent(next)
  BY DEF SavesAreConsistent
<1>1. api \in [Apis -> ApiProcess]
  BY DEF ConsistencyInv, RevisionInv, TypeInv, TypeOK
<1>2. CASE api'[a] = api[a]
  BY <1>2 DEF ConsistencyInv, SavesAreConsistent
<1>3. ASSUME NEW b \in Apis, ReadAndApply(b) PROVE Consistent(next)
  <2>1. PICK id \in SessionIds, c \in Commands :
          /\ \E m \in ClientNext(sessions[id], c) : Consistent(m)
          /\ api' = [api EXCEPT ![b] = [@ EXCEPT !.pc = "SAVING", !.session = id,
                                                 !.command = c, !.base = sessions[id]]]
    BY <1>3 DEF ReadAndApply
  <2>2. CASE a = b
    <3>1. api'[a].base = sessions[id] /\ api'[a].command = c
      BY <2>1, <2>2, <1>1 DEF ApiProcess
    <3> QED
      BY <3>1, <2>1, CommandsAreDeterministic
  <2>3. CASE a # b
    BY <2>1, <2>3, <1>1, <1>2
  <2> QED
    BY <2>2, <2>3
<1>4. ASSUME NEW b \in Apis, LookUp(b) PROVE api'[a] = api[a]
  <2>1. PICK key : api' = [api EXCEPT ![b] = [@ EXCEPT !.pc = "LOOKED_UP", !.key = key]]
    BY <1>4 DEF LookUp
  <2>2. [api[b] EXCEPT !.pc = "LOOKED_UP", !.key = key].pc = "LOOKED_UP"
    BY <1>1 DEF ApiProcess
  <2> QED
    BY <2>1, <2>2, <1>1
<1>5. ASSUME NEW b \in Apis, api' = [api EXCEPT ![b] = IdleApi] PROVE api'[a] = api[a]
  BY <1>1, <1>5, IdleApiType
<1>6. ASSUME NEW b \in Apis, Command(b)
      PROVE  LookUp(b) \/ ReadAndApply(b) \/ api' = [api EXCEPT ![b] = IdleApi]
  BY <1>6 DEF Command, Refuse, SaveCommand, SaveRefused, ApiCrash
<1>7. ASSUME NEW id \in SessionIds, NEW p \in Offered, Creation(id, p) PROVE api' = api
  BY <1>7 DEF Creation, RequestDirections, CreateSession
<1>8. ASSUME NEW id \in SessionIds, Direct(id) PROVE api' = api
  BY <1>8 DEF Direct, WriteDirectly, RecordFailure
<1>9. ASSUME NEW w \in Workers, Work(w) \/ WorkerCrash(w) PROVE api' = api
  BY <1>9 DEF Work, WorkerCrash, Claim, ReadSession, GatewayFails, OutputRejected,
     QuestionPointerChanged, SaveGenerated, SaveConflicts, ReadForFailure, SaveFailure,
     SaveFailureRefused, FinishJob, StorageFails
<1>10. CASE UNCHANGED vars
  BY <1>2, <1>10 DEF vars
<1> QED
  BY <1>2, <1>3, <1>4, <1>5, <1>6, <1>7, <1>8, <1>9, <1>10 DEF Next

LEMMA ConsistencyInvStep == ConsistencyInv /\ [Next]_vars => ConsistencyInv'
<1> SUFFICES ASSUME ConsistencyInv, [Next]_vars PROVE ConsistencyInv'
  OBVIOUS
<1>1. RevisionInv'
  BY RevisionInvStep DEF ConsistencyInv
<1>2. StoredSessionsAreConsistent'
  <2> SUFFICES ASSUME NEW id \in SessionIds PROVE Consistent(sessions'[id])
    BY DEF StoredSessionsAreConsistent
  <2>1. Consistent(sessions[id]) /\ sessions \in [SessionIds -> Session]
    BY DEF ConsistencyInv, StoredSessionsAreConsistent, RevisionInv, TypeInv, TypeOK
  <2> QED
    BY <2>1, SessionSteps DEF Writes
<1>3. SavesAreConsistent'
  BY SavesStayConsistent
<1> QED
  BY <1>1, <1>2, <1>3 DEF ConsistencyInv

LEMMA ConsistencyInvHolds == Spec => []ConsistencyInv
BY ConsistencyInvInit, ConsistencyInvStep, PTL DEF Spec

(* Whatever is read from the database passes the validator, whoever wrote  *)
(* it: a command, a generation, a failure or an in-process operation.      *)
THEOREM StoredSessionsPassTheValidator == Spec => []StoredSessionsAreConsistent
<1>1. ConsistencyInv => StoredSessionsAreConsistent
  BY DEF ConsistencyInv
<1> QED
  BY <1>1, ConsistencyInvHolds, PTL

-----------------------------------------------------------------------------
(* Questions that were left.                                               *)
LeftAlone(s, next) ==
  \A i \in DOMAIN s.questions :
    s.questions[i].status \in Resolved /\ i # s.current =>
      i \in DOMAIN next.questions /\ next.questions[i] = s.questions[i]

LEMMA CommandsLeaveThemAlone ==
  ASSUME NEW s \in Session, Consistent(s), NEW c \in Commands, NEW next \in ClientNext(s, c)
  PROVE  LeftAlone(s, next)
<1>1. PICK to \in EventTargets(s, c.event, s.failure) : next = Effect(s, c, to)
  BY DEF ClientNext
<1> DEFINE n == Moved(s, to)
<1>2. n \in Session /\ n.questions = s.questions /\ n.current = s.current
  BY <1>1, TargetsAreStates, MovedIsASession
<1>3. s.questions \in Seq(Question)
  BY DEF Session
<1>4. CASE c.event \in {"SELECT_DIRECTION", "RETRY", "START_STAGE"}
  <2>1. next.questions = s.questions
    BY <1>1, <1>2, <1>4 DEF Effect, Session
  <2> QED
    BY <2>1 DEF LeftAlone
<1>5. CASE c.event \in {"SUBMIT_ANSWER", "EDIT_ANSWER", "SKIP_QUESTION", "CONFIRM_QUESTION"}
  <2>1. \E q : next.questions = [s.questions EXCEPT ![s.current] = q]
    BY <1>1, <1>2, <1>5 DEF Effect, Session
  <2> QED
    BY <2>1, <1>3 DEF LeftAlone
<1>6. CASE c.event = "ADVANCE_QUESTION" /\ ~HasRemaining(s)
  <2>1. next.questions = s.questions
    BY <1>1, <1>2, <1>6 DEF Effect, Advanced, Session
  <2> QED
    BY <2>1 DEF LeftAlone
<1>7. CASE c.event = "ADVANCE_QUESTION" /\ HasRemaining(s)
  <2>1. s.state = "QUESTION_COMPLETED"
    BY <1>1, <1>7 DEF EventTargets, NormalTransitions
  <2>2. s.current # 0 /\ \A i \in DOMAIN s.questions : i > s.current => s.questions[i].status = "UNSEEN"
    BY <2>1 DEF Consistent, PointerConsistent, ResumeState, FailureStates, PointerStates
  <2>3. s.current \in Nat /\ s.current + 1 > s.current
    BY DEF Session
  <2>4. \E q : next.questions = [s.questions EXCEPT ![s.current + 1] = q]
    BY <1>1, <1>2, <1>7 DEF Effect, Advanced, Session
  <2> QED
    BY <2>2, <2>3, <2>4, <1>3 DEF LeftAlone, Resolved
<1>8. c.event \in {"SELECT_DIRECTION", "SUBMIT_ANSWER", "EDIT_ANSWER", "SKIP_QUESTION",
                   "CONFIRM_QUESTION", "ADVANCE_QUESTION", "RETRY", "START_STAGE"}
  BY DEF Commands, PointerCommands
<1> QED
  BY <1>4, <1>5, <1>6, <1>7, <1>8

LEMMA GenerationsLeaveThemAlone ==
  ASSUME NEW s \in Session, Consistent(s), NEW next, Generates(s, next)
  PROVE  LeftAlone(s, next)
<1>1. PICK p \in Providers :
        next \in DirectionsReady(s, p) \cup QuestionsReady(s, p)
                   \cup FeedbackReady(s, p) \cup SummaryReady(s)
  BY DEF Generates
<1>2. \A to \in States : /\ Moved(s, to) \in Session /\ Moved(s, to).questions = s.questions
                         /\ Moved(s, to).current = s.current
  BY MovedIsASession
<1>3. CASE next \in DirectionsReady(s, p)
  <2>0. MinDirections \in MinDirections..MaxDirections
    BY SessionAssumption
  <2>1. PICK to \in States, n \in MinDirections..MaxDirections :
          next = [Moved(s, to) EXCEPT !.directions = 1..n]
    BY <1>3, <2>0, TargetsAreStates DEF DirectionsReady
  <2>2. next.questions = s.questions
    BY <1>2, <2>1 DEF Session
  <2> QED
    BY <2>2 DEF LeftAlone
<1>6. CASE next \in SummaryReady(s)
  <2>1. PICK to \in States :
          next = [Moved(s, to) EXCEPT
                    !.summary = [completed |-> Orders(s, "CONFIRMED"),
                                 skipped |-> Orders(s, "SKIPPED")],
                    !.route = "COMPLETED"]
    BY <1>6, TargetsAreStates DEF SummaryReady
  <2>2. next.questions = s.questions
    BY <1>2, <2>1 DEF Session
  <2> QED
    BY <2>2 DEF LeftAlone
<1>4. CASE next \in QuestionsReady(s, p)
  <2>1. s.state = "QUESTIONS_GENERATING"
    BY <1>4 DEF QuestionsReady, EventTargets, NormalTransitions
  <2>2. s.questions = <<>>
    BY <2>1 DEF Consistent, ResumeShapeConsistent, ResumeState, FailureStates
  <2> QED
    BY <2>2 DEF LeftAlone
<1>5. CASE next \in FeedbackReady(s, p)
  <2>1. PICK to \in States, f \in Feedbacks(s.current, p) : next = WithFeedback(Moved(s, to), f)
    BY <1>5, TargetsAreStates DEF FeedbackReady
  <2>2. \E q : next.questions = [s.questions EXCEPT ![s.current] = q]
    BY <2>1, <1>2 DEF WithFeedback, Session
  <2> QED
    BY <2>2 DEF LeftAlone, Session
<1> QED
  BY <1>1, <1>3, <1>4, <1>5, <1>6

LEMMA StepsLeaveThemAlone ==
  ASSUME NEW s \in Session, Consistent(s), NEW next, Follows(s, next)
  PROVE  LeftAlone(s, next)
<1>1. CASE s = NoSession /\ next = NewSession
  BY <1>1 DEF NoSession, LeftAlone
<1>2. CASE \E c \in Commands : next \in ClientNext(s, c)
  BY <1>2, CommandsLeaveThemAlone
<1>3. CASE Generates(s, next)
  BY <1>3, GenerationsLeaveThemAlone
<1>4. CASE Completes(s, next) \/ \E failure \in Failure : next \in Failing(s, failure)
  <2>1. PICK to \in States : \/ next = Moved(s, to)
                             \/ \E failure : next = [Moved(s, to) EXCEPT !.failure = failure]
    BY <1>4, TargetsAreStates DEF Completes, Failing
  <2>2. next.questions = s.questions
    BY <2>1, MovedIsASession DEF Session
  <2> QED
    BY <2>2 DEF LeftAlone
<1> QED
  BY <1>1, <1>2, <1>3, <1>4 DEF Follows

(* Every step of the system that writes a session writes one, and what it  *)
(* writes is the outcome of a command, a result, the completion or a       *)
(* failure of the session as it is stored, though it was computed from a   *)
(* read some other process may have overtaken (save, recordFailure and     *)
(* their compare-and-set on session_revision).                             *)
THEOREM WritesAreAtomic == Spec => EveryWriteIsOneStep
<1> DEFINE Step == sessions' # sessions =>
             \E id \in SessionIds :
               /\ sessions' = [sessions EXCEPT ![id] = sessions'[id]]
               /\ Follows(sessions[id], sessions'[id]) /\ Consistent(sessions'[id])
<1>1. ConsistencyInv /\ [Next]_vars => [Step]_vars
  <2> SUFFICES ASSUME ConsistencyInv, [Next]_vars PROVE Step
    OBVIOUS
  <2>1. sessions \in [SessionIds -> Session]
    BY DEF ConsistencyInv, RevisionInv, TypeInv, TypeOK
  <2>2. ASSUME NEW id \in SessionIds, NEW next, Writes(id, next) PROVE Step
    <3>1. sessions'[id] = next
      BY <2>1, <2>2 DEF Writes
    <3> QED
      BY <2>2, <3>1 DEF Writes
  <2> QED
    BY <2>2, SessionSteps
<1> QED
  BY <1>1, ConsistencyInvHolds, PTL DEF Spec, EveryWriteIsOneStep

(* A question that was resolved and left keeps its answer for good: no     *)
(* command, no late save and no late generation of any process touches it. *)
THEOREM LeftQuestionsStayAsTheyWere == Spec => LeftQuestionsAreFrozen
<1> DEFINE Frozen == \A id \in SessionIds : LeftAlone(sessions[id], sessions'[id])
<1>1. ConsistencyInv /\ [Next]_vars => [Frozen]_vars
  <2> SUFFICES ASSUME ConsistencyInv, [Next]_vars, NEW id \in SessionIds
               PROVE  LeftAlone(sessions[id], sessions'[id])
    OBVIOUS
  <2>1. /\ sessions \in [SessionIds -> Session] /\ sessions[id] \in Session
        /\ Consistent(sessions[id])
    BY DEF ConsistencyInv, StoredSessionsAreConsistent, RevisionInv, TypeInv, TypeOK
  <2>2. CASE sessions'[id] = sessions[id]
    BY <2>2 DEF LeftAlone
  <2>3. sessions'[id] = sessions[id] \/ Follows(sessions[id], sessions'[id])
    BY <2>1, SessionSteps DEF Writes
  <2> QED
    BY <2>1, <2>2, <2>3, StepsLeaveThemAlone
<1>2. ConsistencyInv /\ [Next]_vars =>
        [\A id \in SessionIds : \A i \in DOMAIN sessions[id].questions :
           /\ sessions[id].questions[i].status \in Resolved
           /\ i # sessions[id].current
           => i \in DOMAIN sessions'[id].questions
              /\ sessions'[id].questions[i] = sessions[id].questions[i]]_vars
  BY <1>1 DEF LeftAlone
<1> QED
  BY <1>2, ConsistencyInvHolds, PTL DEF Spec, LeftQuestionsAreFrozen

-----------------------------------------------------------------------------
(* The reducer and the validator agree. That a stored session is accepted  *)
(* by the validator is not enough to accept what a command makes of it:    *)
(* the validator lets pass a summary written before its time, questions    *)
(* before their state and a route that names no stage. Sessions the system *)
(* has reached are Regular, and commands keep them so.                     *)
SessionsAreRegular == \A id \in SessionIds : Regular(sessions[id])
RegularInv == ConsistencyInv /\ SessionsAreRegular

LEMMA StepsKeepRegular ==
  ASSUME NEW s, Regular(s), NEW next, Follows(s, next), Consistent(next)
  PROVE  Regular(next)
<1>1. CASE s = NoSession /\ next = NewSession
  BY <1>1, FirstSessionsAreRegular
<1>2. CASE \E c \in Commands : next \in ClientNext(s, c)
  BY <1>2, CommandsKeepRegular
<1>3. CASE Generates(s, next) \/ Completes(s, next)
  BY <1>3, ResultsKeepRegular
<1>4. CASE \E failure \in Failure : next \in Failing(s, failure)
  BY <1>4, FailuresKeepRegular
<1> QED
  BY <1>1, <1>2, <1>3, <1>4 DEF Follows

LEMMA RegularInvInit == Init => RegularInv
BY ConsistencyInvInit, FirstSessionsAreRegular DEF Init, RegularInv, SessionsAreRegular

LEMMA RegularInvStep == RegularInv /\ [Next]_vars => RegularInv'
<1> SUFFICES ASSUME RegularInv, [Next]_vars PROVE RegularInv'
  OBVIOUS
<1>1. ConsistencyInv /\ ConsistencyInv'
  BY ConsistencyInvStep DEF RegularInv
<1>2. SessionsAreRegular'
  <2> SUFFICES ASSUME NEW id \in SessionIds PROVE Regular(sessions'[id])
    BY DEF SessionsAreRegular
  <2>1. sessions \in [SessionIds -> Session] /\ Regular(sessions[id])
    BY <1>1 DEF RegularInv, SessionsAreRegular, ConsistencyInv, RevisionInv, TypeInv, TypeOK
  <2>2. \/ sessions'[id] = sessions[id]
        \/ Follows(sessions[id], sessions'[id]) /\ Consistent(sessions'[id])
    BY <1>1, <2>1, SessionSteps DEF Writes
  <2> QED
    BY <2>1, <2>2, StepsKeepRegular
<1> QED
  BY <1>1, <1>2 DEF RegularInv

LEMMA RegularInvHolds == Spec => []RegularInv
BY RegularInvInit, RegularInvStep, PTL DEF Spec

(* No command that is legal in a stored session is turned down because its *)
(* result fails assertConsistent: for any document, any number of          *)
(* questions, processes and sessions, and whatever fails around them.      *)
THEOREM NoLegalCommandIsRefused == Spec => []LegalCommandsPassTheValidator
<1>1. RegularInv => LegalCommandsPassTheValidator
  <2> SUFFICES ASSUME RegularInv, NEW id \in SessionIds, NEW c \in Commands,
                      NEW next \in ClientNext(sessions[id], c)
               PROVE  Consistent(next)
    BY DEF LegalCommandsPassTheValidator
  <2>1. Regular(sessions[id])
    BY DEF RegularInv, SessionsAreRegular
  <2> QED
    BY <2>1, CommandsKeepRegular DEF Regular
<1> QED
  BY <1>1, RegularInvHolds, PTL
=============================================================================
