-------------------------- MODULE QuestionWorkflow --------------------------
(***************************************************************************)
(* Questions and answers about one imported document. API processes queue  *)
(* generation jobs, Worker processes run them, and a finished job becomes  *)
(* rows (is materialised) only when some API process is asked for it. The  *)
(* reader then edits, confirms and rejects questions and answers. Every    *)
(* edit adds a revision; every decision is about one revision. All         *)
(* processes share one database; a transaction is one action.              *)
(***************************************************************************)
EXTENDS Integers, Sequences, FiniteSets, Functions

CONSTANTS Apis,          \* API processes
          Workers,       \* Worker processes
          NoWorker,      \* jobs.worker_id IS NULL
          Keys,          \* idempotency keys clients use, for either kind of job
          ContextSpans,  \* passages of the document's canonical pages
          PlanSize,      \* questions in a plan
          ModelAnswers,  \* drafts the model gateway lets through
          ClientAnswers, \* drafts a reader may send, checked by nobody before
          NoDraft,       \* no result
          Crashes,       \* whether processes may die
          MaxRevisions,  \* bound: a row with so many revisions is edited no more
          MaxRows        \* bound: plans, and answers, that are made

(* A claim cites passages in a list. A draft is a list of claims.          *)
Claims == [type : {"SUPPORTED", "INSUFFICIENT_EVIDENCE"},
           cites : Seq(ContextSpans \cup {"context_missing"})]
AnswerDrafts == [status : {"SUCCESS", "INSUFFICIENT_EVIDENCE"}, claims : Seq(Claims)]

(* A plan draft is invalid when its language is not the requested one or a *)
(* question is blank, which the gateway's schema does not rule out.        *)
PlanDrafts == [valid : BOOLEAN]

Refusal(claims) ==
  /\ Len(claims) = 1
  /\ claims[1].type = "INSUFFICIENT_EVIDENCE"
  /\ claims[1].cites = <<>>

(* What model-gateway.v1 and assertCandidateContextSpanIds ensure.         *)
PassesTheGateway(draft) ==
  \/ draft.status = "INSUFFICIENT_EVIDENCE" /\ Refusal(draft.claims)
  \/ /\ draft.status = "SUCCESS"
     /\ draft.claims # <<>>
     /\ \A c \in Range(draft.claims) :
          /\ c.type = "SUPPORTED"
          /\ c.cites # <<>>
          /\ Range(c.cites) \subseteq ContextSpans
          /\ IsInjective(c.cites)

ASSUME QuestionWorkflowAssumption ==
  /\ NoWorker \notin Workers
  /\ ContextSpans # {} /\ "context_missing" \notin ContextSpans
  /\ PlanSize \in Nat \ {0}
  /\ ModelAnswers \subseteq AnswerDrafts /\ ClientAnswers \subseteq AnswerDrafts
  /\ \A draft \in ModelAnswers : PassesTheGateway(draft)
  /\ NoDraft \notin AnswerDrafts \cup PlanDrafts
  /\ Crashes \in BOOLEAN
  /\ MaxRevisions \in Nat /\ MaxRows \in Nat

VARIABLES jobs,              \* jobs, in the order of their insertion
          plans,             \* question_plans
          questions,         \* questions
          questionRevisions, \* question_revisions
          answers,           \* answers
          answerRevisions,   \* answer_revisions with their evidence
          api,               \* what each API process is doing
          workers            \* the job each Worker runs, 0 for none

db == <<jobs, plans, questions, questionRevisions, answers, answerRevisions>>
vars == <<jobs, plans, questions, questionRevisions, answers, answerRevisions,
          api, workers>>

-----------------------------------------------------------------------------
(* Rows. A row's id is its place in its table: ids are random and fresh.   *)
Reviews == {"DRAFT", "CONFIRMED", "REJECTED"}

(* question and revision are the payload of an ANSWER_GENERATION job. The  *)
(* result column is draft until the job is materialised, then made, the    *)
(* plan or answer it became.                                               *)
NewJob(kind, key, question, revision) ==
  [kind |-> kind, key |-> key, question |-> question, revision |-> revision,
   state |-> "QUEUED", worker |-> NoWorker, draft |-> NoDraft, made |-> 0]

(* createOrGetJob. The look-up, the insert and the second look-up that a   *)
(* unique-key conflict leads to amount to one step: keys are never freed.  *)
WithJob(job) ==
  IF \E j \in DOMAIN jobs : jobs[j].key = job.key THEN jobs ELSE Append(jobs, job)

(* A question or an answer as it is first inserted, at revision r. The     *)
(* column job is not in the schema: it tells the properties who made a row *)
NewQuestion(plan, r) == [plan |-> plan, current |-> r, review |-> "DRAFT"]
NewAnswer(question, r, verification, j) ==
  [question |-> question, current |-> r, review |-> "DRAFT",
   verification |-> verification, job |-> j]

(* A revision of a question or of an answer (of names the row).            *)
Revision(of, number, supersedes) ==
  [of |-> of, number |-> number, supersedes |-> supersedes]
AnswerRevision(of, number, supersedes, claims) ==
  [of |-> of, number |-> number, supersedes |-> supersedes, claims |-> claims]

-----------------------------------------------------------------------------
(* materializeClaims and the constraints of answer_evidence_spans: whether *)
(* a draft becomes claims with evidence. A passage cited twice by a claim  *)
(* breaks the unique index, and with it the transaction.                   *)
Materializable(draft) ==
  /\ draft.claims # <<>>
  /\ (draft.status = "INSUFFICIENT_EVIDENCE") = Refusal(draft.claims)
  /\ draft.status = "SUCCESS" =>
       \A c \in Range(draft.claims) : c.type = "SUPPORTED" /\ c.cites # <<>>
  /\ \A c \in Range(draft.claims) :
       Range(c.cites) \subseteq ContextSpans /\ IsInjective(c.cites)

(* The claims that are stored, each with the passages its evidence quotes. *)
StoredClaims(draft) ==
  [i \in DOMAIN draft.claims |->
     [type |-> draft.claims[i].type, evidence |-> Range(draft.claims[i].cites)]]

(* Mutant: verification is left to a later step, as the documents have it. *)
Verification_Pending(draft) == "PENDING"

Verification(draft) ==
  IF draft.status = "INSUFFICIENT_EVIDENCE" THEN "INSUFFICIENT_EVIDENCE" ELSE "VERIFIED"

-----------------------------------------------------------------------------
(* Processes. A call names the job, question or answer it is about (row),  *)
(* the revision its sender saw or the row it made (rev), the decision and  *)
(* the draft it carries.                                                   *)
Phases == {"IDLE", "MATERIALIZING", "RECORDING", "ASKING", "EDITING_QUESTION",
           "EDITING_ANSWER", "REVIEWING_QUESTION", "REVIEWING_ANSWER"}
Call(pc, row, rev) ==
  [pc |-> pc, row |-> row, rev |-> rev, status |-> "DRAFT", draft |-> NoDraft]
Idle == Call("IDLE", 0, 0)

Init == /\ jobs = <<>>
        /\ plans = <<>>
        /\ questions = <<>> /\ questionRevisions = <<>>
        /\ answers = <<>> /\ answerRevisions = <<>>
        /\ api = [a \in Apis |-> Idle]
        /\ workers = [w \in Workers |-> 0]

Starts(a, call) == api[a] = Idle /\ api' = [api EXCEPT ![a] = call]
Ends(a) == api' = [api EXCEPT ![a] = Idle]

-----------------------------------------------------------------------------
(* Jobs are queued.                                                        *)
EnqueuePlan(a) ==
  /\ api[a] = Idle
  /\ \E key \in Keys : jobs' = WithJob(NewJob("QUESTION_PLAN", key, 0, 0))
  /\ UNCHANGED <<plans, questions, questionRevisions, answers, answerRevisions,
                 api, workers>>

(* enqueueAnswer reads the question; its revision goes into the payload.   *)
AskQuestion(a, q) ==
  /\ questions[q].review = "CONFIRMED"
  /\ Starts(a, Call("ASKING", q, questions[q].current))
  /\ UNCHANGED <<db, workers>>

EnqueueAnswer(a) ==
  /\ api[a].pc = "ASKING"
  /\ \E key \in Keys :
       jobs' = WithJob(NewJob("ANSWER_GENERATION", key, api[a].row, api[a].rev))
  /\ Ends(a)
  /\ UNCHANGED <<plans, questions, questionRevisions, answers, answerRevisions, workers>>

-----------------------------------------------------------------------------
(* Workers run jobs.                                                       *)
Claimable(j) == jobs[j].state = "QUEUED"

Claim(w) ==
  /\ workers[w] = 0
  /\ \E j \in DOMAIN jobs :
       /\ Claimable(j)
       /\ jobs' = [jobs EXCEPT ![j] = [@ EXCEPT !.state = "RUNNING", !.worker = w]]
       /\ workers' = [workers EXCEPT ![w] = j]
  /\ UNCHANGED <<plans, questions, questionRevisions, answers, answerRevisions, api>>

(* What a handler returns; the gateway fails otherwise.                    *)
Outputs(kind) == IF kind = "QUESTION_PLAN" THEN PlanDrafts ELSE ModelAnswers

(* Mutant: a failure is not reported.                                      *)
FinishJob_OnlySuccess(w) ==
  LET j == workers[w] IN
  /\ j # 0 /\ jobs[j].state = "RUNNING" /\ jobs[j].worker = w
  /\ \E draft \in Outputs(jobs[j].kind) \cup {NoDraft} :
       jobs' = IF draft = NoDraft THEN jobs
               ELSE [jobs EXCEPT ![j] = [@ EXCEPT !.state = "SUCCEEDED", !.draft = draft]]
  /\ workers' = [workers EXCEPT ![w] = 0]
  /\ UNCHANGED <<plans, questions, questionRevisions, answers, answerRevisions, api>>

FinishJob(w) ==
  LET j == workers[w] IN
  /\ j # 0 /\ jobs[j].state = "RUNNING" /\ jobs[j].worker = w
  /\ \/ \E draft \in Outputs(jobs[j].kind) :
          jobs' = [jobs EXCEPT ![j] = [@ EXCEPT !.state = "SUCCEEDED", !.draft = draft]]
     \/ jobs' = [jobs EXCEPT ![j] = [@ EXCEPT !.state = "FAILED"]]
  /\ workers' = [workers EXCEPT ![w] = 0]
  /\ UNCHANGED <<plans, questions, questionRevisions, answers, answerRevisions, api>>

-----------------------------------------------------------------------------
(* GET /jobs/:id of a finished job: read the row, write the rows of the    *)
(* plan or answer, write the job's result. Three accesses.                 *)
(* For the bound: the rows of a kind, those being made included.           *)
RowsOf(kind) ==
  Len(IF kind = "QUESTION_PLAN" THEN plans ELSE answers) +
  Cardinality({a \in Apis : api[a].pc = "MATERIALIZING" /\ jobs[api[a].row].kind = kind})

ReadJob(a, j) ==
  /\ jobs[j].state = "SUCCEEDED" /\ jobs[j].made = 0
  /\ RowsOf(jobs[j].kind) < MaxRows
  /\ Starts(a, [Call("MATERIALIZING", j, 0) EXCEPT !.draft = jobs[j].draft])
  /\ UNCHANGED <<db, workers>>

MaterializePlan(a) ==
  LET j == api[a].row IN
  /\ api[a].pc = "MATERIALIZING" /\ jobs[j].kind = "QUESTION_PLAN"
  /\ api[a].draft.valid
  /\ plans' = Append(plans, [job |-> j])
  /\ questions' = questions \o
       [i \in 1..PlanSize |-> NewQuestion(Len(plans) + 1, Len(questionRevisions) + i)]
  /\ questionRevisions' = questionRevisions \o
       [i \in 1..PlanSize |-> Revision(Len(questions) + i, 1, 0)]
  /\ api' = [api EXCEPT ![a] = Call("RECORDING", j, Len(plans) + 1)]
  /\ UNCHANGED <<jobs, answers, answerRevisions, workers>>

(* The checks of createAnswer, inside its transaction.                     *)
(* Mutant: they are left to enqueueAnswer.                                 *)
StillAsked_Assumed(j) == TRUE

StillAsked(j) ==
  /\ questions[jobs[j].question].review = "CONFIRMED"
  /\ questions[jobs[j].question].current = jobs[j].revision

MaterializeAnswer(a) ==
  LET j == api[a].row IN
  /\ api[a].pc = "MATERIALIZING" /\ jobs[j].kind = "ANSWER_GENERATION"
  /\ Materializable(api[a].draft) /\ StillAsked(j)
  /\ answers' = Append(answers, NewAnswer(jobs[j].question, Len(answerRevisions) + 1,
                                          Verification(api[a].draft), j))
  /\ answerRevisions' = Append(answerRevisions,
       AnswerRevision(Len(answers) + 1, 1, 0, StoredClaims(api[a].draft)))
  /\ api' = [api EXCEPT ![a] = Call("RECORDING", j, Len(answers) + 1)]
  /\ UNCHANGED <<jobs, plans, questions, questionRevisions, workers>>

(* The call throws and leaves the job as it is; the next call repeats it.  *)
MaterializeRefused(a) ==
  LET j == api[a].row IN
  /\ api[a].pc = "MATERIALIZING"
  /\ IF jobs[j].kind = "QUESTION_PLAN" THEN ~api[a].draft.valid
     ELSE ~(Materializable(api[a].draft) /\ StillAsked(j))
  /\ Ends(a)
  /\ UNCHANGED <<db, workers>>

(* Mutant: the job is told the newest row instead of its own.              *)
RecordResult_Newest(a) ==
  LET j == api[a].row IN
  /\ api[a].pc = "RECORDING"
  /\ jobs' = [jobs EXCEPT ![j] = [@ EXCEPT !.draft = NoDraft,
                                           !.made = IF jobs[j].kind = "QUESTION_PLAN"
                                                    THEN Len(plans) ELSE Len(answers)]]
  /\ Ends(a)
  /\ UNCHANGED <<plans, questions, questionRevisions, answers, answerRevisions, workers>>

(* updateResult, unconditional.                                            *)
RecordResult(a) ==
  /\ api[a].pc = "RECORDING"
  /\ jobs' = [jobs EXCEPT ![api[a].row] = [@ EXCEPT !.draft = NoDraft, !.made = api[a].rev]]
  /\ Ends(a)
  /\ UNCHANGED <<plans, questions, questionRevisions, answers, answerRevisions, workers>>

-----------------------------------------------------------------------------
(* The reader edits: the revision in a request is the one its sender saw.  *)
OpenQuestion(a, q) ==
  /\ questionRevisions[questions[q].current].number < MaxRevisions
  /\ Starts(a, Call("EDITING_QUESTION", q, questions[q].current))
  /\ UNCHANGED <<db, workers>>

OpenAnswer(a, i) ==
  /\ answerRevisions[answers[i].current].number < MaxRevisions
  /\ Starts(a, Call("EDITING_ANSWER", i, answers[i].current))
  /\ UNCHANGED <<db, workers>>

(* The compare-and-set inside the transaction.                             *)
(* Mutant: the last writer wins.                                           *)
Unchanged_Assumed(row, rev) == TRUE

Unchanged(row, rev) == row.current = rev

(* Mutant: a new wording inherits the decision on the old one.             *)
EditQuestion_KeepsReview(a) ==
  LET q == api[a].row
      row == questions[q] IN
  /\ api[a].pc = "EDITING_QUESTION" /\ Unchanged(row, api[a].rev)
  /\ questionRevisions' = Append(questionRevisions,
       Revision(q, questionRevisions[row.current].number + 1, row.current))
  /\ questions' = [questions EXCEPT ![q] = [@ EXCEPT !.current = Len(questionRevisions) + 1]]
  /\ Ends(a)
  /\ UNCHANGED <<jobs, plans, answers, answerRevisions, workers>>

(* Mutant: the new revision follows the one in the request.                *)
EditQuestion_FromRequest(a) ==
  LET q == api[a].row
      rev == api[a].rev IN
  /\ api[a].pc = "EDITING_QUESTION"
  /\ questionRevisions' = Append(questionRevisions,
       Revision(q, questionRevisions[rev].number + 1, rev))
  /\ questions' = [questions EXCEPT ![q] = [@ EXCEPT !.current = Len(questionRevisions) + 1,
                                                     !.review = "DRAFT"]]
  /\ Ends(a)
  /\ UNCHANGED <<jobs, plans, answers, answerRevisions, workers>>

EditQuestion(a) ==
  LET q == api[a].row
      row == questions[q] IN
  /\ api[a].pc = "EDITING_QUESTION" /\ Unchanged(row, api[a].rev)
  /\ questionRevisions' = Append(questionRevisions,
       Revision(q, questionRevisions[row.current].number + 1, row.current))
  /\ questions' = [questions EXCEPT ![q] = [@ EXCEPT !.current = Len(questionRevisions) + 1,
                                                     !.review = "DRAFT"]]
  /\ Ends(a)
  /\ UNCHANGED <<jobs, plans, answers, answerRevisions, workers>>

EditAnswer(a) ==
  LET i == api[a].row
      row == answers[i] IN
  /\ api[a].pc = "EDITING_ANSWER" /\ Unchanged(row, api[a].rev)
  /\ \E draft \in ClientAnswers :
       /\ Materializable(draft)
       /\ answerRevisions' = Append(answerRevisions,
            AnswerRevision(i, answerRevisions[row.current].number + 1, row.current,
                           StoredClaims(draft)))
       /\ answers' = [answers EXCEPT ![i] = [@ EXCEPT !.current = Len(answerRevisions) + 1,
                                                      !.review = "DRAFT",
                                                      !.verification = Verification(draft)]]
  /\ Ends(a)
  /\ UNCHANGED <<jobs, plans, questions, questionRevisions, workers>>

(* An edit that came too late, a blank question (which a reader may send   *)
(* at any time), or a draft that stands on nothing.                        *)
EditRefused(a) ==
  /\ \/ api[a].pc = "EDITING_QUESTION"
     \/ /\ api[a].pc = "EDITING_ANSWER"
        /\ \/ ~Unchanged(answers[api[a].row], api[a].rev)
           \/ \E draft \in ClientAnswers : ~Materializable(draft)
  /\ Ends(a)
  /\ UNCHANGED <<db, workers>>

-----------------------------------------------------------------------------
(* The reader decides: checks on a read, then a conditional update.        *)
ReviewQuestion(a, q, status) ==
  /\ questions[q].review = "DRAFT"
  /\ Starts(a, [Call("REVIEWING_QUESTION", q, questions[q].current)
                  EXCEPT !.status = status])
  /\ UNCHANGED <<db, workers>>

MayBecome(answer, status) == status = "CONFIRMED" => answer.verification = "VERIFIED"

ReviewAnswer(a, i, status) ==
  /\ answers[i].review = "DRAFT" /\ MayBecome(answers[i], status)
  /\ Starts(a, [Call("REVIEWING_ANSWER", i, answers[i].current) EXCEPT !.status = status])
  /\ UNCHANGED <<db, workers>>

(* The WHERE clause of the update.                                         *)
(* Mutant: the update names the row alone.                                 *)
StillReviewable_ById(row, rev) == TRUE

StillReviewable(row, rev) == row.current = rev /\ row.review = "DRAFT"

Decide(a) ==
  /\ \/ /\ api[a].pc = "REVIEWING_QUESTION"
        /\ StillReviewable(questions[api[a].row], api[a].rev)
        /\ questions' = [questions EXCEPT ![api[a].row] = [@ EXCEPT !.review = api[a].status]]
        /\ UNCHANGED answers
     \/ /\ api[a].pc = "REVIEWING_ANSWER"
        /\ StillReviewable(answers[api[a].row], api[a].rev)
        /\ answers' = [answers EXCEPT ![api[a].row] = [@ EXCEPT !.review = api[a].status]]
        /\ UNCHANGED questions
  /\ Ends(a)
  /\ UNCHANGED <<jobs, plans, questionRevisions, answerRevisions, workers>>

DecisionRefused(a) ==
  /\ \/ /\ api[a].pc = "REVIEWING_QUESTION"
        /\ ~StillReviewable(questions[api[a].row], api[a].rev)
     \/ /\ api[a].pc = "REVIEWING_ANSWER"
        /\ ~StillReviewable(answers[api[a].row], api[a].rev)
  /\ Ends(a)
  /\ UNCHANGED <<db, workers>>

-----------------------------------------------------------------------------
ApiCrash(a) ==
  /\ Crashes /\ api[a] # Idle
  /\ Ends(a)
  /\ UNCHANGED <<db, workers>>

WorkerCrash(w) ==
  /\ Crashes /\ workers[w] # 0
  /\ workers' = [workers EXCEPT ![w] = 0]
  /\ UNCHANGED <<db, api>>

Queue(a) == \/ EnqueuePlan(a)
            \/ \E q \in DOMAIN questions : AskQuestion(a, q)
            \/ EnqueueAnswer(a)
Materialize(a) == \/ \E j \in DOMAIN jobs : ReadJob(a, j)
                  \/ MaterializePlan(a)
                  \/ MaterializeAnswer(a)
                  \/ MaterializeRefused(a)
                  \/ RecordResult(a)
Edit(a) == \/ \E q \in DOMAIN questions : OpenQuestion(a, q)
           \/ \E i \in DOMAIN answers : OpenAnswer(a, i)
           \/ EditQuestion(a)
           \/ EditAnswer(a)
           \/ EditRefused(a)
Review(a) == \/ \E q \in DOMAIN questions, status \in {"CONFIRMED", "REJECTED"} :
                   ReviewQuestion(a, q, status)
             \/ \E i \in DOMAIN answers, status \in {"CONFIRMED", "REJECTED"} :
                   ReviewAnswer(a, i, status)
             \/ Decide(a)
             \/ DecisionRefused(a)

Next == \/ \E a \in Apis : Queue(a) \/ Materialize(a) \/ Edit(a) \/ Review(a) \/ ApiCrash(a)
        \/ \E w \in Workers : Claim(w) \/ FinishJob(w) \/ WorkerCrash(w)

Spec == Init /\ [][Next]_vars

(* Workers keep calling runOnce and model calls return.                    *)
FairSpec == Spec /\ \A w \in Workers : WF_vars(Claim(w)) /\ WF_vars(FinishJob(w))

-----------------------------------------------------------------------------
(* Properties.                                                             *)

Job == [kind : {"QUESTION_PLAN", "ANSWER_GENERATION"}, key : Keys,
        question : Nat, revision : Nat,
        state : {"QUEUED", "RUNNING", "SUCCEEDED", "FAILED"},
        worker : Workers \cup {NoWorker},
        draft : PlanDrafts \cup AnswerDrafts \cup {NoDraft}, made : Nat]
Question == [plan : Nat \ {0}, current : Nat \ {0}, review : Reviews]
Answer == [question : Nat \ {0}, current : Nat \ {0}, review : Reviews,
           verification : {"VERIFIED", "INSUFFICIENT_EVIDENCE"}, job : Nat \ {0}]
StoredClaim == [type : {"SUPPORTED", "INSUFFICIENT_EVIDENCE"}, evidence : SUBSET ContextSpans]

(* Types of the variables (the columns and their CHECK constraints).       *)
TypeOK ==
  /\ jobs \in Seq(Job)
  /\ plans \in Seq([job : Nat \ {0}])
  /\ questions \in Seq(Question)
  /\ questionRevisions \in Seq([of : Nat \ {0}, number : Nat \ {0}, supersedes : Nat])
  /\ answers \in Seq(Answer)
  /\ answerRevisions \in Seq([of : Nat \ {0}, number : Nat \ {0}, supersedes : Nat,
                              claims : Seq(StoredClaim)])
  /\ api \in [Apis -> [pc : Phases, row : Nat, rev : Nat, status : Reviews,
                       draft : PlanDrafts \cup AnswerDrafts \cup {NoDraft}]]
  /\ workers \in [Workers -> Nat]

(* The revisions of a row are numbered 1, 2, ... along the chain of the    *)
(* ones they supersede, and the row points at the last: no edit is lost or *)
(* forked, whoever edits at the same time.                                 *)
Chain(rows, revisions) ==
  \A i \in DOMAIN rows :
    LET own == {r \in DOMAIN revisions : revisions[r].of = i} IN
    /\ rows[i].current \in own
    /\ \A r \in own : r # rows[i].current =>
         \E next \in own : revisions[next].supersedes = r
    /\ \A r \in own :
         IF revisions[r].supersedes = 0 THEN revisions[r].number = 1
         ELSE /\ revisions[r].supersedes \in own
              /\ revisions[r].number = revisions[revisions[r].supersedes].number + 1
    /\ \A r, s \in own : revisions[r].number = revisions[s].number => r = s

(* Questions and answers each keep such a history.                         *)
HistoryIsAChain == Chain(questions, questionRevisions) /\ Chain(answers, answerRevisions)

(* Nobody overwrites what he did not see: an edit supersedes the revision  *)
(* its author had before him, and a decision is stored for the revision    *)
(* that was current when it was checked, while it is still undecided.      *)
SeesWhatItChanges(rows, next, editing, reviewing) ==
  \A i \in DOMAIN rows :
    /\ next[i].current # rows[i].current =>
         \E a \in Apis : api[a].pc = editing /\ api[a].row = i
                         /\ api[a].rev = rows[i].current
    /\ (next[i].review # rows[i].review /\ next[i].review # "DRAFT") =>
         /\ rows[i].review = "DRAFT"
         /\ \E a \in Apis : api[a].pc = reviewing /\ api[a].row = i
                            /\ api[a].rev = rows[i].current

(* The two compare-and-sets of the workflow repository, for both tables.   *)
NobodyDecidesBlindly ==
  [][ /\ SeesWhatItChanges(questions, questions', "EDITING_QUESTION", "REVIEWING_QUESTION")
      /\ SeesWhatItChanges(answers, answers', "EDITING_ANSWER", "REVIEWING_ANSWER") ]_vars

(* Claims stand on evidence when there are any and each of them does.      *)
Grounded(claims) ==
  claims # <<>> /\ \A c \in Range(claims) : c.type = "SUPPORTED" /\ c.evidence # {}

(* A confirmed answer is one whose current revision makes claims, each of  *)
(* them with evidence from the document: review status, verification       *)
(* status and revision are columns written by different requests.          *)
ConfirmedAnswersStandOnEvidence ==
  \A i \in DOMAIN answers :
    answers[i].review = "CONFIRMED" => Grounded(answerRevisions[answers[i].current].claims)

(* An answer is stored only while its question is confirmed in the very    *)
(* revision the model was asked: edits between the request and the GET     *)
(* that materialises the answer make it void.                              *)
AnswersAnswerWhatWasAsked ==
  [][ \A i \in DOMAIN answers' \ DOMAIN answers :
        LET job == jobs[answers'[i].job] IN
        /\ answers'[i].question = job.question
        /\ questions[job.question].review = "CONFIRMED"
        /\ questions[job.question].current = job.revision ]_vars

(* What a reader sees of a question and of an answer: the number of its    *)
(* current revision, the decision on it, and, of an answer, the wording    *)
(* that was asked and whether its claims stand on evidence.                *)
SeenQuestion(q) ==
  [version |-> questionRevisions[questions[q].current].number, review |-> questions[q].review]
SeenAnswer(i) ==
  [question |-> answers[i].question,
   asked |-> questionRevisions[jobs[answers[i].job].revision].number,
   version |-> answerRevisions[answers[i].current].number, review |-> answers[i].review,
   grounded |-> Grounded(answerRevisions[answers[i].current].claims)]

Abstract == INSTANCE ReviewedWork WITH
  questions <- [q \in DOMAIN questions |-> SeenQuestion(q)],
  answers <- [i \in DOMAIN answers |-> SeenAnswer(i)]

(* Of all the requests, jobs and revision rows a reader sees one thing:    *)
(* work that is reviewed as ReviewedWork says. A wording that was never    *)
(* confirmed is not answered, and one that was edited is undecided again,  *)
(* however reads, edits, decisions and results of jobs interleave.         *)
WorkIsReviewed == Abstract!Spec

(* The result a job shows its clients is a row that was made from it, even *)
(* when several processes materialise jobs at once or die in between.      *)
ResultsNameWhatTheyMade ==
  \A j \in DOMAIN jobs : jobs[j].made # 0 =>
    /\ jobs[j].state = "SUCCEEDED"
    /\ IF jobs[j].kind = "QUESTION_PLAN"
       THEN jobs[j].made \in DOMAIN plans /\ plans[jobs[j].made].job = j
       ELSE jobs[j].made \in DOMAIN answers /\ answers[jobs[j].made].job = j

(* A finished job becomes at most one plan or answer, however often it is  *)
(* asked for. True of one API process that does not die between writing    *)
(* the rows and the result; docs/architecture/wave1-technical-plan.md says *)
(* it of SUCCEEDED jobs in general.                                        *)
MaterializedOnce ==
  /\ \A p, r \in DOMAIN plans : plans[p].job = plans[r].job => p = r
  /\ \A i, k \in DOMAIN answers : answers[i].job = answers[k].job => i = k

(* Every queued job is finished, as long as Workers run.                   *)
EveryJobFinishes ==
  \A key \in Keys :
    (\E j \in DOMAIN jobs : jobs[j].key = key)
      ~> (\E j \in DOMAIN jobs : jobs[j].key = key /\ jobs[j].state \in {"SUCCEEDED", "FAILED"})
=============================================================================
