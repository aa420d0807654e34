# Research-Reading: a TLA+ model

The repository is a research-reading assistant: an API process, a Worker process and a web client around one SQLite file. Its core is *guided learning*: a session that leads a reader through one paper, one question after the other, with directions, questions, feedback and a summary generated by a model in the background. Around it are the *import* of PDF files and a *question and answer* workflow. This directory models the three and the page of the web client that drives guided learning, checks them with TLC on small instances, and proves every invariant and action property those checks pass with TLAPS, for all instances.

Paths below are relative to `src/`; `runtime.ts` is `apps/api/src/guided-learning/runtime.ts`, `worker` is `apps/worker/src/workflow/guided-learning.ts`.

## 1. The system

### Inventory

| Component | State it keeps | Operations | What makes it correct |
|---|---|---|---|
| Guided-learning contract (`packages/contracts/wave1/src/guided-learning.ts`) | none: a transition table, an event reducer, a validator | `applyGuidedLearningEvent`, `validateGuidedLearningSessionConsistency` | reducer and validator agree; every reachable session is valid and can go on |
| Guided-learning runtime of the API (`runtime.ts`, `handlers.ts`) | none of its own: reads and writes snapshots | `createSession`, `requestDirectionsGeneration`, `executeCommand`, and in-process `generateDirections`, `writeQuestions`, `writeFeedback`, `writeSummary`, `completeSession`, `recordFailure` | a command takes effect once, on the session its sender saw, together with the job it needs |
| Guided-learning repository (`packages/storage/src/guided-learning-repository.ts`) | sessions (snapshot, revision), commands, failures, provider configs, projection tables | `create`, `save`, `saveFailure`, `findCommand` | compare-and-set on `session_revision`; everything a command writes is one transaction |
| Job queue (`packages/storage/src/repository.ts`, `apps/worker/src/runtime/job-runtime.ts`) | `jobs`: state, worker, payload, unique key | insert, `claimNextJob`, `succeedJob`, `failJob`, `runOnce` | one Worker per job; a job's outcome is true |
| Guided-learning Worker handler (`worker`) | the snapshot it read before the model call | `runGeneration`, `recordFailureIfCurrent` | a result lands on the revision it was made for or not at all; a failure is recorded |
| Question and answer workflow (`apps/api/src/workflow/*`, `packages/storage/src/workflow-repository.ts`) | plans, questions, answers with revisions, evidence | enqueue, materialise, edit, confirm, reject | no edit is lost; a decision is about what its author saw; an answer answers the revision that was asked; a confirmed answer has evidence; a job is materialised once |
| Document import (`apps/api/src/document-ingest/*`, `apps/worker/src/extraction`, `packages/pdf`) | content-addressed files, documents, versions, pages | upload, import job, extraction, finalisation | a job has its whole file; a document is called ready only with all its pages; nothing is left behind |
| Migrations (`packages/storage/src/database.ts`) | `schema_migrations` | `migrate` | each migration once, in order |
| Web client (`apps/web/src`; `GuidedLearningWorkbench.tsx`, `polling.ts`, `api.ts`) | the page's copy of a session, the session of the URL, the import job, running polls | three effects (recovery, poll of the session, poll of the import) that start and abort as the page is rendered; one handler per button | what is awaited is polled; a settled view is the service's session; a command reaches the question it was chosen for |
| Model gateway (`packages/model-gateway`) | none | `invoke` | every answer is validated or an error |
| Secrets, HTTP server, scripts, generated contract types | - | - | wiring |

### How the parts interact

API and Worker are separate OS processes (`compose.yaml`). They share nothing but the SQLite file (WAL, `BEGIN IMMEDIATE`): no messages, no callbacks. A client command goes

1. API: `findCommand` (has this idempotency key been executed?), `getSession`, reducer, validator, `save`. These are three accesses to the database; other processes may write between them.
2. `save`, one transaction: key again, `UPDATE ... WHERE session_revision = ?`, command row, failures superseded by a RETRY, and the job of the generation the new state waits for. The job's unique key is session, kind and revision.
3. Worker: `claimNextJob`, read the session, compare it with the job's boundary (revision and state), call the model, apply the result to the snapshot *read before the call*, validate, `save` with the job's revision. If any of this throws, the session is read again and, if it is still at the boundary, a failure is recorded on it.
4. The page polls until the state is one its reader may act on. `RETRY` leaves a retryable failure and queues a new job. Every reply replaces the page's whole copy of the session; polls, commands, the re-read after a conflict and the recovery of a session from the URL run next to each other.

Jobs of the other kinds (import, question plan, answer) leave their result in `jobs.result_json`. It becomes rows only when an API call asks: `GET /jobs/:id` materialises a SUCCEEDED job, and whatever needs a document first completes its import (`ensureDocumentReady`). The guided-learning Worker alone reads the pages as they are. Within one API process only an `await` lets another request run; two processes interleave at every access.

### What is hard

Stale reads on both sides of an `await`; the same key sent to two API processes; a crash or a storage error between any two accesses; a failure table, a jobs table and a snapshot that have to tell one story; a reducer and a validator written separately; the boundaries of the question pointer; and that each waiting state is eventually left. In the workflow and the import: rows that are written by readers, in more than one transaction; a decision checked on one read and stored by another statement; a file, a document, a job, a version and pages that are written one after the other by processes that may die. In the page: replies that arrive after the page has moved on, effects that restart on some changes and not on others, lost replies, a second page on the same session. `PROJECT.json` lists each hazard at its line with the properties that cover it, or the reason why none does.

## 2. The modules

| Module | Models | Notes |
|---|---|---|
| `GuidedLearningContract` | the contract: transition table, `EventTargets` (the reducer), `Consistent` (the validator) | operators only |
| `GuidedLearningSession` | what each command (`ClientNext`), generation (`DirectionsReady`, `QuestionsReady`, `FeedbackReady`, `SummaryReady`) and failure (`Failing`) makes of a session | operators only; each is a set of successors, empty when the code refuses |
| `GuidedLearning` | the database, the API processes and the Workers as a state machine, and all properties | |
| `LearningRoute` | the abstract specification: one walk forward through the questions, one revision per step | `GuidedLearning!WalksTheRoute` is its refinement |
| `GuidedLearningClaims` | statements of the repository's documents and tests that the code does not keep | |
| `MCGuidedLearning` | values for the configurations | |
| `QuestionWorkflow`, `MCQuestionWorkflow` | plans, questions, answers, their jobs and revisions as a state machine, with its properties; drafts for TLC | the document is imported before it starts |
| `ReviewedWork` | the abstract specification of questions and answers: versions, decisions, answers to confirmed wordings, with no jobs, requests or revision rows | `QuestionWorkflow!WorkIsReviewed` is its refinement |
| `DocumentImport`, `MCDocumentImport` | files, documents, import jobs, versions, pages, and what clients were told | `EventLoopFree` is the single thread of an API process |
| `WorkbenchPage` | what the page keeps, what its effects do when it is rendered again, what each reply makes of it, the buttons it shows | operators only |
| `Workbench`, `MCWorkbench` | the page, its requests in flight, and the service reduced to sessions and import jobs, as a state machine with its properties | uses `GuidedLearningSession` for what the service does to a session |
| `WorkbenchClaims` | what a document says of the page and the code does not keep | |
| `GuidedLearningSessionProofs` | what every command, result and failure does to a session | the proofs about guided learning and about the page rest on it |
| `GuidedLearningProofs`, `GuidedLearningConsistencyProofs`, `GuidedLearningJobProofs`, `GuidedLearningRouteProofs` | types, claims and revisions; atomic writes and validity of what is stored; jobs, failures and recorded commands; the refinement of `LearningRoute` | |
| `QuestionWorkflowProofs`, `DocumentImportProofs`, `WorkbenchProofs` | the proofs about the other three | |

### Guided learning: state

`sessions` is the snapshot column, reduced to what control depends on: state, revision, the ids of the directions, the selected one, the status of the UNDERSTAND stage, the question pointer, per question its status, confirmation, whether it has an answer, whether it was skipped, the kind of its reference answer and its evidence ids, the orders the summary lists, and the failure. Texts and timestamps are left out. `state_version` always moves with `session_revision` and is not kept apart. `jobs` maps a unique key to its row; `commands` and `failures` are sets of rows; `provider` is the provider config.

`api[a]` is one request in flight: `IDLE`, `LOOKED_UP` (the key was free), `SAVING` (a successor was computed from `base`). `workers[w]` is one `runOnce`: `CLAIMED`, `GENERATING` (from `snap`), `ERRING` (an exception on its way to `recordFailureIfCurrent`), `RECORDING` (the failure, from a second read), `SUCCEEDING` / `FAILING` (before `succeedJob` / `failJob`).

### Guided learning: actions

An action is what one process does between two accesses to the database; a transaction is one action.

| Action | Code |
|---|---|
| `RequestDirections`, `CreateSession` | `POST sessions`; `createSession` |
| `LookUp`, `ReadAndApply`, `Refuse` | `executeCommand` up to the save |
| `SaveCommand`, `SaveRefused` | `repository.save` with a command, and its rollback |
| `WriteDirectly`, `RecordFailure` | the in-process operations of the runtime |
| `Claim`, `ReadSession` | `claimNextJob`; `runGeneration` up to the model call |
| `GatewayFails`, `OutputRejected`, `QuestionPointerChanged`, `SaveConflicts` | the ways a generation throws |
| `SaveGenerated` | `save` of a result |
| `ReadForFailure`, `SaveFailure`, `SaveFailureRefused` | `recordFailureIfCurrent` |
| `FinishJob` | `succeedJob`, `failJob` |
| `StorageFails`, `ApiCrash`, `WorkerCrash` | exceptions from SQLite; process deaths |

Abstractions: a key that was recorded is answered from its row and changes nothing, so there is no action for it. `claimNextJob` takes the oldest job; the model takes any, which allows more. A model's answer is a choice of well-formed outputs (`Groundings` says which passages it may quote) or a malformed one. A document without extracted pages is the fault `PAGES`. The request fingerprint is left out: a key sent with another command is refused before anything is written. `DirectWrites` switches the in-process operations on: no HTTP route reaches them, tests and embedders do, and they are what makes jobs stale.

### Questions and answers

`jobs`, `plans`, `questions`, `questionRevisions`, `answers` and `answerRevisions` are tables, as sequences: an id is a place in its table, because ids are random and never reused. `answerRevisions` holds the claims of a revision, each with the passages its evidence rows quote. A job's `draft` is its result before it is materialised and `made` the row it became (`result_json` holds either). The column `job` of answers and plans is not in the schema; the properties use it to say who made a row.

`api[a]` is one request of an API process. Reading and writing are separate actions where the code uses separate accesses: `AskQuestion` / `EnqueueAnswer`; `ReadJob`, then `MaterializePlan`, `MaterializeAnswer` or `MaterializeRefused`, then `RecordResult` (`http-service.ts:219-253`); `ReviewQuestion`, `ReviewAnswer` / `Decide`, `DecisionRefused`. `OpenQuestion` and `OpenAnswer` are the reader getting the revision an edit will name; `EditQuestion`, `EditAnswer` and `EditRefused` are one transaction each. Refusals that happen before anything is written and whatever the state (an unknown id, a missing field) are no actions. `Materializable` is `materializeClaims` with the unique index on evidence, `PassesTheGateway` what the gateway makes sure of for the model's drafts; a reader's drafts pass `materializeClaims` alone. A claim cites passages by name: offsets, quotes and hashes are left out, the passages being the ones the API itself derives from the stored pages.

### Document import

`files` and `temps` are the content store, a file being there in part or whole; `documents`, `jobs`, `versions` and `pages` the tables (a version is named by the job that names it; one job, one version). `told` records which job a client was told is imported, and by which call. `api[r]` is a request in a process `pid`; `EventLoopFree` keeps two requests of one process from interleaving where the code does not await.

`StartUpload`, `CreateTemp`, `WriteTemp`, `WriteFails`, `RenameTemp` are `saveContentAddressedPdf`; `LookUp`, `InsertDocument`, `InsertJob` the rest of `upload`; `Claim` and `Extract` the Worker (the file is read after the claim; the model reads it when the job ends, which is the same because a stored file never changes); `Ask`, `ReadVersion`, `InsertVersion`, `SavePages`, `Answer` the calls that complete an import. A process that dies comes back under its pid, as the only process of a container does.

### The page

`page` is the state of the React component that control depends on: the session of the URL (`sessionId`), `view` (whose session is shown, and the snapshot), `busy` (`pendingAction`), whether a poll error is shown, the project, version and import job, and for each of the two pollers whether it is off, waits for a reply, sleeps, or gave up. `requests` are the HTTP requests in flight, each with what it names, whether its effect is still there to hear it (`heard`) and, once it was served, its reply. `sessions`, `source` and `imports` are the service; `mishaps` counts what keeps the page from knowing its session: requests and replies that are lost, posts still unserved when the page is loaded again, commands of another page. Going back to the project (`ResetSession`) is none, whatever is in flight: its replies still arrive.

| Action | Code |
|---|---|
| `CreateProject`, `UploadPdf`, `CreateSession`, `SendCommand`, `RefreshSession`, `ResetSession` | the handlers of the buttons |
| `Receive` | the code after each `await`: `Polled` and `JobPolled` (`pollUntil` and its `onValue`), `Recovered`, `Refreshed`, `Commanded` (with the re-read after `REVISION_CONFLICT` and the second half of `confirmAndAdvance`), `Prepared` |
| `Wake`, `WakeJob` | the timer of `pollUntil` |
| `Reload` | the page is loaded again; nobody hears the old one's replies |
| `ServeGet`, `ServeJob`, `ExecuteCommand`, `RefuseCommand`, `RefuseOvertaken`, `ServeProject`, `ServeUpload`, `ServeCreate`, `Fail` | the service answers, or the request or its reply is lost |
| `OtherPage`, `Generate`, `Import` | a second page on the session; the Workers |

A step of the page ends with `Rendered`: each of the three effects compares its dependencies with those of the last render, aborts what it started, and starts again. The service executes a command in one step. That is what `GuidedLearning` justifies: every write is one step of the reducer on the session as it is stored (`EveryWriteIsOneStep`, proved as `WritesAreAtomic`), so an API process that reads and saves later behaves like one that does both at the save, or is refused with a conflict (`RefuseOvertaken`). A generation is one step for the same reason (and see `LateGenerationsAreLost`). A result is one the validator lets pass, because the Worker stores no other. Left out: the draft of an answer, the PDF preview, the provider form and its connection test, wording. The run creates one session, so a command that names the ids of another session (`NamesItsIds`) is out of its bounds; the theorems of section 4 are about any number of sessions.

## 3. What TLC checks

Bounds: `MaxRevision` stops clients (never Workers) from that revision on; everything else is the size of the constants.

| Run | Instance | Shows |
|---|---|---|
| `walk` | 1 session, 1 API, 1 Worker, up to 2 directions, 2-3 questions, both providers, model failures, malformed answers, missing pages, fairness; 13 revisions | the type invariant; no legal command is turned down by the validator (`LegalCommandsPassTheValidator`); a waiting session has a live job (`WaitingSessionHasALiveJob`); no command disturbs a running generation (`GenerationUndisturbed`); the unique job key never gets in the way (`JobKeyNeverCollides`); sessions walk the route (`WalksTheRoute`); a question that was left is never changed again (`LeftQuestionsAreFrozen`); every wait for a generation ends (`EveryGenerationSettles`). 13 revisions are a full walk through two questions up to the summary, or through three with skips, with failures, retries and edits on shorter ways. |
| `race` | 1 session, 2 APIs, 2 Workers, one key, in-process writes; 5 revisions | stale snapshots are recognised, each write is one step of the stored session (`EveryWriteIsOneStep`), one key one effect, jobs fit their session, claims are exclusive, the failure ledger is right, generations land where they belong, the route is walked. Within five revisions processes overlap from the directions to the first answer or skip and its feedback; what comes after (confirmation, the next question, the summary) is walked by one API and one Worker in `walk`, and for overlapping processes it rests on the theorems, which cover every property of this run. |
| `faults` | 2 sessions, crashes, storage errors, one key; 4 revisions | what one transaction writes stays together (`WaitingSessionHasItsJob`, `RecordedAnswerIsTrue`), a SUCCEEDED job is true (`SuccessMeansTheResultLanded`), a held job keeps fitting its session (`GenerationUndisturbed`), one key has one effect (`KeyAppliedOnce`), and failures of one session do not leak into another (`FailureLedger`). |
| `qa_review` | 2 APIs, 1 Worker, 2 keys, one plan and one answer, rows of up to 3 revisions, both drafts a model may give and six a reader may send besides, fairness | types; no edit is lost or forked (`HistoryIsAChain`); nobody decides on or overwrites what he did not see (`NobodyDecidesBlindly`); an answer is stored only for the confirmed revision that was asked (`AnswersAnswerWhatWasAsked`); a confirmed answer has evidence for each claim (`ConfirmedAnswersStandOnEvidence`); all a reader sees of it is `ReviewedWork` (`WorkIsReviewed`): only a wording that is confirmed as it stands is answered, and an edited one is undecided again; every job ends (`EveryJobFinishes`). Three revisions let an edit overtake an edit, a decision and a generation. |
| `qa_materialize` | 2 APIs that may die, 2 keys, up to 2 plans and 2 answers | the result of a job names a row made from it (`ResultsNameWhatTheyMade`), even if the job is materialised twice |
| `import` | 3 requests in 2 processes that may die, uploads of one file under one key with write errors, all three calls that complete an import | types; no job without its whole file (`JobsHaveTheirSource`); pages are there all or not at all (`HalfAnImportIsNeverRead`); who passed `ensureDocumentReady` or got the document can read it (`ReadyMeansReadable`) |
| `workbench` | 1 page, 1 upload, 1 session of 2 questions, commands up to revision 8, 2 requests in flight besides those the page sends itself, polls that give up after 2 failures, 2 mishaps, fairness | types; exactly one poll runs for what is awaited, and none otherwise (`WhatIsAwaitedIsPolled`); an executed answer, skip or confirmation concerns the question that was on the screen (`CommandsReachTheQuestionShown`); without mishaps and a second session a settled view is the service's session, also when the reader went back while polls and commands were in flight and their replies put it on the screen again (`SettledViewIsCurrent`); a session awaited on the screen is shown settled, left, or the poll gave up (`WaitingIsShownToEnd`) |

`MaxRows` keeps a job from being materialised for ever, `MaxRevisions` a reader from editing for ever; `MaxDocuments` lets API processes die only while there are fewer documents (every crash may leave one behind). In `workbench`, revision 8 is past the feedback on the first question and the advance to the second, so screens of both meet commands of both; two mishaps let a reply get lost and another page act; `MaxInFlight` bounds the reader only (clicks, going back), so that a reset meets one request in flight of any kind; two failures, where the client waits for three, make a poll give up within the mishaps. The two-document bound of `import` lets a process die before, between and after every write of the first import.

`Spec` has no fairness and clients may stop at any time, so the safety runs check deadlock too: clients that stop at `MaxRevision` can still look keys up. `FairSpec`, used by `walk` and `qa_review`, adds weak fairness of each Worker's steps. It assumes that `runOnce` is called again and again and that a model call ends. The gateway's time limit covers the call up to the head of the response (`packages/model-gateway/src/openai-compatible.ts:94-122`); that a provider which has begun to answer also finishes, or drops the connection, is an assumption about the provider. The repository's own entry point `apps/worker/src/worker.ts` does not call `runOnce` at all (the tests do), so this is an assumption about the deployment. Crashes and storage errors are switched off there, because after one of them the session does stay stuck (see below). `workbench`'s `FairSpec` assumes that the timer of `pollUntil` fires (`Wake`), that the read of the session's poll is answered or fails, and that Workers go on (`Generate`). The reader need do nothing, and no other request need ever be answered.

### What the code does not keep

Each of these runs ends in a counterexample; `PROJECT.json` quotes the document.

| Run | Statement | What happens |
|---|---|---|
| `claim_retry` | a failed model call can be retried | for the feedback of a BYOK session the retry's job has no question pointer and the session ends in FAILED (`runtime.ts:378`, `worker:256`) |
| `claim_repeated_quote` | a repeated evidence key is materialised once | feedback on a second question that quotes the same passage gets the id of the first, the validator refuses it, the session ends in FAILED (`worker:514`) |
| `claim_once` | a SUCCEEDED job that is asked for again causes no side effect | the rows are written in one transaction, the job's result in another statement; an API process that dies in between writes the rows again on the next GET (`http-service.ts:227`, `:243`) |
| `claim_succeeded` | SUCCEEDED is published after the output | `getJob` reads the job twice; when the Worker finishes in between it answers SUCCEEDED for a job nobody materialised (`http-service.ts:88-91`). The Workbench then may start a session whose Worker finds no pages |
| `claim_url` | the page works with the session of the URL and an AbortController | the signal is not given to `fetch` and `pollUntil` does not look at it when a read returns (`polling.ts:60-64`): the reply to a poll aborted by `resetSession` puts the session that was left back on the screen, while the URL names none and its buttons do nothing (`GuidedLearningWorkbench.tsx:114`) |

More behaviours were met that are in the models but are no runs. The validator accepts feedback that cites nothing and calls itself insufficient, the confirmation gate (`runtime.ts:750`) never lets such a question through: the reader can only answer it again or skip it. A failed write or a crash before the rename leaves a temporary file, and later uploads of the same bytes by that pid are refused (`upload.ts:55`). And a crash between the two inserts, or an upload under the same key in another process, may leave a document that no job refers to (`service.ts:39`); nothing waits for it. The RUNNING job of a Worker that died is never claimed again (`packages/storage/src/repository.ts:317`); `docs/architecture/wave1-technical-plan.md:99` describes a recovery at start that is not written yet.

Of the page, with a second session. The reader goes back while the poll of the first session is in flight, and creates a second one of the same upload, whose poll starts. The late poll puts the first session, meanwhile settled, on the screen, under the URL of the second, and because it is settled the poll of the second is ended while its read is under way. The next command goes to the second session, as the URL says, and is executed and shown; then that old read replaces it: a settled screen that is not the service's session, with nothing lost and no other page at work. TLC finds it in 26 steps with `MaxSessions = 2`, `MaxUploads = 2`, `MaxInFlight = 3`, `MaxMishaps = 0` and the mock provider when `OneSession` is taken out of `SettledViewIsCurrent`; that is why the condition is there. Comparing `session_revision` and the session's id before a reply is shown (`GuidedLearningWorkbench.tsx:271`) would close it.

Of the page, with one session. A late poll may put a session back on the screen that still waits, over a URL that names none (the state of `claim_url`). Its effect follows the URL's session, so nothing polls it: the screen waits until the reader loads the page or starts anew. `WhatIsAwaitedIsPolled` and `WaitingIsShownToEnd` are about what the page follows (`Followed`, which needs the URL) and say nothing of it; `TheUrlNamesTheSessionShown`, which the code violates, is.

Of the Worker. Over a session that was written in process, a claimed job that finds it at a later revision, in the state its kind leads to, ends as SUCCEEDED without a result of its own (`worker:57`). `SuccessMeansTheResultLanded` is checked and proved without in-process writes, where this branch is never taken; with them, as in the setting of `race`, TLC refutes it in ten steps.

When the reply to a POST is lost, the session it created is an orphan, and a confirmation sent again is refused without the re-read a conflict would bring, until the page is loaded again. After a poll gave up, its button reads once; a session that still waits is not polled again, because the effect depends on the state alone (`polling.ts:70`). And a command carries the question it is about but not the revision, so a confirmation chosen on an older feedback confirms the one another page has had generated since for the same question (`api.ts:152`).

## 4. What is proved

### Guided learning

The theorems are about its `Spec`, for any sets of sessions, processes, keys and passages, any numbers of directions, questions and revisions and any faults, under `SessionAssumption` (bounds are ordered, groundings are passages) and `GuidedLearningAssumption` (the null values differ from the real ones). The invariants build on each other; each line is one inductive invariant.

* `TypeInv` (`GuidedLearningProofs`): `TypeCorrect`, `ClaimsAreExclusive`. Types, exclusive claims, and that a request about to be saved is complete. Types alone are not inductive: a Worker reads the row of the job it holds, so that row has to exist; and a claim stays exclusive because only a QUEUED row is claimed and only the holder finishes it.
* `RevisionInv` (`GuidedLearningProofs`): `SnapshotsAreIdentified`, `KeysApplyOnce`, `LateGenerationsAreLost`. It strengthens `RevisionIdentifiesSnapshot`: a held snapshot is never *ahead* of its session, a Worker's snapshot has its job's revision, and a recorded revision was reached. The proof rests on `StepsAdvance`: every step leaves a session as it is or moves its revision on, so what was recognisably old stays so.
* `ConsistencyInv` (`GuidedLearningConsistencyProofs`): `WritesAreAtomic`, `StoredSessionsPassTheValidator`, `LeftQuestionsStayAsTheyWere`. Whatever is stored, or about to be, satisfies `validateGuidedLearningSessionConsistency`. `SessionSteps` splits a step into what became of one session: nothing, a command, a result or a failure computed from the session *as it is stored*, which is where `RevisionInv` is needed. A command's successor is determined by its question, so questions behind the pointer stay as they are.
* `RegularInv` (`GuidedLearningConsistencyProofs`): `NoLegalCommandIsRefused`. That a stored session passes the validator is not enough for what a command makes of it to pass: the validator lets through sessions no command keeps valid (a summary written early, questions before their state, a route that names no stage). `Shaped` says which parts of a session are there in which state, of a failed one in the state it resumes; `Regular` is `Consistent` and `Shaped`, and every command, result, completion and failure keeps it (`CommandsKeepRegular`, `GenerationsKeepRegular`).
* Refinement (`GuidedLearningRouteProofs`): `SessionsWalkTheRoute`. `Seen` maps a session to its place on the route, `Walk` is one step of it. Every command, result and failure of a consistent session is a walk or a pause (`CommandsWalk`, `GenerationsWalk`, `EndingsWalk`); no step of the system moves two sessions (`OneStep`); so the system's steps are steps of `LearningRoute` or stutters.
* `JobInv` (`GuidedLearningJobProofs`): `JobsFitTheirSessions`, `FailuresAreAccountedFor`, `RecordedAnswersAreTrue`, `FreshKeysForFreshJobs`. A job is never ahead of its session, and at the session's revision it expects the state the session is in; an open failure row is the failure its session carries; the job a recorded command names is there. The proof goes through a normal form of a step (`AStep`): no session changes, or one does, by a command with its job and its closed failures, by a result, or by a failure with its new row.
* `AwaitInv`, `QuietInv`, `LandedInv` (`GuidedLearningJobProofs`), each on top of the one before, *under the hypothesis* `~DirectWrites`: `WaitingSessionsAreServed`, `GenerationsAreUndisturbed`, `NoGenerationIsLostQuietly`. With clients on the command interface only, which is all the HTTP server offers, a waiting session has exactly one job at its revision. So no command can overtake the generation a Worker holds; so the only way a job ends as SUCCEEDED is that its result landed. In-process writes make the three statements false, and the runs they are checked in have none.
* `LiveInv` (`GuidedLearningJobProofs`), on top of those and of `RegularInv`, under the further hypothesis that nothing crashes and no storage call fails: `WaitingSessionsHaveALiveJob`. A job that fits its session is in the queue or `Kept` by the Worker that is at it: a Worker lets go of such a job only by writing its session, because a regular session in the state the job expects accepts a failure of that job, so even an answer that cannot be used ends in a recorded failure. With a crash, or a storage error when the failure is saved, the statement is false (see above), and the run `walk` it is checked in has neither.

### Questions and answers

For any numbers of processes, keys, passages, plans, answers and revisions, any drafts of readers, and any crashes, under `QuestionWorkflowAssumption` (null values are not real ones; the model's drafts passed the gateway): `WorkflowTypes`, `HistoriesAreChains`, `ConfirmedAnswersStand`, `ResultsAreTheirJobs`, `NoBlindDecisions`, `AnswersAnswerTheQuestion`, `QuestionsAndAnswersAreReviewed` (`QuestionWorkflowProofs`). That is every safety property of `qa_review` and `qa_materialize`.

The inductive invariant `WorkflowInv` has two halves. Of the tables: `History` (a chain of revisions per row, the current one last, which needs that none is numbered past it), `JobIsRight` (a finished job has a draft of its kind or names a row made from it) and `Stands` (CONFIRMED only when VERIFIED, VERIFIED only when the current revision's claims have evidence). Of the requests: `Knows`, what a request knows where it is. A decision is checked on a read and stored later; it is harmless because a row that is verified otherwise by then has a revision no request could have seen. `Grown` states what every step keeps of the tables, so `Knows` of all requests but the one that moves follows at once (`StillKnows`).

The refinement of `ReviewedWork` maps a question to the number of its current revision and its review status, and an answer also to the version it was asked for and to whether the claims of its current revision stand on evidence (`SeenQuestion`, `SeenAnswer`). The version asked for is read off the payload of the job the answer was made from, so the refinement needs, beside `WorkflowInv`, that this job and the wording it names never go away (`AnswersAreTraceable`, kept because payloads and wordings are `Kept`), and that a request under review carries a decision (`RequestsDecide`). Five actions write what a reader sees (`WritingSteps`): a plan that is materialised is a proposal (`PlansAreProposals`), an edit a rewording (`EditsReword`, `EditsRewordAnswers`), `Decide` a decision (`QuestionDecisionsDecide`, `AnswerDecisionsDecide`), and an answer that is materialised answers its question as it stands (`MaterializationsAnswer`). Everything else is a stutter.

### Import

Every safety property of the run `import` is proved, for any numbers of processes, requests, keys, files and pages, under `DocumentImportAssumption` (the null values differ from the real ones, the calls are known ones): `ImportTypeCorrect`, `SourcesAreStored`, `PagesComeTogether`, `ToldDocumentsAreReadable` (`DocumentImportProofs`). The inductive invariant `ImportInv` adds to the properties what a request knows where it is (`Sound`: its file is stored once the upload looks its key up, its version is there once it saves pages, all pages are there once it answers) and that a temporary file being written has one owner (`TemporaryFilesAreOwned`): without the owner a rename could store a part of a file. `Sound` takes the rows and files that exist as parameters and only grows true with them (`SoundGrows`). The theorems do not use `EventLoopFree`: none of this rests on the API being single-threaded.

### The page

For any numbers of sessions, uploads, questions, requests in flight and mishaps, both providers, and any number of failures a poll tolerates, under `WorkbenchAssumption` and the assumptions of the modules it extends: `WorkbenchIsTyped`, `AwaitedWorkIsPolled`, `ExecutedCommandsWereAimed`, `SettledViewsAreCurrent` (`WorkbenchProofs`), every safety property of the run `workbench`. There are two inductive invariants.

`PageInv` is about the page and its requests whatever is lost. A rendered page `PageFits` its requests: each poller that waits for a reply has exactly one request that is heard, each that sleeps or is off has none, and a request is for the session of the URL, or the job shown. Types and polls have to go together, since `Rendered` counts on the poll it aborts to be the only one. A command in flight is `Aimed`: it was offered on the screen it carries, so the question it names was current there; since the service only executes what names the current question, `ExecutedCommandsWereAimed` follows. The proof follows the code: `RenderingFits` says what one run of the three effects does to a page that fits but for what changed, and each handler and each reply is shown to leave such a page (`SubmittingFits`, `HearingFits`, `ReloadingFits`). That commands name what exists needs the service's sessions to be `Regular`, which `GuidedLearningSessionProofs` provides here as for `GuidedLearning`.

`ViewInv` is about what is shown while nothing was lost, no other page was at work and no second session exists. That a settled view is current is not inductive: a request in flight may bring an older snapshot later. So `Sound` says of each request what it may still do: a snapshot on its way, also one nobody listens to any more, is the session's, or was taken while the session waited (`Faithful`); a command is in flight over a settled screen of its session, or over no link because the reader went back; a poll is unheard only over no link; a creation is answered only while nothing is linked. No poll is in flight together with a command or an answered creation (`Apart`), and at most one post at a time. What keeps a late reply harmless is that `resetSession` clears the id: over no link no command can be sent, so nothing overtakes the reply. The mutant that keeps the link shows the other case: the late poll puts a waiting session on the screen, whose own poll is answered late in turn, after the next command. `SettledViewIsCurrent` is then the case in which no command is under way. `ViewInvStep` needs `QuietBefore`: mishaps are counted and sessions never deleted, so a quiet state comes after quiet states only. `ViewInv` was checked by TLC in the bounds of `workbench` before it was proved.

### Only model-checked

The liveness properties `EveryGenerationSettles`, `EveryJobFinishes` and `WaitingIsShownToEnd`, because the prover does neither fairness nor ENABLED; and the counterexamples of the five claims, which are behaviours of small instances. Every invariant, every action property and both refinements that the passing runs check are theorems.

## 5. What is not modelled

* Migrations: each is one transaction. Of two processes that start on a new file at once, both find a migration missing (`packages/storage/src/database.ts:27`); the second one's attempt fails, is rolled back and ends its start. Nothing is lost.
* Model gateway: a call keeps no state that outlives it; the models take what it lets through (`PassesTheGateway`, well-formed outputs) as given, and that it answers or fails as an assumption.
* Secrets, HTTP routing, JSON schemas and generated types, rendering, PDF parsing, scripts: wiring or pure data. The quick question page of `main.tsx` shows fixed demonstration data. Leaving the workbench for it (`onBack`, which unmounts the component while the handlers of requests in flight run on: `writeSessionUrl` after `createSession`, ADVANCE after a confirmation) is not modelled; `Reload` is only a load of the page, after which nothing of the old one runs.
* The repository's `recordFailure` and `recordCommandResult` have no caller, and the projection tables have no reader in `src/`.
* The repair of a half-finished import is a property of the next call, not of a state, and shows only in `ReadyMeansReadable`; clients may stop asking, so nothing says that a document becomes readable. A power failure that loses unsynced files.
* Cross-kind key collisions are modelled (`WithJob`: an answer requested under a plan's key gets the plan's job), but no document says what should happen, so no property is about them.
* One abstract job queue that the jobs of the three modules refine: the three use the rows differently (a result that is a session, or a draft to be materialised), and what they share, that one Worker holds a row and finishes it, is `ClaimsAreExclusive`.

What would come next: a revision check in the page (`GuidedLearningWorkbench.tsx:271`) as a variant of `Workbench`, to show that it makes `SettledViewIsCurrent` hold without its conditions; and the crash recovery of jobs once it is written, which should turn the hypotheses of `WaitingSessionsHaveALiveJob` into a theorem without them.
