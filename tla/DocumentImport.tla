--------------------------- MODULE DocumentImport ---------------------------
(***************************************************************************)
(* Import of PDF files. An upload stores the file under its hash and       *)
(* queues a job; a Worker extracts the pages into the result of the job;   *)
(* the rows of the document version and of its pages are written later, by *)
(* whatever API call asks for the document first. API processes are single *)
(* threads: only an await lets another request of the process run. Files   *)
(* and database are shared, and outlive the processes.                     *)
(***************************************************************************)
EXTENDS Integers, Sequences

CONSTANTS Pids,         \* API processes; one that dies is restarted with its pid
          Requests,     \* requests the API processes handle at a time, together
          Workers,      \* Worker processes
          NoWorker,     \* jobs.worker_id IS NULL
          NoPid,        \* a request slot nobody uses
          Keys,         \* idempotency keys of uploads
          Contents,     \* PDF files, identified by their hash
          PageCount,    \* pages extracted from a file
          Calls,        \* the ways to ask for a document that clients use
          Crashes,      \* whether processes may die
          DiskErrors,   \* whether writing a file may fail
          MaxDocuments  \* bound: processes die only before so many documents

AllCalls == {"JOB", "DOCUMENT", "READY"}

ASSUME DocumentImportAssumption ==
  /\ NoWorker \notin Workers
  /\ NoPid \notin Pids
  /\ PageCount \in Nat \ {0}
  /\ Calls \subseteq AllCalls
  /\ Crashes \in BOOLEAN /\ DiskErrors \in BOOLEAN
  /\ MaxDocuments \in Nat

VARIABLES files,     \* the file stored under a hash
          temps,     \* .<hash>.<pid>.tmp, by hash and pid
          documents, \* how many rows documents has
          jobs,      \* DOCUMENT_IMPORT jobs, in the order of their insertion
          versions,  \* document_versions, by the job that names the version
          pages,     \* document_pages, as pairs of a version and a page number
          api,       \* what each request is at
          workers,   \* the job each Worker runs, 0 for none
          told       \* what clients were told is imported, and in which call

db == <<documents, jobs, versions, pages>>
disk == <<files, temps>>
vars == <<files, temps, documents, jobs, versions, pages, api, workers, told>>

-----------------------------------------------------------------------------
FileStates == {"NONE", "PARTIAL", "WHOLE"}

NewJob(key, content, document) ==
  [key |-> key, content |-> content, document |-> document, state |-> "QUEUED",
   worker |-> NoWorker]

(* Mutant: pages are numbered from 0.                                      *)
PagesOf_FromZero(j) == {j} \X (0..(PageCount - 1))

PagesOf(j) == {j} \X (1..PageCount)
Readable(j) == j \in versions /\ PagesOf(j) \subseteq pages

-----------------------------------------------------------------------------
(* Requests. An upload carries a key and a content, and the document it    *)
(* made; a call carries its kind and the job of its document.              *)
Upload(pc, pid, key, content) ==
  [pc |-> pc, pid |-> pid, key |-> key, content |-> content, call |-> "", row |-> 0]
Asking(pc, pid, call, j) ==
  [pc |-> pc, pid |-> pid, key |-> "", content |-> "", call |-> call, row |-> j]
Idle == Asking("IDLE", NoPid, "", 0)

(* Where a request is in the middle of code that does not await.           *)
Synchronous == {"INSERTING_DOCUMENT", "INSERTING_JOB", "READING_VERSION",
                "INSERTING_VERSION", "SAVING_PAGES", "ANSWERING"}

(* The event loop: synchronous code of a process starts when no other is   *)
(* running.                                                                *)
EventLoopFree(pid) == \A r \in Requests : api[r].pid = pid => api[r].pc \notin Synchronous

GoesTo(r, pc) == api' = [api EXCEPT ![r].pc = pc]
Ends(r) == api' = [api EXCEPT ![r] = Idle]

Init == /\ files = [c \in Contents |-> "NONE"]
        /\ temps = [temp \in Contents \X Pids |-> "NONE"]
        /\ documents = 0
        /\ jobs = <<>>
        /\ versions = {} /\ pages = {}
        /\ api = [r \in Requests |-> Idle]
        /\ workers = [w \in Workers |-> 0]
        /\ told = {}

-----------------------------------------------------------------------------
(* saveContentAddressedPdf: stat, create, write, rename.                   *)
StartUpload(r, pid, key, content) ==
  /\ api[r] = Idle /\ EventLoopFree(pid)
  /\ api' = [api EXCEPT ![r] = Upload(IF files[content] = "NONE" THEN "CREATING"
                                      ELSE "LOOKING_UP", pid, key, content)]
  /\ UNCHANGED <<db, disk, workers, told>>

(* Two uploads of the same bytes in one process share the temporary file.  *)
TempOf(r) == <<api[r].content, api[r].pid>>

(* Mutant: a temporary file that is there is overwritten.                  *)
CreateTemp_Overwrites(r) ==
  /\ api[r].pc = "CREATING"
  /\ temps' = [temps EXCEPT ![TempOf(r)] = "PARTIAL"]
  /\ GoesTo(r, "WRITING")
  /\ UNCHANGED <<db, files, workers, told>>

(* The flag wx: an upload that finds the file fails.                       *)
CreateTemp(r) ==
  LET there == temps[TempOf(r)] # "NONE" IN
  /\ api[r].pc = "CREATING"
  /\ IF there THEN Ends(r) /\ UNCHANGED temps
     ELSE /\ temps' = [temps EXCEPT ![TempOf(r)] = "PARTIAL"]
          /\ GoesTo(r, "WRITING")
  /\ UNCHANGED <<db, files, workers, told>>

WriteTemp(r) ==
  /\ api[r].pc = "WRITING"
  /\ temps' = [temps EXCEPT ![TempOf(r)] = "WHOLE"]
  /\ GoesTo(r, "RENAMING")
  /\ UNCHANGED <<db, files, workers, told>>

(* The upload fails and the temporary file stays as it is.                 *)
WriteFails(r) ==
  /\ DiskErrors
  /\ api[r].pc \in {"WRITING", "RENAMING"}
  /\ Ends(r)
  /\ UNCHANGED <<db, disk, workers, told>>

RenameTemp(r) ==
  /\ api[r].pc = "RENAMING"
  /\ files' = [files EXCEPT ![api[r].content] = temps[TempOf(r)]]
  /\ temps' = [temps EXCEPT ![TempOf(r)] = "NONE"]
  /\ GoesTo(r, "LOOKING_UP")
  /\ UNCHANGED <<db, workers, told>>

-----------------------------------------------------------------------------
(* DocumentIngestService.upload, once the file is stored. A key that is    *)
(* known by now, or when the job is inserted, is answered with its job;    *)
(* then the document of this request stays without one.                    *)
Known(key) == \E j \in DOMAIN jobs : jobs[j].key = key

LookUp(r) ==
  /\ api[r].pc = "LOOKING_UP" /\ EventLoopFree(api[r].pid)
  /\ IF Known(api[r].key) THEN Ends(r) ELSE GoesTo(r, "INSERTING_DOCUMENT")
  /\ UNCHANGED <<db, disk, workers, told>>

InsertDocument(r) ==
  /\ api[r].pc = "INSERTING_DOCUMENT"
  /\ documents' = documents + 1
  /\ api' = [api EXCEPT ![r].pc = "INSERTING_JOB", ![r].row = documents + 1]
  /\ UNCHANGED <<jobs, versions, pages, disk, workers, told>>

InsertJob(r) ==
  /\ api[r].pc = "INSERTING_JOB"
  /\ jobs' = IF Known(api[r].key) THEN jobs
             ELSE Append(jobs, NewJob(api[r].key, api[r].content, api[r].row))
  /\ Ends(r)
  /\ UNCHANGED <<documents, versions, pages, disk, workers, told>>

-----------------------------------------------------------------------------
(* The Worker: the whole file is read and its pages go into the result of  *)
(* the job. A file that cannot be read, is no text PDF or has another hash *)
(* fails the job.                                                          *)
Claim(w) ==
  /\ workers[w] = 0
  /\ \E j \in DOMAIN jobs :
       /\ jobs[j].state = "QUEUED"
       /\ jobs' = [jobs EXCEPT ![j].state = "RUNNING", ![j].worker = w]
       /\ workers' = [workers EXCEPT ![w] = j]
  /\ UNCHANGED <<documents, versions, pages, disk, api, told>>

Extract(w) ==
  LET j == workers[w] IN
  /\ j # 0
  /\ \/ /\ files[jobs[j].content] = "WHOLE"
        /\ jobs' = [jobs EXCEPT ![j].state = "SUCCEEDED"]
     \/ jobs' = [jobs EXCEPT ![j].state = "FAILED"]
  /\ workers' = [workers EXCEPT ![w] = 0]
  /\ UNCHANGED <<documents, versions, pages, disk, api, told>>

-----------------------------------------------------------------------------
(* The calls that finish an import: GET /jobs/:id, GET /documents/:id and  *)
(* ensureDocumentReady, which every use of a document but one goes through *)
(* (a guided-learning Worker reads the pages as they are).                 *)
Ask(r, pid, call, j) ==
  /\ api[r] = Idle /\ EventLoopFree(pid)
  /\ \/ /\ jobs[j].state = "SUCCEEDED"
        /\ api' = [api EXCEPT ![r] = Asking("READING_VERSION", pid, call, j)]
     \/ /\ jobs[j].state # "SUCCEEDED" /\ call = "JOB"
        /\ api' = [api EXCEPT ![r] = Asking("ANSWERING", pid, call, j)]
  /\ UNCHANGED <<db, disk, workers, told>>

(* Mutant: a version that is there is taken for an import that is done.    *)
ReadVersion_IsAll(r) ==
  /\ api[r].pc = "READING_VERSION"
  /\ GoesTo(r, IF api[r].row \in versions THEN "ANSWERING" ELSE "INSERTING_VERSION")
  /\ UNCHANGED <<db, disk, workers, told>>

ReadVersion(r) ==
  /\ api[r].pc = "READING_VERSION"
  /\ GoesTo(r, IF api[r].row \in versions THEN "SAVING_PAGES" ELSE "INSERTING_VERSION")
  /\ UNCHANGED <<db, disk, workers, told>>

(* The primary key lets one call insert the version; the other one throws. *)
InsertVersion(r) ==
  /\ api[r].pc = "INSERTING_VERSION"
  /\ versions' = versions \cup {api[r].row}
  /\ IF api[r].row \in versions THEN Ends(r) ELSE GoesTo(r, "SAVING_PAGES")
  /\ UNCHANGED <<documents, jobs, pages, disk, workers, told>>

(* Mutant: every page is a transaction of its own.                         *)
SavePages_OneByOne(r) ==
  /\ api[r].pc = "SAVING_PAGES"
  /\ IF PagesOf(api[r].row) \subseteq pages THEN GoesTo(r, "ANSWERING") /\ UNCHANGED pages
     ELSE \E page \in PagesOf(api[r].row) \ pages :
            pages' = pages \cup {page} /\ UNCHANGED api
  /\ UNCHANGED <<documents, jobs, versions, disk, workers, told>>

(* INSERT OR IGNORE, one transaction: the pages of a version never differ. *)
SavePages(r) ==
  /\ api[r].pc = "SAVING_PAGES"
  /\ pages' = pages \cup PagesOf(api[r].row)
  /\ GoesTo(r, "ANSWERING")
  /\ UNCHANGED <<documents, jobs, versions, disk, workers, told>>

(* getJob reads the job once more for its answer; the others answer for    *)
(* the job they read first. ensureDocumentReady counts the pages.          *)
Answer(r) ==
  LET j == api[r].row
      call == api[r].call IN
  /\ api[r].pc = "ANSWERING"
  /\ told' = IF \/ call = "JOB" /\ jobs[j].state = "SUCCEEDED"
                \/ call = "DOCUMENT"
                \/ call = "READY" /\ Readable(j)
             THEN told \cup {<<call, j>>} ELSE told
  /\ Ends(r)
  /\ UNCHANGED <<db, disk, workers>>

-----------------------------------------------------------------------------
ApiCrash(pid) ==
  /\ Crashes /\ documents < MaxDocuments
  /\ \E r \in Requests : api[r].pid = pid
  /\ api' = [r \in Requests |-> IF api[r].pid = pid THEN Idle ELSE api[r]]
  /\ UNCHANGED <<db, disk, workers, told>>

WorkerCrash(w) ==
  /\ Crashes /\ workers[w] # 0
  /\ workers' = [workers EXCEPT ![w] = 0]
  /\ UNCHANGED <<db, disk, api, told>>

Store(r) == \/ \E pid \in Pids, key \in Keys, c \in Contents : StartUpload(r, pid, key, c)
            \/ CreateTemp(r)
            \/ WriteTemp(r)
            \/ WriteFails(r)
            \/ RenameTemp(r)
Enqueue(r) == LookUp(r) \/ InsertDocument(r) \/ InsertJob(r)
Finalize(r) == \/ \E pid \in Pids, call \in Calls, j \in DOMAIN jobs : Ask(r, pid, call, j)
               \/ ReadVersion(r)
               \/ InsertVersion(r)
               \/ SavePages(r)
               \/ Answer(r)

Next == \/ \E r \in Requests : Store(r) \/ Enqueue(r) \/ Finalize(r)
        \/ \E w \in Workers : Claim(w) \/ Extract(w) \/ WorkerCrash(w)
        \/ \E pid \in Pids : ApiCrash(pid)

Spec == Init /\ [][Next]_vars

-----------------------------------------------------------------------------
(* Properties.                                                             *)

Steps == Synchronous \cup {"IDLE", "CREATING", "WRITING", "RENAMING", "LOOKING_UP"}

JobRows == [key : Keys, content : Contents, document : Nat \ {0},
            state : {"QUEUED", "RUNNING", "SUCCEEDED", "FAILED"},
            worker : Workers \cup {NoWorker}]
RequestRecords == [pc : Steps, pid : Pids \cup {NoPid}, key : Keys \cup {""},
                   content : Contents \cup {""}, call : AllCalls \cup {""}, row : Nat]

(* Types of the variables.                                                 *)
TypeOK ==
  /\ files \in [Contents -> FileStates]
  /\ temps \in [Contents \X Pids -> FileStates]
  /\ documents \in Nat
  /\ jobs \in Seq(JobRows)
  /\ versions \subseteq DOMAIN jobs
  /\ pages \subseteq versions \X (1..PageCount)
  /\ api \in [Requests -> RequestRecords]
  /\ workers \in [Workers -> Nat]
  /\ told \subseteq AllCalls \X DOMAIN jobs

(* A file that is stored is whole, and the file of a job is stored: a      *)
(* Worker, or a reader of the PDF, finds what was uploaded, however many   *)
(* uploads of the same bytes overlap, fail or die.                         *)
JobsHaveTheirSource ==
  /\ \A c \in Contents : files[c] # "PARTIAL"
  /\ \A j \in DOMAIN jobs : files[jobs[j].content] = "WHOLE"

(* A version has all of its pages or none, so that whoever reads pages     *)
(* without finishing the import (the guided-learning Worker) takes no part *)
(* of a document for the whole.                                            *)
HalfAnImportIsNeverRead ==
  \A j \in DOMAIN jobs : pages \cap PagesOf(j) \in {{}, PagesOf(j)}

(* A client that was given a document, or whose request passed             *)
(* ensureDocumentReady, can read it, although the version and its pages    *)
(* are written in two transactions and any process may die between them.   *)
ReadyMeansReadable == \A j \in DOMAIN jobs :
  (<<"DOCUMENT", j>> \in told \/ <<"READY", j>> \in told) => Readable(j)

-----------------------------------------------------------------------------
(* What the documents of the repository say and the code does not do.      *)

(* docs/architecture/wave1-technical-plan.md publishes SUCCEEDED after the *)
(* complete output was written; the Workbench starts a session as soon as  *)
(* GET /jobs/:id answers SUCCEEDED.                                        *)
SucceededMeansReadable == \A j \in DOMAIN jobs : <<"JOB", j>> \in told => Readable(j)
=============================================================================
