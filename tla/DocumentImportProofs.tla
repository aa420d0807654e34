------------------------ MODULE DocumentImportProofs ------------------------
(***************************************************************************)
(* Invariance proofs about DocumentImport, for any number of processes,    *)
(* requests, keys, files and pages, and whichever of them die or fail.     *)
(***************************************************************************)
EXTENDS DocumentImport, SequenceTheorems, TLAPS

Enqueuing == {"LOOKING_UP", "INSERTING_DOCUMENT", "INSERTING_JOB"}
Storing == {"CREATING", "WRITING", "RENAMING"}
Finalizing == {"READING_VERSION", "INSERTING_VERSION", "SAVING_PAGES", "ANSWERING"}

(* What a request knows where it is: q is a request, and the rest are the  *)
(* jobs, the versions, the pages and the whole files there are. More of    *)
(* them never takes this away.                                             *)
Sound(q, rows, made, stored, whole) ==
  /\ q \in RequestRecords
  /\ q.pc # "IDLE" => q.pid \in Pids
  /\ q.pc \in Storing \cup Enqueuing => q.key \in Keys /\ q.content \in Contents
  /\ q.pc \in Enqueuing => q.content \in whole
  /\ q.pc = "INSERTING_JOB" => q.row # 0
  /\ q.pc \in Finalizing => q.row \in rows /\ q.call \in AllCalls
  /\ q.pc = "SAVING_PAGES" => q.row \in made
  /\ q.pc = "ANSWERING" /\ q.call # "JOB" => q.row \in made /\ PagesOf(q.row) \subseteq stored

WholeFiles == {c \in Contents : files[c] = "WHOLE"}

RequestsAreSound ==
  \A r \in Requests : Sound(api[r], DOMAIN jobs, versions, pages, WholeFiles)

(* A temporary file that is being written belongs to one request, and it   *)
(* is whole when it is about to be renamed.                                *)
Writing == {"WRITING", "RENAMING"}

TemporaryFilesAreOwned ==
  /\ \A r \in Requests : api[r].pc \in Writing => temps[TempOf(r)] # "NONE"
  /\ \A r \in Requests : api[r].pc = "RENAMING" => temps[TempOf(r)] = "WHOLE"
  /\ \A r, q \in Requests :
       api[r].pc \in Writing /\ api[q].pc \in Writing /\ r # q => TempOf(r) # TempOf(q)

WorkersHoldJobs == \A w \in Workers : workers[w] \in (DOMAIN jobs) \cup {0}

(* The inductive invariant.                                                *)
ImportInv ==
  /\ TypeOK
  /\ RequestsAreSound
  /\ TemporaryFilesAreOwned
  /\ WorkersHoldJobs
  /\ JobsHaveTheirSource
  /\ HalfAnImportIsNeverRead
  /\ ReadyMeansReadable

-----------------------------------------------------------------------------
(* Nothing that was written is ever taken back.                            *)

LEMMA SoundGrows ==
  ASSUME NEW q, NEW rows, NEW made, NEW stored, NEW whole,
         NEW rows2, NEW made2, NEW stored2, NEW whole2,
         rows \subseteq rows2, made \subseteq made2, stored \subseteq stored2,
         whole \subseteq whole2, Sound(q, rows, made, stored, whole)
  PROVE  Sound(q, rows2, made2, stored2, whole2)
BY DEF Sound

(* The actions that touch the jobs.                                        *)
LEMMA WhoWritesJobs ==
  ASSUME [Next]_vars
  PROVE  \/ \E r \in Requests : InsertJob(r)
         \/ \E w \in Workers : Claim(w) \/ Extract(w)
         \/ UNCHANGED jobs
<1>1. ASSUME NEW r \in Requests, Store(r) PROVE UNCHANGED jobs
  BY <1>1 DEF Store, StartUpload, CreateTemp, WriteTemp, WriteFails, RenameTemp, db
<1>2. ASSUME NEW r \in Requests, Enqueue(r) PROVE InsertJob(r) \/ UNCHANGED jobs
  BY <1>2 DEF Enqueue, LookUp, InsertDocument, db
<1>3. ASSUME NEW r \in Requests, Finalize(r) PROVE UNCHANGED jobs
  BY <1>3 DEF Finalize, Ask, ReadVersion, InsertVersion, SavePages, Answer, db
<1>4. ASSUME NEW w \in Workers, WorkerCrash(w) PROVE UNCHANGED jobs
  BY <1>4 DEF WorkerCrash, db
<1>5. ASSUME NEW pid \in Pids, ApiCrash(pid) PROVE UNCHANGED jobs
  BY <1>5 DEF ApiCrash, db
<1> QED
  BY <1>1, <1>2, <1>3, <1>4, <1>5 DEF Next, vars

LEMMA RowsChange ==
  ASSUME NEW rows \in Seq(JobRows), NEW j \in DOMAIN rows, NEW row \in JobRows,
         row.content = rows[j].content
  PROVE  /\ [rows EXCEPT ![j] = row] \in Seq(JobRows)
         /\ DOMAIN [rows EXCEPT ![j] = row] = DOMAIN rows
         /\ \A i \in DOMAIN rows : [rows EXCEPT ![j] = row][i].content = rows[i].content
<1>1. DOMAIN rows = 1..Len(rows)
  BY LenProperties
<1> QED
  BY <1>1, ExceptSeq

LEMMA JobsGrow ==
  ASSUME ImportInv, [Next]_vars
  PROVE  /\ jobs' \in Seq(JobRows)
         /\ DOMAIN jobs \subseteq DOMAIN jobs'
         /\ \A j \in DOMAIN jobs : jobs'[j].content = jobs[j].content
         /\ \A j \in (DOMAIN jobs') \ DOMAIN jobs : jobs'[j].content \in WholeFiles
<1> DEFINE Goal == /\ jobs' \in Seq(JobRows)
                   /\ DOMAIN jobs \subseteq DOMAIN jobs'
                   /\ \A j \in DOMAIN jobs : jobs'[j].content = jobs[j].content
                   /\ \A j \in (DOMAIN jobs') \ DOMAIN jobs : jobs'[j].content \in WholeFiles
<1>0. jobs \in Seq(JobRows) /\ \A j \in DOMAIN jobs : jobs[j] \in JobRows
  BY LenProperties DEF ImportInv, TypeOK
<1>1. ASSUME NEW r \in Requests, InsertJob(r) PROVE Goal
  <2> DEFINE row == NewJob(api[r].key, api[r].content, api[r].row)
  <2>1. Sound(api[r], DOMAIN jobs, versions, pages, WholeFiles) /\ api[r].pc = "INSERTING_JOB"
    BY <1>1 DEF ImportInv, RequestsAreSound, InsertJob
  <2>2. row \in JobRows /\ row.content \in WholeFiles
    BY <2>1 DEF Sound, RequestRecords, Enqueuing, JobRows, NewJob
  <2>3. CASE jobs' = jobs
    BY <2>3, <1>0
  <2>4. CASE jobs' = Append(jobs, row)
    BY <2>4, <2>2, <1>0
  <2> QED
    BY <1>1, <2>3, <2>4 DEF InsertJob
<1>2. ASSUME NEW w \in Workers, Claim(w) PROVE Goal
  <2>1. PICK j \in DOMAIN jobs : jobs' = [jobs EXCEPT ![j].state = "RUNNING", ![j].worker = w]
    BY <1>2 DEF Claim
  <2> DEFINE row == [jobs[j] EXCEPT !.state = "RUNNING", !.worker = w]
  <2>2. row \in JobRows /\ row.content = jobs[j].content
    BY <1>0 DEF JobRows
  <2>3. jobs' = [jobs EXCEPT ![j] = row]
    BY <2>1, <1>0 DEF JobRows
  <2> QED
    BY <2>2, <2>3, <1>0, RowsChange
<1>3. ASSUME NEW w \in Workers, Extract(w) PROVE Goal
  <2> DEFINE j == workers[w]
  <2>1. j \in DOMAIN jobs
    BY <1>3 DEF Extract, ImportInv, WorkersHoldJobs
  <2>2. PICK state \in {"SUCCEEDED", "FAILED"} : jobs' = [jobs EXCEPT ![j].state = state]
    BY <1>3 DEF Extract
  <2> DEFINE row == [jobs[j] EXCEPT !.state = state]
  <2>3. row \in JobRows /\ row.content = jobs[j].content
    BY <1>0, <2>1 DEF JobRows
  <2>4. jobs' = [jobs EXCEPT ![j] = row]
    BY <2>1, <2>2, <1>0 DEF JobRows
  <2> QED
    BY <2>1, <2>3, <2>4, <1>0, RowsChange
<1>4. CASE UNCHANGED jobs
  BY <1>4, <1>0
<1> QED
  BY <1>1, <1>2, <1>3, <1>4, WhoWritesJobs

(* The actions that touch the files.                                       *)
LEMMA WhoWritesFiles ==
  ASSUME [Next]_vars
  PROVE  \/ \E r \in Requests : RenameTemp(r)
         \/ UNCHANGED files
<1>1. ASSUME NEW r \in Requests, Store(r) PROVE RenameTemp(r) \/ UNCHANGED files
  BY <1>1 DEF Store, StartUpload, CreateTemp, WriteTemp, WriteFails, disk
<1>2. ASSUME NEW r \in Requests, Enqueue(r) PROVE UNCHANGED files
  BY <1>2 DEF Enqueue, LookUp, InsertDocument, InsertJob, disk
<1>3. ASSUME NEW r \in Requests, Finalize(r) PROVE UNCHANGED files
  BY <1>3 DEF Finalize, Ask, ReadVersion, InsertVersion, SavePages, Answer, disk
<1>4. ASSUME NEW w \in Workers, Claim(w) \/ Extract(w) \/ WorkerCrash(w) PROVE UNCHANGED files
  BY <1>4 DEF Claim, Extract, WorkerCrash, disk
<1>5. ASSUME NEW pid \in Pids, ApiCrash(pid) PROVE UNCHANGED files
  BY <1>5 DEF ApiCrash, disk
<1> QED
  BY <1>1, <1>2, <1>3, <1>4, <1>5 DEF Next, vars

LEMMA FilesGrow ==
  ASSUME ImportInv, [Next]_vars
  PROVE  /\ files' \in [Contents -> FileStates]
         /\ \A c \in Contents : files[c]' # "PARTIAL"
         /\ WholeFiles \subseteq WholeFiles'
         /\ \A r \in Requests : RenameTemp(r) => api[r].content \in WholeFiles'
<1>0. files \in [Contents -> FileStates] /\ \A c \in Contents : files[c] # "PARTIAL"
  BY DEF ImportInv, TypeOK, JobsHaveTheirSource
<1>1. ASSUME NEW r \in Requests, RenameTemp(r)
      PROVE  api[r].content \in Contents /\ files' = [files EXCEPT ![api[r].content] = "WHOLE"]
  <2>1. api[r].pc = "RENAMING" /\ temps[TempOf(r)] = "WHOLE"
    BY <1>1 DEF RenameTemp, ImportInv, TemporaryFilesAreOwned
  <2>2. api[r].content \in Contents
    BY <2>1 DEF ImportInv, RequestsAreSound, Sound, Storing
  <2> QED
    BY <1>1, <2>1, <2>2 DEF RenameTemp
<1>2. CASE \E r \in Requests : RenameTemp(r)
  BY <1>0, <1>1, <1>2 DEF FileStates, WholeFiles
<1>3. CASE UNCHANGED files
  BY <1>0, <1>1, <1>3 DEF WholeFiles
<1> QED
  BY <1>2, <1>3, WhoWritesFiles

(* The actions that touch the version rows and the pages.                  *)
LEMMA VersionsGrow ==
  ASSUME [Next]_vars
  PROVE  versions \subseteq versions' /\ pages \subseteq pages'
<1>1. ASSUME NEW r \in Requests, Store(r) PROVE UNCHANGED <<versions, pages>>
  BY <1>1 DEF Store, StartUpload, CreateTemp, WriteTemp, WriteFails, RenameTemp, db
<1>2. ASSUME NEW r \in Requests, Enqueue(r) PROVE UNCHANGED <<versions, pages>>
  BY <1>2 DEF Enqueue, LookUp, InsertDocument, InsertJob, db
<1>3. ASSUME NEW r \in Requests, Finalize(r)
      PROVE  versions \subseteq versions' /\ pages \subseteq pages'
  BY <1>3 DEF Finalize, Ask, ReadVersion, InsertVersion, SavePages, Answer, db
<1>4. ASSUME NEW w \in Workers, Claim(w) \/ Extract(w) \/ WorkerCrash(w)
      PROVE  UNCHANGED <<versions, pages>>
  BY <1>4 DEF Claim, Extract, WorkerCrash, db
<1>5. ASSUME NEW pid \in Pids, ApiCrash(pid) PROVE UNCHANGED <<versions, pages>>
  BY <1>5 DEF ApiCrash, db
<1> QED
  BY <1>1, <1>2, <1>3, <1>4, <1>5 DEF Next, vars

-----------------------------------------------------------------------------
(* Requests.                                                               *)

LEMMA OthersStaySound ==
  ASSUME ImportInv, [Next]_vars, NEW r \in Requests
  PROVE  Sound(api[r], (DOMAIN jobs)', versions', pages', WholeFiles')
<1>1. Sound(api[r], DOMAIN jobs, versions, pages, WholeFiles)
  BY DEF ImportInv, RequestsAreSound
<1>2. DOMAIN jobs \subseteq (DOMAIN jobs)'
  BY JobsGrow
<1> QED
  BY <1>1, <1>2, FilesGrow, VersionsGrow, SoundGrows

LEMMA IdleIsSound ==
  ASSUME NEW rows, NEW made, NEW stored, NEW whole
  PROVE  Sound(Idle, rows, made, stored, whole)
BY DEF Sound, Idle, Asking, RequestRecords, Steps, Storing, Enqueuing, Finalizing

(* It is enough to look at the request that moves.                         *)
LEMMA OneMoves ==
  ASSUME ImportInv, [Next]_vars, NEW r \in Requests, NEW q,
         api' = [api EXCEPT ![r] = q],
         Sound(q, (DOMAIN jobs)', versions', pages', WholeFiles')
  PROVE  api' \in [Requests -> RequestRecords] /\ RequestsAreSound'
<1>1. api \in [Requests -> RequestRecords]
  BY DEF ImportInv, TypeOK
<1>2. q \in RequestRecords
  BY DEF Sound
<1>3. \A p \in Requests : api'[p] = IF p = r THEN q ELSE api[p]
  BY <1>1
<1> QED
  BY <1>1, <1>2, <1>3, OthersStaySound DEF RequestsAreSound

(* Where nothing but the place changes, only what the new place promises   *)
(* is to be shown.                                                         *)
LEMMA PlaceChanges ==
  ASSUME NEW q \in RequestRecords, NEW pc \in Steps
  PROVE  /\ [q EXCEPT !.pc = pc] \in RequestRecords
         /\ [q EXCEPT !.pc = pc].pc = pc
         /\ [q EXCEPT !.pc = pc].pid = q.pid
         /\ [q EXCEPT !.pc = pc].key = q.key
         /\ [q EXCEPT !.pc = pc].content = q.content
         /\ [q EXCEPT !.pc = pc].call = q.call
         /\ [q EXCEPT !.pc = pc].row = q.row
BY DEF RequestRecords

LEMMA Advances ==
  ASSUME ImportInv, NEW r \in Requests, NEW pc \in Steps, GoesTo(r, pc)
  PROVE  /\ api' = [api EXCEPT ![r] = [api[r] EXCEPT !.pc = pc]]
         /\ api[r] \in RequestRecords
BY DEF ImportInv, TypeOK, GoesTo, RequestRecords

LEMMA StoreIsSound ==
  ASSUME ImportInv, [Next]_vars, NEW r \in Requests, Store(r)
  PROVE  api' \in [Requests -> RequestRecords] /\ RequestsAreSound'
<1> DEFINE Fine(q) == Sound(q, (DOMAIN jobs)', versions', pages', WholeFiles')
<1> DEFINE Kept(q) == /\ q \in RequestRecords
                      /\ q.pid = api[r].pid /\ q.key = api[r].key
                      /\ q.content = api[r].content
           Uploading == /\ api[r].pid \in Pids /\ api[r].key \in Keys
                        /\ api[r].content \in Contents
<1>0. Fine(api[r]) /\ Fine(Idle)
  BY OthersStaySound, IdleIsSound
<1>1. ASSUME NEW pid \in Pids, NEW key \in Keys, NEW c \in Contents,
             StartUpload(r, pid, key, c)
      PROVE  \E q : Fine(q) /\ api' = [api EXCEPT ![r] = q]
  <2> DEFINE pc == IF files[c] = "NONE" THEN "CREATING" ELSE "LOOKING_UP"
             q == Upload(pc, pid, key, c)
  <2>1. files[c] \in {"NONE", "WHOLE"}
    BY DEF ImportInv, TypeOK, FileStates, JobsHaveTheirSource
  <2>2. pc = "LOOKING_UP" => c \in WholeFiles'
    BY <2>1, FilesGrow DEF WholeFiles
  <2>3. pc \in {"CREATING", "LOOKING_UP"}
    OBVIOUS
  <2>4. /\ q \in RequestRecords /\ q.pc = pc /\ q.pid = pid
        /\ q.key = key /\ q.content = c
    BY <2>3 DEF Upload, RequestRecords, Steps
  <2>5. api' = [api EXCEPT ![r] = q]
    BY <1>1 DEF StartUpload
  <2> HIDE DEF q, pc
  <2>6. Fine(q)
    BY <2>2, <2>3, <2>4 DEF Sound, Enqueuing, Finalizing
  <2> QED
    BY <2>5, <2>6
<1>2. CASE CreateTemp(r)
  <2>1. CASE Ends(r)
    BY <2>1, <1>0, OneMoves DEF Ends
  <2>2. CASE GoesTo(r, "WRITING")
    <3> DEFINE q == [api[r] EXCEPT !.pc = "WRITING"]
    <3>1. api' = [api EXCEPT ![r] = q] /\ api[r] \in RequestRecords
      BY <2>2, Advances DEF Steps
    <3>2. Kept(q) /\ q.pc = "WRITING"
      BY <3>1, PlaceChanges DEF Steps
    <3>3. Uploading
      BY <1>0, <1>2 DEF CreateTemp, Sound, Storing
    <3> HIDE DEF q
    <3>4. Fine(q)
      BY <3>2, <3>3 DEF Sound, Enqueuing, Finalizing
    <3> QED
      BY <3>1, <3>4, OneMoves DEF q
  <2> QED
    BY <1>2, <2>1, <2>2 DEF CreateTemp
<1>3. CASE WriteTemp(r)
  <2> DEFINE q == [api[r] EXCEPT !.pc = "RENAMING"]
  <2>1. api' = [api EXCEPT ![r] = q] /\ api[r] \in RequestRecords
    BY <1>3, Advances DEF WriteTemp, Steps
  <2>2. Kept(q) /\ q.pc = "RENAMING"
    BY <2>1, PlaceChanges DEF Steps
  <2>3. Uploading
    BY <1>0, <1>3 DEF WriteTemp, Sound, Storing
  <2> HIDE DEF q
  <2>4. Fine(q)
    BY <2>2, <2>3 DEF Sound, Enqueuing, Finalizing
  <2> QED
    BY <2>1, <2>4, OneMoves DEF q
<1>4. CASE WriteFails(r)
  BY <1>4, <1>0, OneMoves DEF WriteFails, Ends
<1>5. CASE RenameTemp(r)
  <2> DEFINE q == [api[r] EXCEPT !.pc = "LOOKING_UP"]
  <2>1. api' = [api EXCEPT ![r] = q] /\ api[r] \in RequestRecords
    BY <1>5, Advances DEF RenameTemp, Steps
  <2>2. api[r].content \in WholeFiles'
    BY <1>5, FilesGrow
  <2>3. Kept(q) /\ q.pc = "LOOKING_UP"
    BY <2>1, PlaceChanges DEF Steps
  <2>4. Uploading
    BY <1>0, <1>5 DEF RenameTemp, Sound, Storing
  <2> HIDE DEF q
  <2>5. Fine(q)
    BY <2>2, <2>3, <2>4 DEF Sound, Finalizing
  <2> QED
    BY <2>1, <2>5, OneMoves DEF q
<1> QED
  BY <1>1, <1>2, <1>3, <1>4, <1>5, OneMoves DEF Store

LEMMA EnqueueIsSound ==
  ASSUME ImportInv, [Next]_vars, NEW r \in Requests, Enqueue(r)
  PROVE  api' \in [Requests -> RequestRecords] /\ RequestsAreSound'
<1> DEFINE Fine(q) == Sound(q, (DOMAIN jobs)', versions', pages', WholeFiles')
<1> DEFINE Kept(q) == /\ q \in RequestRecords
                      /\ q.pid = api[r].pid /\ q.key = api[r].key
                      /\ q.content = api[r].content
           Uploading == /\ api[r].pid \in Pids /\ api[r].key \in Keys
                        /\ api[r].content \in Contents
<1>0. Fine(api[r]) /\ Fine(Idle)
  BY OthersStaySound, IdleIsSound
<1>1. CASE LookUp(r)
  <2>1. CASE Ends(r)
    BY <2>1, <1>0, OneMoves DEF Ends
  <2>2. CASE GoesTo(r, "INSERTING_DOCUMENT")
    <3> DEFINE q == [api[r] EXCEPT !.pc = "INSERTING_DOCUMENT"]
    <3>1. api' = [api EXCEPT ![r] = q] /\ api[r] \in RequestRecords
      BY <2>2, Advances DEF Steps, Synchronous
    <3>2. Kept(q) /\ q.pc = "INSERTING_DOCUMENT"
      BY <3>1, PlaceChanges DEF Steps, Synchronous
    <3>3. Uploading /\ api[r].content \in WholeFiles'
      BY <1>0, <1>1 DEF LookUp, Sound, Enqueuing
    <3> HIDE DEF q
    <3>4. Fine(q)
      BY <3>2, <3>3 DEF Sound, Finalizing
    <3> QED
      BY <3>1, <3>4, OneMoves DEF q
  <2> QED
    BY <1>1, <2>1, <2>2 DEF LookUp
<1>2. CASE InsertDocument(r)
  <2> DEFINE document == documents + 1
             moved == [api[r] EXCEPT !.pc = "INSERTING_JOB"]
             q == [moved EXCEPT !.row = document]
  <2>1. api[r] \in RequestRecords /\ document \in Nat \ {0}
    BY DEF ImportInv, TypeOK
  <2>2. api' = [api EXCEPT ![r] = q]
    BY <1>2, <2>1 DEF InsertDocument, RequestRecords
  <2>3. /\ moved \in RequestRecords /\ moved.pc = "INSERTING_JOB"
        /\ moved.pid = api[r].pid /\ moved.key = api[r].key /\ moved.content = api[r].content
    BY <2>1, PlaceChanges DEF Steps, Synchronous
  <2> HIDE DEF document, moved
  <2>4. /\ q \in RequestRecords /\ q.pc = "INSERTING_JOB" /\ q.row = document
        /\ q.pid = api[r].pid /\ q.key = api[r].key /\ q.content = api[r].content
    BY <2>1, <2>3 DEF RequestRecords
  <2>5. /\ api[r].pid \in Pids /\ api[r].key \in Keys /\ api[r].content \in Contents
        /\ api[r].content \in WholeFiles'
    BY <1>0, <1>2 DEF InsertDocument, Sound, Enqueuing
  <2> HIDE DEF q
  <2>6. Fine(q)
    BY <2>1, <2>4, <2>5 DEF Sound, Finalizing
  <2> QED
    BY <2>2, <2>6, OneMoves DEF q
<1>3. CASE InsertJob(r)
  BY <1>3, <1>0, OneMoves DEF InsertJob, Ends
<1> QED
  BY <1>1, <1>2, <1>3 DEF Enqueue

LEMMA FinalizeIsSound ==
  ASSUME ImportInv, [Next]_vars, NEW r \in Requests, Finalize(r)
  PROVE  api' \in [Requests -> RequestRecords] /\ RequestsAreSound'
<1> DEFINE Fine(q) == Sound(q, (DOMAIN jobs)', versions', pages', WholeFiles')
<1> DEFINE Kept(q) == /\ q \in RequestRecords
                      /\ q.pid = api[r].pid /\ q.row = api[r].row /\ q.call = api[r].call
           AskingForAJob == /\ api[r].pid \in Pids /\ api[r].row \in (DOMAIN jobs)'
                            /\ api[r].call \in AllCalls
<1>0. Fine(api[r]) /\ Fine(Idle)
  BY OthersStaySound, IdleIsSound
<1>1. ASSUME NEW pid \in Pids, NEW call \in Calls, NEW j \in DOMAIN jobs, Ask(r, pid, call, j)
      PROVE  \E q : Fine(q) /\ api' = [api EXCEPT ![r] = q]
  <2>0. j \in Nat /\ j \in (DOMAIN jobs)' /\ call \in AllCalls
    BY JobsGrow, DocumentImportAssumption DEF ImportInv, TypeOK
  <2> DEFINE q(pc) == Asking(pc, pid, call, j)
  <2>1. ASSUME NEW pc \in {"READING_VERSION", "ANSWERING"}
        PROVE  /\ q(pc) \in RequestRecords /\ q(pc).pc = pc /\ q(pc).pid = pid
               /\ q(pc).call = call /\ q(pc).row = j
    BY <2>0 DEF Asking, RequestRecords, Steps, Synchronous
  <2>2. Fine(q("READING_VERSION"))
    <3>1. /\ q("READING_VERSION") \in RequestRecords /\ q("READING_VERSION").pid = pid
          /\ q("READING_VERSION").pc = "READING_VERSION"
          /\ q("READING_VERSION").call = call /\ q("READING_VERSION").row = j
      BY <2>1
    <3> HIDE DEF q
    <3> QED
      BY <2>0, <3>1 DEF Sound, Storing, Enqueuing
  <2>3. ASSUME call = "JOB" PROVE Fine(q("ANSWERING"))
    <3>1. /\ q("ANSWERING") \in RequestRecords /\ q("ANSWERING").pid = pid
          /\ q("ANSWERING").pc = "ANSWERING"
          /\ q("ANSWERING").call = call /\ q("ANSWERING").row = j
      BY <2>1
    <3> HIDE DEF q
    <3> QED
      BY <2>0, <2>3, <3>1 DEF Sound, Storing, Enqueuing
  <2> QED
    BY <1>1, <2>2, <2>3 DEF Ask
<1>2. CASE ReadVersion(r)
  <2> DEFINE pc == IF api[r].row \in versions THEN "SAVING_PAGES" ELSE "INSERTING_VERSION"
             q == [api[r] EXCEPT !.pc = pc]
  <2>1. api' = [api EXCEPT ![r] = q] /\ api[r] \in RequestRecords
    BY <1>2, Advances DEF ReadVersion, Steps, Synchronous
  <2>2. pc = "SAVING_PAGES" => api[r].row \in versions'
    BY VersionsGrow
  <2>3. pc \in {"SAVING_PAGES", "INSERTING_VERSION"}
    OBVIOUS
  <2>4. pc \in Steps
    BY <2>3 DEF Steps, Synchronous
  <2>5. Kept(q) /\ q.pc = pc
    BY <2>1, <2>4, PlaceChanges
  <2>6. AskingForAJob
    BY <1>0, <1>2 DEF ReadVersion, Sound, Finalizing
  <2> HIDE DEF q, pc
  <2>7. Fine(q)
    BY <2>2, <2>3, <2>5, <2>6 DEF Sound, Storing, Enqueuing
  <2> QED
    BY <2>1, <2>7, OneMoves DEF q
<1>3. CASE InsertVersion(r)
  <2>1. CASE Ends(r)
    BY <2>1, <1>0, OneMoves DEF Ends
  <2>2. CASE GoesTo(r, "SAVING_PAGES")
    <3> DEFINE q == [api[r] EXCEPT !.pc = "SAVING_PAGES"]
    <3>1. api' = [api EXCEPT ![r] = q] /\ api[r] \in RequestRecords
      BY <2>2, Advances DEF Steps, Synchronous
    <3>2. Kept(q) /\ q.pc = "SAVING_PAGES"
      BY <3>1, PlaceChanges DEF Steps, Synchronous
    <3>3. AskingForAJob /\ api[r].row \in versions'
      BY <1>0, <1>3 DEF InsertVersion, Sound, Finalizing
    <3> HIDE DEF q
    <3>4. Fine(q)
      BY <3>2, <3>3 DEF Sound, Storing, Enqueuing
    <3> QED
      BY <3>1, <3>4, OneMoves DEF q
  <2> QED
    BY <1>3, <2>1, <2>2 DEF InsertVersion
<1>4. CASE SavePages(r)
  <2> DEFINE q == [api[r] EXCEPT !.pc = "ANSWERING"]
  <2>1. api' = [api EXCEPT ![r] = q] /\ api[r] \in RequestRecords
    BY <1>4, Advances DEF SavePages, Steps, Synchronous
  <2>2. api[r].row \in versions' /\ PagesOf(api[r].row) \subseteq pages'
    BY <1>0, <1>4 DEF SavePages, Sound
  <2>3. Kept(q) /\ q.pc = "ANSWERING"
    BY <2>1, PlaceChanges DEF Steps, Synchronous
  <2>4. AskingForAJob
    BY <1>0, <1>4 DEF SavePages, Sound, Finalizing
  <2> HIDE DEF q
  <2>5. Fine(q)
    BY <2>2, <2>3, <2>4 DEF Sound, Storing, Enqueuing
  <2> QED
    BY <2>1, <2>5, OneMoves DEF q
<1>5. CASE Answer(r)
  BY <1>5, <1>0, OneMoves DEF Answer, Ends
<1> QED
  BY <1>1, <1>2, <1>3, <1>4, <1>5, OneMoves DEF Finalize

LEMMA RequestsStaySound ==
  ASSUME ImportInv, [Next]_vars
  PROVE  api' \in [Requests -> RequestRecords] /\ RequestsAreSound'
<1>0. api \in [Requests -> RequestRecords]
  BY DEF ImportInv, TypeOK
<1>1. CASE UNCHANGED api
  BY <1>0, <1>1, OthersStaySound DEF RequestsAreSound
<1>2. ASSUME NEW pid \in Pids, ApiCrash(pid)
      PROVE  api' \in [Requests -> RequestRecords] /\ RequestsAreSound'
  <2>1. \A r \in Requests : Sound(Idle, (DOMAIN jobs)', versions', pages', WholeFiles')
    BY IdleIsSound
  <2>2. \A r \in Requests : api'[r] \in {Idle, api[r]}
    BY <1>2 DEF ApiCrash
  <2>3. RequestsAreSound'
    BY <2>1, <2>2, OthersStaySound DEF RequestsAreSound
  <2>4. Idle \in RequestRecords
    BY IdleIsSound DEF Sound
  <2> QED
    BY <1>0, <1>2, <2>3, <2>4 DEF ApiCrash
<1>3. ASSUME NEW w \in Workers, Claim(w) \/ Extract(w) \/ WorkerCrash(w) PROVE UNCHANGED api
  BY <1>3 DEF Claim, Extract, WorkerCrash
<1> QED
  BY <1>1, <1>2, <1>3, StoreIsSound, EnqueueIsSound, FinalizeIsSound DEF Next, vars

-----------------------------------------------------------------------------
(* Temporary files.                                                        *)

(* Who begins to write does it alone, and who writes stays the owner.      *)
LEMMA NoNewWriters ==
  ASSUME ImportInv, UNCHANGED temps,
         \A r \in Requests : api'[r].pc \in Writing => api'[r] = api[r]
  PROVE  TemporaryFilesAreOwned'
BY DEF ImportInv, TemporaryFilesAreOwned, TempOf, Writing

LEMMA OneAdvances ==
  ASSUME ImportInv, NEW r \in Requests, NEW pc \in Steps, GoesTo(r, pc)
  PROVE  /\ \A q \in Requests : q # r => api'[q] = api[q]
         /\ api'[r].pc = pc /\ api'[r].content = api[r].content /\ api'[r].pid = api[r].pid
<1> DEFINE moved == [api[r] EXCEPT !.pc = pc]
<1>1. api \in [Requests -> RequestRecords]
  BY DEF ImportInv, TypeOK
<1>2. moved.pc = pc /\ moved.content = api[r].content /\ moved.pid = api[r].pid
  BY <1>1, PlaceChanges
<1>3. api' = [api EXCEPT ![r] = moved]
  BY Advances
<1> HIDE DEF moved
<1> QED
  BY <1>1, <1>2, <1>3

LEMMA WritersStay ==
  ASSUME ImportInv, NEW r \in Requests, NEW value \in FileStates,
         NEW pc \in Steps, GoesTo(r, pc), pc \in Writing => value # "NONE",
         pc = "RENAMING" => value = "WHOLE",
         temps' = [temps EXCEPT ![TempOf(r)] = value],
         api[r].pc \in Writing \/ (api[r].pc = "CREATING" /\ temps[TempOf(r)] = "NONE")
  PROVE  temps' \in [Contents \X Pids -> FileStates] /\ TemporaryFilesAreOwned'
<1>0. temps \in [Contents \X Pids -> FileStates] /\ TemporaryFilesAreOwned
  BY DEF ImportInv, TypeOK
<1>1. /\ \A q \in Requests : q # r => api'[q] = api[q]
      /\ api'[r].pc = pc /\ api'[r].content = api[r].content /\ api'[r].pid = api[r].pid
  BY OneAdvances
<1>2. \A q \in Requests : TempOf(q)' = TempOf(q)
  BY <1>1 DEF TempOf
<1>3. \A q \in Requests : api[q].pc \in Writing \cup {"CREATING"} => TempOf(q) \in Contents \X Pids
  BY DEF ImportInv, RequestsAreSound, Sound, Storing, Writing, TempOf
<1>4. temps' \in [Contents \X Pids -> FileStates]
  BY <1>0
<1>5. \A q \in Requests : q # r /\ api[q].pc \in Writing => TempOf(q) # TempOf(r)
  BY <1>0 DEF TemporaryFilesAreOwned
<1>6. temps'[TempOf(r)] = value
  BY <1>0, <1>3
<1>7. \A q \in Requests : q # r /\ api[q].pc \in Writing => temps'[TempOf(q)] = temps[TempOf(q)]
  BY <1>0, <1>3, <1>5
<1>8. ASSUME NEW q \in Requests, api'[q].pc \in Writing
      PROVE  /\ temps'[TempOf(q)'] # "NONE"
             /\ api'[q].pc = "RENAMING" => temps'[TempOf(q)'] = "WHOLE"
  <2>1. CASE q = r
    BY <1>1, <1>2, <1>6, <1>8, <2>1
  <2>2. CASE q # r
    <3>1. api[q].pc = api'[q].pc /\ temps'[TempOf(q)'] = temps[TempOf(q)]
      BY <1>1, <1>2, <1>7, <1>8, <2>2
    <3> QED
      BY <1>0, <1>8, <3>1 DEF TemporaryFilesAreOwned
  <2> QED
    BY <2>1, <2>2
<1>9. \A q, p \in Requests :
        api'[q].pc \in Writing /\ api'[p].pc \in Writing /\ q # p => TempOf(q)' # TempOf(p)'
  BY <1>0, <1>1, <1>2, <1>5 DEF TemporaryFilesAreOwned
<1> QED
  BY <1>4, <1>8, <1>9 DEF TemporaryFilesAreOwned, Writing

LEMMA TempsStayOwned ==
  ASSUME ImportInv, [Next]_vars
  PROVE  temps' \in [Contents \X Pids -> FileStates] /\ TemporaryFilesAreOwned'
<1> DEFINE Goal == temps' \in [Contents \X Pids -> FileStates] /\ TemporaryFilesAreOwned'
           NewWriters == \E r \in Requests : api'[r].pc \in Writing /\ api'[r] # api[r]
<1>0. temps \in [Contents \X Pids -> FileStates] /\ api \in [Requests -> RequestRecords]
  BY DEF ImportInv, TypeOK
<1>1. Idle.pc = "IDLE"
  BY DEF Idle, Asking
<1>2. ASSUME UNCHANGED temps, ~NewWriters PROVE Goal
  BY <1>0, <1>2, NoNewWriters
<1>3. ASSUME NEW r \in Requests, NEW pc \in Steps \ Writing, GoesTo(r, pc) PROVE ~NewWriters
  BY <1>3, OneAdvances
<1>4. ASSUME NEW r \in Requests, Ends(r) PROVE ~NewWriters
  BY <1>0, <1>1, <1>4 DEF Ends, Writing
<1>5. ASSUME NEW r \in Requests, Store(r) PROVE Goal
  <2>1. ASSUME NEW pid \in Pids, NEW key \in Keys, NEW c \in Contents,
               StartUpload(r, pid, key, c)
        PROVE  Goal
    BY <1>0, <1>2, <2>1 DEF StartUpload, Upload, Writing, disk
  <2>2. CASE CreateTemp(r)
    <3>1. CASE temps[TempOf(r)] # "NONE"
      BY <1>2, <1>4, <2>2, <3>1 DEF CreateTemp
    <3>2. CASE temps[TempOf(r)] = "NONE"
      <4>1. "WRITING" \in Steps /\ "PARTIAL" \in FileStates
        BY DEF Steps, FileStates
      <4> QED
        BY <2>2, <3>2, <4>1, WritersStay DEF CreateTemp
    <3> QED
      BY <3>1, <3>2
  <2>3. CASE WriteTemp(r)
    <3>1. "RENAMING" \in Steps /\ "WHOLE" \in FileStates
      BY DEF Steps, FileStates
    <3> QED
      BY <2>3, <3>1, WritersStay DEF WriteTemp, Writing
  <2>4. CASE WriteFails(r)
    BY <1>2, <1>4, <2>4 DEF WriteFails, disk
  <2>5. CASE RenameTemp(r)
    <3>1. "LOOKING_UP" \in Steps \ Writing /\ "NONE" \in FileStates
      BY DEF Steps, FileStates, Writing
    <3> QED
      BY <2>5, <3>1, WritersStay DEF RenameTemp, Writing
  <2> QED
    BY <1>5, <2>1, <2>2, <2>3, <2>4, <2>5 DEF Store
<1>6. ASSUME NEW r \in Requests, Enqueue(r) PROVE Goal
  <2>1. "INSERTING_DOCUMENT" \in Steps \ Writing
    BY DEF Steps, Synchronous, Writing
  <2>2. UNCHANGED temps
    BY <1>6 DEF Enqueue, LookUp, InsertDocument, InsertJob, disk
  <2>3. CASE LookUp(r) \/ InsertJob(r)
    BY <1>2, <1>3, <1>4, <2>1, <2>2, <2>3 DEF LookUp, InsertJob
  <2>4. CASE InsertDocument(r)
    <3>1. api'[r].pc = "INSERTING_JOB" /\ \A q \in Requests \ {r} : api'[q] = api[q]
      BY <1>0, <2>4 DEF InsertDocument, RequestRecords
    <3> QED
      BY <1>2, <2>2, <3>1 DEF Writing
  <2> QED
    BY <1>6, <2>3, <2>4 DEF Enqueue
<1>7. ASSUME NEW r \in Requests, Finalize(r) PROVE Goal
  <2>1. {"SAVING_PAGES", "INSERTING_VERSION", "ANSWERING"} \subseteq Steps \ Writing
    BY DEF Steps, Synchronous, Writing
  <2>2. UNCHANGED temps
    BY <1>7 DEF Finalize, Ask, ReadVersion, InsertVersion, SavePages, Answer, disk
  <2>3. ASSUME NEW pid \in Pids, NEW call \in Calls, NEW j \in DOMAIN jobs,
               Ask(r, pid, call, j)
        PROVE  ~NewWriters
    <3>1. /\ Asking("READING_VERSION", pid, call, j).pc = "READING_VERSION"
          /\ Asking("ANSWERING", pid, call, j).pc = "ANSWERING"
      BY DEF Asking
    <3>2. api'[r].pc \in {"READING_VERSION", "ANSWERING"}
      BY <1>0, <2>3, <3>1 DEF Ask
    <3>3. \A q \in Requests \ {r} : api'[q] = api[q]
      BY <1>0, <2>3 DEF Ask
    <3> QED
      BY <3>2, <3>3 DEF Writing
  <2>4. CASE ReadVersion(r) \/ SavePages(r)
    <3>1. PICK pc \in Steps \ Writing : GoesTo(r, pc)
      BY <2>1, <2>4 DEF ReadVersion, SavePages
    <3> QED
      BY <1>2, <1>3, <2>2, <3>1
  <2>5. CASE InsertVersion(r) \/ Answer(r)
    <3>1. Ends(r) \/ GoesTo(r, "SAVING_PAGES")
      BY <2>5 DEF InsertVersion, Answer
    <3>2. "SAVING_PAGES" \in Steps \ Writing
      BY <2>1
    <3>3. CASE Ends(r)
      BY <1>2, <2>2, <1>4, <3>3
    <3>4. CASE GoesTo(r, "SAVING_PAGES")
      BY <1>2, <2>2, <1>3, <3>2, <3>4
    <3> QED
      BY <3>1, <3>3, <3>4
  <2> QED
    BY <1>2, <1>7, <2>2, <2>3, <2>4, <2>5 DEF Finalize
<1>8. ASSUME NEW pid \in Pids, ApiCrash(pid) PROVE Goal
  <2>1. \A r \in Requests : api'[r] \in {Idle, api[r]}
    BY <1>8 DEF ApiCrash
  <2> QED
    BY <1>1, <1>2, <1>8, <2>1 DEF ApiCrash, Writing, disk
<1>9. CASE UNCHANGED <<temps, api>>
  BY <1>2, <1>9
<1>10. ASSUME NEW w \in Workers, Claim(w) \/ Extract(w) \/ WorkerCrash(w)
       PROVE  UNCHANGED <<temps, api>>
  BY <1>10 DEF Claim, Extract, WorkerCrash, disk
<1> QED
  BY <1>5, <1>6, <1>7, <1>8, <1>9, <1>10 DEF Next, vars

-----------------------------------------------------------------------------
(* Versions, pages, and what clients were told.                            *)

LEMMA WhoWritesPages ==
  ASSUME [Next]_vars
  PROVE  \/ \E r \in Requests : InsertVersion(r) \/ SavePages(r) \/ Answer(r)
         \/ UNCHANGED <<versions, pages, told>>
<1>1. ASSUME NEW r \in Requests, Store(r) PROVE UNCHANGED <<versions, pages, told>>
  BY <1>1 DEF Store, StartUpload, CreateTemp, WriteTemp, WriteFails, RenameTemp, db
<1>2. ASSUME NEW r \in Requests, Enqueue(r) PROVE UNCHANGED <<versions, pages, told>>
  BY <1>2 DEF Enqueue, LookUp, InsertDocument, InsertJob, db
<1>3. ASSUME NEW r \in Requests, Finalize(r)
      PROVE  \/ InsertVersion(r) \/ SavePages(r) \/ Answer(r)
             \/ UNCHANGED <<versions, pages, told>>
  BY <1>3 DEF Finalize, Ask, ReadVersion, db
<1>4. ASSUME NEW w \in Workers, Claim(w) \/ Extract(w) \/ WorkerCrash(w)
      PROVE  UNCHANGED <<versions, pages, told>>
  BY <1>4 DEF Claim, Extract, WorkerCrash, db
<1>5. ASSUME NEW pid \in Pids, ApiCrash(pid) PROVE UNCHANGED <<versions, pages, told>>
  BY <1>5 DEF ApiCrash, db
<1> QED
  BY <1>1, <1>2, <1>3, <1>4, <1>5 DEF Next, vars

(* Who finishes an import finishes one there is.                           *)
LEMMA FinalizingNamesAJob ==
  ASSUME ImportInv, NEW r \in Requests, api[r].pc \in Finalizing
  PROVE  api[r].row \in DOMAIN jobs /\ api[r].call \in AllCalls
BY DEF ImportInv, RequestsAreSound, Sound

LEMMA PagesTyped ==
  ASSUME ImportInv, [Next]_vars
  PROVE  /\ versions' \subseteq DOMAIN jobs'
         /\ pages' \subseteq versions' \X (1..PageCount)
         /\ told' \subseteq AllCalls \X DOMAIN jobs'
<1> DEFINE Goal == /\ versions' \subseteq DOMAIN jobs'
                   /\ pages' \subseteq versions' \X (1..PageCount)
                   /\ told' \subseteq AllCalls \X DOMAIN jobs'
<1>0. /\ versions \subseteq DOMAIN jobs'
      /\ pages \subseteq versions \X (1..PageCount)
      /\ told \subseteq AllCalls \X DOMAIN jobs'
  BY JobsGrow DEF ImportInv, TypeOK
<1>1. ASSUME NEW r \in Requests, api[r].pc \in Finalizing
      PROVE  api[r].row \in DOMAIN jobs' /\ api[r].call \in AllCalls
  BY <1>1, FinalizingNamesAJob, JobsGrow
<1>2. ASSUME NEW r \in Requests, InsertVersion(r) PROVE Goal
  BY <1>0, <1>1, <1>2 DEF InsertVersion, Finalizing
<1>3. ASSUME NEW r \in Requests, SavePages(r) PROVE Goal
  <2>1. api[r].row \in versions
    BY <1>3 DEF SavePages, ImportInv, RequestsAreSound, Sound
  <2> QED
    BY <1>0, <1>3, <2>1 DEF SavePages, PagesOf
<1>4. ASSUME NEW r \in Requests, Answer(r) PROVE Goal
  <2>1. <<api[r].call, api[r].row>> \in AllCalls \X DOMAIN jobs'
    BY <1>1, <1>4 DEF Answer, Finalizing
  <2>2. told' \subseteq told \cup {<<api[r].call, api[r].row>>}
    BY <1>4 DEF Answer
  <2> QED
    BY <1>0, <1>4, <2>1, <2>2 DEF Answer, db
<1>5. CASE UNCHANGED <<versions, pages, told>>
  BY <1>0, <1>5
<1> QED
  BY <1>2, <1>3, <1>4, <1>5, WhoWritesPages

LEMMA PagesStayTogether ==
  ASSUME ImportInv, [Next]_vars
  PROVE  HalfAnImportIsNeverRead'
<1>1. \A j : pages \cap PagesOf(j) \in {{}, PagesOf(j)}
  <2> SUFFICES ASSUME NEW j PROVE pages \cap PagesOf(j) \in {{}, PagesOf(j)}
    OBVIOUS
  <2>1. CASE j \in DOMAIN jobs
    BY <2>1 DEF ImportInv, HalfAnImportIsNeverRead
  <2>2. CASE j \notin DOMAIN jobs
    <3>1. pages \subseteq (DOMAIN jobs) \X (1..PageCount)
      BY DEF ImportInv, TypeOK
    <3> QED
      BY <2>2, <3>1 DEF PagesOf
  <2> QED
    BY <2>1, <2>2
<1>2. ASSUME NEW r \in Requests, SavePages(r), NEW j
      PROVE  pages' \cap PagesOf(j) \in {{}, PagesOf(j)}
  <2>1. pages' = pages \cup PagesOf(api[r].row)
    BY <1>2 DEF SavePages
  <2>2. CASE j = api[r].row
    BY <2>1, <2>2
  <2>3. CASE j # api[r].row
    <3>1. PagesOf(api[r].row) \cap PagesOf(j) = {}
      BY <2>3 DEF PagesOf
    <3>2. pages' \cap PagesOf(j) = pages \cap PagesOf(j)
      BY <2>1, <3>1
    <3> QED
      BY <1>1, <3>2
  <2> QED
    BY <2>2, <2>3
<1>3. (\E r \in Requests : SavePages(r)) \/ UNCHANGED pages
  BY WhoWritesPages DEF InsertVersion, Answer, db
<1> QED
  BY <1>1, <1>2, <1>3 DEF HalfAnImportIsNeverRead

LEMMA ReadableStays ==
  ASSUME [Next]_vars, NEW j, Readable(j)
  PROVE  j \in versions' /\ PagesOf(j) \subseteq pages'
BY VersionsGrow DEF Readable

LEMMA ToldStaysTrue ==
  ASSUME ImportInv, [Next]_vars
  PROVE  ReadyMeansReadable'
<1> SUFFICES ASSUME NEW j \in (DOMAIN jobs)',
                    <<"DOCUMENT", j>> \in told' \/ <<"READY", j>> \in told'
             PROVE  Readable(j)'
  BY DEF ReadyMeansReadable
<1>1. Readable(j)
  <2>1. CASE <<"DOCUMENT", j>> \in told \/ <<"READY", j>> \in told
    <3>1. j \in DOMAIN jobs
      BY <2>1 DEF ImportInv, TypeOK
    <3> QED
      BY <2>1, <3>1 DEF ImportInv, ReadyMeansReadable
  <2>2. ASSUME NEW r \in Requests, Answer(r), told' # told,
               <<api[r].call, api[r].row>> \in {<<"DOCUMENT", j>>, <<"READY", j>>}
        PROVE  Readable(j)
    <3>1. api[r].row = j /\ api[r].call # "JOB" /\ api[r].pc = "ANSWERING"
      BY <2>2 DEF Answer
    <3> QED
      BY <3>1 DEF ImportInv, RequestsAreSound, Sound, Readable
  <2>3. \/ UNCHANGED told
        \/ \E r \in Requests : Answer(r) /\ told' \subseteq told \cup {<<api[r].call, api[r].row>>}
    BY WhoWritesPages DEF InsertVersion, SavePages, Answer
  <2> QED
    BY <2>1, <2>2, <2>3
<1>2. j \in versions' /\ PagesOf(j) \subseteq pages'
  BY <1>1, ReadableStays
<1> QED
  BY <1>2 DEF Readable

-----------------------------------------------------------------------------
(* The Workers, and the invariant as a whole.                              *)

LEMMA WorkersKeepJobs ==
  ASSUME ImportInv, [Next]_vars
  PROVE  /\ workers' \in [Workers -> Nat]
         /\ WorkersHoldJobs'
         /\ documents' \in Nat
<1>0. /\ workers \in [Workers -> Nat] /\ documents \in Nat
      /\ \A w \in Workers : workers[w] \in DOMAIN jobs' \cup {0}
      /\ DOMAIN jobs \subseteq Nat /\ DOMAIN jobs \subseteq DOMAIN jobs'
  BY JobsGrow DEF ImportInv, TypeOK, WorkersHoldJobs
<1>1. ASSUME NEW w \in Workers, NEW j \in DOMAIN jobs \cup {0},
             workers' = [workers EXCEPT ![w] = j]
      PROVE  workers' \in [Workers -> Nat] /\ WorkersHoldJobs'
  BY <1>0, <1>1 DEF WorkersHoldJobs
<1>2. ASSUME NEW w \in Workers, Claim(w) \/ Extract(w) \/ WorkerCrash(w)
      PROVE  /\ \E j \in DOMAIN jobs \cup {0} : workers' = [workers EXCEPT ![w] = j]
             /\ UNCHANGED documents
  BY <1>2 DEF Claim, Extract, WorkerCrash, db
<1>3. ASSUME NEW r \in Requests, Store(r) PROVE UNCHANGED <<workers, documents>>
  BY <1>3 DEF Store, StartUpload, CreateTemp, WriteTemp, WriteFails, RenameTemp, db
<1>4. ASSUME NEW r \in Requests, Enqueue(r) PROVE UNCHANGED workers /\ documents' \in Nat
  BY <1>0, <1>4 DEF Enqueue, LookUp, InsertDocument, InsertJob, db
<1>5. ASSUME NEW r \in Requests, Finalize(r) PROVE UNCHANGED <<workers, documents>>
  BY <1>5 DEF Finalize, Ask, ReadVersion, InsertVersion, SavePages, Answer, db
<1>6. ASSUME NEW pid \in Pids, ApiCrash(pid) PROVE UNCHANGED <<workers, documents>>
  BY <1>6 DEF ApiCrash, db
<1>7. CASE UNCHANGED workers /\ documents' \in Nat
  BY <1>0, <1>7 DEF WorkersHoldJobs
<1> QED
  BY <1>0, <1>1, <1>2, <1>3, <1>4, <1>5, <1>6, <1>7 DEF Next, vars, db

LEMMA SourcesStay ==
  ASSUME ImportInv, [Next]_vars
  PROVE  JobsHaveTheirSource'
<1>1. \A j \in DOMAIN jobs : jobs[j].content \in WholeFiles
  <2>1. \A j \in DOMAIN jobs : jobs[j].content \in Contents
    <3>1. \A j \in DOMAIN jobs : jobs[j] \in JobRows
      BY LenProperties DEF ImportInv, TypeOK
    <3> QED
      BY <3>1 DEF JobRows
  <2> QED
    BY <2>1 DEF ImportInv, JobsHaveTheirSource, WholeFiles
<1>2. \A j \in DOMAIN jobs' : jobs'[j].content \in WholeFiles'
  BY <1>1, JobsGrow, FilesGrow
<1> QED
  BY <1>2, FilesGrow DEF JobsHaveTheirSource, WholeFiles

LEMMA ImportInvInit == Init => ImportInv
<1> SUFFICES ASSUME Init PROVE ImportInv
  OBVIOUS
<1>1. RequestsAreSound
  BY IdleIsSound DEF Init, RequestsAreSound
<1>2. Idle \in RequestRecords /\ Idle.pc = "IDLE"
  BY IdleIsSound DEF Sound, Idle, Asking
<1>3. DOMAIN jobs = {} /\ jobs \in Seq(JobRows)
  BY DEF Init
<1>4. TypeOK
  BY <1>2, <1>3 DEF Init, TypeOK, FileStates
<1>5. TemporaryFilesAreOwned
  BY <1>2 DEF Init, TemporaryFilesAreOwned, Writing
<1> QED
  BY <1>1, <1>3, <1>4, <1>5 DEF Init, ImportInv, WorkersHoldJobs, JobsHaveTheirSource,
     HalfAnImportIsNeverRead, ReadyMeansReadable

LEMMA ImportInvStep == ImportInv /\ [Next]_vars => ImportInv'
<1> SUFFICES ASSUME ImportInv, [Next]_vars PROVE ImportInv'
  OBVIOUS
<1>1. TypeOK'
  BY JobsGrow, FilesGrow, RequestsStaySound, TempsStayOwned, PagesTyped, WorkersKeepJobs
     DEF TypeOK
<1> QED
  BY <1>1, RequestsStaySound, TempsStayOwned, WorkersKeepJobs, SourcesStay, PagesStayTogether,
     ToldStaysTrue DEF ImportInv

(* The inductive invariant holds of every behaviour of the import.         *)
THEOREM ImportInvariant == Spec => []ImportInv
BY ImportInvInit, ImportInvStep, PTL DEF Spec

-----------------------------------------------------------------------------
(* The types of files, rows and requests.                                  *)
THEOREM ImportTypeCorrect == Spec => []TypeOK
<1>1. ImportInv => TypeOK
  BY DEF ImportInv
<1> QED
  BY <1>1, ImportInvariant, PTL

(* saveContentAddressedPdf and upload: no file is stored in part, and no   *)
(* job is queued before its file is stored, for any number of uploads of   *)
(* the same bytes that overlap, fail or die.                               *)
THEOREM SourcesAreStored == Spec => []JobsHaveTheirSource
<1>1. ImportInv => JobsHaveTheirSource
  BY DEF ImportInv
<1> QED
  BY <1>1, ImportInvariant, PTL

(* saveDocumentPages writes the pages of a version in one transaction:     *)
(* they are there all or not at all.                                       *)
THEOREM PagesComeTogether == Spec => []HalfAnImportIsNeverRead
<1>1. ImportInv => HalfAnImportIsNeverRead
  BY DEF ImportInv
<1> QED
  BY <1>1, ImportInvariant, PTL

(* ensureDocumentReady and GET /documents/:id: who was told that a         *)
(* document is there can read it, whatever died between version and pages. *)
THEOREM ToldDocumentsAreReadable == Spec => []ReadyMeansReadable
<1>1. ImportInv => ReadyMeansReadable
  BY DEF ImportInv
<1> QED
  BY <1>1, ImportInvariant, PTL
=============================================================================
