------------------------------- MODULE Workbench -------------------------------
(***************************************************************************)
(* The guided-learning page against the service it talks to. A request is  *)
(* sent, served and answered in three steps, and any of the three may come *)
(* late: the reader goes on clicking, goes back to the project, or loads   *)
(* the page again while requests are on their way, and a request or a      *)
(* reply may be lost. The service is reduced to its sessions and import    *)
(* jobs; it executes a command in one step, which GuidedLearning justifies *)
(* (a snapshot is written only over the one it was computed from).         *)
(***************************************************************************)
EXTENDS WorkbenchPage

CONSTANTS Provider,     \* the provider the page creates sessions with
          MaxSessions,  \* bound: sessions the page creates
          MaxUploads,   \* bound: files the page uploads
          MaxRevision,  \* bound: readers leave a session alone from here on
          MaxInFlight,  \* bound: the reader waits while so many are in flight
          MaxMishaps    \* bound: posts and replies lost, posts left behind
                        \* by a reload, commands of another page

ASSUME WorkbenchAssumption ==
  /\ Provider \in Providers
  /\ {MaxSessions, MaxUploads, MaxRevision, MaxInFlight, MaxMishaps} \subseteq Nat

VARIABLES page,      \* what the page keeps
          requests,  \* requests in flight, served or not
          sessions,  \* the service: its sessions, and a link to none
          source,    \* the document version each session is about
          imports,   \* the import job of each document version
          mishaps    \* so many of those there were; going back is none

vars == <<page, requests, sessions, source, imports, mishaps>>
service == <<sessions, source, imports>>

SessionIds == 1..MaxSessions
DeadLink == MaxSessions + 1
Jobs == 1..MaxUploads

(* The page becomes q, is rendered, and its effects run.                   *)
Becomes(q, reqs) ==
  LET st == Rendered(page, q, reqs)
  IN page' = st.page /\ requests' = st.reqs

Opened(url) == Rendered(Mounted(0), Mounted(url), {})

Init == /\ \E url \in {0, DeadLink} : page = Opened(url).page /\ requests = Opened(url).reqs
        /\ sessions = [id \in SessionIds \cup {DeadLink} |-> NoSession]
        /\ source = [id \in SessionIds \cup {DeadLink} |-> 0]
        /\ imports = [j \in Jobs |-> "ABSENT"]
        /\ mishaps = 0

Room == Cardinality(requests) < MaxInFlight

(* A step that costs a mishap, and one that does not.                      *)
Mishap == mishaps < MaxMishaps /\ mishaps' = mishaps + 1
NoMishap == UNCHANGED mishaps

-----------------------------------------------------------------------------
(* The reader.                                                             *)

(* What the handlers have in common: busy, and one request.                *)
Submit(r) ==
  /\ Room /\ ~page.busy
  /\ Becomes([page EXCEPT !.busy = TRUE], Sent(requests, r))
  /\ NoMishap /\ UNCHANGED service

(* Requests of a kind the service has not served yet (for the bounds).     *)
Unserved(r) == r.reply.status = "NONE"
Pending(kind) == Cardinality({r \in requests : r.kind = kind /\ Unserved(r)})

CreateProject == page.view = NoView /\ ~page.project /\ Submit(Ask("PROJECT", 0))

UploadPdf ==
  /\ Cardinality({j \in Jobs : imports[j] # "ABSENT"}) + Pending("UPLOAD") < MaxUploads
  /\ page.view = NoView /\ page.project
  /\ Submit(Ask("UPLOAD", 0))

CreateSession ==
  /\ Cardinality({id \in SessionIds : sessions[id] # NoSession}) + Pending("CREATE") < MaxSessions
  /\ page.view = NoView /\ page.project
  /\ page.version # 0 /\ page.job.status = "SUCCEEDED"
  /\ Submit([Ask("CREATE", 0) EXCEPT !.arg = page.version])

(* A button of SessionPanel; without a sessionId it does nothing.          *)
SendCommand ==
  /\ page.url # 0 /\ sessions[page.url].rev < MaxRevision
  /\ \E c \in Offered(page.view.s) : Submit(Say(page.url, c, page.view))

(* The button beside a poll error.                                         *)
RefreshSession ==
  /\ page.pollError /\ page.url # 0 /\ Room
  /\ Becomes(page, Sent(requests, Ask("REFRESH", page.url)))
  /\ NoMishap /\ UNCHANGED service

(* Mutant: the session's id is not cleared.                                *)
ResetSession_KeepsTheLink ==
  /\ page.view # NoView /\ Room
  /\ Becomes([page EXCEPT !.view = NoView, !.pollError = FALSE], requests)
  /\ NoMishap /\ UNCHANGED service

(* resetSession aborts the polls, but no request: what is in flight will   *)
(* be answered, and the answer heard.                                      *)
ResetSession ==
  /\ page.view # NoView /\ Room
  /\ Becomes([page EXCEPT !.url = 0, !.view = NoView, !.pollError = FALSE],
             requests)
  /\ NoMishap /\ UNCHANGED service

(* The page is loaded again: nobody hears the old one's replies; what it   *)
(* posted may still arrive, which is a mishap.                             *)
Orphans == {[r EXCEPT !.heard = FALSE] : r \in {q \in requests : q.kind \in Posts /\ Unserved(q)}}

Reload ==
  /\ LET st == Rendered(Mounted(0), Mounted(page.url), Orphans)
     IN page' = st.page /\ requests' = st.reqs
  /\ IF Orphans # {} THEN Mishap ELSE NoMishap
  /\ UNCHANGED service

-----------------------------------------------------------------------------
(* The page by itself: replies and timers.                                 *)

Receive(r) ==
  /\ ~Unserved(r)
  /\ Becomes(Heard(page, r), Sequel(requests \ {r}, r))
  /\ NoMishap /\ UNCHANGED service

(* wait is over: pollUntil reads again.                                    *)
Wake ==
  /\ page.poll.phase = "ASLEEP"
  /\ Becomes([page EXCEPT !.poll = Asking],
             Sent(requests, [Ask("POLL", page.url) EXCEPT !.failures = page.poll.failures]))
  /\ NoMishap /\ UNCHANGED service

WakeJob ==
  /\ page.jobPoll.phase = "ASLEEP"
  /\ Becomes([page EXCEPT !.jobPoll = Asking],
             Sent(requests, [AskJob(page.job.id) EXCEPT !.failures = page.jobPoll.failures]))
  /\ NoMishap /\ UNCHANGED service

-----------------------------------------------------------------------------
(* The service.                                                            *)

(* The reply is on its way, unless its page is gone.                       *)
Answers(r, reply) ==
  requests' = (requests \ {r})
                \cup (IF r.kind \in Posts /\ ~r.heard THEN {} ELSE {[r EXCEPT !.reply = reply]})

Snapshot(id, s) ==
  [NoReply EXCEPT !.status = "OK", !.of = id, !.s = s, !.arg = source[id]]

ServeGet(r) ==
  /\ r.kind \in {"RECOVER", "POLL", "REFRESH"} /\ Unserved(r)
  /\ Answers(r, IF sessions[r.of] = NoSession THEN [NoReply EXCEPT !.status = "NOT_FOUND"]
                ELSE Snapshot(r.of, sessions[r.of]))
  /\ NoMishap /\ UNCHANGED <<page, service>>

ServeJob(r) ==
  /\ r.kind = "JOB" /\ Unserved(r)
  /\ Answers(r, [NoReply EXCEPT !.status = "OK", !.job = imports[r.arg]])
  /\ NoMishap /\ UNCHANGED <<page, service>>

(* Question ids carry their session; so do direction ids unless they are   *)
(* the mock's.                                                             *)
NamesItsIds(c) ==
  c.event \in PointerCommands \/ (c.event = "SELECT_DIRECTION" /\ Provider = "BYOK")

(* executeCommand, with the ids the payload names.                         *)
Outcomes(r) ==
  IF NamesItsIds(r.cmd) /\ r.shown.of # r.of THEN {} ELSE ClientNext(sessions[r.of], r.cmd)

ExecuteCommand(r) ==
  /\ r.kind = "COMMAND" /\ Unserved(r)
  /\ \E next \in Outcomes(r) :
       /\ sessions' = [sessions EXCEPT ![r.of] = next]
       /\ Answers(r, Snapshot(r.of, next))
  /\ NoMishap /\ UNCHANGED <<page, source, imports>>

RefuseCommand(r) ==
  /\ r.kind = "COMMAND" /\ Unserved(r) /\ Outcomes(r) = {}
  /\ Answers(r, [NoReply EXCEPT !.status = "REFUSED"])
  /\ NoMishap /\ UNCHANGED <<page, service>>

(* Another page on the same session executes a command, between ours or    *)
(* between the read and the save of ours.                                  *)
OtherPage(id) ==
  /\ sessions[id].rev < MaxRevision
  /\ \E c \in Offered(sessions[id]) : \E next \in ClientNext(sessions[id], c) :
       sessions' = [sessions EXCEPT ![id] = next]
  /\ Mishap /\ UNCHANGED <<page, requests, source, imports>>

RefuseOvertaken(r) ==
  /\ r.kind = "COMMAND" /\ Unserved(r) /\ r.heard /\ Outcomes(r) # {}
  /\ \E c \in Offered(sessions[r.of]) : \E next \in ClientNext(sessions[r.of], c) :
       sessions' = [sessions EXCEPT ![r.of] = next]
  /\ Answers(r, [NoReply EXCEPT !.status = "CONFLICT"])
  /\ Mishap /\ UNCHANGED <<page, source, imports>>

ServeProject(r) ==
  /\ r.kind = "PROJECT" /\ Unserved(r)
  /\ Answers(r, [NoReply EXCEPT !.status = "OK"])
  /\ NoMishap /\ UNCHANGED <<page, service>>

(* A document version and its import job: the next one nobody has.         *)
ServeUpload(r) ==
  /\ r.kind = "UPLOAD" /\ Unserved(r)
  /\ \E j \in Jobs :
       /\ imports[j] = "ABSENT" /\ \A i \in 1..(j - 1) : imports[i] # "ABSENT"
       /\ imports' = [imports EXCEPT ![j] = "QUEUED"]
       /\ Answers(r, [NoReply EXCEPT !.status = "OK", !.arg = j])
  /\ NoMishap /\ UNCHANGED <<page, sessions, source>>

(* requestDirectionsGeneration: whatever the state of the version's import.*)
ServeCreate(r) ==
  /\ r.kind = "CREATE" /\ Unserved(r)
  /\ \E id \in SessionIds :
       /\ sessions[id] = NoSession /\ \A i \in 1..(id - 1) : sessions[i] # NoSession
       /\ sessions' = [sessions EXCEPT ![id] = NewSession]
       /\ source' = [source EXCEPT ![id] = r.arg]
       /\ Answers(r, [Snapshot(id, NewSession) EXCEPT !.arg = r.arg])
  /\ NoMishap /\ UNCHANGED <<page, imports>>

(* The request, or the reply to a post, does not get through; or the API   *)
(* answers with an error. A get that fails after it was served is one that *)
(* failed before.                                                          *)
Fail(r) ==
  /\ r.reply.status \in {"NONE", "OK"} /\ (r.kind \in Gets => Unserved(r))
  /\ Answers(r, [NoReply EXCEPT !.status = "FAILED"])
  /\ Mishap /\ UNCHANGED <<page, service>>

(* The Worker, which stores nothing the validator refuses.                 *)
Failures(s) ==
  {[class |-> class, op |-> op, resume |-> s.state] :
     class \in {"RETRYABLE", "PERMANENT"},
     op \in {"GENERATE_DIRECTIONS", "GENERATE_QUESTIONS", "GENERATE_FEEDBACK",
             "GENERATE_STAGE_SUMMARY"}}

Results(id) ==
  LET s == sessions[id]
  IN {next \in DirectionsReady(s, Provider) \cup QuestionsReady(s, Provider)
                 \cup FeedbackReady(s, Provider) \cup SummaryReady(s) : Consistent(next)}

Generate(id) ==
  /\ sessions[id].state \in PendingStates
  /\ \E next \in Results(id) \cup UNION {Failing(sessions[id], f) : f \in Failures(sessions[id])} :
       /\ next \in Results(id) => imports[source[id]] = "SUCCEEDED"
       /\ sessions' = [sessions EXCEPT ![id] = next]
  /\ NoMishap /\ UNCHANGED <<page, requests, source, imports>>

Import(j) ==
  /\ \/ imports[j] = "QUEUED" /\ imports' = [imports EXCEPT ![j] = "RUNNING"]
     \/ /\ imports[j] = "RUNNING"
        /\ \E end \in {"SUCCEEDED", "FAILED"} : imports' = [imports EXCEPT ![j] = end]
  /\ NoMishap /\ UNCHANGED <<page, requests, sessions, source>>

Serve(r) == \/ ServeGet(r) \/ ServeJob(r) \/ ExecuteCommand(r) \/ RefuseCommand(r)
            \/ ServeProject(r) \/ ServeUpload(r) \/ ServeCreate(r)

Reader == CreateProject \/ UploadPdf \/ CreateSession \/ SendCommand
            \/ RefreshSession \/ ResetSession \/ Reload

Next == \/ Reader
        \/ Wake \/ WakeJob
        \/ \E r \in requests : Receive(r) \/ Serve(r) \/ RefuseOvertaken(r) \/ Fail(r)
        \/ \E id \in SessionIds : OtherPage(id) \/ Generate(id)
        \/ \E j \in Jobs : Import(j)

Spec == Init /\ [][Next]_vars

(* The timer fires, the reads of the session's poll are served and         *)
(* answered or fail, the Worker goes on. The reader need not do anything,  *)
(* and no other request need ever be answered.                             *)
Fairness ==
  /\ WF_vars(Wake)
  /\ WF_vars(\E r \in requests : r.kind = "POLL" /\ r.heard /\ (Serve(r) \/ Receive(r)))
  /\ \A id \in SessionIds : WF_vars(Generate(id))

FairSpec == Spec /\ Fairness

-----------------------------------------------------------------------------
(* The state is well-formed, each request in flight under its own number,  *)
(* and what the page keeps of its timers agrees with the requests they     *)
(* wait for.                                                               *)
TypeOK ==
  /\ page \in Page /\ mishaps \in 0..MaxMishaps
  /\ requests \subseteq Request
  /\ \A r, q \in requests : r.no = q.no => r = q
  /\ sessions \in [SessionIds \cup {DeadLink} -> Session]
  /\ source \in [SessionIds \cup {DeadLink} -> Jobs \cup {0}]
  /\ imports \in [Jobs -> JobStates]

(* While a generation or an import is awaited on the screen exactly one    *)
(* poll for it runs, of the session of the URL or of the job shown; unless *)
(* it gave up.                                                             *)
PollOf(kind) == {r \in requests : r.kind = kind /\ r.heard}

Runs(poller, polls) ==
  CASE poller.phase = "ASKING" -> Cardinality(polls) = 1
    [] poller.phase = "ASLEEP" -> polls = {} /\ poller.failures < MaxFailures
    [] OTHER -> polls = {}

WhatIsAwaitedIsPolled ==
  /\ Runs(page.poll, PollOf("POLL")) /\ Runs(page.jobPoll, PollOf("JOB"))
  /\ Followed(page) <=> page.poll.phase # "OFF"
  /\ Importing(page) <=> page.jobPoll.phase # "OFF"
  /\ \A r \in PollOf("POLL") : r.of = page.url
  /\ \A r \in PollOf("JOB") : r.arg = page.job.id

(* Whatever was clicked, sent again after a lost reply or chosen on a      *)
(* screen another page had left behind: an answer, a skip or a             *)
(* confirmation the service executes (sendCommand, requirePointer)         *)
(* concerns the question that was current on the screen it was chosen on.  *)
CommandsReachTheQuestionShown ==
  [][\A r \in requests :
       /\ ExecuteCommand(r)
       /\ r.cmd.event \in PointerCommands
       => r.shown.s.current = sessions[r.of].current]_vars

(* The service has no second session.                                      *)
OneSession ==
  \A a, b \in SessionIds : sessions[a] # NoSession /\ sessions[b] # NoSession => a = b

(* As long as nothing was lost, no post was left behind by a reload, no    *)
(* other page was at work and no second session was created, a settled     *)
(* session on the screen is the service's session: however often the       *)
(* reader went back with polls, recoveries and commands in flight          *)
(* (resetSession), and although onValue and sendCommand still show the     *)
(* answers to those. (With a second session it need not be: a late poll of *)
(* the first one may put it on the screen again, and the second one's      *)
(* poll, given up for it, is then heard after the next command.)           *)
SettledViewIsCurrent ==
  /\ mishaps = 0 /\ OneSession /\ page.view # NoView /\ ~Waiting(page)
  /\ \A r \in requests : r.kind # "COMMAND"
  => page.view.s = sessions[page.view.of]

(* A session that is awaited on the screen does not stay so: it is shown   *)
(* settled, left, or the poll gave up.                                     *)
WaitingIsShownToEnd == Followed(page) ~> (~Followed(page) \/ page.poll.phase = "GAVE_UP")
=============================================================================
