---------------------------- MODULE WorkbenchPage ----------------------------
(***************************************************************************)
(* The guided-learning page of the web client as operators: what it keeps, *)
(* which requests its effects start and abort when it is rendered again,   *)
(* and what each reply makes of it. The page is a copy of the server's     *)
(* session that is only as good as the replies that reach it.              *)
(*                                                                         *)
(* A session, a document version and an import job are numbers; 0 is null. *)
(* Texts, drafts, the message of the last error, the PDF preview and the   *)
(* provider form are left out.                                             *)
(***************************************************************************)
EXTENDS GuidedLearningSession

CONSTANT MaxFailures  \* maxConsecutiveFailures of pollUntil, 3 in the client

ASSUME PageAssumption == MaxFailures \in Nat \ {0}

JobStates == {"ABSENT", "QUEUED", "RUNNING", "SUCCEEDED", "FAILED"}

(* GUIDED_LEARNING_PENDING_STATES: a generation is awaited.                *)
PendingStates == {"CREATED", "QUESTIONS_GENERATING", "ANSWER_SUBMITTED",
                  "SUMMARY_GENERATING"}

(* One run of pollUntil: off, a read in flight, between two reads after    *)
(* `failures` failed ones, or rejected after too many of them.             *)
Poller == [phase : {"OFF", "ASKING", "ASLEEP", "GAVE_UP"}, failures : Nat]
Off == [phase |-> "OFF", failures |-> 0]
Asking == [phase |-> "ASKING", failures |-> 0]
GaveUp == [phase |-> "GAVE_UP", failures |-> 0]
Asleep(n) == [phase |-> "ASLEEP", failures |-> n]

(* session, as the page shows it: whose it is, and the snapshot.           *)
View == [of : Nat, s : Session]
NoView == [of |-> 0, s |-> NoSession]

Page == [url : Nat,                               \* sessionId and guidedSession
         view : View,
         busy : BOOLEAN,                          \* pendingAction # null
         pollError : BOOLEAN,                     \* its message and button are shown
         attempted : Nat,                         \* recoveryAttempt
         project : BOOLEAN, version : Nat,        \* documentVersionId
         job : [id : Nat, status : JobStates],    \* documentJob
         poll : Poller, jobPoll : Poller]

(* The page as it is mounted, before its effects run.                      *)
Mounted(url) ==
  [url |-> url, view |-> NoView, busy |-> FALSE, pollError |-> FALSE,
   attempted |-> 0, project |-> FALSE, version |-> 0,
   job |-> [id |-> 0, status |-> "ABSENT"], poll |-> Off, jobPoll |-> Off]

-----------------------------------------------------------------------------
(* Requests. `of` is the session asked for or acted on, `arg` the job or   *)
(* the version; `shown` is what was on the screen when a command was       *)
(* chosen, whose ids its payload names; `holds` marks the re-read inside   *)
(* sendCommand. `heard` is FALSE once the effect that sent it was cleaned  *)
(* up, or the page of a command is gone.                                   *)
Gets == {"RECOVER", "POLL", "REFRESH", "JOB"}
Posts == {"PROJECT", "UPLOAD", "CREATE", "COMMAND"}
Idle == [event |-> "NONE", arg |-> 0]

Reply == [status : {"NONE", "OK", "FAILED", "NOT_FOUND", "REFUSED", "CONFLICT"},
          of : Nat, s : Session, arg : Nat, job : JobStates]
NoReply == [status |-> "NONE", of |-> 0, s |-> NoSession, arg |-> 0, job |-> "ABSENT"]

Request == [no : Nat, kind : Gets \cup Posts, of : Nat, arg : Nat,
            cmd : Commands \cup {Idle}, shown : View, holds : BOOLEAN,
            failures : Nat, heard : BOOLEAN, reply : Reply]

Ask(kind, of) ==
  [no |-> 0, kind |-> kind, of |-> of, arg |-> 0, cmd |-> Idle, shown |-> NoView,
   holds |-> FALSE, failures |-> 0, heard |-> TRUE, reply |-> NoReply]
AskJob(job) == [Ask("JOB", 0) EXCEPT !.arg = job]
Say(of, c, view) == [Ask("COMMAND", of) EXCEPT !.cmd = c, !.shown = view]

(* In flight besides the requests of `reqs`, under a number of its own.    *)
Sent(reqs, r) ==
  reqs \cup {[r EXCEPT !.no = CHOOSE n \in 1..(Cardinality(reqs) + 1) :
                                 \A q \in reqs : q.no # n]}

Aborted(reqs, kind) ==
  {IF r.kind = kind THEN [r EXCEPT !.heard = FALSE] ELSE r : r \in reqs}

-----------------------------------------------------------------------------
(* Effects: p is the page as it was rendered before, st = [page, reqs] the *)
(* page as it is rendered now and the requests in flight. An effect whose  *)
(* dependencies changed is cleaned up and runs again.                      *)

RecoveryEffect(p, st) ==
  LET q == st.page
      others == Aborted(st.reqs, "RECOVER")
  IN IF q.url = p.url /\ q.view = p.view THEN st
     ELSE IF q.url = 0 \/ q.view # NoView \/ q.attempted = q.url
     THEN [st EXCEPT !.reqs = others]
     ELSE [page |-> [q EXCEPT !.attempted = q.url],
           reqs |-> Sent(others, Ask("RECOVER", q.url))]

Waiting(q) == q.view.s.state \in PendingStates
Followed(q) == q.url # 0 /\ Waiting(q)

(* Mutant: the state is not among the dependencies.                        *)
FollowKey_UrlOnly(q) == q.url

(* [sessionId, sessionState].                                              *)
FollowKey(q) == <<q.url, q.view.s.state>>

PollEffect(p, st) ==
  LET q == st.page
      others == Aborted(st.reqs, "POLL")
  IN IF FollowKey(q) = FollowKey(p) THEN st
     ELSE IF Followed(q)
     THEN [page |-> [q EXCEPT !.poll = Asking],
           reqs |-> Sent(others, Ask("POLL", q.url))]
     ELSE [page |-> [q EXCEPT !.poll = Off], reqs |-> others]

Importing(q) == q.job.id # 0 /\ q.job.status \notin {"SUCCEEDED", "FAILED"}

JobEffect(p, st) ==
  LET q == st.page
      others == Aborted(st.reqs, "JOB")
  IN IF q.job = p.job THEN st
     ELSE IF Importing(q)
     THEN [page |-> [q EXCEPT !.jobPoll = Asking], reqs |-> Sent(others, AskJob(q.job.id))]
     ELSE [page |-> [q EXCEPT !.jobPoll = Off], reqs |-> others]

Rendered(p, q, reqs) ==
  JobEffect(p, PollEffect(p, RecoveryEffect(p, [page |-> q, reqs |-> reqs])))

-----------------------------------------------------------------------------
(* Replies.                                                                *)
Showing(p, r) ==
  [p EXCEPT !.view = [of |-> r.reply.of, s |-> r.reply.s], !.pollError = FALSE]

(* The catch branch of pollUntil, and of the effect that called it: an     *)
(* aborted run still reports its third failure, and only that.             *)
PollFailed(poller, r) ==
  CASE ~r.heard -> poller
    [] r.heard /\ r.failures + 1 >= MaxFailures -> GaveUp
    [] OTHER -> Asleep(r.failures + 1)
Reported(p, r) == [p EXCEPT !.pollError = @ \/ r.failures + 1 >= MaxFailures]

(* Mutant: the loop ends with the first value it gets.                     *)
Polled_Once(p, r) ==
  IF r.reply.status = "OK"
  THEN [Showing(p, r) EXCEPT !.poll = IF r.heard THEN Off ELSE @]
  ELSE [Reported(p, r) EXCEPT !.poll = PollFailed(@, r)]

(* onValue: pollUntil looks at its signal before a read and between two    *)
(* reads, not when the answer comes in.                                    *)
Polled(p, r) ==
  IF r.reply.status = "OK"
  THEN [Showing(p, r) EXCEPT !.poll = IF r.heard THEN Asleep(0) ELSE @]
  ELSE [Reported(p, r) EXCEPT !.poll = PollFailed(@, r)]

JobPolled(p, r) ==
  IF r.reply.status = "OK"
  THEN [p EXCEPT !.job = [id |-> r.arg, status |-> r.reply.job],
                 !.jobPoll = IF r.heard THEN Asleep(0) ELSE @]
  ELSE [Reported(p, r) EXCEPT !.jobPoll = PollFailed(@, r)]

Recovered(p, r) ==
  CASE ~r.heard -> p
    [] r.heard /\ r.reply.status = "OK" ->
         [Showing(p, r) EXCEPT !.project = TRUE, !.version = r.reply.arg]
    [] r.heard /\ r.reply.status = "NOT_FOUND" -> [p EXCEPT !.url = 0]
    [] OTHER -> p

(* refreshSession, from its button or inside sendCommand.                  *)
Refreshed(p, r) ==
  LET q == [p EXCEPT !.busy = @ /\ ~r.holds]
  IN IF r.reply.status = "OK" THEN Showing(q, r) ELSE q

(* confirmAndAdvance goes on with ADVANCE_QUESTION.                        *)
GoesOn(r) == /\ r.kind = "COMMAND" /\ r.cmd.event = "CONFIRM_QUESTION"
             /\ r.reply.status = "OK" /\ r.reply.s.state = "QUESTION_COMPLETED"

(* sendCommand after its await.                                            *)
Commanded(p, r) ==
  CASE r.reply.status = "OK" ->
         [Showing(p, r) EXCEPT !.busy = GoesOn(r)]
    [] r.reply.status = "CONFLICT" -> p
    [] OTHER -> [p EXCEPT !.busy = FALSE]

(* Mutant: the accepted upload is given a status no job has.               *)
Prepared_Accepted(p, r) ==
  LET q == [p EXCEPT !.busy = FALSE]
  IN CASE r.reply.status # "OK" -> q
       [] r.reply.status = "OK" /\ r.kind = "PROJECT" -> [q EXCEPT !.project = TRUE]
       [] r.reply.status = "OK" /\ r.kind = "UPLOAD" ->
            [q EXCEPT !.version = r.reply.arg,
                      !.job = [id |-> r.reply.arg, status |-> "ACCEPTED"]]
       [] OTHER -> [q EXCEPT !.view = [of |-> r.reply.of, s |-> r.reply.s],
                             !.url = r.reply.of]

(* createProject, uploadPdf and createSession after their awaits.          *)
Prepared(p, r) ==
  LET q == [p EXCEPT !.busy = FALSE]
  IN CASE r.reply.status # "OK" -> q
       [] r.reply.status = "OK" /\ r.kind = "PROJECT" -> [q EXCEPT !.project = TRUE]
       [] r.reply.status = "OK" /\ r.kind = "UPLOAD" ->
            [q EXCEPT !.version = r.reply.arg,
                      !.job = [id |-> r.reply.arg, status |-> "QUEUED"]]
       [] OTHER -> [q EXCEPT !.view = [of |-> r.reply.of, s |-> r.reply.s],
                             !.url = r.reply.of]

(* The page once the reply to r has come in.                               *)
Heard(p, r) ==
  CASE r.kind = "RECOVER" -> Recovered(p, r)
    [] r.kind = "POLL" -> Polled(p, r)
    [] r.kind = "JOB" -> JobPolled(p, r)
    [] r.kind = "REFRESH" -> Refreshed(p, r)
    [] r.kind = "COMMAND" -> Commanded(p, r)
    [] OTHER -> Prepared(p, r)

(* What a command's handler sends next: the second half of a confirmation, *)
(* or the re-read after REVISION_CONFLICT.                                 *)
Sequel(reqs, r) ==
  CASE GoesOn(r) ->
         Sent(reqs, Say(r.of, [event |-> "ADVANCE_QUESTION", arg |-> r.cmd.arg],
                        [of |-> r.reply.of, s |-> r.reply.s]))
    [] r.kind = "COMMAND" /\ r.reply.status = "CONFLICT" ->
         Sent(reqs, [Ask("REFRESH", r.of) EXCEPT !.holds = TRUE])
    [] OTHER -> reqs

-----------------------------------------------------------------------------
(* The buttons SessionPanel shows for a session, with the payload they     *)
(* send. The answer of an edit or a submission is not empty.               *)
Offered(s) ==
  CASE s.state = "AWAITING_DIRECTION_SELECTION" -> [event : {"SELECT_DIRECTION"}, arg : s.directions]
    [] s.state = "ROUTE_LOCKED" -> {[event |-> "START_STAGE", arg |-> 0]}
    [] s.state = "AWAITING_ANSWER" ->
         [event : {"SUBMIT_ANSWER", "SKIP_QUESTION"}, arg : {s.current}]
    [] s.state = "FEEDBACK_READY" ->
         [event : {"EDIT_ANSWER", "CONFIRM_QUESTION"}, arg : {s.current}]
    [] s.state = "QUESTION_COMPLETED" -> {[event |-> "ADVANCE_QUESTION", arg |-> s.current]}
    [] s.state = "RETRYABLE_FAILURE" -> {[event |-> "RETRY", arg |-> 0]}
    [] OTHER -> {}
=============================================================================
