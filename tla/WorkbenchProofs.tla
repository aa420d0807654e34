---------------------------- MODULE WorkbenchProofs ----------------------------
(***************************************************************************)
(* What the page shows, polls and sends, for any number of sessions,       *)
(* questions and requests in flight, and however many replies are lost.    *)
(***************************************************************************)
EXTENDS Workbench, GuidedLearningSessionProofs

(* Sessions a request may ask for: the service's, and the dead link.       *)
Ids == SessionIds \cup {DeadLink}

-----------------------------------------------------------------------------
(* Requests in flight.                                                     *)

(* What a command was chosen on: an answer, a skip or a confirmation names *)
(* the question that was on the screen, and a confirmation that went       *)
(* through leaves its question the current one.                            *)
Aimed(r) ==
  /\ r.cmd.event \in PointerCommands => r.cmd.arg = r.shown.s.current
  /\ r.cmd.event = "CONFIRM_QUESTION" /\ r.reply.status = "OK" =>
       r.reply.s.current = r.cmd.arg

WellFormed(r) ==
  /\ r \in Request
  /\ r.kind \in {"RECOVER", "POLL", "REFRESH", "COMMAND"} => r.of \in Ids
  /\ r.kind \in {"JOB", "CREATE"} => r.arg \in Jobs
  /\ r.kind = "COMMAND" => r.cmd \in Commands /\ Aimed(r)
  /\ Regular(r.reply.s) /\ r.reply.of \in Ids \cup {0} /\ r.reply.arg \in Jobs \cup {0}

InFlight(reqs) ==
  /\ IsFiniteSet(reqs)
  /\ \A r \in reqs : WellFormed(r)
  /\ \A r, q \in reqs : r.no = q.no => r = q

(* The requests of a kind somebody waits for.                              *)
Of(reqs, kind) == {r \in reqs : r.kind = kind /\ r.heard}

LEMMA Constants ==
  /\ MaxSessions \in Nat /\ MaxUploads \in Nat /\ MaxMishaps \in Nat
  /\ SessionIds \subseteq Nat /\ DeadLink \in Nat \ {0} /\ DeadLink \notin SessionIds
  /\ 0 \notin Ids /\ Ids \subseteq Nat /\ Jobs \subseteq Nat /\ 0 \notin Jobs
BY WorkbenchAssumption DEF SessionIds, DeadLink, Ids, Jobs

(* There is a number nobody has: there are fewer requests than numbers.    *)
LEMMA FreeNumber ==
  ASSUME NEW reqs, IsFiniteSet(reqs)
  PROVE  \E n \in 1..(Cardinality(reqs) + 1) : \A q \in reqs : q.no # n
<1> DEFINE numbers == {q.no : q \in reqs}
           c == Cardinality(reqs)
           f == [q \in reqs |-> q.no]
<1>1. c \in Nat
  BY FS_CardinalityType
<1>2. f \in Surjection(reqs, numbers)
  BY DEF Surjection
<1>3. IsFiniteSet(numbers) /\ Cardinality(numbers) <= c
  BY <1>2, FS_Surjection
<1>4. Cardinality(1..(c + 1)) = c + 1
  BY <1>1, FS_Interval
<1>5. ASSUME 1..(c + 1) \subseteq numbers PROVE FALSE
  <2>1. Cardinality(1..(c + 1)) <= Cardinality(numbers)
    BY <1>3, <1>5, FS_Subset
  <2>2. Cardinality(numbers) \in Nat
    BY <1>3, FS_CardinalityType
  <2> QED
    BY <1>1, <1>3, <1>4, <2>1, <2>2
<1> QED
  BY <1>5

(* The fields of a request that carry something the properties tell apart. *)
SameRequest(r, q) ==
  /\ r.kind = q.kind /\ r.of = q.of /\ r.arg = q.arg /\ r.cmd = q.cmd /\ r.shown = q.shown
  /\ r.holds = q.holds /\ r.failures = q.failures

LEMMA Numbered ==
  ASSUME NEW r, WellFormed(r), NEW n \in Nat
  PROVE  LET q == [r EXCEPT !.no = n]
         IN /\ WellFormed(q) /\ q.no = n /\ SameRequest(q, r)
            /\ q.heard = r.heard /\ q.reply = r.reply
<1> DEFINE q == [r EXCEPT !.no = n]
<1>1. /\ q \in Request /\ q.no = n /\ SameRequest(q, r)
      /\ q.heard = r.heard /\ q.reply = r.reply
  BY DEF WellFormed, Request, SameRequest
<1> HIDE DEF q
<1>2. WellFormed(q)
  BY <1>1 DEF WellFormed, Aimed, SameRequest
<1> QED
  BY <1>1, <1>2 DEF q

LEMMA Unlistened ==
  ASSUME NEW r, WellFormed(r)
  PROVE  LET q == [r EXCEPT !.heard = FALSE]
         IN /\ WellFormed(q) /\ q.no = r.no /\ SameRequest(q, r)
            /\ q.heard = FALSE /\ q.reply = r.reply
<1> DEFINE q == [r EXCEPT !.heard = FALSE]
<1>1. /\ q \in Request /\ q.no = r.no /\ SameRequest(q, r)
      /\ q.reply = r.reply
  BY DEF WellFormed, Request, SameRequest
<1>2. q.heard = FALSE
  BY DEF WellFormed, Request
<1> HIDE DEF q
<1>3. WellFormed(q)
  BY <1>1 DEF WellFormed, Aimed, SameRequest
<1> QED
  BY <1>1, <1>2, <1>3 DEF q

LEMMA Answered1 ==
  ASSUME NEW r, WellFormed(r), NEW reply \in Reply,
         Regular(reply.s), reply.of \in Ids \cup {0}, reply.arg \in Jobs \cup {0},
         r.kind = "COMMAND" /\ r.cmd.event = "CONFIRM_QUESTION" /\ reply.status = "OK" =>
           reply.s.current = r.cmd.arg
  PROVE  LET q == [r EXCEPT !.reply = reply]
         IN /\ WellFormed(q) /\ q.no = r.no /\ SameRequest(q, r)
            /\ q.heard = r.heard /\ q.reply = reply
<1> DEFINE q == [r EXCEPT !.reply = reply]
<1>1. /\ q \in Request /\ q.no = r.no /\ SameRequest(q, r)
      /\ q.heard = r.heard /\ q.reply = reply
  BY DEF WellFormed, Request, SameRequest
<1> HIDE DEF q
<1>3. WellFormed(q)
  BY <1>1 DEF WellFormed, Aimed, SameRequest
<1> QED
  BY <1>1, <1>3 DEF q

(* One more request in flight, as it was asked but for its number.         *)
SentAs(reqs, r, new) ==
  /\ Sent(reqs, r) = reqs \cup {new} /\ new \notin reqs
  /\ WellFormed(new) /\ SameRequest(new, r) /\ new.heard = r.heard /\ new.reply = r.reply

LEMMA SendingIsTyped ==
  ASSUME NEW reqs, InFlight(reqs), NEW r, WellFormed(r)
  PROVE  InFlight(Sent(reqs, r)) /\ \E new : SentAs(reqs, r, new)
<1> DEFINE n == CHOOSE m \in 1..(Cardinality(reqs) + 1) : \A q \in reqs : q.no # m
           new == [r EXCEPT !.no = n]
<1>1. IsFiniteSet(reqs)
  BY DEF InFlight
<1>2. n \in 1..(Cardinality(reqs) + 1) /\ \A q \in reqs : q.no # n
  BY <1>1, FreeNumber
<1>3. n \in Nat
  BY <1>1, <1>2, FS_CardinalityType
<1>4. Sent(reqs, r) = reqs \cup {new}
  BY DEF Sent
<1> HIDE DEF n
<1>5. /\ WellFormed(new) /\ new.no = n /\ SameRequest(new, r)
      /\ new.heard = r.heard /\ new.reply = r.reply
  BY <1>3, Numbered
<1> HIDE DEF new
<1>6. new \notin reqs
  BY <1>2, <1>5
<1>7. IsFiniteSet(reqs \cup {new})
  BY <1>1, FS_AddElement
<1>8. InFlight(Sent(reqs, r))
  BY <1>2, <1>4, <1>5, <1>7 DEF InFlight
<1> QED
  BY <1>4, <1>5, <1>6, <1>8 DEF SentAs

LEMMA AbortingIsTyped ==
  ASSUME NEW reqs, InFlight(reqs), NEW kind
  PROVE  InFlight(Aborted(reqs, kind))
<1> DEFINE g(r) == IF r.kind = kind THEN [r EXCEPT !.heard = FALSE] ELSE r
           f == [r \in reqs |-> g(r)]
<1>1. f \in Surjection(reqs, Aborted(reqs, kind))
  BY DEF Surjection, Aborted
<1>2. IsFiniteSet(Aborted(reqs, kind))
  BY <1>1, FS_Surjection DEF InFlight
<1>3. \A r \in reqs : WellFormed(g(r)) /\ g(r).no = r.no
  BY Unlistened DEF InFlight
<1>4. Aborted(reqs, kind) = {g(r) : r \in reqs}
  BY DEF Aborted
<1> HIDE DEF g
<1> QED
  BY <1>2, <1>3, <1>4 DEF InFlight

-----------------------------------------------------------------------------
(* Effects. Each deals with the requests of one kind: it leaves them, or   *)
(* stops listening to them, or does and sends one of its own.              *)
Kind(reqs, kind) == {r \in reqs : r.kind = kind}

OthersStay(out, reqs, kind) ==
  \A k \in (Gets \cup Posts) \ {kind} : Kind(out, k) = Kind(reqs, k)

(* Those nobody listens to any more were in flight before.                 *)
LeftOver(out, reqs, kind) ==
  \A x \in Kind(out, kind) : ~x.heard =>
    \E r \in Kind(reqs, kind) : SameRequest(x, r) /\ x.reply = r.reply

Stopped(out, reqs, kind) ==
  Of(out, kind) = {} /\ OthersStay(out, reqs, kind) /\ LeftOver(out, reqs, kind)

Restarted(out, reqs, kind, of, arg) ==
  /\ OthersStay(out, reqs, kind) /\ LeftOver(out, reqs, kind)
  /\ \E new \in out : /\ Of(out, kind) = {new} /\ new.reply = NoReply
                      /\ new.of = of /\ new.arg = arg /\ new.failures = 0

LEMMA Stopping ==
  ASSUME NEW reqs, InFlight(reqs), NEW kind
  PROVE  InFlight(Aborted(reqs, kind)) /\ Stopped(Aborted(reqs, kind), reqs, kind)
<1> DEFINE g(r) == IF r.kind = kind THEN [r EXCEPT !.heard = FALSE] ELSE r
           out == Aborted(reqs, kind)
<1>1. \A r \in reqs : /\ WellFormed(r) /\ WellFormed([r EXCEPT !.heard = FALSE])
                      /\ SameRequest([r EXCEPT !.heard = FALSE], r)
                      /\ [r EXCEPT !.heard = FALSE].heard = FALSE
                      /\ [r EXCEPT !.heard = FALSE].reply = r.reply
  BY Unlistened DEF InFlight
<1>2. \A r \in reqs : /\ g(r).kind = r.kind /\ SameRequest(g(r), r) /\ g(r).reply = r.reply
                      /\ r.kind = kind => g(r).heard = FALSE
                      /\ r.kind # kind => g(r) = r
  BY <1>1 DEF SameRequest
<1>3. out = {g(r) : r \in reqs}
  BY DEF Aborted
<1> HIDE DEF g, out
<1>4. Of(out, kind) = {}
  BY <1>2, <1>3 DEF Of
<1>5. OthersStay(out, reqs, kind)
  BY <1>2, <1>3 DEF OthersStay, Kind
<1>6. LeftOver(out, reqs, kind)
  BY <1>2, <1>3 DEF LeftOver, Kind
<1> QED
  BY <1>4, <1>5, <1>6, AbortingIsTyped DEF Stopped, out

LEMMA Restarting ==
  ASSUME NEW reqs, InFlight(reqs), NEW r, WellFormed(r), r.heard, r.reply = NoReply, r.failures = 0
  PROVE  LET out == Sent(Aborted(reqs, r.kind), r)
         IN InFlight(out) /\ Restarted(out, reqs, r.kind, r.of, r.arg)
<1> DEFINE base == Aborted(reqs, r.kind)
           out == Sent(base, r)
<1>1. InFlight(base) /\ Stopped(base, reqs, r.kind)
  BY Stopping
<1> HIDE DEF base
<1>2. InFlight(out) /\ \E new : SentAs(base, r, new)
  BY <1>1, SendingIsTyped
<1>3. PICK new : SentAs(base, r, new)
  BY <1>2
<1>4. /\ out = base \cup {new} /\ new.kind = r.kind /\ new.heard = TRUE
      /\ new.of = r.of /\ new.arg = r.arg /\ new.failures = 0 /\ new.reply = NoReply
  BY <1>3 DEF SentAs, SameRequest, WellFormed, Request
<1> HIDE DEF out
<1>5. Of(out, r.kind) = {new}
  BY <1>1, <1>4 DEF Stopped, Of
<1>6. OthersStay(out, reqs, r.kind)
  BY <1>1, <1>4 DEF Stopped, OthersStay, Kind
<1>7. LeftOver(out, reqs, r.kind)
  BY <1>1, <1>4 DEF Stopped, LeftOver, Kind
<1> QED
  BY <1>2, <1>4, <1>5, <1>6, <1>7 DEF Restarted, out, base

LEMMA Asking1 ==
  ASSUME NEW kind \in {"RECOVER", "POLL", "REFRESH"}, NEW of \in Ids
  PROVE  LET r == Ask(kind, of)
         IN /\ WellFormed(r) /\ r.kind = kind /\ r.of = of /\ r.arg = 0 /\ r.heard = TRUE
            /\ r.reply = NoReply /\ r.failures = 0 /\ ~r.holds
<1> DEFINE r == Ask(kind, of)
<1>1. /\ r.kind = kind /\ r.of = of /\ r.arg = 0 /\ r.heard = TRUE /\ r.reply = NoReply
      /\ r.failures = 0 /\ r.holds = FALSE
  BY DEF Ask
<1>2. NoSession \in Session /\ Regular(NoSession)
  BY FirstSessions, FirstSessionsAreRegular
<1>3. /\ NoReply \in Reply /\ NoReply.s = NoSession /\ NoReply.of = 0 /\ NoReply.arg = 0
      /\ NoView \in View /\ Idle = [event |-> "NONE", arg |-> 0]
  BY <1>2 DEF NoReply, Reply, NoView, View, JobStates, Idle
<1>4. r \in Request
  BY <1>3, Constants DEF Ask, Request, Gets
<1> HIDE DEF r
<1> QED
  BY <1>1, <1>2, <1>3, <1>4 DEF WellFormed, r

LEMMA AskingForAJob ==
  ASSUME NEW job \in Jobs
  PROVE  LET r == AskJob(job)
         IN /\ WellFormed(r) /\ r.kind = "JOB" /\ r.of = 0 /\ r.arg = job /\ r.heard = TRUE
            /\ r.reply = NoReply /\ r.failures = 0
<1> DEFINE r == AskJob(job)
<1>1. /\ r.kind = "JOB" /\ r.of = 0 /\ r.arg = job /\ r.heard = TRUE /\ r.reply = NoReply
      /\ r.failures = 0
  BY DEF AskJob, Ask
<1>2. NoSession \in Session /\ Regular(NoSession)
  BY FirstSessions, FirstSessionsAreRegular
<1>3. /\ NoReply \in Reply /\ NoReply.s = NoSession /\ NoReply.of = 0 /\ NoReply.arg = 0
      /\ NoView \in View /\ Idle = [event |-> "NONE", arg |-> 0]
  BY <1>2 DEF NoReply, Reply, NoView, View, JobStates, Idle
<1>4. r \in Request
  BY <1>3, Constants DEF AskJob, Ask, Request, Gets
<1> HIDE DEF r
<1> QED
  BY <1>1, <1>2, <1>3, <1>4 DEF WellFormed, r

-----------------------------------------------------------------------------
(* Pages.                                                                  *)
WellFormedPage(q) ==
  /\ q \in Page
  /\ q.url \in Ids \cup {0} /\ q.view.of \in Ids \cup {0} /\ Regular(q.view.s)
  /\ q.version \in Jobs \cup {0} /\ q.job.id \in Jobs \cup {0}

(* What an effect may change is its own bookkeeping.                       *)
SameScreen(q, p) ==
  /\ q.url = p.url /\ q.view = p.view /\ q.busy = p.busy /\ q.pollError = p.pollError
  /\ q.project = p.project /\ q.version = p.version /\ q.job = p.job

(* The requests of one effect: kept while its dependencies are.            *)
RecoveryRan(p, q, reqs, out) ==
  \/ q.url = p.url /\ q.view = p.view /\ Kind(out, "RECOVER") = Kind(reqs, "RECOVER")
  \/ /\ LeftOver(out, reqs, "RECOVER")
     /\ \A r \in Of(out, "RECOVER") :
          r.reply = NoReply /\ r.of = q.url /\ q.url # 0 /\ q.view = NoView

LEMMA RecoveryRuns ==
  ASSUME NEW p, NEW q, WellFormedPage(q), NEW reqs, InFlight(reqs)
  PROVE  \E m, out :
           /\ RecoveryEffect(p, [page |-> q, reqs |-> reqs]) = [page |-> m, reqs |-> out]
           /\ WellFormedPage(m) /\ SameScreen(m, q) /\ m.poll = q.poll /\ m.jobPoll = q.jobPoll
           /\ InFlight(out) /\ OthersStay(out, reqs, "RECOVER") /\ RecoveryRan(p, q, reqs, out)
<1> DEFINE st == [page |-> q, reqs |-> reqs]
           others == Aborted(reqs, "RECOVER")
           again == Sent(others, Ask("RECOVER", q.url))
           tried == [q EXCEPT !.attempted = q.url]
<1>1. SameScreen(q, q) /\ OthersStay(reqs, reqs, "RECOVER")
  BY DEF SameScreen, OthersStay
<1>2. CASE q.url = p.url /\ q.view = p.view
  <2>1. RecoveryEffect(p, st) = [page |-> q, reqs |-> reqs]
    BY <1>2 DEF RecoveryEffect
  <2> QED
    BY <1>1, <1>2, <2>1 DEF RecoveryRan
<1>3. CASE /\ ~(q.url = p.url /\ q.view = p.view)
           /\ q.url = 0 \/ q.view # NoView \/ q.attempted = q.url
  <2>1. RecoveryEffect(p, st) = [page |-> q, reqs |-> others]
    BY <1>3 DEF RecoveryEffect
  <2>2. InFlight(others) /\ Stopped(others, reqs, "RECOVER")
    BY Stopping
  <2> QED
    BY <1>1, <2>1, <2>2 DEF Stopped, RecoveryRan
<1>4. CASE /\ ~(q.url = p.url /\ q.view = p.view)
           /\ ~(q.url = 0 \/ q.view # NoView \/ q.attempted = q.url)
  <2>1. RecoveryEffect(p, st) = [page |-> tried, reqs |-> again]
    BY <1>4 DEF RecoveryEffect
  <2>2. q.url \in Ids /\ q.url \in Nat /\ q.view = NoView
    BY <1>4, Constants DEF WellFormedPage
  <2>3. /\ WellFormed(Ask("RECOVER", q.url)) /\ Ask("RECOVER", q.url).kind = "RECOVER"
        /\ Ask("RECOVER", q.url).of = q.url /\ Ask("RECOVER", q.url).heard
        /\ Ask("RECOVER", q.url).reply = NoReply /\ Ask("RECOVER", q.url).failures = 0
    BY <2>2, Asking1
  <2>4. InFlight(again) /\ Restarted(again, reqs, "RECOVER", q.url, Ask("RECOVER", q.url).arg)
    BY <2>3, Restarting
  <2>5. RecoveryRan(p, q, reqs, again) /\ OthersStay(again, reqs, "RECOVER")
    BY <1>4, <2>2, <2>4 DEF Restarted, RecoveryRan, Of
  <2>6. WellFormedPage(tried) /\ SameScreen(tried, q) /\ tried.poll = q.poll
        /\ tried.jobPoll = q.jobPoll
    BY <2>2 DEF WellFormedPage, Page, SameScreen
  <2> QED
    BY <2>1, <2>4, <2>5, <2>6
<1> QED
  BY <1>2, <1>3, <1>4

(* The two halves of WhatIsAwaitedIsPolled.                                *)
PollFits(q, reqs) ==
  /\ Runs(q.poll, Of(reqs, "POLL"))
  /\ Followed(q) <=> q.poll.phase # "OFF"
  /\ \A r \in Of(reqs, "POLL") : r.of = q.url
JobFits(q, reqs) ==
  /\ Runs(q.jobPoll, Of(reqs, "JOB"))
  /\ Importing(q) <=> q.jobPoll.phase # "OFF"
  /\ \A r \in Of(reqs, "JOB") : r.arg = q.job.id

(* The polls: kept while their dependencies are, and made to fit when they *)
(* are not.                                                                *)
PollRan(p, q, reqs, m, out) ==
  \/ FollowKey(q) = FollowKey(p) /\ m.poll = q.poll /\ Kind(out, "POLL") = Kind(reqs, "POLL")
  \/ /\ FollowKey(q) # FollowKey(p)
     /\ LeftOver(out, reqs, "POLL") /\ PollFits(m, out)
     /\ \A r \in Of(out, "POLL") : r.reply = NoReply
JobRan(p, q, reqs, m, out) ==
  \/ q.job = p.job /\ m.jobPoll = q.jobPoll /\ Kind(out, "JOB") = Kind(reqs, "JOB")
  \/ /\ q.job # p.job
     /\ LeftOver(out, reqs, "JOB") /\ JobFits(m, out)
     /\ \A r \in Of(out, "JOB") : r.reply = NoReply

LEMMA OnePoll ==
  /\ \A x : Runs(Asking, {x})
  /\ Runs(Off, {}) /\ Runs(GaveUp, {})
  /\ \A n \in Nat : n < MaxFailures => Runs(Asleep(n), {})
BY FS_Singleton DEF Runs, Asking, Off, GaveUp, Asleep

LEMMA PollRuns ==
  ASSUME NEW p, NEW q, WellFormedPage(q), NEW reqs, InFlight(reqs)
  PROVE  \E m, out :
           /\ PollEffect(p, [page |-> q, reqs |-> reqs]) = [page |-> m, reqs |-> out]
           /\ WellFormedPage(m) /\ SameScreen(m, q) /\ m.jobPoll = q.jobPoll
           /\ InFlight(out) /\ OthersStay(out, reqs, "POLL") /\ PollRan(p, q, reqs, m, out)
<1> DEFINE st == [page |-> q, reqs |-> reqs]
           others == Aborted(reqs, "POLL")
           again == Sent(others, Ask("POLL", q.url))
           on == [q EXCEPT !.poll = Asking]
           off == [q EXCEPT !.poll = Off]
<1>1. SameScreen(q, q) /\ OthersStay(reqs, reqs, "POLL")
  BY DEF SameScreen, OthersStay
<1>2. /\ WellFormedPage(on) /\ SameScreen(on, q) /\ on.jobPoll = q.jobPoll /\ on.poll = Asking
      /\ WellFormedPage(off) /\ SameScreen(off, q) /\ off.jobPoll = q.jobPoll /\ off.poll = Off
  BY DEF WellFormedPage, Page, SameScreen, Poller, Asking, Off
<1>3. /\ Asking.phase = "ASKING" /\ Off.phase = "OFF"
      /\ Followed(on) <=> Followed(q)
      /\ Followed(off) <=> Followed(q)
  BY <1>2 DEF Asking, Off, Followed, Waiting, SameScreen
<1> HIDE DEF on, off
<1>4. CASE FollowKey(q) = FollowKey(p)
  <2>1. PollEffect(p, st) = [page |-> q, reqs |-> reqs]
    BY <1>4 DEF PollEffect
  <2> QED
    BY <1>1, <1>4, <2>1 DEF PollRan
<1>5. CASE FollowKey(q) # FollowKey(p) /\ ~Followed(q)
  <2>1. PollEffect(p, st) = [page |-> off, reqs |-> others]
    BY <1>5 DEF PollEffect, off
  <2>2. InFlight(others) /\ Stopped(others, reqs, "POLL")
    BY Stopping
  <2>3. PollFits(off, others)
    BY <1>2, <1>3, <1>5, <2>2, OnePoll DEF PollFits, Stopped
  <2>4. PollRan(p, q, reqs, off, others)
    BY <1>5, <2>2, <2>3 DEF PollRan, Stopped
  <2> QED
    BY <1>2, <2>1, <2>2, <2>4 DEF Stopped
<1>6. CASE FollowKey(q) # FollowKey(p) /\ Followed(q)
  <2>1. PollEffect(p, st) = [page |-> on, reqs |-> again]
    BY <1>6 DEF PollEffect, on
  <2>2. q.url \in Ids
    BY <1>6 DEF WellFormedPage, Followed
  <2>3. /\ WellFormed(Ask("POLL", q.url)) /\ Ask("POLL", q.url).kind = "POLL"
        /\ Ask("POLL", q.url).of = q.url /\ Ask("POLL", q.url).heard
        /\ Ask("POLL", q.url).reply = NoReply /\ Ask("POLL", q.url).failures = 0
    BY <2>2, Asking1
  <2>4. InFlight(again) /\ Restarted(again, reqs, "POLL", q.url, Ask("POLL", q.url).arg)
    BY <2>3, Restarting
  <2> HIDE DEF again
  <2>5. PICK new : Of(again, "POLL") = {new} /\ new.reply = NoReply /\ new.of = q.url
    BY <2>4 DEF Restarted
  <2>6. PollFits(on, again)
    BY <1>2, <1>3, <1>6, <2>5, OnePoll DEF PollFits, SameScreen
  <2>7. PollRan(p, q, reqs, on, again)
    BY <1>6, <2>4, <2>5, <2>6 DEF PollRan, Restarted
  <2> QED
    BY <1>2, <2>1, <2>4, <2>7 DEF Restarted, again
<1> QED
  BY <1>4, <1>5, <1>6

LEMMA JobPollRuns ==
  ASSUME NEW p, NEW q, WellFormedPage(q), NEW reqs, InFlight(reqs)
  PROVE  \E m, out :
           /\ JobEffect(p, [page |-> q, reqs |-> reqs]) = [page |-> m, reqs |-> out]
           /\ WellFormedPage(m) /\ SameScreen(m, q) /\ m.poll = q.poll
           /\ InFlight(out) /\ OthersStay(out, reqs, "JOB") /\ JobRan(p, q, reqs, m, out)
<1> DEFINE st == [page |-> q, reqs |-> reqs]
           others == Aborted(reqs, "JOB")
           again == Sent(others, AskJob(q.job.id))
           on == [q EXCEPT !.jobPoll = Asking]
           off == [q EXCEPT !.jobPoll = Off]
<1>1. SameScreen(q, q) /\ OthersStay(reqs, reqs, "JOB")
  BY DEF SameScreen, OthersStay
<1>2. /\ WellFormedPage(on) /\ SameScreen(on, q) /\ on.poll = q.poll /\ on.jobPoll = Asking
      /\ WellFormedPage(off) /\ SameScreen(off, q) /\ off.poll = q.poll /\ off.jobPoll = Off
  BY DEF WellFormedPage, Page, SameScreen, Poller, Asking, Off
<1>3. /\ Asking.phase = "ASKING" /\ Off.phase = "OFF"
      /\ Importing(on) <=> Importing(q)
      /\ Importing(off) <=> Importing(q)
  BY <1>2 DEF Asking, Off, Importing, SameScreen
<1> HIDE DEF on, off
<1>4. CASE q.job = p.job
  <2>1. JobEffect(p, st) = [page |-> q, reqs |-> reqs]
    BY <1>4 DEF JobEffect
  <2> QED
    BY <1>1, <1>4, <2>1 DEF JobRan
<1>5. CASE q.job # p.job /\ ~Importing(q)
  <2>1. JobEffect(p, st) = [page |-> off, reqs |-> others]
    BY <1>5 DEF JobEffect, off
  <2>2. InFlight(others) /\ Stopped(others, reqs, "JOB")
    BY Stopping
  <2>3. JobFits(off, others)
    BY <1>2, <1>3, <1>5, <2>2, OnePoll DEF JobFits, Stopped
  <2>4. JobRan(p, q, reqs, off, others)
    BY <1>5, <2>2, <2>3 DEF JobRan, Stopped
  <2> QED
    BY <1>2, <2>1, <2>2, <2>4 DEF Stopped
<1>6. CASE q.job # p.job /\ Importing(q)
  <2>1. JobEffect(p, st) = [page |-> on, reqs |-> again]
    BY <1>6 DEF JobEffect, on
  <2>2. q.job.id \in Jobs
    BY <1>6 DEF WellFormedPage, Importing
  <2>3. /\ WellFormed(AskJob(q.job.id)) /\ AskJob(q.job.id).kind = "JOB"
        /\ AskJob(q.job.id).of = 0 /\ AskJob(q.job.id).arg = q.job.id
        /\ AskJob(q.job.id).heard
        /\ AskJob(q.job.id).reply = NoReply /\ AskJob(q.job.id).failures = 0
    BY <2>2, AskingForAJob
  <2>4. InFlight(again) /\ Restarted(again, reqs, "JOB", 0, q.job.id)
    BY <2>3, Restarting
  <2> HIDE DEF again
  <2>5. PICK new : Of(again, "JOB") = {new} /\ new.reply = NoReply /\ new.arg = q.job.id
    BY <2>4 DEF Restarted
  <2>6. JobFits(on, again)
    BY <1>2, <1>3, <1>6, <2>5, OnePoll DEF JobFits, SameScreen
  <2>7. JobRan(p, q, reqs, on, again)
    BY <1>6, <2>4, <2>5, <2>6 DEF JobRan, Restarted
  <2> QED
    BY <1>2, <2>1, <2>4, <2>7 DEF Restarted, again
<1> QED
  BY <1>4, <1>5, <1>6

(* The three effects one after the other.                                  *)
RenderedAs(p, q, reqs, m, out) ==
  /\ Rendered(p, q, reqs) = [page |-> m, reqs |-> out]
  /\ WellFormedPage(m) /\ SameScreen(m, q) /\ InFlight(out)
  /\ \A k \in Posts \cup {"REFRESH"} : Kind(out, k) = Kind(reqs, k)
  /\ RecoveryRan(p, q, reqs, out) /\ PollRan(p, q, reqs, m, out) /\ JobRan(p, q, reqs, m, out)

LEMMA Rendering ==
  ASSUME NEW p, NEW q, WellFormedPage(q), NEW reqs, InFlight(reqs)
  PROVE  \E m, out : RenderedAs(p, q, reqs, m, out)
<1>1. PICK m1, out1 :
        /\ RecoveryEffect(p, [page |-> q, reqs |-> reqs]) = [page |-> m1, reqs |-> out1]
        /\ WellFormedPage(m1) /\ SameScreen(m1, q) /\ m1.poll = q.poll /\ m1.jobPoll = q.jobPoll
        /\ InFlight(out1) /\ OthersStay(out1, reqs, "RECOVER") /\ RecoveryRan(p, q, reqs, out1)
  BY RecoveryRuns
<1>2. PICK m2, out2 :
        /\ PollEffect(p, [page |-> m1, reqs |-> out1]) = [page |-> m2, reqs |-> out2]
        /\ WellFormedPage(m2) /\ SameScreen(m2, m1) /\ m2.jobPoll = m1.jobPoll
        /\ InFlight(out2) /\ OthersStay(out2, out1, "POLL") /\ PollRan(p, m1, out1, m2, out2)
  BY <1>1, PollRuns
<1>3. PICK m3, out3 :
        /\ JobEffect(p, [page |-> m2, reqs |-> out2]) = [page |-> m3, reqs |-> out3]
        /\ WellFormedPage(m3) /\ SameScreen(m3, m2) /\ m3.poll = m2.poll
        /\ InFlight(out3) /\ OthersStay(out3, out2, "JOB") /\ JobRan(p, m2, out2, m3, out3)
  BY <1>2, JobPollRuns
<1>4. Rendered(p, q, reqs) = [page |-> m3, reqs |-> out3]
  BY <1>1, <1>2, <1>3 DEF Rendered
<1>5. SameScreen(m3, q) /\ SameScreen(m2, q)
  BY <1>1, <1>2, <1>3 DEF SameScreen
<1>6. \A k \in Posts \cup {"REFRESH"} : Kind(out3, k) = Kind(reqs, k)
  <2>1. ASSUME NEW k \in Posts \cup {"REFRESH"}
        PROVE  k \in (Gets \cup Posts) \ {"RECOVER"} /\ k \in (Gets \cup Posts) \ {"POLL"}
               /\ k \in (Gets \cup Posts) \ {"JOB"}
    BY DEF Posts, Gets
  <2> QED
    BY <1>1, <1>2, <1>3, <2>1 DEF OthersStay
<1>7. /\ Kind(out3, "RECOVER") = Kind(out1, "RECOVER")
      /\ Kind(out3, "POLL") = Kind(out2, "POLL") /\ Kind(out1, "POLL") = Kind(reqs, "POLL")
      /\ Kind(out2, "JOB") = Kind(reqs, "JOB")
  <2>1. /\ "RECOVER" \in (Gets \cup Posts) \ {"POLL"} /\ "RECOVER" \in (Gets \cup Posts) \ {"JOB"}
        /\ "POLL" \in (Gets \cup Posts) \ {"RECOVER"} /\ "POLL" \in (Gets \cup Posts) \ {"JOB"}
        /\ "JOB" \in (Gets \cup Posts) \ {"RECOVER"} /\ "JOB" \in (Gets \cup Posts) \ {"POLL"}
    BY DEF Gets
  <2> QED
    BY <1>1, <1>2, <1>3, <2>1 DEF OthersStay
<1>8. \A a, b, k : Kind(a, k) = Kind(b, k) => Of(a, k) = Of(b, k)
  BY DEF Kind, Of
<1>9. RecoveryRan(p, q, reqs, out3)
  BY <1>1, <1>7, <1>8 DEF RecoveryRan, LeftOver
<1>10. PollRan(p, q, reqs, m3, out3)
  <2>1. FollowKey(m1) = FollowKey(q) /\ (Followed(m3) <=> Followed(m2)) /\ m3.url = m2.url
    BY <1>1, <1>3 DEF SameScreen, FollowKey, Followed, Waiting
  <2>2. CASE FollowKey(q) = FollowKey(p)
    BY <1>1, <1>2, <1>3, <1>7, <2>1, <2>2 DEF PollRan
  <2>3. CASE FollowKey(q) # FollowKey(p)
    <3>1. /\ LeftOver(out2, out1, "POLL") /\ PollFits(m2, out2)
          /\ \A r \in Of(out2, "POLL") : r.reply = NoReply
      BY <1>2, <2>1, <2>3 DEF PollRan
    <3>2. LeftOver(out3, reqs, "POLL")
      BY <3>1, <1>7 DEF LeftOver
    <3>3. PollFits(m3, out3)
      BY <3>1, <2>1, <1>3, <1>7, <1>8 DEF PollFits
    <3> QED
      BY <2>3, <3>1, <3>2, <3>3, <1>7, <1>8 DEF PollRan
  <2> QED
    BY <2>2, <2>3
<1>11. JobRan(p, q, reqs, m3, out3)
  <2>1. m2.job = q.job /\ m2.jobPoll = q.jobPoll
    BY <1>1, <1>2 DEF SameScreen
  <2> QED
    BY <2>1, <1>3, <1>7 DEF JobRan, LeftOver
<1> QED
  BY <1>3, <1>4, <1>5, <1>6, <1>9, <1>10, <1>11 DEF RenderedAs

-----------------------------------------------------------------------------
(* The page and its requests: typed, and what is awaited is polled.        *)
PageFits(p, reqs) ==
  WellFormedPage(p) /\ InFlight(reqs) /\ PollFits(p, reqs) /\ JobFits(p, reqs)

(* A page about to be rendered again: a poll whose dependencies stay must  *)
(* fit already.                                                            *)
Fits(p, q, reqs) ==
  /\ WellFormedPage(q) /\ InFlight(reqs)
  /\ FollowKey(q) = FollowKey(p) => PollFits(q, reqs)
  /\ q.job = p.job => JobFits(q, reqs)

LEMMA RenderingFits ==
  ASSUME NEW p, NEW q, NEW reqs, Fits(p, q, reqs),
         NEW m, NEW out, RenderedAs(p, q, reqs, m, out)
  PROVE  PageFits(m, out)
<1>1. WellFormedPage(m) /\ InFlight(out) /\ SameScreen(m, q)
      /\ PollRan(p, q, reqs, m, out) /\ JobRan(p, q, reqs, m, out)
  BY DEF RenderedAs
<1>2. \A a, b, k : Kind(a, k) = Kind(b, k) => Of(a, k) = Of(b, k)
  BY DEF Kind, Of
<1>3. /\ Followed(m) <=> Followed(q)
      /\ Importing(m) <=> Importing(q)
      /\ m.url = q.url /\ m.job = q.job
  BY <1>1 DEF SameScreen, Followed, Waiting, Importing
<1>4. PollFits(m, out)
  <2>1. CASE FollowKey(q) = FollowKey(p) /\ m.poll = q.poll /\ Kind(out, "POLL") = Kind(reqs, "POLL")
    BY <2>1, <1>2, <1>3 DEF Fits, PollFits
  <2> QED
    BY <2>1, <1>1 DEF PollRan
<1>5. JobFits(m, out)
  <2>1. CASE q.job = p.job /\ m.jobPoll = q.jobPoll /\ Kind(out, "JOB") = Kind(reqs, "JOB")
    BY <2>1, <1>2, <1>3 DEF Fits, JobFits
  <2> QED
    BY <2>1, <1>1 DEF JobRan
<1> QED
  BY <1>1, <1>4, <1>5 DEF PageFits

(* A handler that leaves the polls and their requests alone.               *)
LEMMA PollsUntouched ==
  ASSUME NEW p, NEW reqs, PageFits(p, reqs), NEW q, WellFormedPage(q), NEW new, InFlight(new),
         q.poll = p.poll, q.jobPoll = p.jobPoll,
         Of(new, "POLL") = Of(reqs, "POLL"), Of(new, "JOB") = Of(reqs, "JOB")
  PROVE  Fits(p, q, new)
<1>1. ASSUME FollowKey(q) = FollowKey(p) PROVE PollFits(q, new)
  BY <1>1 DEF FollowKey, PageFits, PollFits, Followed, Waiting
<1>2. ASSUME q.job = p.job PROVE JobFits(q, new)
  BY <1>2 DEF PageFits, JobFits, Importing
<1> QED
  BY <1>1, <1>2 DEF Fits

(* A get is answered by its poll, and by no other one.                     *)
LEMMA Awaited ==
  ASSUME NEW poller, NEW polls, IsFiniteSet(polls), Runs(poller, polls), NEW r \in polls
  PROVE  polls = {r} /\ poller.phase = "ASKING"
<1>1. polls # {} /\ poller.phase = "ASKING" /\ Cardinality(polls) = 1
  BY DEF Runs
<1> QED
  BY <1>1, FS_Singleton

-----------------------------------------------------------------------------
(* What a reply makes of the page.                                         *)
LEMMA ShowingIsAPage ==
  ASSUME NEW p, WellFormedPage(p), NEW r, WellFormed(r)
  PROVE  LET q == Showing(p, r)
         IN /\ WellFormedPage(q) /\ q.view = [of |-> r.reply.of, s |-> r.reply.s]
            /\ q.pollError = FALSE /\ q.url = p.url /\ q.job = p.job /\ q.busy = p.busy
            /\ q.poll = p.poll /\ q.jobPoll = p.jobPoll
<1>1. /\ p \in Page /\ r.reply.of \in Ids \cup {0} /\ Regular(r.reply.s)
      /\ r.reply.s \in Session /\ r.reply.of \in Nat
  BY Constants DEF WellFormedPage, WellFormed, Request, Reply
<1>2. [of |-> r.reply.of, s |-> r.reply.s] \in View
  BY <1>1 DEF View
<1> QED
  BY <1>1, <1>2 DEF Showing, Page, WellFormedPage

(* The poll goes to sleep, gives up, or was not the one awaited.           *)
LEMMA FailingPolls ==
  ASSUME NEW poller \in Poller, NEW r, WellFormed(r)
  PROVE  /\ PollFailed(poller, r) \in Poller
         /\ ~r.heard => PollFailed(poller, r) = poller
         /\ r.heard => Runs(PollFailed(poller, r), {}) /\ PollFailed(poller, r).phase # "OFF"
<1>1. r.failures \in Nat /\ MaxFailures \in Nat
  BY PageAssumption DEF WellFormed, Request
<1>2. CASE ~r.heard
  BY <1>2 DEF PollFailed
<1>3. CASE r.heard /\ r.failures + 1 >= MaxFailures
  BY <1>3, <1>1, OnePoll DEF PollFailed, GaveUp, Poller
<1>4. CASE r.heard /\ ~(r.failures + 1 >= MaxFailures)
  <2>1. PollFailed(poller, r) = Asleep(r.failures + 1)
    BY <1>4 DEF PollFailed
  <2> QED
    BY <2>1, <1>1, <1>4, OnePoll DEF Asleep, Poller
<1> QED
  BY <1>2, <1>3, <1>4

LEMMA WakingPolls ==
  /\ Asleep(0) \in Poller /\ Asleep(0).phase = "ASLEEP" /\ Runs(Asleep(0), {})
BY PageAssumption, OnePoll DEF Asleep, Poller

LEMMA PolledIsAPage ==
  ASSUME NEW p, WellFormedPage(p), NEW r, WellFormed(r)
  PROVE  LET q == Polled(p, r)
         IN /\ WellFormedPage(q) /\ q.url = p.url /\ q.job = p.job /\ q.busy = p.busy
            /\ q.jobPoll = p.jobPoll
            /\ q.view = IF r.reply.status = "OK" THEN [of |-> r.reply.of, s |-> r.reply.s] ELSE p.view
            /\ r.reply.status = "OK" => q.pollError = FALSE
            /\ ~r.heard => q.poll = p.poll
            /\ r.heard => Runs(q.poll, {}) /\ q.poll.phase # "OFF"
<1>1. p \in Page /\ p.poll \in Poller
  BY DEF WellFormedPage, Page
<1>2. CASE r.reply.status = "OK"
  <2> DEFINE t == Showing(p, r)
  <2>1. /\ WellFormedPage(t) /\ t.view = [of |-> r.reply.of, s |-> r.reply.s]
        /\ t.pollError = FALSE /\ t.url = p.url /\ t.job = p.job /\ t.busy = p.busy
        /\ t.poll = p.poll /\ t.jobPoll = p.jobPoll
    BY ShowingIsAPage
  <2>2. Polled(p, r) = [t EXCEPT !.poll = IF r.heard THEN Asleep(0) ELSE t.poll]
    BY <1>2 DEF Polled
  <2> HIDE DEF t
  <2> QED
    BY <1>1, <1>2, <2>1, <2>2, WakingPolls DEF WellFormedPage, Page
<1>3. CASE r.reply.status # "OK"
  <2> DEFINE t == Reported(p, r)
  <2>1. /\ WellFormedPage(t) /\ t.view = p.view /\ t.url = p.url /\ t.job = p.job
        /\ t.busy = p.busy /\ t.poll = p.poll /\ t.jobPoll = p.jobPoll
    BY <1>1 DEF Reported, WellFormedPage, Page
  <2>2. Polled(p, r) = [t EXCEPT !.poll = PollFailed(t.poll, r)]
    BY <1>3 DEF Polled
  <2>3. /\ PollFailed(t.poll, r) \in Poller
        /\ ~r.heard => PollFailed(t.poll, r) = t.poll
        /\ r.heard => Runs(PollFailed(t.poll, r), {}) /\ PollFailed(t.poll, r).phase # "OFF"
    BY <1>1, <2>1, FailingPolls
  <2> HIDE DEF t
  <2> QED
    BY <1>1, <1>3, <2>1, <2>2, <2>3 DEF WellFormedPage, Page
<1> QED
  BY <1>2, <1>3

LEMMA JobPolledIsAPage ==
  ASSUME NEW p, WellFormedPage(p), NEW r, WellFormed(r), r.kind = "JOB"
  PROVE  LET q == JobPolled(p, r)
         IN /\ WellFormedPage(q) /\ q.url = p.url /\ q.view = p.view /\ q.busy = p.busy
            /\ q.poll = p.poll
            /\ q.job = IF r.reply.status = "OK" THEN [id |-> r.arg, status |-> r.reply.job] ELSE p.job
            /\ r.reply.status = "OK" => q.pollError = p.pollError
            /\ ~r.heard => q.jobPoll = p.jobPoll
            /\ r.heard => Runs(q.jobPoll, {}) /\ q.jobPoll.phase # "OFF"
<1>1. p \in Page /\ p.jobPoll \in Poller
  BY DEF WellFormedPage, Page
<1>2. CASE r.reply.status = "OK"
  <2>1. JobPolled(p, r) = [p EXCEPT !.job = [id |-> r.arg, status |-> r.reply.job],
                                    !.jobPoll = IF r.heard THEN Asleep(0) ELSE p.jobPoll]
    BY <1>2 DEF JobPolled
  <2>2. r.arg \in Jobs /\ r.arg \in Nat /\ r.reply.job \in JobStates
    BY DEF WellFormed, Request, Reply
  <2> DEFINE job == [id |-> r.arg, status |-> r.reply.job]
             poll == IF r.heard THEN Asleep(0) ELSE p.jobPoll
             q == JobPolled(p, r)
  <2>3. job \in [id : Nat, status : JobStates] /\ job.id = r.arg
    BY <2>2
  <2>4. poll \in Poller
    BY <1>1, WakingPolls
  <2> HIDE DEF job, poll
  <2>5. q = [p EXCEPT !.job = job, !.jobPoll = poll]
    BY <2>1 DEF job, poll
  <2>6. /\ q \in Page /\ q.url = p.url /\ q.view = p.view /\ q.version = p.version
        /\ q.poll = p.poll /\ q.job = job /\ q.jobPoll = poll
    BY <1>1, <2>3, <2>4, <2>5 DEF Page
  <2>7. q.busy = p.busy
    BY <1>1, <2>5 DEF Page
  <2>8. q.pollError = p.pollError
    BY <1>1, <2>5 DEF Page
  <2> HIDE DEF q
  <2>9. WellFormedPage(q)
    BY <2>2, <2>3, <2>6 DEF WellFormedPage
  <2> QED
    BY <1>2, <2>6, <2>7, <2>8, <2>9, WakingPolls DEF job, poll, q
<1>3. CASE r.reply.status # "OK"
  <2> DEFINE t == Reported(p, r)
  <2>1. /\ WellFormedPage(t) /\ t.view = p.view /\ t.url = p.url /\ t.job = p.job
        /\ t.busy = p.busy /\ t.poll = p.poll /\ t.jobPoll = p.jobPoll
    BY <1>1 DEF Reported, WellFormedPage, Page
  <2>2. JobPolled(p, r) = [t EXCEPT !.jobPoll = PollFailed(t.jobPoll, r)]
    BY <1>3 DEF JobPolled
  <2>3. /\ PollFailed(t.jobPoll, r) \in Poller
        /\ ~r.heard => PollFailed(t.jobPoll, r) = t.jobPoll
        /\ r.heard => Runs(PollFailed(t.jobPoll, r), {}) /\ PollFailed(t.jobPoll, r).phase # "OFF"
    BY <1>1, <2>1, FailingPolls
  <2> HIDE DEF t
  <2> QED
    BY <1>1, <1>3, <2>1, <2>2, <2>3 DEF WellFormedPage, Page
<1> QED
  BY <1>2, <1>3

(* The other replies leave the polls alone.                                *)
SamePolls(q, p) == q.poll = p.poll /\ q.jobPoll = p.jobPoll

Shows(q, r) == q.view = [of |-> r.reply.of, s |-> r.reply.s]

LEMMA RecoveredIsAPage ==
  ASSUME NEW p, WellFormedPage(p), NEW r, WellFormed(r)
  PROVE  LET q == Recovered(p, r)
         IN /\ WellFormedPage(q) /\ SamePolls(q, p) /\ q.busy = p.busy
            /\ \/ q = p
               \/ r.heard /\ r.reply.status = "OK" /\ q.url = p.url /\ Shows(q, r) /\ q.pollError = FALSE
               \/ r.heard /\ r.reply.status = "NOT_FOUND" /\ q = [p EXCEPT !.url = 0]
<1>1. p \in Page
  BY DEF WellFormedPage
<1>2. CASE r.heard /\ r.reply.status = "OK"
  <2> DEFINE t == Showing(p, r)
             q == Recovered(p, r)
  <2>1. /\ WellFormedPage(t) /\ Shows(t, r)
        /\ t.pollError = FALSE /\ t.url = p.url /\ t.job = p.job /\ t.busy = p.busy
        /\ t.poll = p.poll /\ t.jobPoll = p.jobPoll
    BY ShowingIsAPage DEF Shows
  <2>2. q = [t EXCEPT !.project = TRUE, !.version = r.reply.arg]
    BY <1>2 DEF Recovered
  <2>3. r.reply.arg \in Jobs \cup {0} /\ r.reply.arg \in Nat
    BY Constants DEF WellFormed, Request, Reply
  <2> HIDE DEF t
  <2>4. /\ q \in Page /\ q.url = t.url /\ q.view = t.view /\ q.job = t.job
        /\ q.poll = t.poll /\ q.jobPoll = t.jobPoll /\ q.version = r.reply.arg
    BY <2>1, <2>2, <2>3 DEF WellFormedPage, Page
  <2>5. q.busy = t.busy
    BY <2>1, <2>2 DEF WellFormedPage, Page
  <2>6. q.pollError = t.pollError
    BY <2>1, <2>2 DEF WellFormedPage, Page
  <2> HIDE DEF q
  <2>7. WellFormedPage(q)
    BY <2>1, <2>3, <2>4 DEF WellFormedPage
  <2> QED
    BY <1>2, <2>1, <2>4, <2>5, <2>6, <2>7 DEF SamePolls, Shows, q
<1>3. CASE r.heard /\ r.reply.status = "NOT_FOUND"
  <2>1. Recovered(p, r) = [p EXCEPT !.url = 0]
    BY <1>3 DEF Recovered
  <2> QED
    BY <1>1, <1>3, <2>1 DEF WellFormedPage, Page, SamePolls
<1>4. CASE ~r.heard \/ r.reply.status \notin {"OK", "NOT_FOUND"}
  <2>1. Recovered(p, r) = p
    BY <1>4 DEF Recovered
  <2> QED
    BY <2>1 DEF SamePolls
<1> QED
  BY <1>2, <1>3, <1>4

LEMMA RefreshedIsAPage ==
  ASSUME NEW p, WellFormedPage(p), NEW r, WellFormed(r)
  PROVE  LET q == Refreshed(p, r)
         IN WellFormedPage(q) /\ SamePolls(q, p)
<1> DEFINE t == [p EXCEPT !.busy = p.busy /\ ~r.holds]
<1>1. WellFormedPage(t) /\ t.poll = p.poll /\ t.jobPoll = p.jobPoll
  BY DEF WellFormedPage, WellFormed, Request, Page
<1>2. Refreshed(p, r) = IF r.reply.status = "OK" THEN Showing(t, r) ELSE t
  BY DEF Refreshed
<1> HIDE DEF t
<1>3. /\ WellFormedPage(Showing(t, r)) /\ Showing(t, r).poll = t.poll
      /\ Showing(t, r).jobPoll = t.jobPoll
  BY <1>1, ShowingIsAPage
<1> QED
  BY <1>1, <1>2, <1>3 DEF SamePolls

LEMMA CommandedIsAPage ==
  ASSUME NEW p, WellFormedPage(p), NEW r, WellFormed(r)
  PROVE  LET q == Commanded(p, r)
         IN /\ WellFormedPage(q) /\ SamePolls(q, p) /\ q.url = p.url
            /\ r.reply.status = "OK" => q.busy = GoesOn(r) /\ Shows(q, r) /\ q.pollError = FALSE
            /\ r.reply.status = "CONFLICT" => q = p
            /\ r.reply.status \notin {"OK", "CONFLICT"} => q.view = p.view /\ q.pollError = p.pollError
<1>1. p \in Page
  BY DEF WellFormedPage
<1>2. CASE r.reply.status = "OK"
  <2> DEFINE t == Showing(p, r)
             goes == GoesOn(r)
  <2>1. /\ WellFormedPage(t) /\ Shows(t, r)
        /\ t.pollError = FALSE /\ t.url = p.url /\ t.job = p.job /\ t.busy = p.busy
        /\ t.poll = p.poll /\ t.jobPoll = p.jobPoll
    BY ShowingIsAPage DEF Shows
  <2>2. goes \in BOOLEAN
    BY DEF GoesOn
  <2>3. Commanded(p, r) = [t EXCEPT !.busy = goes]
    BY <1>2 DEF Commanded
  <2> HIDE DEF t, goes
  <2>4. Commanded(p, r).busy = goes
    BY <2>1, <2>2, <2>3 DEF WellFormedPage, Page
  <2>5. Commanded(p, r).pollError = FALSE
    BY <2>1, <2>2, <2>3 DEF WellFormedPage, Page
  <2>6. WellFormedPage(Commanded(p, r)) /\ SamePolls(Commanded(p, r), t)
        /\ Commanded(p, r).url = t.url /\ Commanded(p, r).view = t.view
    BY <2>1, <2>2, <2>3 DEF WellFormedPage, Page, SamePolls
  <2> QED
    BY <1>2, <2>1, <2>4, <2>5, <2>6 DEF SamePolls, Shows, goes
<1>3. CASE r.reply.status = "CONFLICT"
  BY <1>3 DEF Commanded, SamePolls
<1>4. CASE r.reply.status \notin {"OK", "CONFLICT"}
  <2>1. Commanded(p, r) = [p EXCEPT !.busy = FALSE]
    BY <1>4 DEF Commanded
  <2>2. Commanded(p, r).pollError = p.pollError
    BY <1>1, <2>1 DEF Page
  <2>3. /\ WellFormedPage(Commanded(p, r)) /\ SamePolls(Commanded(p, r), p)
        /\ Commanded(p, r).url = p.url /\ Commanded(p, r).view = p.view
    BY <1>1, <2>1 DEF WellFormedPage, Page, SamePolls
  <2> QED
    BY <1>4, <2>2, <2>3
<1> QED
  BY <1>2, <1>3, <1>4

LEMMA PreparedIsAPage ==
  ASSUME NEW p, WellFormedPage(p), NEW r, WellFormed(r)
  PROVE  LET q == Prepared(p, r)
         IN /\ WellFormedPage(q) /\ SamePolls(q, p) /\ q.pollError = p.pollError
            /\ \/ /\ r.kind \notin {"PROJECT", "UPLOAD"} /\ r.reply.status = "OK"
                  /\ Shows(q, r) /\ q.url = r.reply.of
               \/ /\ r.kind \in {"PROJECT", "UPLOAD"} \/ r.reply.status # "OK"
                  /\ q.view = p.view /\ q.url = p.url
<1> DEFINE t == [p EXCEPT !.busy = FALSE]
           q == Prepared(p, r)
           job == [id |-> r.reply.arg, status |-> "QUEUED"]
           view == [of |-> r.reply.of, s |-> r.reply.s]
<1>1. WellFormedPage(t) /\ t.view = p.view /\ t.url = p.url /\ SamePolls(t, p)
  BY DEF WellFormedPage, Page, SamePolls
<1>2. t.pollError = p.pollError
  BY DEF WellFormedPage, Page
<1>3. /\ r.reply.arg \in Jobs \cup {0} /\ r.reply.arg \in Nat /\ job.id = r.reply.arg
      /\ job \in [id : Nat, status : JobStates]
      /\ r.reply.of \in Ids \cup {0} /\ r.reply.of \in Nat
      /\ view \in View /\ view.of = r.reply.of /\ view.s = r.reply.s /\ Regular(r.reply.s)
  BY Constants DEF WellFormed, Request, Reply, JobStates, View
<1>4. \/ /\ q = t \/ q = [t EXCEPT !.project = TRUE]
            \/ q = [t EXCEPT !.version = r.reply.arg, !.job = job]
         /\ r.kind \in {"PROJECT", "UPLOAD"} \/ r.reply.status # "OK"
      \/ /\ q = [t EXCEPT !.view = view, !.url = r.reply.of]
         /\ r.kind \notin {"PROJECT", "UPLOAD"} /\ r.reply.status = "OK"
  BY DEF Prepared
<1> HIDE DEF t, q, job, view
<1>5. CASE q = t \/ q = [t EXCEPT !.project = TRUE]
  <2>1. WellFormedPage(q) /\ SamePolls(q, t) /\ q.view = t.view /\ q.url = t.url
    BY <1>1, <1>5 DEF WellFormedPage, Page, SamePolls
  <2>2. q.pollError = t.pollError
    BY <1>1, <1>5 DEF WellFormedPage, Page
  <2>3. WellFormedPage(q) /\ SamePolls(q, p) /\ q.view = p.view /\ q.url = p.url
        /\ q.pollError = p.pollError
    BY <2>1, <2>2, <1>1, <1>2 DEF SamePolls
  <2>4. CASE r.kind \in {"PROJECT", "UPLOAD"} \/ r.reply.status # "OK"
    BY <2>3, <2>4 DEF q
  <2>5. CASE /\ q = [t EXCEPT !.view = view, !.url = r.reply.of]
             /\ r.kind \notin {"PROJECT", "UPLOAD"} /\ r.reply.status = "OK"
    <3>1. q.view = view /\ q.url = r.reply.of
      BY <1>1, <1>3, <2>5 DEF WellFormedPage, Page
    <3> QED
      BY <2>3, <2>5, <3>1 DEF q, view, Shows
  <2> QED
    BY <1>4, <2>4, <2>5
<1>6. CASE /\ q = [t EXCEPT !.version = r.reply.arg, !.job = job]
           /\ r.kind \in {"PROJECT", "UPLOAD"} \/ r.reply.status # "OK"
  <2>1. /\ q \in Page /\ SamePolls(q, t) /\ q.view = t.view /\ q.url = t.url
        /\ q.version = r.reply.arg /\ q.job = job
    BY <1>1, <1>3, <1>6 DEF WellFormedPage, Page, SamePolls
  <2>2. q.pollError = t.pollError
    BY <1>1, <1>3, <1>6 DEF WellFormedPage, Page
  <2>3. WellFormedPage(q)
    BY <2>1, <1>1, <1>3 DEF WellFormedPage
  <2> QED
    BY <2>1, <2>2, <2>3, <1>1, <1>2, <1>6 DEF SamePolls, q
<1>7. CASE /\ q = [t EXCEPT !.view = view, !.url = r.reply.of]
           /\ r.kind \notin {"PROJECT", "UPLOAD"} /\ r.reply.status = "OK"
  <2>1. /\ q \in Page /\ SamePolls(q, t) /\ q.view = view /\ q.url = r.reply.of
        /\ q.version = t.version /\ q.job = t.job
    BY <1>1, <1>3, <1>7 DEF WellFormedPage, Page, SamePolls
  <2>2. q.pollError = t.pollError
    BY <1>1, <1>3, <1>7 DEF WellFormedPage, Page
  <2>3. WellFormedPage(q)
    BY <2>1, <1>1, <1>3 DEF WellFormedPage
  <2> QED
    BY <2>1, <2>2, <2>3, <1>1, <1>2, <1>7 DEF SamePolls, Shows, q, view
<1> QED
  BY <1>4, <1>5, <1>6, <1>7

LEMMA HeardIsAPage ==
  ASSUME NEW p, WellFormedPage(p), NEW r, WellFormed(r)
  PROVE  /\ WellFormedPage(Heard(p, r))
         /\ r.kind \notin {"POLL", "JOB"} => SamePolls(Heard(p, r), p)
<1>1. r.kind \in Gets \cup Posts
  BY DEF WellFormed, Request
<1>2. CASE r.kind = "RECOVER"
  BY <1>2, RecoveredIsAPage DEF Heard
<1>3. CASE r.kind = "POLL"
  BY <1>3, PolledIsAPage DEF Heard
<1>4. CASE r.kind = "JOB"
  BY <1>4, JobPolledIsAPage DEF Heard
<1>5. CASE r.kind = "REFRESH"
  BY <1>5, RefreshedIsAPage DEF Heard
<1>6. CASE r.kind = "COMMAND"
  BY <1>6, CommandedIsAPage DEF Heard
<1>7. CASE r.kind \in {"PROJECT", "UPLOAD", "CREATE"}
  <2>1. Heard(p, r) = Prepared(p, r)
    BY <1>7 DEF Heard
  <2> QED
    BY <1>7, <2>1, PreparedIsAPage
<1> QED
  BY <1>1, <1>2, <1>3, <1>4, <1>5, <1>6, <1>7 DEF Gets, Posts

-----------------------------------------------------------------------------
(* What is asked for with more than a session.                             *)
LEMMA SayingIsTyped ==
  ASSUME NEW of \in Ids, NEW c \in Commands, NEW view \in View,
         c.event \in PointerCommands => c.arg = view.s.current
  PROVE  LET r == Say(of, c, view)
         IN /\ WellFormed(r) /\ r.kind = "COMMAND" /\ r.of = of /\ r.cmd = c /\ r.shown = view
            /\ r.heard = TRUE /\ r.reply = NoReply
<1> DEFINE r == Say(of, c, view)
<1>1. /\ r.kind = "COMMAND" /\ r.of = of /\ r.arg = 0 /\ r.heard = TRUE /\ r.reply = NoReply
      /\ r.cmd = c /\ r.shown = view
  BY DEF Say, Ask
<1>2. NoSession \in Session /\ Regular(NoSession)
  BY FirstSessions, FirstSessionsAreRegular
<1>3. /\ NoReply \in Reply /\ NoReply.s = NoSession /\ NoReply.of = 0 /\ NoReply.arg = 0
      /\ NoReply.status = "NONE"
  BY <1>2 DEF NoReply, Reply, JobStates
<1>4. r \in Request
  BY <1>3, Constants DEF Say, Ask, Request, Posts
<1> HIDE DEF r
<1> QED
  BY <1>1, <1>2, <1>3, <1>4 DEF WellFormed, Aimed, r

LEMMA HoldingIsTyped ==
  ASSUME NEW r, WellFormed(r)
  PROVE  LET q == [r EXCEPT !.holds = TRUE]
         IN WellFormed(q) /\ q.kind = r.kind /\ q.of = r.of /\ q.reply = r.reply
<1> DEFINE q == [r EXCEPT !.holds = TRUE]
<1>1. /\ q \in Request /\ q.kind = r.kind /\ q.of = r.of /\ q.arg = r.arg /\ q.cmd = r.cmd
      /\ q.shown = r.shown /\ q.reply = r.reply
  BY DEF WellFormed, Request
<1> HIDE DEF q
<1> QED
  BY <1>1 DEF WellFormed, Aimed, q

LEMMA CountingIsTyped ==
  ASSUME NEW r, WellFormed(r), NEW n \in Nat
  PROVE  LET q == [r EXCEPT !.failures = n]
         IN /\ WellFormed(q) /\ q.kind = r.kind /\ q.of = r.of /\ q.arg = r.arg
            /\ q.reply = r.reply /\ q.heard = r.heard /\ q.failures = n
<1> DEFINE q == [r EXCEPT !.failures = n]
<1>1. /\ q \in Request /\ q.kind = r.kind /\ q.of = r.of /\ q.arg = r.arg /\ q.cmd = r.cmd
      /\ q.shown = r.shown /\ q.reply = r.reply /\ q.heard = r.heard /\ q.failures = n
  BY DEF WellFormed, Request
<1> HIDE DEF q
<1> QED
  BY <1>1 DEF WellFormed, Aimed, q

(* What a button sends names the question on the screen.                   *)
LEMMA OffersAreCommands ==
  ASSUME NEW s, Regular(s), NEW c \in Offered(s)
  PROVE  c \in Commands /\ (c.event \in PointerCommands => c.arg = s.current)
<1>1. s \in Session /\ s.current \in 0..MaxQuestions /\ s.directions \subseteq Directions
  BY DEF Regular, Session
<1>2. ASSUME s.state \in PointerStates PROVE s.current \in 1..MaxQuestions
  <2>1. ResumeState(s) = s.state
    BY <1>2 DEF ResumeState, PointerStates, FailureStates
  <2>2. s.current # 0
    BY <1>2, <2>1 DEF Regular, Consistent, PointerConsistent
  <2> QED
    BY <1>1, <2>2, SessionAssumption
<1>3. CASE s.state = "AWAITING_DIRECTION_SELECTION"
  <2>1. c \in [event : {"SELECT_DIRECTION"}, arg : s.directions]
    BY <1>3 DEF Offered
  <2> QED
    BY <2>1, <1>1 DEF Commands, PointerCommands
<1>4. CASE s.state = "ROUTE_LOCKED"
  <2>1. c = [event |-> "START_STAGE", arg |-> 0]
    BY <1>4 DEF Offered
  <2> QED
    BY <2>1 DEF Commands, PointerCommands
<1>5. CASE s.state = "AWAITING_ANSWER"
  <2>1. c \in [event : {"SUBMIT_ANSWER", "SKIP_QUESTION"}, arg : {s.current}]
    BY <1>5 DEF Offered
  <2> QED
    BY <2>1, <1>2, <1>5 DEF Commands, PointerCommands, PointerStates
<1>6. CASE s.state = "FEEDBACK_READY"
  <2>1. c \in [event : {"EDIT_ANSWER", "CONFIRM_QUESTION"}, arg : {s.current}]
    BY <1>6 DEF Offered
  <2> QED
    BY <2>1, <1>2, <1>6 DEF Commands, PointerCommands, PointerStates
<1>7. CASE s.state = "QUESTION_COMPLETED"
  <2>1. c = [event |-> "ADVANCE_QUESTION", arg |-> s.current]
    BY <1>7 DEF Offered
  <2> QED
    BY <2>1, <1>2, <1>7 DEF Commands, PointerCommands, PointerStates
<1>8. CASE s.state = "RETRYABLE_FAILURE"
  <2>1. c = [event |-> "RETRY", arg |-> 0]
    BY <1>8 DEF Offered
  <2> QED
    BY <2>1 DEF Commands, PointerCommands
<1> QED
  BY <1>3, <1>4, <1>5, <1>6, <1>7, <1>8 DEF Offered

LEMMA LeavingIsTyped ==
  ASSUME NEW reqs, InFlight(reqs), NEW r
  PROVE  InFlight(reqs \ {r})
BY FS_RemoveElement DEF InFlight

(* A handler goes on with at most one request, which is no poll.           *)
Continues(base, r, out) ==
  \/ out = base /\ ~GoesOn(r) /\ ~(r.kind = "COMMAND" /\ r.reply.status = "CONFLICT")
  \/ /\ GoesOn(r)
     /\ \E new : /\ out = base \cup {new} /\ new \notin base /\ new.kind = "COMMAND"
                 /\ new.of = r.of /\ new.reply = NoReply /\ new.heard = TRUE
  \/ /\ r.kind = "COMMAND" /\ r.reply.status = "CONFLICT"
     /\ \E new : out = base \cup {new} /\ new.kind = "REFRESH"

LEMMA SequelsAreTyped ==
  ASSUME NEW base, InFlight(base), NEW r, WellFormed(r)
  PROVE  InFlight(Sequel(base, r)) /\ Continues(base, r, Sequel(base, r))
<1> DEFINE out == Sequel(base, r)
<1>1. CASE GoesOn(r)
  <2> DEFINE c == [event |-> "ADVANCE_QUESTION", arg |-> r.cmd.arg]
             view == [of |-> r.reply.of, s |-> r.reply.s]
             say == Say(r.of, c, view)
  <2>1. out = Sent(base, say)
    BY <1>1 DEF Sequel, GoesOn
  <2>2. /\ r.kind = "COMMAND" /\ r.cmd.event = "CONFIRM_QUESTION" /\ r.reply.status = "OK"
        /\ r.cmd \in Commands /\ Aimed(r) /\ r.of \in Ids
    BY <1>1 DEF GoesOn, WellFormed
  <2>3. c \in Commands
    BY <2>2 DEF Commands, PointerCommands
  <2>4. view \in View /\ view.s = r.reply.s /\ c.arg = r.cmd.arg
    BY DEF WellFormed, Request, Reply, View
  <2>5. c.arg = view.s.current
    BY <2>2, <2>4 DEF Aimed
  <2>51. c.event \in PointerCommands => c.arg = view.s.current
    BY <2>5
  <2>52. r.of \in Ids
    BY <2>2
  <2> HIDE DEF c, view
  <2>6. WellFormed(say)
    BY <2>3, <2>4, <2>51, <2>52, SayingIsTyped
  <2>61. say.kind = "COMMAND" /\ say.of = r.of /\ say.reply = NoReply /\ say.heard = TRUE
    BY DEF Say, Ask
  <2> HIDE DEF say
  <2>7. InFlight(out) /\ \E new : SentAs(base, say, new)
    BY <2>1, <2>6, SendingIsTyped
  <2>8. PICK new : SentAs(base, say, new)
    BY <2>7
  <2>9. /\ out = base \cup {new} /\ new \notin base /\ new.kind = "COMMAND"
        /\ new.of = r.of /\ new.reply = NoReply /\ new.heard = TRUE
    BY <2>1, <2>61, <2>8 DEF SentAs, SameRequest
  <2> QED
    BY <1>1, <2>7, <2>9 DEF Continues
<1>2. CASE r.kind = "COMMAND" /\ r.reply.status = "CONFLICT"
  <2> DEFINE ask == Ask("REFRESH", r.of)
             again == [ask EXCEPT !.holds = TRUE]
  <2>0. ~GoesOn(r)
    BY <1>2 DEF GoesOn
  <2>1. out = Sent(base, again)
    BY <1>2, <2>0 DEF Sequel
  <2>2. WellFormed(ask) /\ ask.kind = "REFRESH"
    BY <1>2, Asking1 DEF WellFormed
  <2> HIDE DEF ask
  <2>3. WellFormed(again) /\ again.kind = "REFRESH"
    BY <2>2, HoldingIsTyped
  <2> HIDE DEF again
  <2>4. InFlight(out) /\ \E new : SentAs(base, again, new)
    BY <2>1, <2>3, SendingIsTyped
  <2> QED
    BY <1>2, <2>1, <2>3, <2>4 DEF SentAs, SameRequest, Continues
<1>3. CASE ~GoesOn(r) /\ ~(r.kind = "COMMAND" /\ r.reply.status = "CONFLICT")
  BY <1>3 DEF Sequel, Continues
<1> QED
  BY <1>1, <1>2, <1>3

LEMMA SequelsAreNoPolls ==
  ASSUME NEW base, NEW r, NEW out, Continues(base, r, out),
         NEW kind, kind \notin {"COMMAND", "REFRESH"}
  PROVE  Kind(out, kind) = Kind(base, kind) /\ Of(out, kind) = Of(base, kind)
BY DEF Continues, Kind, Of

(* Whatever a reply makes of the page, the polls it is left with fit.      *)
LEMMA HearingFits ==
  ASSUME NEW p, NEW reqs, PageFits(p, reqs), NEW r \in reqs
  PROVE  Fits(p, Heard(p, r), Sequel(reqs \ {r}, r))
<1> DEFINE base == reqs \ {r}
           q == Heard(p, r)
           out == Sequel(base, r)
<1>1. /\ WellFormedPage(p) /\ InFlight(reqs) /\ WellFormed(r) /\ InFlight(base)
      /\ IsFiniteSet(Of(reqs, "POLL")) /\ IsFiniteSet(Of(reqs, "JOB"))
  BY LeavingIsTyped, FS_Subset DEF PageFits, InFlight, Of
<1>2. InFlight(out) /\ Continues(base, r, out)
  BY <1>1, SequelsAreTyped
<1>3. WellFormedPage(q) /\ (r.kind \notin {"POLL", "JOB"} => SamePolls(q, p))
  BY <1>1, HeardIsAPage
<1>4. /\ Of(out, "POLL") = Of(reqs, "POLL") \ {r}
      /\ Of(out, "JOB") = Of(reqs, "JOB") \ {r}
  BY <1>2, SequelsAreNoPolls DEF Of
<1>5. CASE r.kind \notin {"POLL", "JOB"}
  <2>1. Of(out, "POLL") = Of(reqs, "POLL") /\ Of(out, "JOB") = Of(reqs, "JOB")
    BY <1>4, <1>5 DEF Of
  <2> QED
    BY <1>2, <1>3, <1>5, <2>1, PollsUntouched DEF SamePolls
<1>6. CASE r.kind = "POLL"
  <2>1. q = Polled(p, r)
    BY <1>6 DEF Heard
  <2>2. /\ q.url = p.url /\ q.job = p.job /\ q.jobPoll = p.jobPoll
        /\ ~r.heard => q.poll = p.poll
        /\ r.heard => Runs(q.poll, {}) /\ q.poll.phase # "OFF"
    <3> HIDE DEF q
    <3>1. q = Polled(p, r)
      BY <2>1 DEF q
    <3> QED
      BY <1>1, <3>1, PolledIsAPage
  <2>3. Of(out, "JOB") = Of(reqs, "JOB")
    BY <1>4, <1>6 DEF Of
  <2>4. CASE ~r.heard
    <3>1. Of(out, "POLL") = Of(reqs, "POLL")
      BY <1>4, <2>4 DEF Of
    <3> QED
      BY <1>2, <1>3, <2>2, <2>3, <2>4, <3>1, PollsUntouched
  <2>5. CASE r.heard
    <3>1. r \in Of(reqs, "POLL")
      BY <1>6, <2>5 DEF Of
    <3>2. Of(reqs, "POLL") = {r} /\ p.poll.phase = "ASKING" /\ Followed(p)
      BY <1>1, <3>1, Awaited DEF PageFits, PollFits
    <3>3. Of(out, "POLL") = {}
      BY <1>4, <3>2
    <3>4. FollowKey(q) = FollowKey(p) => Followed(q)
      BY <3>2 DEF FollowKey, Followed, Waiting
    <3>5. FollowKey(q) = FollowKey(p) => PollFits(q, out)
      BY <2>2, <2>5, <3>3, <3>4 DEF PollFits
    <3>6. JobFits(q, out)
      BY <2>2, <2>3 DEF PageFits, JobFits, Importing
    <3> QED
      BY <1>2, <1>3, <3>5, <3>6 DEF Fits
  <2> QED
    BY <2>4, <2>5
<1>7. CASE r.kind = "JOB"
  <2>1. q = JobPolled(p, r)
    BY <1>7 DEF Heard
  <2>2. /\ q.url = p.url /\ q.view = p.view /\ q.poll = p.poll
        /\ ~r.heard => q.jobPoll = p.jobPoll
        /\ r.heard => Runs(q.jobPoll, {}) /\ q.jobPoll.phase # "OFF"
    <3> HIDE DEF q
    <3>1. q = JobPolled(p, r)
      BY <2>1 DEF q
    <3> QED
      BY <1>1, <1>7, <3>1, JobPolledIsAPage
  <2>3. Of(out, "POLL") = Of(reqs, "POLL")
    BY <1>4, <1>7 DEF Of
  <2>4. CASE ~r.heard
    <3>1. Of(out, "JOB") = Of(reqs, "JOB")
      BY <1>4, <2>4 DEF Of
    <3> QED
      BY <1>2, <1>3, <2>2, <2>3, <2>4, <3>1, PollsUntouched
  <2>5. CASE r.heard
    <3>1. r \in Of(reqs, "JOB")
      BY <1>7, <2>5 DEF Of
    <3>2. Of(reqs, "JOB") = {r} /\ p.jobPoll.phase = "ASKING" /\ Importing(p)
      BY <1>1, <3>1, Awaited DEF PageFits, JobFits
    <3>3. Of(out, "JOB") = {}
      BY <1>4, <3>2
    <3>4. q.job = p.job => Importing(q)
      BY <3>2 DEF Importing
    <3>5. q.job = p.job => JobFits(q, out)
      BY <2>2, <2>5, <3>3, <3>4 DEF JobFits
    <3>6. PollFits(q, out)
      BY <2>2, <2>3 DEF PageFits, PollFits, Followed, Waiting
    <3> QED
      BY <1>2, <1>3, <3>5, <3>6 DEF Fits
  <2> QED
    BY <2>4, <2>5
<1> QED
  BY <1>5, <1>6, <1>7

-----------------------------------------------------------------------------
(* The steps of the page.                                                  *)
LEMMA Becoming ==
  ASSUME NEW q, NEW reqs, Fits(page, q, reqs), Becomes(q, reqs)
  PROVE  RenderedAs(page, q, reqs, page', requests') /\ PageFits(page', requests')
<1>1. PICK m, out : RenderedAs(page, q, reqs, m, out)
  BY Rendering DEF Fits
<1>2. page' = m /\ requests' = out
  BY <1>1 DEF Becomes, RenderedAs
<1> QED
  BY <1>1, <1>2, RenderingFits

(* A page that has just been mounted has no polls yet.                     *)
LEMMA FirstPages ==
  ASSUME NEW url \in Ids \cup {0}, NEW reqs, InFlight(reqs),
         Of(reqs, "POLL") = {}, Of(reqs, "JOB") = {}
  PROVE  Fits(Mounted(0), Mounted(url), reqs)
<1> DEFINE q == Mounted(url)
<1>1. NoView \in View /\ Regular(NoView.s) /\ NoView.of = 0
  BY FirstSessions, FirstSessionsAreRegular DEF NoView, View
<1>2. WellFormedPage(q)
  BY <1>1, Constants DEF WellFormedPage, Page, Mounted, JobStates, Poller, Off
<1>3. /\ ~Followed(q) /\ ~Importing(q) /\ q.poll = Off /\ q.jobPoll = Off /\ Off.phase = "OFF"
  BY DEF Followed, Waiting, Importing, Mounted, NoView, NoSession, PendingStates, Off
<1>4. PollFits(q, reqs) /\ JobFits(q, reqs)
  BY <1>3, OnePoll DEF PollFits, JobFits
<1> QED
  BY <1>2, <1>4 DEF Fits

LEMMA NothingInFlight == InFlight({}) /\ \A kind : Of({}, kind) = {}
BY FS_EmptySet DEF InFlight, Of

LEMMA OrphansAreTyped ==
  ASSUME InFlight(requests)
  PROVE  InFlight(Orphans) /\ \A kind : Of(Orphans, kind) = {}
<1> DEFINE old == {q \in requests : q.kind \in Posts /\ Unserved(q)}
           g(r) == [r EXCEPT !.heard = FALSE]
           f == [r \in old |-> g(r)]
<1>1. f \in Surjection(old, Orphans)
  BY DEF Surjection, Orphans
<1>2. IsFiniteSet(old)
  BY FS_Subset DEF InFlight
<1>3. IsFiniteSet(Orphans)
  BY <1>1, <1>2, FS_Surjection
<1>4. \A r \in old : WellFormed(g(r)) /\ g(r).no = r.no /\ g(r).heard = FALSE
  BY Unlistened DEF InFlight
<1>5. Orphans = {g(r) : r \in old}
  BY DEF Orphans
<1>6. \A r, q \in old : r.no = q.no => r = q
  BY DEF InFlight
<1> HIDE DEF g, old
<1> QED
  BY <1>3, <1>4, <1>5, <1>6 DEF InFlight, Of

(* A handler of the page that sends something other than a poll.           *)
LEMMA SendingFits ==
  ASSUME NEW p, NEW reqs, PageFits(p, reqs), NEW q, WellFormedPage(q), SamePolls(q, p),
         NEW r, WellFormed(r), r.kind \notin {"POLL", "JOB"}
  PROVE  Fits(p, q, Sent(reqs, r))
<1> DEFINE out == Sent(reqs, r)
<1>1. InFlight(out) /\ \E new : SentAs(reqs, r, new)
  BY SendingIsTyped DEF PageFits
<1>2. PICK new : SentAs(reqs, r, new)
  BY <1>1
<1>3. out = reqs \cup {new} /\ new.kind \notin {"POLL", "JOB"}
  BY <1>2 DEF SentAs, SameRequest
<1> HIDE DEF out
<1>4. Of(out, "POLL") = Of(reqs, "POLL") /\ Of(out, "JOB") = Of(reqs, "JOB")
  BY <1>3 DEF Of
<1>5. Fits(p, q, out)
  BY <1>1, <1>4, PollsUntouched DEF SamePolls
<1> QED
  BY <1>5 DEF out

LEMMA Busy ==
  ASSUME NEW p, WellFormedPage(p)
  PROVE  LET q == [p EXCEPT !.busy = TRUE]
         IN /\ WellFormedPage(q) /\ SamePolls(q, p) /\ q.busy = TRUE
            /\ q.url = p.url /\ q.view = p.view /\ q.pollError = p.pollError
<1> DEFINE q == [p EXCEPT !.busy = TRUE]
<1>1. WellFormedPage(q) /\ SamePolls(q, p) /\ q.url = p.url /\ q.view = p.view
  BY DEF WellFormedPage, Page, SamePolls
<1>2. q.busy = TRUE
  BY DEF WellFormedPage, Page
<1>3. q.pollError = p.pollError
  BY DEF WellFormedPage, Page
<1> QED
  BY <1>1, <1>2, <1>3

LEMMA Posting ==
  /\ \A kind \in {"PROJECT", "UPLOAD"} :
       WellFormed(Ask(kind, 0)) /\ Ask(kind, 0).kind = kind /\ Ask(kind, 0).reply = NoReply
       /\ Ask(kind, 0).heard = TRUE
  /\ \A job \in Jobs : LET r == [Ask("CREATE", 0) EXCEPT !.arg = job]
                       IN WellFormed(r) /\ r.kind = "CREATE" /\ r.reply = NoReply /\ r.heard = TRUE
<1>1. NoSession \in Session /\ Regular(NoSession)
  BY FirstSessions, FirstSessionsAreRegular
<1>2. /\ NoReply \in Reply /\ NoReply.s = NoSession /\ NoReply.of = 0 /\ NoReply.arg = 0
      /\ NoView \in View
  BY <1>1 DEF NoReply, Reply, NoView, View, JobStates
<1>3. ASSUME NEW kind \in {"PROJECT", "UPLOAD"} PROVE WellFormed(Ask(kind, 0))
  <2> DEFINE r == Ask(kind, 0)
  <2>1. r.kind = kind /\ r.reply = NoReply
    BY DEF Ask
  <2>2. r \in Request
    BY <1>2 DEF Ask, Request, Posts
  <2> HIDE DEF r
  <2> QED
    BY <1>1, <1>2, <2>1, <2>2 DEF WellFormed, r
<1>4. ASSUME NEW job \in Jobs PROVE WellFormed([Ask("CREATE", 0) EXCEPT !.arg = job])
  <2> DEFINE r == [Ask("CREATE", 0) EXCEPT !.arg = job]
  <2>1. r.kind = "CREATE" /\ r.reply = NoReply /\ r.arg = job
    BY DEF Ask
  <2>2. r \in Request
    BY <1>2, Constants DEF Ask, Request, Posts
  <2> HIDE DEF r
  <2> QED
    BY <1>1, <1>2, <2>1, <2>2 DEF WellFormed, r
<1> QED
  BY <1>3, <1>4 DEF Ask

(* What the reader sends: one post, and the page is busy.                  *)
Submits(r) ==
  /\ Submit(r) /\ WellFormed(r) /\ r.kind \in Posts /\ r.reply = NoReply /\ r.heard = TRUE
  /\ r.kind = "CREATE" => page.view = NoView
  /\ r.kind = "COMMAND" => r.of = page.url /\ page.view # NoView /\ ~Waiting(page)

LEMMA SubmittingIsTyped ==
  ASSUME WellFormedPage(page), CreateProject \/ UploadPdf \/ CreateSession \/ SendCommand
  PROVE  \E r : Submits(r)
<1>1. CASE CreateProject
  <2> DEFINE r == Ask("PROJECT", 0)
  <2>1. WellFormed(r) /\ r.kind = "PROJECT" /\ r.reply = NoReply /\ r.heard = TRUE
    BY Posting
  <2>2. Submit(r)
    BY <1>1 DEF CreateProject
  <2> HIDE DEF r
  <2> QED
    BY <2>1, <2>2 DEF Submits, Posts
<1>2. CASE UploadPdf
  <2> DEFINE r == Ask("UPLOAD", 0)
  <2>1. WellFormed(r) /\ r.kind = "UPLOAD" /\ r.reply = NoReply /\ r.heard = TRUE
    BY Posting
  <2>2. Submit(r)
    BY <1>2 DEF UploadPdf
  <2> HIDE DEF r
  <2> QED
    BY <2>1, <2>2 DEF Submits, Posts
<1>3. CASE CreateSession
  <2> DEFINE r == [Ask("CREATE", 0) EXCEPT !.arg = page.version]
  <2>1. page.version \in Jobs
    BY <1>3 DEF CreateSession, WellFormedPage
  <2>2. WellFormed(r) /\ r.kind = "CREATE" /\ r.reply = NoReply /\ r.heard = TRUE
    BY <2>1, Posting
  <2>3. Submit(r) /\ page.view = NoView
    BY <1>3 DEF CreateSession
  <2> HIDE DEF r
  <2> QED
    BY <2>2, <2>3 DEF Submits, Posts
<1>4. CASE SendCommand
  <2>1. PICK c \in Offered(page.view.s) : Submit(Say(page.url, c, page.view))
    BY <1>4 DEF SendCommand
  <2> DEFINE r == Say(page.url, c, page.view)
  <2>2. page.url \in Ids /\ page.view \in View /\ Regular(page.view.s)
    BY <1>4 DEF SendCommand, WellFormedPage, Page
  <2>3. c \in Commands /\ (c.event \in PointerCommands => c.arg = page.view.s.current)
    BY <2>2, OffersAreCommands
  <2>4. WellFormed(r)
    BY <2>2, <2>3, SayingIsTyped
  <2>5. r.kind = "COMMAND" /\ r.of = page.url /\ r.reply = NoReply /\ r.heard = TRUE
    BY DEF Say, Ask
  <2>6. page.view.s.state \notin PendingStates \cup {"ABSENT"}
    BY DEF Offered, PendingStates
  <2>7. page.view # NoView /\ ~Waiting(page)
    BY <2>6 DEF Waiting, NoView, NoSession
  <2> HIDE DEF r
  <2> QED
    BY <2>1, <2>4, <2>5, <2>7 DEF Submits, Posts, r
<1> QED
  BY <1>1, <1>2, <1>3, <1>4

(* The page a step of the reader renders, and the requests it leaves.      *)
LEMMA SubmittingFits ==
  ASSUME PageFits(page, requests), NEW r, Submits(r)
  PROVE  Fits(page, [page EXCEPT !.busy = TRUE], Sent(requests, r))
<1>1. WellFormedPage([page EXCEPT !.busy = TRUE]) /\ SamePolls([page EXCEPT !.busy = TRUE], page)
  BY Busy DEF PageFits
<1>2. WellFormed(r) /\ r.kind \notin {"POLL", "JOB"}
  BY DEF Submits, Posts
<1> QED
  BY <1>1, <1>2, SendingFits

LEMMA RefreshingFits ==
  ASSUME PageFits(page, requests), RefreshSession
  PROVE  Fits(page, page, Sent(requests, Ask("REFRESH", page.url)))
<1>1. WellFormed(Ask("REFRESH", page.url)) /\ Ask("REFRESH", page.url).kind = "REFRESH"
  BY Asking1 DEF RefreshSession, PageFits, WellFormedPage
<1>2. WellFormedPage(page) /\ SamePolls(page, page)
  BY DEF PageFits, SamePolls
<1> QED
  BY <1>1, <1>2, SendingFits

LEMMA ResettingFits ==
  ASSUME PageFits(page, requests)
  PROVE  Fits(page, [page EXCEPT !.url = 0, !.view = NoView, !.pollError = FALSE], requests)
<1> DEFINE q == [page EXCEPT !.url = 0, !.view = NoView, !.pollError = FALSE]
<1>1. NoView \in View /\ Regular(NoView.s) /\ NoView.of = 0
  BY FirstSessions, FirstSessionsAreRegular DEF NoView, View
<1>2. WellFormedPage(q) /\ q.poll = page.poll /\ q.jobPoll = page.jobPoll
  BY <1>1 DEF PageFits, WellFormedPage, Page
<1> HIDE DEF q
<1>3. Fits(page, q, requests)
  BY <1>2, PollsUntouched DEF PageFits
<1> QED
  BY <1>3 DEF q

LEMMA ReloadingFits ==
  ASSUME PageFits(page, requests), Reload
  PROVE  /\ Fits(Mounted(0), Mounted(page.url), Orphans)
         /\ RenderedAs(Mounted(0), Mounted(page.url), Orphans, page', requests')
         /\ PageFits(page', requests')
<1>1. Fits(Mounted(0), Mounted(page.url), Orphans)
  BY OrphansAreTyped, FirstPages DEF PageFits, WellFormedPage
<1>2. PICK m, out : RenderedAs(Mounted(0), Mounted(page.url), Orphans, m, out)
  BY <1>1, Rendering DEF Fits
<1>3. page' = m /\ requests' = out
  BY <1>2 DEF Reload, RenderedAs
<1> QED
  BY <1>1, <1>2, <1>3, RenderingFits

LEMMA WakingFits ==
  ASSUME PageFits(page, requests), Wake
  PROVE  Fits(page, [page EXCEPT !.poll = Asking],
              Sent(requests, [Ask("POLL", page.url) EXCEPT !.failures = page.poll.failures]))
<1> DEFINE ask == Ask("POLL", page.url)
           r == [ask EXCEPT !.failures = page.poll.failures]
           q == [page EXCEPT !.poll = Asking]
           out == Sent(requests, r)
<1>1. page.poll.phase = "ASLEEP" /\ page.poll.failures \in Nat
  BY DEF Wake, PageFits, WellFormedPage, Page, Poller
<1>2. Of(requests, "POLL") = {} /\ Followed(page) /\ page.url \in Ids
  BY <1>1 DEF PageFits, PollFits, Runs, Followed, WellFormedPage
<1>3. WellFormed(ask) /\ ask.kind = "POLL" /\ ask.of = page.url /\ ask.heard = TRUE
  BY <1>2, Asking1
<1> HIDE DEF ask
<1>4. WellFormed(r) /\ r.kind = "POLL" /\ r.of = page.url /\ r.heard = TRUE
  BY <1>1, <1>3, CountingIsTyped
<1> HIDE DEF r
<1>5. InFlight(out) /\ \E new : SentAs(requests, r, new)
  BY <1>4, SendingIsTyped DEF PageFits
<1>6. PICK new : SentAs(requests, r, new)
  BY <1>5
<1>7. out = requests \cup {new} /\ new.kind = "POLL" /\ new.of = page.url /\ new.heard = TRUE
  BY <1>4, <1>6 DEF SentAs, SameRequest
<1> HIDE DEF out
<1>8. Of(out, "POLL") = {new} /\ Of(out, "JOB") = Of(requests, "JOB")
  BY <1>2, <1>7 DEF Of
<1>9. /\ WellFormedPage(q) /\ q.poll = Asking /\ q.jobPoll = page.jobPoll
      /\ q.url = page.url /\ q.view = page.view /\ q.job = page.job
  BY DEF PageFits, WellFormedPage, Page, Poller, Asking
<1> HIDE DEF q
<1>10. PollFits(q, out)
  BY <1>2, <1>7, <1>8, <1>9, OnePoll DEF PollFits, Followed, Waiting, Asking
<1>11. JobFits(q, out)
  BY <1>8, <1>9 DEF PageFits, JobFits, Importing
<1> QED
  BY <1>5, <1>9, <1>10, <1>11 DEF Fits, q, out, r, ask

LEMMA WakingJobFits ==
  ASSUME PageFits(page, requests), WakeJob
  PROVE  Fits(page, [page EXCEPT !.jobPoll = Asking],
              Sent(requests, [AskJob(page.job.id) EXCEPT !.failures = page.jobPoll.failures]))
<1> DEFINE ask == AskJob(page.job.id)
           r == [ask EXCEPT !.failures = page.jobPoll.failures]
           q == [page EXCEPT !.jobPoll = Asking]
           out == Sent(requests, r)
<1>1. page.jobPoll.phase = "ASLEEP" /\ page.jobPoll.failures \in Nat
  BY DEF WakeJob, PageFits, WellFormedPage, Page, Poller
<1>2. Of(requests, "JOB") = {} /\ Importing(page) /\ page.job.id \in Jobs
  BY <1>1 DEF PageFits, JobFits, Runs, Importing, WellFormedPage
<1>3. WellFormed(ask) /\ ask.kind = "JOB" /\ ask.arg = page.job.id /\ ask.heard = TRUE
  BY <1>2, AskingForAJob
<1> HIDE DEF ask
<1>4. WellFormed(r) /\ r.kind = "JOB" /\ r.arg = page.job.id /\ r.heard = TRUE
  BY <1>1, <1>3, CountingIsTyped
<1> HIDE DEF r
<1>5. InFlight(out) /\ \E new : SentAs(requests, r, new)
  BY <1>4, SendingIsTyped DEF PageFits
<1>6. PICK new : SentAs(requests, r, new)
  BY <1>5
<1>7. out = requests \cup {new} /\ new.kind = "JOB" /\ new.arg = page.job.id /\ new.heard = TRUE
  BY <1>4, <1>6 DEF SentAs, SameRequest
<1> HIDE DEF out
<1>8. Of(out, "JOB") = {new} /\ Of(out, "POLL") = Of(requests, "POLL")
  BY <1>2, <1>7 DEF Of
<1>9. /\ WellFormedPage(q) /\ q.jobPoll = Asking /\ q.poll = page.poll
      /\ q.url = page.url /\ q.view = page.view /\ q.job = page.job
  BY DEF PageFits, WellFormedPage, Page, Poller, Asking
<1> HIDE DEF q
<1>10. JobFits(q, out)
  <2>1. Runs(q.jobPoll, Of(out, "JOB"))
    BY <1>8, <1>9, OnePoll
  <2>2. Importing(q) /\ q.jobPoll.phase # "OFF"
    BY <1>2, <1>9 DEF Importing, Asking
  <2>3. \A x \in Of(out, "JOB") : x.arg = q.job.id
    BY <1>7, <1>8, <1>9
  <2> QED
    BY <2>1, <2>2, <2>3 DEF JobFits
<1>11. PollFits(q, out)
  BY <1>8, <1>9 DEF PageFits, PollFits, Followed, Waiting
<1> QED
  BY <1>5, <1>9, <1>10, <1>11 DEF Fits, q, out, r, ask

(* The page's own steps keep page and requests fitting.                    *)
PageSteps == \/ Reader \/ Wake \/ WakeJob \/ \E r \in requests : Receive(r)

LEMMA PageStepsFit ==
  ASSUME PageFits(page, requests), PageSteps
  PROVE  PageFits(page', requests')
<1>1. CASE CreateProject \/ UploadPdf \/ CreateSession \/ SendCommand
  <2>1. PICK r : Submits(r)
    BY <1>1, SubmittingIsTyped DEF PageFits
  <2> QED
    BY <2>1, SubmittingFits, Becoming DEF Submits, Submit
<1>2. CASE RefreshSession
  BY <1>2, RefreshingFits, Becoming DEF RefreshSession
<1>3. CASE ResetSession
  BY <1>3, ResettingFits, Becoming DEF ResetSession
<1>4. CASE Reload
  BY <1>4, ReloadingFits
<1>5. CASE Wake
  BY <1>5, WakingFits, Becoming DEF Wake
<1>6. CASE WakeJob
  BY <1>6, WakingJobFits, Becoming DEF WakeJob
<1>7. CASE \E r \in requests : Receive(r)
  BY <1>7, HearingFits, Becoming DEF Receive
<1> QED
  BY <1>1, <1>2, <1>3, <1>4, <1>5, <1>6, <1>7 DEF PageSteps, Reader

-----------------------------------------------------------------------------
(* The steps of the service.                                               *)
ServiceInv ==
  /\ sessions \in [Ids -> Session] /\ \A id \in Ids : Regular(sessions[id])
  /\ source \in [Ids -> Jobs \cup {0}] /\ imports \in [Jobs -> JobStates]
  /\ mishaps \in 0..MaxMishaps

GoodReply(r, reply) ==
  /\ reply \in Reply /\ Regular(reply.s) /\ reply.of \in Ids \cup {0} /\ reply.arg \in Jobs \cup {0}
  /\ r.kind = "COMMAND" /\ r.cmd.event = "CONFIRM_QUESTION" /\ reply.status = "OK" =>
       reply.s.current = r.cmd.arg

LEMMA AnsweredRequests ==
  ASSUME NEW r \in requests, WellFormed(r), NEW reply, GoodReply(r, reply), Answers(r, reply)
  PROVE  \/ requests' = requests \ {r} /\ r.kind \in Posts /\ ~r.heard
         \/ \E x : /\ requests' = (requests \ {r}) \cup {x} /\ WellFormed(x) /\ x.no = r.no
                  /\ SameRequest(x, r) /\ x.heard = r.heard /\ x.reply = reply
                  /\ ~(r.kind \in Posts /\ ~r.heard)
<1> DEFINE x == [r EXCEPT !.reply = reply]
<1>1. WellFormed(x) /\ x.no = r.no /\ SameRequest(x, r) /\ x.heard = r.heard /\ x.reply = reply
  BY Answered1 DEF GoodReply
<1>2. requests' = (requests \ {r}) \cup (IF r.kind \in Posts /\ ~r.heard THEN {} ELSE {x})
  BY DEF Answers
<1> HIDE DEF x
<1> QED
  BY <1>1, <1>2

LEMMA AnsweringFits ==
  ASSUME PageFits(page, requests), NEW r \in requests, NEW reply, GoodReply(r, reply),
         Answers(r, reply)
  PROVE  PageFits(page, requests')
<1>1. /\ InFlight(requests) /\ WellFormed(r) /\ InFlight(requests \ {r})
      /\ IsFiniteSet(Of(requests, "POLL")) /\ IsFiniteSet(Of(requests, "JOB"))
  BY LeavingIsTyped, FS_Subset DEF PageFits, InFlight, Of
<1>2. CASE requests' = requests \ {r} /\ r.kind \in Posts /\ ~r.heard
  <2>1. /\ Of(requests \ {r}, "POLL") = Of(requests, "POLL")
        /\ Of(requests \ {r}, "JOB") = Of(requests, "JOB")
    BY <1>2 DEF Of
  <2> QED
    BY <1>1, <1>2, <2>1 DEF PageFits, PollFits, JobFits
<1>3. ASSUME NEW x, requests' = (requests \ {r}) \cup {x}, WellFormed(x), x.no = r.no,
             SameRequest(x, r), x.heard = r.heard
      PROVE  PageFits(page, requests')
  <2> DEFINE out == (requests \ {r}) \cup {x}
  <2>1. InFlight(out)
    BY <1>1, <1>3, FS_AddElement DEF InFlight
  <2>2. PollFits(page, out)
    <3>1. CASE r \notin Of(requests, "POLL")
      <4>1. Of(out, "POLL") = Of(requests, "POLL")
        BY <1>3, <3>1 DEF Of, SameRequest
      <4> QED
        BY <4>1 DEF PageFits, PollFits
    <3>2. CASE r \in Of(requests, "POLL")
      <4>1. Of(requests, "POLL") = {r} /\ page.poll.phase = "ASKING" /\ r.of = page.url
        BY <1>1, <3>2, Awaited DEF PageFits, PollFits
      <4>2. Of(out, "POLL") = {x} /\ x.of = r.of
        <5>1. x \in Of(out, "POLL") /\ x.of = r.of
          BY <1>3, <3>2 DEF Of, SameRequest
        <5>2. Of(out, "POLL") \subseteq Of(requests \ {r}, "POLL") \cup {x}
          BY DEF Of
        <5>3. Of(requests \ {r}, "POLL") = {}
          BY <4>1 DEF Of
        <5> QED
          BY <5>1, <5>2, <5>3
      <4>3. Runs(page.poll, {x})
        BY <4>1, FS_Singleton DEF Runs
      <4> QED
        BY <4>1, <4>2, <4>3 DEF PageFits, PollFits
    <3> QED
      BY <3>1, <3>2
  <2>3. JobFits(page, out)
    <3>1. CASE r \notin Of(requests, "JOB")
      <4>1. Of(out, "JOB") = Of(requests, "JOB")
        BY <1>3, <3>1 DEF Of, SameRequest
      <4> QED
        BY <4>1 DEF PageFits, JobFits
    <3>2. CASE r \in Of(requests, "JOB")
      <4>1. Of(requests, "JOB") = {r} /\ page.jobPoll.phase = "ASKING" /\ r.arg = page.job.id
        BY <1>1, <3>2, Awaited DEF PageFits, JobFits
      <4>2. Of(out, "JOB") = {x} /\ x.arg = r.arg
        <5>1. x \in Of(out, "JOB") /\ x.arg = r.arg
          BY <1>3, <3>2 DEF Of, SameRequest
        <5>2. Of(out, "JOB") \subseteq Of(requests \ {r}, "JOB") \cup {x}
          BY DEF Of
        <5>3. Of(requests \ {r}, "JOB") = {}
          BY <4>1 DEF Of
        <5> QED
          BY <5>1, <5>2, <5>3
      <4>3. Runs(page.jobPoll, {x})
        BY <4>1, FS_Singleton DEF Runs
      <4> QED
        BY <4>1, <4>2, <4>3 DEF PageFits, JobFits
    <3> QED
      BY <3>1, <3>2
  <2> QED
    BY <1>3, <2>1, <2>2, <2>3 DEF PageFits
<1> QED
  BY <1>1, <1>2, <1>3, AnsweredRequests

(* The replies the service gives.                                          *)
LEMMA PlainReplies ==
  /\ \A r : \A status \in {"FAILED", "NOT_FOUND", "REFUSED", "CONFLICT"} :
       GoodReply(r, [NoReply EXCEPT !.status = status])
  /\ \A r : r.kind # "COMMAND" =>
       /\ GoodReply(r, [NoReply EXCEPT !.status = "OK"])
       /\ \A job \in JobStates : GoodReply(r, [NoReply EXCEPT !.status = "OK", !.job = job])
       /\ \A arg \in Jobs : GoodReply(r, [NoReply EXCEPT !.status = "OK", !.arg = arg])
<1>1. NoSession \in Session /\ Regular(NoSession) /\ Jobs \subseteq Nat
  BY FirstSessions, FirstSessionsAreRegular, Constants
<1>2. NoReply \in Reply
  BY <1>1 DEF NoReply, Reply, JobStates
<1>3. ASSUME NEW r, NEW reply \in Reply, reply.of = 0, reply.s = NoSession,
             reply.arg \in Jobs \cup {0}, r.kind # "COMMAND" \/ reply.status # "OK"
      PROVE  GoodReply(r, reply)
  BY <1>1, <1>3 DEF GoodReply
<1>4. ASSUME NEW status \in {"FAILED", "NOT_FOUND", "REFUSED", "CONFLICT", "OK"}
      PROVE  LET reply == [NoReply EXCEPT !.status = status]
             IN /\ reply \in Reply /\ reply.of = 0 /\ reply.s = NoSession /\ reply.arg = 0
                /\ reply.status = status
  BY <1>2 DEF NoReply, Reply
<1>5. ASSUME NEW job \in JobStates
      PROVE  LET reply == [NoReply EXCEPT !.status = "OK", !.job = job]
             IN reply \in Reply /\ reply.of = 0 /\ reply.s = NoSession /\ reply.arg = 0
  BY <1>2 DEF NoReply, Reply
<1>6. ASSUME NEW arg \in Jobs
      PROVE  LET reply == [NoReply EXCEPT !.status = "OK", !.arg = arg]
             IN reply \in Reply /\ reply.of = 0 /\ reply.s = NoSession /\ reply.arg = arg
  BY <1>1, <1>2 DEF NoReply, Reply
<1>7. ASSUME NEW status \in {"FAILED", "NOT_FOUND", "REFUSED", "CONFLICT"}, NEW r
      PROVE  GoodReply(r, [NoReply EXCEPT !.status = status])
  BY <1>3, <1>4
<1>8. ASSUME NEW r, r.kind # "COMMAND"
      PROVE  /\ GoodReply(r, [NoReply EXCEPT !.status = "OK"])
             /\ \A job \in JobStates : GoodReply(r, [NoReply EXCEPT !.status = "OK", !.job = job])
             /\ \A arg \in Jobs : GoodReply(r, [NoReply EXCEPT !.status = "OK", !.arg = arg])
  <2>1. GoodReply(r, [NoReply EXCEPT !.status = "OK"])
    BY <1>3, <1>4, <1>8
  <2>2. ASSUME NEW job \in JobStates PROVE GoodReply(r, [NoReply EXCEPT !.status = "OK", !.job = job])
    BY <1>3, <1>5, <1>8
  <2>3. ASSUME NEW arg \in Jobs PROVE GoodReply(r, [NoReply EXCEPT !.status = "OK", !.arg = arg])
    BY <1>3, <1>6, <1>8
  <2> QED
    BY <2>1, <2>2, <2>3
<1> QED
  BY <1>7, <1>8

LEMMA Snapshots ==
  ASSUME NEW id \in Ids, NEW s, Regular(s), source \in [Ids -> Jobs \cup {0}]
  PROVE  LET reply == Snapshot(id, s)
         IN /\ reply \in Reply /\ reply.s = s /\ reply.of = id /\ reply.arg \in Jobs \cup {0}
            /\ reply.status = "OK"
<1>0. source[id] \in Jobs \cup {0}
  OBVIOUS
<1>1. NoSession \in Session /\ s \in Session /\ id \in Nat /\ source[id] \in Nat
  <2>1. NoSession \in Session /\ s \in Session
    BY FirstSessions DEF Regular
  <2>2. Ids \subseteq Nat /\ Jobs \cup {0} \subseteq Nat
    BY Constants
  <2> QED
    BY <1>0, <2>1, <2>2
<1>2. NoReply \in Reply
  BY <1>1 DEF NoReply, Reply, JobStates
<1> QED
  BY <1>0, <1>1, <1>2 DEF Snapshot, Reply

(* What commands, results and failures make of a session.                  *)
LEMMA CommandsGrow ==
  ASSUME NEW s, Regular(s), NEW c \in Commands, NEW next \in ClientNext(s, c)
  PROVE  Regular(next) /\ next.rev = s.rev + 1
BY CommandsKeepRegular, ClientNextIsASession DEF Regular

LEMMA GenerationsGrow ==
  ASSUME NEW id \in Ids, Regular(sessions[id]), sessions[id].state \in PendingStates,
         NEW next \in Results(id) \cup
           UNION {Failing(sessions[id], f) : f \in Failures(sessions[id])}
  PROVE  Regular(next) /\ next.rev = sessions[id].rev + 1
<1> DEFINE s == sessions[id]
<1>1. s \in Session /\ Provider \in Providers
  BY WorkbenchAssumption DEF Regular
<1>2. CASE next \in Results(id)
  <2>1. Consistent(next) /\ Generates(s, next)
    BY <1>1, <1>2 DEF Results, Generates
  <2>2. Regular(next)
    BY <2>1, ResultsKeepRegular
  <2>3. next.rev = s.rev + 1
    BY <1>1, <1>2, DirectionsReadyIsASession, QuestionsReadyIsASession, FeedbackReadyIsASession,
       SummaryReadyIsASession DEF Results
  <2> QED
    BY <2>2, <2>3
<1>3. CASE next \in UNION {Failing(s, f) : f \in Failures(s)}
  <2>1. PICK f \in Failures(s) : next \in Failing(s, f)
    BY <1>3
  <2>2. s.state \in FailureSources
    BY DEF PendingStates, FailureSources
  <2>3. f \in Failure
    BY <2>1, <2>2 DEF Failures, Failure
  <2> QED
    BY <1>1, <2>1, <2>3, FailuresKeepRegular, FailingIsASession
<1> QED
  BY <1>2, <1>3

(* A confirmation leaves its question the current one.                     *)
LEMMA ExecutionsAreGood ==
  ASSUME NEW r, WellFormed(r), r.kind = "COMMAND", ServiceInv, NEW next \in Outcomes(r)
  PROVE  /\ r.of \in Ids /\ r.cmd \in Commands /\ next \in ClientNext(sessions[r.of], r.cmd)
         /\ Regular(next) /\ next.rev = sessions[r.of].rev + 1
         /\ GoodReply(r, Snapshot(r.of, next))
<1> DEFINE s == sessions[r.of]
<1>1. r.of \in Ids /\ r.cmd \in Commands /\ next \in ClientNext(s, r.cmd)
  BY DEF WellFormed, Outcomes
<1>2. Regular(s) /\ s \in Session
  BY <1>1 DEF ServiceInv, Regular
<1>3. Regular(next) /\ next.rev = s.rev + 1
  BY <1>1, <1>2, CommandsGrow
<1>4. r.cmd.event = "CONFIRM_QUESTION" => next.current = r.cmd.arg
  <2>1. r.cmd.event = "CONFIRM_QUESTION" => next.current = s.current
    BY <1>1, <1>2, CommandEffects DEF Resolves
  <2>2. r.cmd.event = "CONFIRM_QUESTION" => r.cmd.arg = s.current
    BY <1>1 DEF ClientNext, PayloadFits, PointerCommands
  <2> QED
    BY <2>1, <2>2
<1>5. GoodReply(r, Snapshot(r.of, next))
  <2> DEFINE reply == Snapshot(r.of, next)
  <2>1. /\ reply \in Reply /\ reply.s = next /\ reply.of = r.of /\ reply.arg \in Jobs \cup {0}
    BY <1>1, <1>3, Snapshots DEF ServiceInv
  <2> HIDE DEF reply
  <2> QED
    BY <1>1, <1>3, <1>4, <2>1 DEF GoodReply, reply
<1> QED
  BY <1>1, <1>3, <1>5

(* A step of the service writes one session, and it grows.                 *)
Writes(id, next) ==
  /\ id \in Ids /\ sessions' = [sessions EXCEPT ![id] = next]
  /\ Regular(next) /\ next.rev = sessions[id].rev + 1

LEMMA WritingIsTyped ==
  ASSUME ServiceInv, NEW id, NEW next, Writes(id, next)
  PROVE  sessions' \in [Ids -> Session] /\ \A i \in Ids : Regular(sessions'[i])
BY DEF ServiceInv, Writes, Regular

PageInv == PageFits(page, requests) /\ ServiceInv

LEMMA MishapsAreCounted ==
  ASSUME ServiceInv, Mishap \/ NoMishap
  PROVE  mishaps' \in 0..MaxMishaps
BY Constants DEF ServiceInv, Mishap, NoMishap

(* What every step of the service on its sessions and jobs amounts to.     *)
ServiceMoves ==
  /\ sessions' = sessions \/ \E id, next : Writes(id, next)
  /\ source' \in [Ids -> Jobs \cup {0}] /\ imports' \in [Jobs -> JobStates]
  /\ Mishap \/ NoMishap

LEMMA MovesAreTyped ==
  ASSUME ServiceInv, ServiceMoves
  PROVE  ServiceInv'
<1>1. sessions' \in [Ids -> Session] /\ \A i \in Ids : Regular(sessions'[i])
  <2>1. CASE sessions' = sessions
    BY <2>1 DEF ServiceInv
  <2>2. CASE \E id, next : Writes(id, next)
    BY <2>2, WritingIsTyped
  <2> QED
    BY <2>1, <2>2 DEF ServiceMoves
<1>2. mishaps' \in 0..MaxMishaps
  BY MishapsAreCounted DEF ServiceMoves
<1> QED
  BY <1>1, <1>2 DEF ServiceInv, ServiceMoves

(* Every answer is one the page can use, whoever gave it.                  *)
AnswerStep(r) == Serve(r) \/ RefuseOvertaken(r) \/ Fail(r)

LEMMA OthersWrite ==
  ASSUME ServiceInv, NEW id \in Ids, NEW c \in Offered(sessions[id]),
         NEW next \in ClientNext(sessions[id], c), sessions' = [sessions EXCEPT ![id] = next]
  PROVE  Writes(id, next)
<1>1. Regular(sessions[id])
  BY DEF ServiceInv
<1>2. c \in Commands
  BY <1>1, OffersAreCommands
<1> QED
  BY <1>1, <1>2, CommandsGrow DEF Writes

LEMMA AnswersAreGood ==
  ASSUME ServiceInv, NEW r \in requests, WellFormed(r), AnswerStep(r)
  PROVE  page' = page /\ ServiceMoves /\ \E reply : GoodReply(r, reply) /\ Answers(r, reply)
<1>0. /\ UNCHANGED source => source' \in [Ids -> Jobs \cup {0}]
      /\ UNCHANGED imports => imports' \in [Jobs -> JobStates]
  BY DEF ServiceInv
<1>1. CASE ServeGet(r)
  <2>1. r.of \in Ids
    BY <1>1 DEF ServeGet, WellFormed
  <2>2. Regular(sessions[r.of]) /\ r.kind # "COMMAND"
    BY <1>1, <2>1 DEF ServiceInv, ServeGet
  <2>3. GoodReply(r, Snapshot(r.of, sessions[r.of]))
    BY <2>1, <2>2, Snapshots DEF GoodReply, ServiceInv
  <2>4. GoodReply(r, [NoReply EXCEPT !.status = "NOT_FOUND"])
    BY PlainReplies
  <2> QED
    BY <1>0, <1>1, <2>3, <2>4 DEF ServeGet, service, ServiceMoves
<1>2. CASE ServeJob(r)
  <2>1. r.arg \in Jobs /\ r.kind # "COMMAND"
    BY <1>2 DEF ServeJob, WellFormed
  <2>2. imports[r.arg] \in JobStates
    BY <2>1 DEF ServiceInv
  <2>3. GoodReply(r, [NoReply EXCEPT !.status = "OK", !.job = imports[r.arg]])
    BY <2>1, <2>2, PlainReplies
  <2> QED
    BY <1>0, <1>2, <2>3 DEF ServeJob, service, ServiceMoves
<1>3. CASE ExecuteCommand(r)
  <2>1. PICK next \in Outcomes(r) : /\ sessions' = [sessions EXCEPT ![r.of] = next]
                                    /\ Answers(r, Snapshot(r.of, next))
    BY <1>3 DEF ExecuteCommand
  <2>2. /\ r.of \in Ids /\ Regular(next) /\ next.rev = sessions[r.of].rev + 1
        /\ GoodReply(r, Snapshot(r.of, next))
    BY <1>3, ExecutionsAreGood DEF ExecuteCommand
  <2>3. Writes(r.of, next)
    BY <2>1, <2>2 DEF Writes
  <2> QED
    BY <1>0, <1>3, <2>1, <2>2, <2>3 DEF ExecuteCommand, ServiceMoves
<1>4. CASE RefuseCommand(r)
  <2>1. GoodReply(r, [NoReply EXCEPT !.status = "REFUSED"])
    BY PlainReplies
  <2> QED
    BY <1>0, <1>4, <2>1 DEF RefuseCommand, service, ServiceMoves
<1>5. CASE ServeProject(r)
  <2>1. GoodReply(r, [NoReply EXCEPT !.status = "OK"])
    BY <1>5, PlainReplies DEF ServeProject
  <2> QED
    BY <1>0, <1>5, <2>1 DEF ServeProject, service, ServiceMoves
<1>6. CASE ServeUpload(r)
  <2>1. PICK j \in Jobs : /\ imports' = [imports EXCEPT ![j] = "QUEUED"]
                          /\ Answers(r, [NoReply EXCEPT !.status = "OK", !.arg = j])
    BY <1>6 DEF ServeUpload
  <2>2. GoodReply(r, [NoReply EXCEPT !.status = "OK", !.arg = j])
    BY <1>6, PlainReplies DEF ServeUpload
  <2>3. imports' \in [Jobs -> JobStates]
    BY <2>1 DEF ServiceInv, JobStates
  <2> QED
    BY <1>0, <1>6, <2>1, <2>2, <2>3 DEF ServeUpload, ServiceMoves
<1>7. CASE ServeCreate(r)
  <2>1. PICK id \in SessionIds :
          /\ sessions[id] = NoSession
          /\ sessions' = [sessions EXCEPT ![id] = NewSession]
          /\ source' = [source EXCEPT ![id] = r.arg]
          /\ Answers(r, [Snapshot(id, NewSession) EXCEPT !.arg = r.arg])
    BY <1>7 DEF ServeCreate
  <2>2. r.arg \in Jobs /\ r.arg \in Nat /\ r.kind # "COMMAND" /\ id \in Ids
    BY <1>7, Constants DEF ServeCreate, WellFormed, Ids
  <2>3. Regular(NewSession) /\ NewSession.rev = 1 /\ NoSession.rev = 0
    BY FirstSessions, FirstSessionsAreRegular DEF NoSession
  <2>4. Writes(id, NewSession)
    BY <2>1, <2>2, <2>3 DEF Writes
  <2>5. source' \in [Ids -> Jobs \cup {0}]
    BY <2>1, <2>2 DEF ServiceInv
  <2> DEFINE reply == Snapshot(id, NewSession)
             sent == [reply EXCEPT !.arg = r.arg]
  <2>6. reply \in Reply /\ reply.s = NewSession /\ reply.of = id
    BY <2>2, <2>3, Snapshots DEF ServiceInv
  <2>7. Answers(r, sent)
    BY <2>1
  <2> HIDE DEF reply
  <2>8. sent \in Reply /\ sent.s = NewSession /\ sent.of = id /\ sent.arg = r.arg
    BY <2>2, <2>6 DEF Reply
  <2> HIDE DEF sent
  <2>9. GoodReply(r, sent)
    BY <2>2, <2>3, <2>8 DEF GoodReply
  <2> QED
    BY <1>0, <1>7, <2>4, <2>5, <2>7, <2>9 DEF ServeCreate, ServiceMoves
<1>8. CASE RefuseOvertaken(r)
  <2>0. PICK c \in Offered(sessions[r.of]) : \E next \in ClientNext(sessions[r.of], c) :
          sessions' = [sessions EXCEPT ![r.of] = next]
    BY <1>8 DEF RefuseOvertaken
  <2>1. PICK next \in ClientNext(sessions[r.of], c) : sessions' = [sessions EXCEPT ![r.of] = next]
    BY <2>0
  <2>2. r.of \in Ids
    BY <1>8 DEF RefuseOvertaken, WellFormed
  <2>3. Writes(r.of, next)
    BY <2>1, <2>2, OthersWrite
  <2>4. GoodReply(r, [NoReply EXCEPT !.status = "CONFLICT"])
    BY PlainReplies
  <2> QED
    BY <1>0, <1>8, <2>3, <2>4 DEF RefuseOvertaken, ServiceMoves
<1>9. CASE Fail(r)
  <2>1. GoodReply(r, [NoReply EXCEPT !.status = "FAILED"])
    BY PlainReplies
  <2> QED
    BY <1>0, <1>9, <2>1 DEF Fail, service, ServiceMoves
<1> QED
  BY <1>1, <1>2, <1>3, <1>4, <1>5, <1>6, <1>7, <1>8, <1>9 DEF AnswerStep, Serve

(* The Worker, the importer and the other pages.                           *)
BackgroundStep == \/ \E id \in SessionIds : OtherPage(id) \/ Generate(id)
                  \/ \E j \in Jobs : Import(j)

LEMMA BackgroundIsTyped ==
  ASSUME ServiceInv, BackgroundStep
  PROVE  page' = page /\ requests' = requests /\ ServiceMoves
<1>0. /\ UNCHANGED source => source' \in [Ids -> Jobs \cup {0}]
      /\ UNCHANGED imports => imports' \in [Jobs -> JobStates]
  BY DEF ServiceInv
<1>1. ASSUME NEW id \in SessionIds, OtherPage(id)
      PROVE  page' = page /\ requests' = requests /\ ServiceMoves
  <2>0. PICK c \in Offered(sessions[id]) : \E next \in ClientNext(sessions[id], c) :
          sessions' = [sessions EXCEPT ![id] = next]
    BY <1>1 DEF OtherPage
  <2>1. PICK next \in ClientNext(sessions[id], c) : sessions' = [sessions EXCEPT ![id] = next]
    BY <2>0
  <2>2. Writes(id, next)
    BY <2>1, OthersWrite DEF Ids
  <2> QED
    BY <1>0, <1>1, <2>2 DEF OtherPage, ServiceMoves
<1>2. ASSUME NEW id \in SessionIds, Generate(id)
      PROVE  page' = page /\ requests' = requests /\ ServiceMoves
  <2>1. PICK next \in Results(id) \cup
               UNION {Failing(sessions[id], f) : f \in Failures(sessions[id])} :
          sessions' = [sessions EXCEPT ![id] = next]
    BY <1>2 DEF Generate
  <2>2. id \in Ids /\ Regular(sessions[id]) /\ sessions[id].state \in PendingStates
    BY <1>2 DEF Ids, ServiceInv, Generate
  <2>3. Writes(id, next)
    BY <2>1, <2>2, GenerationsGrow DEF Writes
  <2> QED
    BY <1>0, <1>2, <2>3 DEF Generate, ServiceMoves
<1>3. ASSUME NEW j \in Jobs, Import(j)
      PROVE  page' = page /\ requests' = requests /\ ServiceMoves
  <2>1. imports' \in [Jobs -> JobStates]
    BY <1>3 DEF Import, ServiceInv, JobStates
  <2> QED
    BY <1>0, <1>3, <2>1 DEF Import, ServiceMoves
<1> QED
  BY <1>1, <1>2, <1>3 DEF BackgroundStep

-----------------------------------------------------------------------------
(* The invariant.                                                          *)
LEMMA PageInvInit == Init => PageInv
<1> SUFFICES ASSUME Init PROVE PageInv
  OBVIOUS
<1>1. PageFits(page, requests)
  <2>1. PICK url \in {0, DeadLink} : page = Opened(url).page /\ requests = Opened(url).reqs
    BY DEF Init
  <2>2. url \in Ids \cup {0}
    BY DEF Ids
  <2>3. Fits(Mounted(0), Mounted(url), {})
    BY <2>2, NothingInFlight, FirstPages
  <2>4. PICK m, out : RenderedAs(Mounted(0), Mounted(url), {}, m, out)
    BY <2>3, Rendering DEF Fits
  <2>5. page = m /\ requests = out
    BY <2>1, <2>4 DEF Opened, RenderedAs
  <2> QED
    BY <2>3, <2>4, <2>5, RenderingFits
<1>2. ServiceInv
  <2>1. Regular(NoSession) /\ NoSession \in Session
    BY FirstSessions, FirstSessionsAreRegular
  <2> QED
    BY <2>1, Constants DEF Init, ServiceInv, Ids, JobStates
<1> QED
  BY <1>1, <1>2 DEF PageInv

LEMMA PageStepsLeaveTheService ==
  ASSUME PageSteps
  PROVE  UNCHANGED service /\ (Mishap \/ NoMishap)
<1>1. CASE CreateProject \/ UploadPdf \/ CreateSession \/ SendCommand
  BY <1>1 DEF CreateProject, UploadPdf, CreateSession, SendCommand, Submit
<1>2. CASE RefreshSession \/ ResetSession \/ Reload
  BY <1>2 DEF RefreshSession, ResetSession, Reload
<1>3. CASE Wake \/ WakeJob \/ \E r \in requests : Receive(r)
  BY <1>3 DEF Wake, WakeJob, Receive
<1> QED
  BY <1>1, <1>2, <1>3 DEF PageSteps, Reader

LEMMA Steps ==
  ASSUME Next
  PROVE  PageSteps \/ (\E r \in requests : AnswerStep(r)) \/ BackgroundStep
BY DEF Next, PageSteps, AnswerStep, BackgroundStep

LEMMA PageInvStep == PageInv /\ [Next]_vars => PageInv'
<1> SUFFICES ASSUME PageInv, [Next]_vars PROVE PageInv'
  OBVIOUS
<1>1. PageFits(page, requests) /\ ServiceInv
  BY DEF PageInv
<1>2. CASE PageSteps
  <2>1. PageFits(page', requests')
    BY <1>1, <1>2, PageStepsFit
  <2>2. UNCHANGED service /\ (Mishap \/ NoMishap)
    BY <1>2, PageStepsLeaveTheService
  <2>3. ServiceMoves
    BY <1>1, <2>2 DEF ServiceMoves, service, ServiceInv
  <2> QED
    BY <1>1, <2>1, <2>3, MovesAreTyped DEF PageInv
<1>3. ASSUME NEW r \in requests, AnswerStep(r) PROVE PageInv'
  <2>1. WellFormed(r)
    BY <1>1 DEF PageFits, InFlight
  <2>2. page' = page /\ ServiceMoves
    BY <1>1, <1>3, <2>1, AnswersAreGood
  <2>3. PICK reply : GoodReply(r, reply) /\ Answers(r, reply)
    BY <1>1, <1>3, <2>1, AnswersAreGood
  <2>4. PageFits(page, requests')
    BY <1>1, <2>3, AnsweringFits
  <2> QED
    BY <1>1, <2>2, <2>4, MovesAreTyped DEF PageInv
<1>4. CASE BackgroundStep
  BY <1>1, <1>4, BackgroundIsTyped, MovesAreTyped DEF PageInv
<1>5. CASE UNCHANGED vars
  BY <1>1, <1>5 DEF PageInv, ServiceInv, vars
<1> QED
  BY <1>2, <1>3, <1>4, <1>5, Steps

LEMMA PageInvHolds == Spec => []PageInv
BY PageInvInit, PageInvStep, PTL DEF Spec

-----------------------------------------------------------------------------
(* Whatever is clicked, answered, lost or loaded again, the page and the   *)
(* requests in flight are well-formed, and no two requests share a number, *)
(* with any number of them in flight.                                      *)
THEOREM WorkbenchIsTyped == Spec => []TypeOK
<1>1. PageInv => TypeOK
  BY DEF PageInv, PageFits, WellFormedPage, InFlight, WellFormed, ServiceInv, TypeOK, Ids
<1> QED
  BY <1>1, PageInvHolds, PTL

(* The timers of the page and the requests they wait for never come apart: *)
(* while a generation or an import is awaited on the screen exactly one    *)
(* poll for it runs, of what is shown, unless it gave up; otherwise none   *)
(* (the effects of GuidedLearningWorkbench.tsx, pollUntil).                *)
THEOREM AwaitedWorkIsPolled == Spec => []WhatIsAwaitedIsPolled
<1>1. PageInv => WhatIsAwaitedIsPolled
  <2>1. \A kind : PollOf(kind) = Of(requests, kind)
    BY DEF PollOf, Of
  <2> QED
    BY <2>1 DEF PageInv, PageFits, PollFits, JobFits, WhatIsAwaitedIsPolled
<1> QED
  BY <1>1, PageInvHolds, PTL

(* An answer, a skip or a confirmation the service executes concerns the   *)
(* question that was current on the screen it was chosen on, however late  *)
(* it arrives and whatever other pages did meanwhile (requirePointer).     *)
THEOREM ExecutedCommandsWereAimed == Spec => CommandsReachTheQuestionShown
<1> DEFINE Reaches == \A r \in requests :
             /\ ExecuteCommand(r)
             /\ r.cmd.event \in PointerCommands
             => r.shown.s.current = sessions[r.of].current
<1>1. PageInv => Reaches
  <2> SUFFICES ASSUME PageInv, NEW r \in requests, ExecuteCommand(r),
                      r.cmd.event \in PointerCommands
               PROVE  r.shown.s.current = sessions[r.of].current
    OBVIOUS
  <2>1. WellFormed(r) /\ r.kind = "COMMAND" /\ ServiceInv
    BY DEF PageInv, PageFits, InFlight, ExecuteCommand
  <2>2. r.cmd.arg = r.shown.s.current
    BY <2>1 DEF WellFormed, Aimed
  <2>3. PICK next \in Outcomes(r) : sessions' = [sessions EXCEPT ![r.of] = next]
    BY DEF ExecuteCommand
  <2>4. next \in ClientNext(sessions[r.of], r.cmd)
    BY <2>1, <2>3, ExecutionsAreGood
  <2>5. r.cmd.arg = sessions[r.of].current
    BY <2>4 DEF ClientNext, PayloadFits
  <2> QED
    BY <2>2, <2>5
<1>2. PageInv /\ [Next]_vars => [Reaches]_vars
  BY <1>1
<1> QED
  BY <1>2, PageInvHolds, PTL DEF Spec, CommandsReachTheQuestionShown

-----------------------------------------------------------------------------
(* What the page shows while nothing is lost and nobody else is at work.   *)

(* The page's link, its view and the sessions of the service: what an      *)
(* answer puts on the screen after the reader went back has no link.       *)
Linked(p, ss) ==
  /\ p.pollError = FALSE
  /\ p.url \in SessionIds => ss[p.url] # NoSession
  /\ p.view # NoView =>
       p.view.of \in SessionIds /\ ss[p.view.of] # NoSession /\ p.url \in {0, p.view.of}

(* A snapshot on its way is the session's, or one that will change still.  *)
Faithful(reply, ss) ==
  /\ reply.of \in SessionIds /\ ss[reply.of] # NoSession
  /\ reply.s.state \notin PendingStates => reply.s = ss[reply.of]

(* A request in flight: a poll is heard, and a command's screen stays,     *)
(* until the reader goes back; nothing is asked of a session nobody made.  *)
Snapshotted == {"RECOVER", "POLL", "COMMAND", "CREATE"}
Sound(p, r, ss) ==
  /\ r.kind # "REFRESH"
  /\ r.kind \in {"POLL", "JOB"} => r.reply.status \in {"NONE", "OK"}
  /\ r.kind = "POLL" => r.heard \/ p.url = 0
  /\ r.kind \in Posts => r.heard /\ p.busy
  /\ r.kind = "CREATE" /\ r.reply.status = "OK" => p.view = NoView /\ p.url \notin SessionIds
  /\ r.kind \in {"POLL", "COMMAND"} => r.of \in SessionIds /\ ss[r.of] # NoSession
  /\ r.kind = "COMMAND" =>
       /\ r.reply.status \in {"NONE", "OK", "REFUSED"}
       /\ p.url = 0 \/ (p.view # NoView /\ ~Waiting(p) /\ r.of = p.url)
  /\ r.kind \in Snapshotted /\ (r.kind = "RECOVER" => r.heard) /\ r.reply.status = "OK" =>
       Faithful(r.reply, ss) /\ (r.kind # "CREATE" => r.reply.of = r.of)

Recovering(p, reqs) == \A r \in Of(reqs, "RECOVER") : r.of = p.url /\ p.view = NoView

OnePost(reqs) == \A r, q \in reqs : r.kind \in Posts /\ q.kind \in Posts => r = q

(* No poll is under way together with what may overtake it.                *)
Overtakes(r) == r.kind = "COMMAND" \/ (r.kind = "CREATE" /\ r.reply.status = "OK")
Apart(reqs) == \A r, q \in reqs : r.kind = "POLL" => ~Overtakes(q)

(* The screen itself.                                                      *)
UpToDate(p, reqs, ss) ==
  /\ p.view # NoView /\ ~Waiting(p)
  /\ \A r \in reqs : r.kind = "COMMAND" => r.reply.status # "OK"
  => p.view.s = ss[p.view.of]

TrueToService(p, reqs, ss) ==
  /\ Linked(p, ss) /\ OnePost(reqs) /\ Apart(reqs) /\ UpToDate(p, reqs, ss)
  /\ \A r \in reqs : Sound(p, r, ss)

ViewInv ==
  mishaps = 0 /\ OneSession =>
    /\ sessions[DeadLink] = NoSession
    /\ TrueToService(page, requests, sessions) /\ Recovering(page, requests)

(* A page about to be rendered: recoveries start again when the link or    *)
(* the view changes, and polls only where there were none, or no link is.  *)
Ready(p, q, reqs, ss) ==
  /\ TrueToService(q, reqs, ss)
  /\ FollowKey(q) # FollowKey(p) => Kind(reqs, "POLL") = {} \/ q.url = 0
  /\ q.url = p.url /\ q.view = p.view => Recovering(q, reqs)

LEMMA SoundOnTheSameScreen ==
  ASSUME NEW p, NEW q, NEW r, NEW ss, Sound(p, r, ss), q.url = p.url, q.view = p.view,
         r.kind \in Posts => q.busy
  PROVE  Sound(q, r, ss)
BY DEF Sound, Waiting

LEMMA SoundWithoutThePage ==
  ASSUME NEW p, NEW q, NEW r, NEW ss, Sound(p, r, ss), r.kind \notin Posts \cup {"POLL"}
  PROVE  Sound(q, r, ss)
BY DEF Sound, Posts

LEMMA NewRequestsAreSound ==
  ASSUME NEW q, NEW r, NEW ss, r.kind \in {"RECOVER", "POLL", "JOB"}, r.heard, r.reply = NoReply,
         r.kind = "POLL" => r.of \in SessionIds /\ ss[r.of] # NoSession
  PROVE  Sound(q, r, ss)
BY DEF Sound, Posts, NoReply

(* What is followed on the screen is a session, and nothing overtakes it.  *)
LEMMA FollowedIsASession ==
  ASSUME NEW q, NEW ss, Linked(q, ss), Followed(q)
  PROVE  /\ q.url \in SessionIds /\ ss[q.url] # NoSession
         /\ \A r : Sound(q, r, ss) => ~Overtakes(r)
<1>1. q.view # NoView /\ q.url # 0 /\ Waiting(q)
  BY DEF Followed, Waiting, NoView, NoSession, PendingStates
<1>2. q.url \in SessionIds /\ ss[q.url] # NoSession
  BY <1>1 DEF Linked
<1> QED
  BY <1>1, <1>2 DEF Sound, Overtakes

(* A poll that is new after a rendering: of the session followed, or one   *)
(* that nobody listens to any more.                                        *)
LEMMA NewPolls ==
  ASSUME NEW p, NEW q, NEW reqs, NEW m, NEW out, PollRan(p, q, reqs, m, out),
         m.url = q.url, m.view = q.view, NEW x \in out, x \notin reqs, x.kind = "POLL"
  PROVE  /\ x.heard => x.of = m.url /\ Followed(q) /\ x.reply = NoReply
         /\ ~x.heard => \E r \in reqs : r.kind = "POLL" /\ x.of = r.of /\ x.reply = r.reply
<1>1. LeftOver(out, reqs, "POLL") /\ PollFits(m, out) /\ \A r \in Of(out, "POLL") : r.reply = NoReply
  BY DEF PollRan, Kind
<1>2. ASSUME x.heard PROVE x.of = m.url /\ Followed(q) /\ x.reply = NoReply
  <2>1. x \in Of(out, "POLL")
    BY <1>2 DEF Of
  <2>2. Followed(m)
    BY <1>1, <2>1 DEF PollFits, Runs
  <2> QED
    BY <1>1, <2>1, <2>2 DEF PollFits, Followed, Waiting
<1>3. ASSUME ~x.heard PROVE \E r \in reqs : r.kind = "POLL" /\ x.of = r.of /\ x.reply = r.reply
  BY <1>1, <1>3 DEF LeftOver, Kind, SameRequest
<1> QED
  BY <1>2, <1>3

LEMMA RenderingIsTrue ==
  ASSUME NEW p, NEW q, NEW reqs, NEW ss, Ready(p, q, reqs, ss),
         NEW m, NEW out, RenderedAs(p, q, reqs, m, out)
  PROVE  TrueToService(m, out, ss) /\ Recovering(m, out)
<1>1. /\ m.url = q.url /\ m.view = q.view /\ m.busy = q.busy
      /\ \A k \in Posts \cup {"REFRESH"} : Kind(out, k) = Kind(reqs, k)
      /\ RecoveryRan(p, q, reqs, out) /\ PollRan(p, q, reqs, m, out) /\ JobRan(p, q, reqs, m, out)
      /\ \A x \in out : x.kind \in Gets \cup Posts /\ x.heard \in BOOLEAN
  BY DEF RenderedAs, SameScreen, InFlight, WellFormed, Request
<1>2. m.pollError = q.pollError
  BY DEF RenderedAs, SameScreen
<1>3. /\ Linked(q, ss) /\ OnePost(reqs) /\ Apart(reqs) /\ UpToDate(q, reqs, ss)
      /\ \A r \in reqs : Sound(q, r, ss)
  BY DEF Ready, TrueToService
<1>4. ASSUME NEW x \in out, x.kind \in Posts \cup {"REFRESH"} PROVE x \in reqs
  BY <1>1, <1>4 DEF Kind
<1>5. Linked(m, ss)
  BY <1>1, <1>2, <1>3 DEF Linked
<1>6. OnePost(out)
  BY <1>3, <1>4 DEF OnePost
<1>7. UpToDate(m, out, ss)
  <2>1. \A r \in reqs : r.kind = "COMMAND" => r \in out
    BY <1>1 DEF Kind, Posts
  <2> QED
    BY <2>1, <1>1, <1>3 DEF UpToDate, Waiting
<1>8. ASSUME NEW x \in out PROVE Sound(m, x, ss)
  <2>1. CASE x \in reqs
    BY <2>1, <1>1, <1>3, SoundOnTheSameScreen DEF Sound
  <2>2. CASE x \notin reqs /\ x.kind = "RECOVER"
    <3>1. ~x.heard \/ x \in Of(out, "RECOVER")
      BY <2>2 DEF Of
    <3>2. x.heard => x.reply = NoReply
      BY <2>2, <3>1, <1>1 DEF RecoveryRan, Kind
    <3>3. CASE x.heard
      BY <2>2, <3>2, <3>3, NewRequestsAreSound
    <3>4. CASE ~x.heard
      BY <2>2, <3>4 DEF Sound, Posts
    <3> QED
      BY <3>3, <3>4
  <2>3. CASE x \notin reqs /\ x.kind = "POLL"
    <3>1. CASE x.heard
      <4>1. x.of = m.url /\ Followed(q) /\ x.reply = NoReply
        BY <2>3, <3>1, <1>1, NewPolls
      <4>2. x.of \in SessionIds /\ ss[x.of] # NoSession
        BY <1>1, <1>3, <4>1, FollowedIsASession
      <4> QED
        BY <2>3, <3>1, <4>1, <4>2, NewRequestsAreSound
    <3>2. CASE ~x.heard
      <4>1. PICK r \in reqs : r.kind = "POLL" /\ x.of = r.of /\ x.reply = r.reply
        BY <2>3, <3>2, <1>1, NewPolls
      <4>2. q.url = 0
        BY <2>3, <4>1, <1>1 DEF PollRan, Kind, Ready
      <4>3. Sound(q, r, ss)
        BY <1>3
      <4> QED
        BY <2>3, <3>2, <4>1, <4>2, <4>3, <1>1 DEF Sound, Snapshotted, Posts
    <3> QED
      BY <3>1, <3>2
  <2>4. CASE x \notin reqs /\ x.kind = "JOB"
    <3>1. LeftOver(out, reqs, "JOB") /\ \A r \in Of(out, "JOB") : r.reply = NoReply
      BY <2>4, <1>1 DEF JobRan, Kind
    <3>2. CASE x.heard
      <4>1. x.reply = NoReply
        BY <2>4, <3>1, <3>2 DEF Of
      <4> QED
        BY <2>4, <3>2, <4>1, NewRequestsAreSound
    <3>3. CASE ~x.heard
      <4>1. PICK r \in reqs : r.kind = "JOB" /\ x.reply = r.reply
        BY <2>4, <3>1, <3>3 DEF LeftOver, Kind
      <4>2. Sound(q, r, ss)
        BY <1>3
      <4>3. x.reply.status \in {"NONE", "OK"}
        BY <4>1, <4>2 DEF Sound
      <4> QED
        BY <2>4, <3>3, <4>3 DEF Sound, Posts, Snapshotted
    <3> QED
      BY <3>2, <3>3
  <2> QED
    BY <2>1, <2>2, <2>3, <2>4, <1>1, <1>4 DEF Gets, Posts
<1>9. Recovering(m, out)
  <2>1. CASE q.url = p.url /\ q.view = p.view /\ Kind(out, "RECOVER") = Kind(reqs, "RECOVER")
    <3>1. Of(out, "RECOVER") = Of(reqs, "RECOVER")
      BY <2>1 DEF Of, Kind
    <3> QED
      BY <2>1, <3>1, <1>1 DEF Ready, Recovering
  <2> QED
    BY <2>1, <1>1 DEF RecoveryRan, Recovering
<1>10. Apart(out)
  <2> SUFFICES ASSUME NEW x \in out, NEW y \in out, x.kind = "POLL", Overtakes(y)
               PROVE  FALSE
    BY DEF Apart
  <2>1. y \in reqs
    BY <1>4 DEF Overtakes, Posts
  <2>2. \A r \in reqs : r.kind # "POLL"
    BY <1>3, <2>1 DEF Apart
  <2>3. x \notin reqs
    BY <2>2
  <2>4. CASE x.heard
    <3>1. Followed(q)
      BY <2>3, <2>4, <1>1, NewPolls
    <3> QED
      BY <1>3, <2>1, <3>1, FollowedIsASession
  <2>5. CASE ~x.heard
    BY <2>2, <2>3, <2>5, <1>1, NewPolls
  <2> QED
    BY <2>4, <2>5
<1> QED
  BY <1>5, <1>6, <1>7, <1>8, <1>9, <1>10 DEF TrueToService

(* No poll is in flight while the page has a link and follows nothing.     *)
LEMMA NobodyPolls ==
  ASSUME NEW p, NEW reqs, NEW ss, PageFits(p, reqs), TrueToService(p, reqs, ss), ~Waiting(p),
         p.url # 0
  PROVE  Kind(reqs, "POLL") = {}
<1>1. Of(reqs, "POLL") = {}
  BY DEF PageFits, PollFits, Followed, Runs
<1>2. \A r \in reqs : r.kind = "POLL" => r.heard
  BY DEF TrueToService, Sound
<1> QED
  BY <1>1, <1>2 DEF Kind, Of

LEMMA PollsAreHeard ==
  ASSUME NEW p, NEW reqs, NEW ss, PageFits(p, reqs), TrueToService(p, reqs, ss), NEW r \in reqs,
         r.kind = "POLL", p.url # 0
  PROVE  Kind(reqs, "POLL") = {r} /\ r.of = p.url
<1>1. \A x \in reqs : x.kind = "POLL" => x.heard
  BY DEF TrueToService, Sound
<1>2. Kind(reqs, "POLL") = Of(reqs, "POLL") /\ r \in Of(reqs, "POLL")
  BY <1>1 DEF Kind, Of
<1>3. IsFiniteSet(Of(reqs, "POLL"))
  BY FS_Subset DEF PageFits, InFlight, Of
<1>4. Of(reqs, "POLL") = {r} /\ r.of = p.url
  BY <1>2, <1>3, Awaited DEF PageFits, PollFits
<1> QED
  BY <1>2, <1>4

(* One more request on the same screen.                                    *)
LEMMA SendingIsReady ==
  ASSUME NEW p, NEW q, NEW reqs, NEW ss, TrueToService(p, reqs, ss), Recovering(p, reqs),
         q.url = p.url, q.view = p.view, q.pollError = p.pollError, NEW new,
         new.kind \in {"POLL", "JOB"} \cup Posts, Sound(q, new, ss), new.reply = NoReply,
         q.busy = p.busy \/ (~p.busy /\ q.busy), new.kind \in Posts => ~p.busy,
         Apart(reqs \cup {new})
  PROVE  Ready(p, q, reqs \cup {new}, ss)
<1> DEFINE out == reqs \cup {new}
<1>1. Linked(q, ss)
  BY DEF TrueToService, Linked
<1>2. OnePost(out) /\ Apart(out)
  <2>1. new.kind \in Posts => \A r \in reqs : r.kind \notin Posts
    BY DEF TrueToService, Sound
  <2> QED
    BY <2>1 DEF TrueToService, OnePost
<1>3. UpToDate(q, out, ss)
  BY DEF TrueToService, UpToDate, Waiting
<1>4. \A r \in out : Sound(q, r, ss)
  <2>1. ASSUME NEW r \in reqs PROVE Sound(q, r, ss)
    <3>1. Sound(p, r, ss)
      BY DEF TrueToService
    <3>2. r.kind \in Posts => q.busy
      BY <3>1 DEF Sound
    <3> QED
      BY <3>1, <3>2, SoundOnTheSameScreen
  <2> QED
    BY <2>1
<1>5. Recovering(q, out)
  BY DEF Recovering, Of, Posts
<1>6. FollowKey(q) = FollowKey(p)
  BY DEF FollowKey
<1> QED
  BY <1>1, <1>2, <1>3, <1>4, <1>5, <1>6 DEF Ready, TrueToService

LEMMA SubmittingIsReady ==
  ASSUME NEW ss, PageFits(page, requests), TrueToService(page, requests, ss),
         Recovering(page, requests), NEW r, Submits(r)
  PROVE  Ready(page, [page EXCEPT !.busy = TRUE], Sent(requests, r), ss)
<1> DEFINE q == [page EXCEPT !.busy = TRUE]
           out == Sent(requests, r)
<1>1. q.busy = TRUE /\ q.url = page.url /\ q.view = page.view
  BY Busy DEF PageFits
<1>2. q.pollError = page.pollError
  BY Busy DEF PageFits
<1>3. /\ WellFormed(r) /\ r.kind \in Posts /\ r.reply = NoReply /\ r.heard = TRUE /\ ~page.busy
      /\ r.kind = "COMMAND" => r.of = page.url /\ page.view # NoView /\ ~Waiting(page)
  BY DEF Submits, Submit
<1>8. r.kind = "COMMAND" => page.url # 0 /\ r.of \in SessionIds /\ ss[r.of] # NoSession
  BY <1>3, Constants DEF WellFormed, TrueToService, Linked, Ids, SessionIds
<1>4. PICK new : SentAs(requests, r, new)
  BY <1>3, SendingIsTyped DEF PageFits
<1>5. /\ out = requests \cup {new} /\ new.kind = r.kind /\ new.of = r.of /\ new.reply = NoReply
      /\ new.heard = TRUE
  BY <1>3, <1>4 DEF SentAs, SameRequest
<1> HIDE DEF q, out
<1>6. Sound(q, new, ss)
  BY <1>1, <1>3, <1>5, <1>8 DEF Sound, Posts, NoReply, Waiting
<1>9. Apart(requests \cup {new})
  <2>1. r.kind = "COMMAND" => Kind(requests, "POLL") = {}
    BY <1>3, <1>8, NobodyPolls
  <2> QED
    BY <1>3, <1>5, <2>1 DEF TrueToService, Apart, Overtakes, Kind, Posts, NoReply
<1>7. Ready(page, q, requests \cup {new}, ss)
  BY <1>1, <1>2, <1>3, <1>5, <1>6, <1>9, SendingIsReady
<1> QED
  BY <1>5, <1>7 DEF q, out

LEMMA WakingIsReady ==
  ASSUME NEW ss, PageFits(page, requests), TrueToService(page, requests, ss),
         Recovering(page, requests), Wake
  PROVE  Ready(page, [page EXCEPT !.poll = Asking],
               Sent(requests, [Ask("POLL", page.url) EXCEPT !.failures = page.poll.failures]), ss)
<1> DEFINE ask == Ask("POLL", page.url)
           r == [ask EXCEPT !.failures = page.poll.failures]
           q == [page EXCEPT !.poll = Asking]
           out == Sent(requests, r)
<1>1. page.poll.phase = "ASLEEP" /\ page.poll.failures \in Nat
  BY DEF Wake, PageFits, WellFormedPage, Page, Poller
<1>2. page.url \in Ids /\ Followed(page)
  BY <1>1 DEF PageFits, PollFits, Followed, WellFormedPage
<1>5. /\ page.url \in SessionIds /\ ss[page.url] # NoSession
      /\ \A x \in requests : ~Overtakes(x)
  BY <1>2, FollowedIsASession DEF TrueToService
<1>3. WellFormed(ask) /\ ask.kind = "POLL" /\ ask.heard = TRUE /\ ask.reply = NoReply
      /\ ask.of = page.url
  BY <1>2, Asking1
<1> HIDE DEF ask
<1>4. WellFormed(r) /\ r.kind = "POLL" /\ r.heard = TRUE /\ r.reply = NoReply /\ r.of = page.url
  BY <1>1, <1>3, CountingIsTyped
<1> HIDE DEF r
<1>6. PICK new : SentAs(requests, r, new)
  BY <1>4, SendingIsTyped DEF PageFits
<1>7. out = requests \cup {new} /\ new.kind = "POLL" /\ new.reply = NoReply /\ new.heard = TRUE
      /\ new.of = page.url
  BY <1>4, <1>6 DEF SentAs, SameRequest
<1>8. q.url = page.url /\ q.view = page.view /\ q.busy = page.busy
  BY DEF PageFits, WellFormedPage, Page
<1>9. q.pollError = page.pollError
  BY DEF PageFits, WellFormedPage, Page
<1>10. new.kind \notin Posts
  BY <1>7 DEF Posts
<1> HIDE DEF q, out
<1>11. Sound(q, new, ss)
  BY <1>5, <1>7, NewRequestsAreSound
<1>13. Apart(requests \cup {new})
  BY <1>5, <1>7 DEF Apart, Overtakes
<1>12. Ready(page, q, requests \cup {new}, ss)
  BY <1>7, <1>8, <1>9, <1>10, <1>11, <1>13, SendingIsReady
<1> QED
  BY <1>7, <1>12 DEF q, out, r, ask

LEMMA WakingJobIsReady ==
  ASSUME NEW ss, PageFits(page, requests), TrueToService(page, requests, ss),
         Recovering(page, requests), WakeJob
  PROVE  Ready(page, [page EXCEPT !.jobPoll = Asking],
               Sent(requests, [AskJob(page.job.id) EXCEPT !.failures = page.jobPoll.failures]), ss)
<1> DEFINE ask == AskJob(page.job.id)
           r == [ask EXCEPT !.failures = page.jobPoll.failures]
           q == [page EXCEPT !.jobPoll = Asking]
           out == Sent(requests, r)
<1>1. page.jobPoll.phase = "ASLEEP" /\ page.jobPoll.failures \in Nat
  BY DEF WakeJob, PageFits, WellFormedPage, Page, Poller
<1>2. page.job.id \in Jobs
  BY <1>1 DEF PageFits, JobFits, Importing, WellFormedPage
<1>3. WellFormed(ask) /\ ask.kind = "JOB" /\ ask.heard = TRUE /\ ask.reply = NoReply
  BY <1>2, AskingForAJob
<1> HIDE DEF ask
<1>4. WellFormed(r) /\ r.kind = "JOB" /\ r.heard = TRUE /\ r.reply = NoReply
  BY <1>1, <1>3, CountingIsTyped
<1> HIDE DEF r
<1>6. PICK new : SentAs(requests, r, new)
  BY <1>4, SendingIsTyped DEF PageFits
<1>7. out = requests \cup {new} /\ new.kind = "JOB" /\ new.reply = NoReply /\ new.heard = TRUE
  BY <1>4, <1>6 DEF SentAs, SameRequest
<1>8. q.url = page.url /\ q.view = page.view /\ q.busy = page.busy
  BY DEF PageFits, WellFormedPage, Page
<1>9. q.pollError = page.pollError
  BY DEF PageFits, WellFormedPage, Page
<1>10. new.kind \notin Posts
  BY <1>7 DEF Posts
<1> HIDE DEF q, out
<1>11. Sound(q, new, ss)
  BY <1>7, NewRequestsAreSound
<1>13. Apart(requests \cup {new})
  BY <1>7 DEF TrueToService, Apart, Overtakes
<1>12. Ready(page, q, requests \cup {new}, ss)
  BY <1>7, <1>8, <1>9, <1>10, <1>11, <1>13, SendingIsReady
<1> QED
  BY <1>7, <1>12 DEF q, out, r, ask

(* The reply changes neither link nor view.                                *)
LEMMA LeavingIsReady ==
  ASSUME NEW p, NEW q, NEW reqs, NEW ss, TrueToService(p, reqs, ss), NEW r \in reqs,
         q.url = p.url, q.view = p.view, q.pollError = FALSE,
         \A x \in reqs \ {r} : x.kind \in Posts => q.busy,
         r.kind = "COMMAND" => r.reply.status # "OK", Recovering(p, reqs)
  PROVE  Ready(p, q, reqs \ {r}, ss)
<1> DEFINE base == reqs \ {r}
<1>1. Linked(q, ss)
  BY DEF TrueToService, Linked
<1>2. OnePost(base) /\ Apart(base)
  BY DEF TrueToService, OnePost, Apart
<1>3. UpToDate(q, base, ss)
  BY DEF TrueToService, UpToDate, Waiting
<1>4. ASSUME NEW x \in base PROVE Sound(q, x, ss)
  <2>1. Sound(p, x, ss)
    BY DEF TrueToService
  <2> QED
    BY <2>1, SoundOnTheSameScreen
<1>5. Recovering(q, base) /\ FollowKey(q) = FollowKey(p)
  BY DEF Recovering, Of, FollowKey
<1> QED
  BY <1>1, <1>2, <1>3, <1>4, <1>5 DEF Ready, TrueToService

(* The reply puts its snapshot on the screen.                              *)
LEMMA ShowingIsReady ==
  ASSUME NEW p, NEW q, NEW reqs, NEW ss, TrueToService(p, reqs, ss), NEW r \in reqs,
         Faithful(r.reply, ss), Shows(q, r), q.url \in {0, r.reply.of}, q.pollError = FALSE,
         \A x \in reqs \ {r} : Sound(q, x, ss), Kind(reqs \ {r}, "POLL") = {} \/ q.url = 0,
         q.url = p.url /\ q.view = p.view => Recovering(q, reqs \ {r})
  PROVE  Ready(p, q, reqs \ {r}, ss)
<1> DEFINE base == reqs \ {r}
<1>1. /\ q.view.of = r.reply.of /\ q.view.s = r.reply.s /\ q.url \in {0, q.view.of}
      /\ q.view.of \in SessionIds /\ ss[q.view.of] # NoSession /\ 0 \notin SessionIds
  BY DEF Shows, Faithful, SessionIds
<1>2. Linked(q, ss) /\ OnePost(base) /\ Apart(base)
  BY <1>1 DEF Linked, TrueToService, OnePost, Apart
<1>3. UpToDate(q, base, ss)
  BY <1>1 DEF UpToDate, Waiting, Faithful
<1> QED
  BY <1>2, <1>3 DEF Ready, TrueToService

LEMMA HearingARecovery ==
  ASSUME NEW p, NEW reqs, NEW ss, PageFits(p, reqs), TrueToService(p, reqs, ss),
         Recovering(p, reqs), NEW r \in reqs, r.kind = "RECOVER"
  PROVE  Ready(p, Recovered(p, r), reqs \ {r}, ss)
<1> DEFINE q == Recovered(p, r)
           base == reqs \ {r}
<1>1. WellFormedPage(p) /\ WellFormed(r) /\ p.pollError = FALSE /\ Sound(p, r, ss)
      /\ \A x \in reqs : Sound(p, x, ss)
  BY DEF PageFits, InFlight, TrueToService, Linked
<1>2. /\ q.busy = p.busy
      /\ \/ q = p
         \/ r.heard /\ r.reply.status = "OK" /\ q.url = p.url /\ Shows(q, r) /\ q.pollError = FALSE
         \/ r.heard /\ r.reply.status = "NOT_FOUND" /\ q = [p EXCEPT !.url = 0]
  BY <1>1, RecoveredIsAPage
<1> HIDE DEF q
<1>3. CASE q = p
  <2>1. q.pollError = FALSE /\ \A x \in reqs \ {r} : x.kind \in Posts => q.busy
    BY <1>1, <1>3 DEF Sound
  <2> QED
    BY <1>3, <2>1, LeavingIsReady DEF q
<1>4. ASSUME r.heard
      PROVE  /\ r.of = p.url /\ p.view = NoView /\ r.of \in Ids /\ Kind(base, "POLL") = {}
             /\ \A x \in base : x.kind # "COMMAND"
  <2>1. r \in Of(reqs, "RECOVER")
    BY <1>4 DEF Of
  <2>2. r.of = p.url /\ p.view = NoView /\ p.url # 0
    BY <1>1, <2>1, Constants DEF Recovering, WellFormed
  <2>3. ~Waiting(p)
    BY <2>2 DEF Waiting, NoView, NoSession, PendingStates
  <2>4. Kind(reqs, "POLL") = {}
    BY <2>2, <2>3, NobodyPolls
  <2> QED
    BY <1>1, <2>2, <2>4 DEF WellFormed, Kind, Sound
<1>5. CASE r.heard /\ r.reply.status = "OK" /\ q.url = p.url /\ Shows(q, r) /\ q.pollError = FALSE
  <2>1. Faithful(r.reply, ss) /\ r.reply.of = r.of
    BY <1>1, <1>5 DEF Sound, Snapshotted
  <2>2. q.url = r.reply.of /\ p.url \in SessionIds
    BY <1>4, <1>5, <2>1 DEF Faithful
  <2>3. q.view # p.view
    <3>1. q.view.of \in SessionIds /\ p.view.of = 0
      BY <1>4, <1>5, <2>1 DEF Shows, Faithful, NoView
    <3>2. 0 \notin SessionIds
      BY DEF SessionIds
    <3> QED
      BY <3>1, <3>2
  <2>4. ASSUME NEW x \in base PROVE Sound(q, x, ss)
    BY <1>1, <1>2, <1>4, <1>5, <2>2 DEF Sound
  <2> QED
    BY <1>4, <1>5, <2>1, <2>2, <2>3, <2>4, ShowingIsReady DEF q
<1>6. CASE r.heard /\ r.reply.status = "NOT_FOUND" /\ q = [p EXCEPT !.url = 0]
  <2>1. q.url = 0 /\ q.view = NoView /\ 0 \notin SessionIds /\ p.url # 0
    BY <1>1, <1>4, <1>6, Constants DEF WellFormedPage, Page, SessionIds
  <2>2. q.pollError = p.pollError
    BY <1>1, <1>6 DEF WellFormedPage, Page
  <2>3. Linked(q, ss) /\ OnePost(base) /\ Apart(base) /\ UpToDate(q, base, ss)
    BY <1>1, <2>1, <2>2 DEF Linked, TrueToService, OnePost, Apart, UpToDate
  <2>4. ASSUME NEW x \in base PROVE Sound(q, x, ss)
    BY <1>1, <1>2, <1>4, <1>6, <2>1 DEF Sound
  <2> QED
    BY <1>4, <1>6, <2>1, <2>3, <2>4 DEF Ready, TrueToService, q
<1> QED
  BY <1>2, <1>3, <1>5, <1>6

LEMMA HearingAPoll ==
  ASSUME NEW p, NEW reqs, NEW ss, PageFits(p, reqs), TrueToService(p, reqs, ss),
         Recovering(p, reqs), NEW r \in reqs, r.kind = "POLL", ~Unserved(r)
  PROVE  Ready(p, Polled(p, r), reqs \ {r}, ss)
<1> DEFINE q == Polled(p, r)
           base == reqs \ {r}
<1>1. WellFormedPage(p) /\ WellFormed(r) /\ Sound(p, r, ss) /\ \A x \in reqs : Sound(p, x, ss)
  BY DEF PageFits, InFlight, TrueToService
<1>2. r.reply.status = "OK" /\ Faithful(r.reply, ss) /\ r.reply.of = r.of
  BY <1>1 DEF Sound, Unserved, Snapshotted
<1>3. p.url # 0 => Kind(reqs, "POLL") = {r} /\ r.of = p.url
  BY PollsAreHeard
<1>9. \A x \in base : ~Overtakes(x)
  BY DEF TrueToService, Apart
<1>10. q.url = p.url
  BY <1>1, PolledIsAPage
<1>12. q.busy = p.busy
  BY <1>1, PolledIsAPage
<1>11. Shows(q, r)
  <2>1. q.view = IF r.reply.status = "OK" THEN [of |-> r.reply.of, s |-> r.reply.s] ELSE p.view
    BY <1>1, PolledIsAPage
  <2> QED
    BY <1>2, <2>1 DEF Shows
<1>4. q.url = p.url /\ q.busy = p.busy /\ Shows(q, r)
  BY <1>10, <1>11, <1>12
<1>5. q.pollError = FALSE
  BY <1>1, <1>2, PolledIsAPage
<1> HIDE DEF q
<1>6. ASSUME NEW x \in base PROVE Sound(q, x, ss)
  BY <1>1, <1>4, <1>9 DEF Sound, Overtakes
<1>7. /\ Kind(base, "POLL") = {} \/ q.url = 0
      /\ q.url = p.url /\ q.view = p.view => Recovering(q, base)
  BY <1>3, <1>4 DEF Kind, Recovering, Of
<1>8. q.url \in {0, r.reply.of}
  BY <1>2, <1>3, <1>4
<1> QED
  BY <1>2, <1>4, <1>5, <1>6, <1>7, <1>8, ShowingIsReady DEF q

LEMMA HearingOfAJob ==
  ASSUME NEW p, NEW reqs, NEW ss, PageFits(p, reqs), TrueToService(p, reqs, ss),
         Recovering(p, reqs), NEW r \in reqs, r.kind = "JOB", ~Unserved(r)
  PROVE  Ready(p, JobPolled(p, r), reqs \ {r}, ss)
<1> DEFINE q == JobPolled(p, r)
<1>1. WellFormedPage(p) /\ WellFormed(r) /\ Sound(p, r, ss) /\ \A x \in reqs : Sound(p, x, ss)
  BY DEF PageFits, InFlight, TrueToService
<1>2. r.reply.status = "OK"
  BY <1>1 DEF Sound, Unserved
<1>3. q.url = p.url /\ q.view = p.view /\ q.busy = p.busy
  BY <1>1, JobPolledIsAPage
<1>4. q.pollError = p.pollError
  BY <1>1, <1>2, JobPolledIsAPage
<1>5. p.pollError = FALSE
  BY DEF TrueToService, Linked
<1> HIDE DEF q
<1>6. q.pollError = FALSE
  BY <1>4, <1>5
<1>7. \A x \in reqs \ {r} : x.kind \in Posts => q.busy
  BY <1>1, <1>3 DEF Sound
<1> QED
  BY <1>3, <1>6, <1>7, LeavingIsReady DEF q

LEMMA HearingACommand ==
  ASSUME NEW p, NEW reqs, NEW ss, PageFits(p, reqs), TrueToService(p, reqs, ss),
         Recovering(p, reqs), NEW r \in reqs, r.kind = "COMMAND", ~Unserved(r),
         NEW out, Continues(reqs \ {r}, r, out)
  PROVE  Ready(p, Commanded(p, r), out, ss)
<1> DEFINE q == Commanded(p, r)
           base == reqs \ {r}
<1>1. WellFormedPage(p) /\ WellFormed(r) /\ Sound(p, r, ss) /\ \A x \in reqs : Sound(p, x, ss)
  BY DEF PageFits, InFlight, TrueToService
<1>2. /\ r.heard /\ r.reply.status \in {"OK", "REFUSED"}
      /\ p.url = 0 \/ (p.view # NoView /\ r.of = p.url)
      /\ r.of \in SessionIds /\ ss[r.of] # NoSession
  BY <1>1 DEF Sound, Unserved, Posts
<1>3. ASSUME NEW x \in base
      PROVE  x.kind \notin Posts /\ (x.kind = "RECOVER" => ~x.heard)
  <2>1. x.kind \notin Posts
    <3>1. OnePost(reqs) /\ r.kind \in Posts
      BY DEF TrueToService, Posts
    <3> QED
      BY <3>1 DEF OnePost
  <2>2. x.kind = "RECOVER" => x.of # 0
    BY Constants DEF PageFits, InFlight, WellFormed
  <2> QED
    BY <1>2, <2>1, <2>2 DEF Recovering, Of
<1>4. Kind(base, "POLL") = {}
  BY DEF TrueToService, Apart, Overtakes, Kind
<1>5. \A x \in base : Sound(q, x, ss)
  BY <1>1, <1>3, <1>4, SoundWithoutThePage DEF Kind
<1>6. q.url = p.url
  BY <1>1, CommandedIsAPage
<1>7. CASE r.reply.status = "OK"
  <2>1. q.busy = GoesOn(r)
    BY <1>1, <1>7, CommandedIsAPage
  <2>2. Shows(q, r)
    BY <1>1, <1>7, CommandedIsAPage
  <2>3. q.pollError = FALSE
    BY <1>1, <1>7, CommandedIsAPage
  <2>4. Faithful(r.reply, ss) /\ r.reply.of = r.of
    BY <1>1, <1>2, <1>7 DEF Sound, Snapshotted
  <2>5. q.url \in {0, r.of} /\ q.url \in {0, r.reply.of} /\ Recovering(q, base)
    BY <1>2, <1>3, <1>6, <2>4 DEF Recovering, Of
  <2> HIDE DEF q
  <2>6. Ready(p, q, base, ss)
    BY <1>4, <1>5, <2>2, <2>3, <2>4, <2>5, ShowingIsReady
  <2>7. CASE out = base
    BY <2>6, <2>7 DEF q
  <2>8. CASE GoesOn(r) /\ \E new : /\ out = base \cup {new} /\ new.kind = "COMMAND"
                                    /\ new.of = r.of /\ new.reply = NoReply /\ new.heard = TRUE
    <3>1. PICK new : /\ out = base \cup {new} /\ new.kind = "COMMAND"
                     /\ new.of = r.of /\ new.reply = NoReply /\ new.heard = TRUE
      BY <2>8
    <3>2. q.view.s.state = "QUESTION_COMPLETED"
      BY <2>2, <2>8 DEF Shows, GoesOn
    <3>3. q.view # NoView /\ ~Waiting(q)
      BY <3>2 DEF Waiting, PendingStates, NoView, NoSession
    <3>4. Sound(q, new, ss)
      BY <1>2, <2>1, <2>5, <2>8, <3>1, <3>3 DEF Sound, NoReply
    <3>5. OnePost(out) /\ Apart(out)
      BY <1>3, <1>4, <3>1 DEF OnePost, Apart, Kind
    <3>6. UpToDate(q, out, ss)
      BY <2>6, <3>1 DEF Ready, TrueToService, UpToDate
    <3>7. TrueToService(q, out, ss)
      BY <1>5, <2>6, <3>1, <3>4, <3>5, <3>6 DEF Ready, TrueToService
    <3>8. Kind(out, "POLL") = {} /\ Recovering(q, out)
      BY <1>4, <2>5, <3>1 DEF Kind, Recovering, Of
    <3> QED
      BY <3>7, <3>8 DEF Ready, q
  <2> QED
    BY <1>7, <2>7, <2>8 DEF Continues
<1>8. CASE r.reply.status = "REFUSED"
  <2>1. q.view = p.view
    BY <1>1, <1>8, CommandedIsAPage
  <2>2. q.pollError = p.pollError
    BY <1>1, <1>8, CommandedIsAPage
  <2>3. p.pollError = FALSE
    BY DEF TrueToService, Linked
  <2>4. out = base
    BY <1>8 DEF Continues, GoesOn
  <2> HIDE DEF q
  <2>5. q.pollError = FALSE /\ \A x \in base : x.kind \in Posts => q.busy
    BY <1>3, <2>2, <2>3
  <2> QED
    BY <1>6, <1>8, <2>1, <2>4, <2>5, LeavingIsReady DEF q
<1> QED
  BY <1>2, <1>7, <1>8

LEMMA HearingOfAPost ==
  ASSUME NEW p, NEW reqs, NEW ss, PageFits(p, reqs), TrueToService(p, reqs, ss),
         Recovering(p, reqs), NEW r \in reqs, r.kind \in {"PROJECT", "UPLOAD", "CREATE"}
  PROVE  Ready(p, Prepared(p, r), reqs \ {r}, ss)
<1> DEFINE q == Prepared(p, r)
           base == reqs \ {r}
<1>1. WellFormedPage(p) /\ WellFormed(r) /\ Sound(p, r, ss) /\ \A x \in reqs : Sound(p, x, ss)
  BY DEF PageFits, InFlight, TrueToService
<1>2. r.heard
  BY <1>1 DEF Sound, Posts
<1>3. ASSUME NEW x \in base PROVE x.kind \notin Posts
  <2>1. OnePost(reqs) /\ r.kind \in Posts
    BY DEF TrueToService, Posts
  <2> QED
    BY <2>1 DEF OnePost
<1>4. q.pollError = p.pollError
  BY <1>1, PreparedIsAPage
<1>5. p.pollError = FALSE
  BY DEF TrueToService, Linked
<1>6. \/ /\ r.kind \notin {"PROJECT", "UPLOAD"} /\ r.reply.status = "OK"
         /\ Shows(q, r) /\ q.url = r.reply.of
      \/ q.view = p.view /\ q.url = p.url
  BY <1>1, PreparedIsAPage
<1> HIDE DEF q
<1>7. q.pollError = FALSE
  BY <1>4, <1>5
<1>8. CASE q.view = p.view /\ q.url = p.url
  BY <1>3, <1>7, <1>8, LeavingIsReady DEF q
<1>9. CASE /\ r.kind \notin {"PROJECT", "UPLOAD"} /\ r.reply.status = "OK"
           /\ Shows(q, r) /\ q.url = r.reply.of
  <2>1. Faithful(r.reply, ss) /\ p.view = NoView /\ p.url \notin SessionIds
    BY <1>1, <1>2, <1>9 DEF Sound, Snapshotted
  <2>3. Kind(base, "POLL") = {}
    BY <1>9 DEF TrueToService, Apart, Overtakes, Kind
  <2>4. \A x \in base : Sound(q, x, ss)
    BY <1>1, <1>3, <2>3, SoundWithoutThePage DEF Kind
  <2>5. q.url # p.url
    BY <1>9, <2>1 DEF Faithful
  <2> QED
    BY <1>7, <1>9, <2>1, <2>3, <2>4, <2>5, ShowingIsReady DEF q
<1> QED
  BY <1>6, <1>8, <1>9

LEMMA HearingIsReady ==
  ASSUME NEW p, NEW reqs, NEW ss, PageFits(p, reqs), TrueToService(p, reqs, ss),
         Recovering(p, reqs), NEW r \in reqs, ~Unserved(r)
  PROVE  Ready(p, Heard(p, r), Sequel(reqs \ {r}, r), ss)
<1>1. /\ InFlight(reqs \ {r}) /\ WellFormed(r) /\ r.kind \in Gets \cup Posts /\ Sound(p, r, ss)
  BY LeavingIsTyped DEF PageFits, InFlight, WellFormed, Request, TrueToService
<1>2. Continues(reqs \ {r}, r, Sequel(reqs \ {r}, r))
  BY <1>1, SequelsAreTyped
<1>3. r.kind # "REFRESH"
  BY <1>1 DEF Sound
<1>4. r.kind # "COMMAND" => Sequel(reqs \ {r}, r) = reqs \ {r}
  BY <1>2 DEF Continues, GoesOn
<1>5. CASE r.kind = "COMMAND"
  BY <1>2, <1>5, HearingACommand DEF Heard
<1>6. CASE r.kind = "RECOVER"
  BY <1>4, <1>6, HearingARecovery DEF Heard
<1>7. CASE r.kind = "POLL"
  BY <1>4, <1>7, HearingAPoll DEF Heard
<1>8. CASE r.kind = "JOB"
  BY <1>4, <1>8, HearingOfAJob DEF Heard
<1>9. CASE r.kind \in {"PROJECT", "UPLOAD", "CREATE"}
  <2>1. Heard(p, r) = Prepared(p, r)
    BY <1>9 DEF Heard
  <2> QED
    BY <1>4, <1>9, <2>1, HearingOfAPost
<1> QED
  BY <1>1, <1>3, <1>5, <1>6, <1>7, <1>8, <1>9 DEF Gets, Posts

LEMMA PageStepsAreTrue ==
  ASSUME PageFits(page, requests), mishaps = 0, mishaps' = 0, PageSteps,
         TrueToService(page, requests, sessions), Recovering(page, requests)
  PROVE  TrueToService(page', requests', sessions) /\ Recovering(page', requests')
<1>0. ~Mishap
  BY DEF Mishap
<1>1. CASE CreateProject \/ UploadPdf \/ CreateSession \/ SendCommand
  <2>1. PICK r : Submits(r)
    BY <1>1, SubmittingIsTyped DEF PageFits
  <2>2. Becomes([page EXCEPT !.busy = TRUE], Sent(requests, r))
    BY <2>1 DEF Submits, Submit
  <2> QED
    BY <2>1, <2>2, SubmittingFits, SubmittingIsReady, Becoming, RenderingIsTrue
<1>2. CASE RefreshSession
  <2>1. page.pollError = FALSE /\ page.pollError
    BY <1>2 DEF RefreshSession, TrueToService, Linked
  <2> QED
    BY <2>1
<1>3. CASE ResetSession
  <2> DEFINE q == [page EXCEPT !.url = 0, !.view = NoView, !.pollError = FALSE]
  <2>1. page.view # NoView /\ Becomes(q, requests)
    BY <1>3 DEF ResetSession
  <2>2. q.url = 0 /\ q.view = NoView /\ 0 \notin SessionIds /\ q.busy = page.busy
    BY DEF PageFits, WellFormedPage, Page, SessionIds
  <2>3. q.pollError = FALSE
    BY DEF PageFits, WellFormedPage, Page
  <2>4. Fits(page, q, requests)
    BY ResettingFits
  <2> HIDE DEF q
  <2>5. ASSUME NEW r \in requests PROVE Sound(q, r, sessions)
    <3>1. Sound(page, r, sessions)
      BY DEF TrueToService
    <3> QED
      BY <2>2, <3>1 DEF Sound
  <2>6. Ready(page, q, requests, sessions)
    BY <2>1, <2>2, <2>3, <2>5 DEF Ready, TrueToService, Linked, UpToDate
  <2> QED
    BY <2>1, <2>4, <2>6, Becoming, RenderingIsTrue
<1>4. CASE Reload
  <2> DEFINE q == Mounted(page.url)
  <2>2. Orphans = {}
    BY <1>0, <1>4 DEF Reload
  <2>3. q.url = page.url /\ q.view = NoView /\ q.pollError = FALSE
    BY DEF Mounted
  <2> HIDE DEF q
  <2>4. Ready(Mounted(0), q, Orphans, sessions)
    BY <2>2, <2>3 DEF Ready, TrueToService, Linked, OnePost, Apart, UpToDate, Recovering, Of, Kind
  <2> QED
    BY <1>4, <2>4, ReloadingFits, RenderingIsTrue DEF q
<1>5. CASE Wake
  <2>1. Becomes([page EXCEPT !.poll = Asking],
                Sent(requests, [Ask("POLL", page.url) EXCEPT !.failures = page.poll.failures]))
    BY <1>5 DEF Wake
  <2> QED
    BY <1>5, <2>1, WakingFits, WakingIsReady, Becoming, RenderingIsTrue
<1>6. CASE WakeJob
  <2>1. Becomes([page EXCEPT !.jobPoll = Asking],
                Sent(requests, [AskJob(page.job.id) EXCEPT !.failures = page.jobPoll.failures]))
    BY <1>6 DEF WakeJob
  <2> QED
    BY <1>6, <2>1, WakingJobFits, WakingJobIsReady, Becoming, RenderingIsTrue
<1>7. CASE \E r \in requests : Receive(r)
  <2>1. PICK r \in requests : Receive(r)
    BY <1>7
  <2>2. ~Unserved(r) /\ Becomes(Heard(page, r), Sequel(requests \ {r}, r))
    BY <2>1 DEF Receive
  <2>3. Ready(page, Heard(page, r), Sequel(requests \ {r}, r), sessions)
    BY <2>2, HearingIsReady
  <2> QED
    BY <2>2, <2>3, HearingFits, Becoming, RenderingIsTrue
<1> QED
  BY <1>1, <1>2, <1>3, <1>4, <1>5, <1>6, <1>7 DEF PageSteps, Reader

-----------------------------------------------------------------------------
(* The service behind the page.                                            *)
LEMMA ReplacingIsTrue ==
  ASSUME NEW p, NEW reqs, NEW ss, TrueToService(p, reqs, ss), Recovering(p, reqs),
         NEW r \in reqs, NEW x, SameRequest(x, r), x.heard = r.heard, NEW tt,
         Linked(p, tt), UpToDate(p, (reqs \ {r}) \cup {x}, tt), Sound(p, x, tt),
         Overtakes(x) => Overtakes(r) \/ \A y \in reqs : y.kind # "POLL",
         \A y \in reqs \ {r} : Sound(p, y, tt)
  PROVE  TrueToService(p, (reqs \ {r}) \cup {x}, tt) /\ Recovering(p, (reqs \ {r}) \cup {x})
<1> DEFINE out == (reqs \ {r}) \cup {x}
<1>1. OnePost(out) /\ Apart(out)
  <2>1. x.kind = r.kind
    BY DEF SameRequest
  <2>2. Overtakes(x) => \A y \in reqs : y.kind # "POLL"
    BY DEF TrueToService, Apart
  <2>3. ~(x.kind = "POLL" /\ Overtakes(x))
    BY DEF Overtakes
  <2>4. r.kind = "POLL" => \A y \in reqs : ~Overtakes(y)
    BY DEF TrueToService, Apart
  <2>5. Apart(reqs)
    BY DEF TrueToService
  <2>6. Apart(out)
    BY <2>1, <2>2, <2>3, <2>4, <2>5 DEF Apart
  <2> QED
    BY <2>1, <2>6 DEF TrueToService, OnePost
<1>2. Recovering(p, out)
  BY DEF Recovering, Of, SameRequest
<1> QED
  BY <1>1, <1>2 DEF TrueToService

(* An answer that changes no session.                                      *)
LEMMA AnsweringIsTrue ==
  ASSUME NEW ss, PageFits(page, requests), TrueToService(page, requests, ss),
         Recovering(page, requests), NEW r \in requests, Unserved(r),
         NEW reply, GoodReply(r, reply), Answers(r, reply),
         r.kind \in {"POLL", "JOB"} => reply.status = "OK",
         r.kind = "COMMAND" => reply.status = "REFUSED", r.kind # "CREATE",
         r.kind \in Snapshotted /\ reply.status = "OK" => Faithful(reply, ss) /\ reply.of = r.of
  PROVE  TrueToService(page, requests', ss) /\ Recovering(page, requests')
<1>1. WellFormed(r) /\ Sound(page, r, ss)
  BY DEF PageFits, InFlight, TrueToService
<1>2. PICK x : /\ requests' = (requests \ {r}) \cup {x} /\ SameRequest(x, r) /\ x.heard = r.heard
               /\ x.reply = reply
  BY <1>1, AnsweredRequests DEF Sound
<1>3. x.kind = r.kind /\ x.of = r.of
  BY <1>2 DEF SameRequest
<1>4. Sound(page, x, ss)
  BY <1>1, <1>2, <1>3 DEF Sound
<1>5. UpToDate(page, (requests \ {r}) \cup {x}, ss)
  BY <1>2, <1>3 DEF TrueToService, UpToDate, Unserved
<1>6. Overtakes(x) => Overtakes(r)
  BY <1>3 DEF Overtakes
<1> QED
  BY <1>2, <1>4, <1>5, <1>6, ReplacingIsTrue DEF TrueToService

(* What the step of the service finds, and what it must leave behind.      *)
Quiet ==
  /\ PageFits(page, requests) /\ ServiceInv /\ sessions[DeadLink] = NoSession
  /\ TrueToService(page, requests, sessions) /\ Recovering(page, requests)

StillTrue ==
  /\ sessions'[DeadLink] = NoSession
  /\ TrueToService(page, requests', sessions') /\ Recovering(page, requests')

LEMMA GettingIsTrue ==
  ASSUME Quiet, NEW r \in requests, ServeGet(r)
  PROVE  StillTrue
<1>1. WellFormed(r) /\ Sound(page, r, sessions) /\ r.kind \in {"RECOVER", "POLL"} /\ r.of \in Ids
      /\ Unserved(r) /\ sessions' = sessions
  BY DEF Quiet, PageFits, InFlight, TrueToService, ServeGet, WellFormed, Sound, service
<1>2. CASE sessions[r.of] = NoSession
  <2> DEFINE reply == [NoReply EXCEPT !.status = "NOT_FOUND"]
  <2>1. Answers(r, reply) /\ reply.status = "NOT_FOUND"
    BY <1>2 DEF ServeGet, NoReply
  <2>2. GoodReply(r, reply)
    BY PlainReplies
  <2>3. r.kind # "POLL"
    BY <1>1, <1>2 DEF Sound
  <2> HIDE DEF reply
  <2>4. TrueToService(page, requests', sessions) /\ Recovering(page, requests')
    BY <1>1, <2>1, <2>2, <2>3, AnsweringIsTrue DEF Quiet
  <2> QED
    BY <1>1, <2>4 DEF StillTrue, Quiet
<1>3. CASE sessions[r.of] # NoSession
  <2> DEFINE reply == Snapshot(r.of, sessions[r.of])
  <2>1. r.of \in SessionIds /\ Regular(sessions[r.of])
    BY <1>1, <1>3 DEF Quiet, Ids, ServiceInv
  <2>2. /\ reply \in Reply /\ reply.s = sessions[r.of] /\ reply.of = r.of
        /\ reply.arg \in Jobs \cup {0} /\ reply.status = "OK"
    BY <1>1, <2>1, Snapshots DEF Quiet, ServiceInv
  <2>3. Answers(r, reply)
    BY <1>3 DEF ServeGet
  <2> HIDE DEF reply
  <2>4. GoodReply(r, reply) /\ Faithful(reply, sessions)
    BY <1>1, <1>3, <2>1, <2>2 DEF GoodReply, Faithful
  <2>5. TrueToService(page, requests', sessions) /\ Recovering(page, requests')
    BY <1>1, <2>2, <2>3, <2>4, AnsweringIsTrue DEF Quiet
  <2> QED
    BY <1>1, <2>5 DEF StillTrue, Quiet
<1> QED
  BY <1>2, <1>3

LEMMA AnsweringTheRestIsTrue ==
  ASSUME Quiet, NEW r \in requests,
         ServeJob(r) \/ RefuseCommand(r) \/ ServeProject(r) \/ ServeUpload(r)
  PROVE  StillTrue
<1>0. WellFormed(r) /\ PageFits(page, requests)
  BY DEF Quiet, PageFits, InFlight
<1>1. CASE ServeJob(r)
  <2> DEFINE reply == [NoReply EXCEPT !.status = "OK", !.job = imports[r.arg]]
  <2>1. Answers(r, reply) /\ reply.status = "OK" /\ r.kind = "JOB" /\ Unserved(r)
    BY <1>1 DEF ServeJob, NoReply
  <2>2. imports[r.arg] \in JobStates
    BY <1>0, <2>1 DEF WellFormed, Quiet, ServiceInv
  <2>3. GoodReply(r, reply)
    BY <2>1, <2>2, PlainReplies
  <2> HIDE DEF reply
  <2>4. TrueToService(page, requests', sessions) /\ Recovering(page, requests')
    BY <2>1, <2>3, AnsweringIsTrue DEF Quiet, Snapshotted
  <2> QED
    BY <1>1, <2>4 DEF StillTrue, Quiet, ServeJob, service
<1>2. CASE RefuseCommand(r)
  <2> DEFINE reply == [NoReply EXCEPT !.status = "REFUSED"]
  <2>1. Answers(r, reply) /\ reply.status = "REFUSED" /\ r.kind = "COMMAND" /\ Unserved(r)
    BY <1>2 DEF RefuseCommand, NoReply
  <2>2. GoodReply(r, reply)
    BY PlainReplies
  <2> HIDE DEF reply
  <2>3. TrueToService(page, requests', sessions) /\ Recovering(page, requests')
    BY <2>1, <2>2, AnsweringIsTrue DEF Quiet
  <2> QED
    BY <1>2, <2>3 DEF StillTrue, Quiet, RefuseCommand, service
<1>3. CASE ServeProject(r)
  <2> DEFINE reply == [NoReply EXCEPT !.status = "OK"]
  <2>1. Answers(r, reply) /\ r.kind = "PROJECT" /\ Unserved(r)
    BY <1>3 DEF ServeProject
  <2>2. GoodReply(r, reply)
    BY <2>1, PlainReplies
  <2> HIDE DEF reply
  <2>3. TrueToService(page, requests', sessions) /\ Recovering(page, requests')
    BY <2>1, <2>2, AnsweringIsTrue DEF Quiet, Snapshotted
  <2> QED
    BY <1>3, <2>3 DEF StillTrue, Quiet, ServeProject, service
<1>4. CASE ServeUpload(r)
  <2>1. PICK j \in Jobs : Answers(r, [NoReply EXCEPT !.status = "OK", !.arg = j])
    BY <1>4 DEF ServeUpload
  <2> DEFINE reply == [NoReply EXCEPT !.status = "OK", !.arg = j]
  <2>2. Answers(r, reply) /\ r.kind = "UPLOAD" /\ Unserved(r) /\ sessions' = sessions
    BY <1>4, <2>1 DEF ServeUpload
  <2>3. GoodReply(r, reply)
    BY <2>2, PlainReplies
  <2> HIDE DEF reply
  <2>4. TrueToService(page, requests', sessions) /\ Recovering(page, requests')
    BY <2>2, <2>3, AnsweringIsTrue DEF Quiet, Snapshotted
  <2> QED
    BY <2>2, <2>4 DEF StillTrue, Quiet
<1> QED
  BY <1>1, <1>2, <1>3, <1>4

(* A command is executed on the session that was shown settled when it was *)
(* chosen: nothing else in flight carries a snapshot of it.                *)
LEMMA ExecutingIsTrue ==
  ASSUME Quiet, NEW r \in requests, ExecuteCommand(r)
  PROVE  StillTrue
<1>1. WellFormed(r) /\ Sound(page, r, sessions) /\ r.kind = "COMMAND" /\ ServiceInv
      /\ sessions \in [Ids -> Session]
  BY DEF Quiet, PageFits, InFlight, TrueToService, ExecuteCommand, ServiceInv
<1>2. PICK next \in Outcomes(r) : /\ sessions' = [sessions EXCEPT ![r.of] = next]
                                  /\ Answers(r, Snapshot(r.of, next))
  BY DEF ExecuteCommand
<1>3. /\ r.of \in Ids /\ Regular(next) /\ next.rev = sessions[r.of].rev + 1
      /\ GoodReply(r, Snapshot(r.of, next))
  BY <1>1, ExecutionsAreGood
<1>4. /\ r.of \in SessionIds /\ Linked(page, sessions)
      /\ page.url = 0 \/ page.view # NoView
  BY <1>1 DEF Sound, Quiet, TrueToService
<1>5. next # NoSession
  BY <1>1, <1>3 DEF Session, NoSession
<1>6. /\ sessions'[r.of] = next /\ sessions'[DeadLink] = NoSession
      /\ \A i \in SessionIds : i # r.of => sessions'[i] = sessions[i]
  BY <1>1, <1>2, <1>3, <1>4, Constants DEF Quiet, Ids
<1>7. PICK x : /\ requests' = (requests \ {r}) \cup {x} /\ SameRequest(x, r) /\ x.heard = r.heard
               /\ x.reply = Snapshot(r.of, next)
  BY <1>1, <1>2, <1>3, AnsweredRequests DEF Sound
<1>8. /\ x.reply.status = "OK" /\ x.reply.of = r.of /\ x.reply.s = next
      /\ x.kind = "COMMAND" /\ x.of = r.of
  BY <1>1, <1>3, <1>7, Snapshots DEF SameRequest, ServiceInv
<1>9. Linked(page, sessions')
  BY <1>4, <1>5, <1>6 DEF Linked
<1>10. Sound(page, x, sessions')
  <2>1. Faithful(x.reply, sessions')
    BY <1>4, <1>5, <1>6, <1>8 DEF Faithful
  <2> QED
    BY <1>1, <1>4, <1>5, <1>6, <1>7, <1>8, <2>1 DEF Sound
<1>11. ASSUME NEW y \in requests \ {r} PROVE Sound(page, y, sessions')
  <2>1. y.kind \notin Posts
    <3>1. OnePost(requests) /\ r.kind \in Posts
      BY <1>1 DEF Quiet, TrueToService, Posts
    <3> QED
      BY <3>1 DEF OnePost
  <2>2. y.kind # "POLL"
    BY <1>1 DEF Quiet, TrueToService, Apart, Overtakes
  <2>3. y.kind = "RECOVER" => ~y.heard
    <3>1. y.kind = "RECOVER" => y.of # 0
      BY Constants DEF Quiet, PageFits, InFlight, WellFormed
    <3> QED
      BY <1>4, <3>1 DEF Quiet, Recovering, Of
  <2>4. Sound(page, y, sessions)
    BY DEF Quiet, TrueToService
  <2> QED
    BY <2>1, <2>2, <2>3, <2>4 DEF Sound, Snapshotted, Posts
<1>12. UpToDate(page, (requests \ {r}) \cup {x}, sessions')
  BY <1>8 DEF UpToDate
<1>14. Overtakes(r)
  BY <1>1 DEF Overtakes
<1>13. TrueToService(page, requests', sessions') /\ Recovering(page, requests')
  BY <1>7, <1>9, <1>10, <1>11, <1>12, <1>14, ReplacingIsTrue DEF Quiet
<1> QED
  BY <1>6, <1>13 DEF StillTrue

(* The first session: nothing is on the screen, and no link leads to one.  *)
LEMMA CreatingIsTrue ==
  ASSUME Quiet, NEW r \in requests, ServeCreate(r), OneSession'
  PROVE  StillTrue
<1>1. WellFormed(r) /\ Sound(page, r, sessions) /\ r.kind = "CREATE" /\ Unserved(r)
      /\ sessions \in [Ids -> Session] /\ r.arg \in Jobs
  BY DEF Quiet, PageFits, InFlight, TrueToService, ServeCreate, ServiceInv, WellFormed
<1>2. PICK id \in SessionIds :
        /\ sessions[id] = NoSession
        /\ sessions' = [sessions EXCEPT ![id] = NewSession]
        /\ Answers(r, [Snapshot(id, NewSession) EXCEPT !.arg = r.arg])
  BY DEF ServeCreate
<1>3. Regular(NewSession) /\ NewSession # NoSession /\ NewSession.state \in PendingStates
      /\ NewSession.state = "CREATED"
  BY FirstSessions, FirstSessionsAreRegular DEF NewSession, NoSession, PendingStates
<1>4. /\ sessions'[id] = NewSession /\ sessions'[DeadLink] = NoSession
      /\ \A i \in SessionIds : i # id => sessions'[i] = sessions[i]
  BY <1>1, <1>2, Constants DEF Quiet, Ids
<1>5. \A i \in SessionIds : sessions[i] = NoSession
  BY <1>2, <1>3, <1>4 DEF OneSession
<1>6. page.url \notin SessionIds /\ page.view = NoView /\ page.pollError = FALSE
  BY <1>5 DEF Quiet, TrueToService, Linked
<1> DEFINE reply == Snapshot(id, NewSession)
           sent == [reply EXCEPT !.arg = r.arg]
<1>7. reply \in Reply /\ reply.s = NewSession /\ reply.of = id /\ reply.status = "OK"
  BY <1>3, Snapshots DEF Quiet, ServiceInv, Ids
<1>8. Answers(r, sent)
  BY <1>2
<1> HIDE DEF reply
<1>9. r.arg \in Nat
  BY <1>1, Constants
<1>10. sent \in Reply /\ sent.s = NewSession /\ sent.of = id /\ sent.arg = r.arg /\ sent.status = "OK"
  BY <1>7, <1>9 DEF Reply
<1> HIDE DEF sent
<1>11. GoodReply(r, sent)
  BY <1>1, <1>3, <1>10 DEF GoodReply, Ids
<1>12. PICK x : /\ requests' = (requests \ {r}) \cup {x} /\ SameRequest(x, r) /\ x.heard = r.heard
                /\ x.reply = sent
  BY <1>1, <1>8, <1>11, AnsweredRequests DEF Sound
<1>13. x.kind = "CREATE"
  BY <1>1, <1>12 DEF SameRequest
<1>14. Linked(page, sessions') /\ UpToDate(page, (requests \ {r}) \cup {x}, sessions')
  BY <1>6 DEF Linked, UpToDate
<1>15. Sound(page, x, sessions')
  <2>1. Faithful(x.reply, sessions')
    BY <1>2, <1>3, <1>4, <1>10, <1>12 DEF Faithful
  <2> QED
    BY <1>1, <1>6, <1>12, <1>13, <2>1 DEF Sound
<1>16. ASSUME NEW y \in requests
       PROVE  y.kind \notin {"POLL", "COMMAND"} /\ Sound(page, y, sessions')
  <2>1. Sound(page, y, sessions)
    BY DEF Quiet, TrueToService
  <2>2. ~Faithful(y.reply, sessions)
    BY <1>5 DEF Faithful
  <2>3. y.kind \notin {"POLL", "COMMAND"}
    BY <1>5, <2>1 DEF Sound
  <2> QED
    BY <2>1, <2>2, <2>3 DEF Sound
<1>18. \A y \in requests : y.kind # "POLL"
  BY <1>16
<1>17. TrueToService(page, requests', sessions') /\ Recovering(page, requests')
  BY <1>12, <1>14, <1>15, <1>16, <1>18, ReplacingIsTrue DEF Quiet
<1> QED
  BY <1>4, <1>17 DEF StillTrue

(* A result or a failure: it is awaited, so nothing settled shows the      *)
(* session it is for.                                                      *)
LEMMA GeneratingIsTrue ==
  ASSUME Quiet, NEW id \in SessionIds, Generate(id)
  PROVE  StillTrue
<1>1. sessions \in [Ids -> Session] /\ sessions[id].state \in PendingStates /\ id \in Ids
      /\ Regular(sessions[id]) /\ requests' = requests
  BY DEF Quiet, ServiceInv, Generate, Ids
<1>2. PICK next \in Results(id) \cup
             UNION {Failing(sessions[id], f) : f \in Failures(sessions[id])} :
        sessions' = [sessions EXCEPT ![id] = next]
  BY DEF Generate
<1>3. Regular(next) /\ next.rev = sessions[id].rev + 1
  BY <1>1, GenerationsGrow
<1>4. next # NoSession
  BY <1>1, <1>3 DEF Session, NoSession
<1>5. /\ sessions'[id] = next /\ sessions'[DeadLink] = NoSession
      /\ \A i \in SessionIds : i # id => sessions'[i] = sessions[i]
  BY <1>1, <1>2, Constants DEF Quiet, Ids
<1>6. Linked(page, sessions')
  BY <1>4, <1>5 DEF Quiet, TrueToService, Linked
<1>7. UpToDate(page, requests, sessions')
  <2> SUFFICES ASSUME page.view # NoView, ~Waiting(page),
                      \A r \in requests : r.kind = "COMMAND" => r.reply.status # "OK"
               PROVE  page.view.s = sessions'[page.view.of]
    BY DEF UpToDate
  <2>1. page.view.s = sessions[page.view.of] /\ page.view.of \in SessionIds
    BY DEF Quiet, TrueToService, UpToDate, Linked
  <2>2. page.view.of # id
    BY <1>1, <2>1 DEF Waiting
  <2> QED
    BY <1>5, <2>1, <2>2
<1>8. ASSUME NEW y \in requests PROVE Sound(page, y, sessions')
  <2>1. Sound(page, y, sessions)
    BY DEF Quiet, TrueToService
  <2>2. Faithful(y.reply, sessions) => Faithful(y.reply, sessions')
    BY <1>1, <1>4, <1>5 DEF Faithful
  <2>3. \A i \in SessionIds : sessions[i] # NoSession => sessions'[i] # NoSession
    BY <1>4, <1>5
  <2> QED
    BY <2>1, <2>2, <2>3 DEF Sound
<1> QED
  BY <1>1, <1>5, <1>6, <1>7, <1>8 DEF StillTrue, Quiet, TrueToService

(* Mishaps are never forgotten and no session is ever deleted: a quiet     *)
(* state comes after quiet states only.                                    *)
LEMMA SessionsStay ==
  ASSUME ServiceInv, ServiceMoves, NEW id \in Ids, sessions[id] # NoSession
  PROVE  sessions'[id] # NoSession
<1>1. CASE sessions' = sessions
  BY <1>1
<1>2. ASSUME NEW w, NEW next, Writes(w, next) PROVE sessions'[id] # NoSession
  <2>1. sessions \in [Ids -> Session] /\ sessions[w].rev \in Nat
    BY <1>2 DEF ServiceInv, Writes, Session
  <2>2. next.rev # NoSession.rev
    BY <1>2, <2>1 DEF Writes, NoSession
  <2>3. id = w => sessions'[id] = next
    BY <1>2, <2>1 DEF Writes
  <2>4. id # w => sessions'[id] = sessions[id]
    BY <1>2, <2>1 DEF Writes
  <2> QED
    BY <2>2, <2>3, <2>4
<1> QED
  BY <1>1, <1>2 DEF ServiceMoves

LEMMA QuietBefore ==
  ASSUME ServiceInv, ServiceMoves, mishaps' = 0, OneSession'
  PROVE  mishaps = 0 /\ ~Mishap /\ OneSession
<1>1. mishaps \in Nat
  BY Constants DEF ServiceInv
<1>2. ~Mishap
  BY <1>1 DEF Mishap
<1>3. mishaps = 0
  BY <1>2 DEF ServiceMoves, NoMishap
<1>4. OneSession
  BY SessionsStay DEF OneSession, Ids
<1> QED
  BY <1>2, <1>3, <1>4

LEMMA ServiceStepsAreTrue ==
  ASSUME Quiet, mishaps = 0, ~Mishap, OneSession',
         (\E r \in requests : AnswerStep(r)) \/ BackgroundStep
  PROVE  StillTrue
<1>1. ASSUME NEW r \in requests, AnswerStep(r) PROVE StillTrue
  <2>1. ~RefuseOvertaken(r) /\ ~Fail(r)
    BY DEF RefuseOvertaken, Fail
  <2>2. Serve(r)
    BY <1>1, <2>1 DEF AnswerStep
  <2> QED
    BY <2>2, GettingIsTrue, AnsweringTheRestIsTrue, ExecutingIsTrue, CreatingIsTrue DEF Serve
<1>2. ASSUME NEW id \in SessionIds, OtherPage(id) PROVE FALSE
  BY <1>2 DEF OtherPage
<1>3. ASSUME NEW id \in SessionIds, Generate(id) PROVE StillTrue
  BY <1>3, GeneratingIsTrue
<1>4. ASSUME NEW j \in Jobs, Import(j) PROVE StillTrue
  BY <1>4 DEF Import, Quiet, StillTrue
<1> QED
  BY <1>1, <1>2, <1>3, <1>4 DEF BackgroundStep

LEMMA ViewInvInit == Init => ViewInv
<1> SUFFICES ASSUME Init PROVE ViewInv
  OBVIOUS
<1>1. PICK url \in {0, DeadLink} : page = Opened(url).page /\ requests = Opened(url).reqs
  BY DEF Init
<1> DEFINE q == Mounted(url)
<1>2. url \in Ids \cup {0} /\ url \notin SessionIds /\ sessions[DeadLink] = NoSession
  BY <1>1, Constants DEF Ids, SessionIds, DeadLink, Init
<1>3. Fits(Mounted(0), q, {})
  BY <1>2, NothingInFlight, FirstPages
<1>4. PICK m, out : RenderedAs(Mounted(0), q, {}, m, out)
  BY <1>3, Rendering DEF Fits
<1>5. page = m /\ requests = out
  BY <1>1, <1>4 DEF Opened, RenderedAs
<1>6. q.url = url /\ q.view = NoView /\ q.pollError = FALSE
  BY DEF Mounted
<1> HIDE DEF q
<1>7. Ready(Mounted(0), q, {}, sessions)
  BY <1>2, <1>6 DEF Ready, TrueToService, Linked, OnePost, Apart, UpToDate, Recovering, Of, Kind
<1>8. TrueToService(page, requests, sessions) /\ Recovering(page, requests)
  BY <1>4, <1>5, <1>7, RenderingIsTrue
<1> QED
  BY <1>2, <1>8 DEF ViewInv

LEMMA ViewInvStep == PageInv /\ ViewInv /\ [Next]_vars => ViewInv'
<1> SUFFICES ASSUME PageInv, ViewInv, [Next]_vars, mishaps' = 0, OneSession'
             PROVE  /\ sessions'[DeadLink] = NoSession
                    /\ TrueToService(page', requests', sessions')
                    /\ Recovering(page', requests')
  BY DEF ViewInv
<1>0. PageFits(page, requests) /\ ServiceInv
  BY DEF PageInv
<1>1. CASE PageSteps
  <2>1. sessions' = sessions /\ (Mishap \/ NoMishap) /\ UNCHANGED service
    BY <1>1, PageStepsLeaveTheService DEF service
  <2>2. ServiceMoves
    BY <1>0, <2>1 DEF ServiceMoves, service, ServiceInv
  <2>3. mishaps = 0 /\ Quiet
    BY <1>0, <2>2, QuietBefore DEF ViewInv, Quiet
  <2> QED
    BY <1>0, <1>1, <2>1, <2>3, PageStepsAreTrue DEF Quiet
<1>2. CASE (\E r \in requests : AnswerStep(r)) \/ BackgroundStep
  <2>1. page' = page /\ ServiceMoves
    <3>1. ASSUME NEW r \in requests, AnswerStep(r) PROVE page' = page /\ ServiceMoves
      <4>1. WellFormed(r)
        BY <1>0 DEF PageFits, InFlight
      <4> QED
        BY <1>0, <3>1, <4>1, AnswersAreGood
    <3> QED
      BY <1>0, <1>2, <3>1, BackgroundIsTyped
  <2>2. mishaps = 0 /\ ~Mishap /\ Quiet
    BY <1>0, <2>1, QuietBefore DEF ViewInv, Quiet
  <2> QED
    BY <1>2, <2>1, <2>2, ServiceStepsAreTrue DEF StillTrue
<1>3. CASE UNCHANGED vars
  BY <1>3 DEF ViewInv, vars, OneSession
<1> QED
  BY <1>1, <1>2, <1>3, Steps

LEMMA ViewInvHolds == Spec => []ViewInv
BY ViewInvInit, ViewInvStep, PageInvHolds, PTL DEF Spec

(* A settled session on the screen, with no command of its own under way,  *)
(* is the service's session, as long as nothing was lost, no other page    *)
(* was at work and no second session was created: however often the reader *)
(* goes back while polls and commands are in flight, no late reply leaves  *)
(* an older settled snapshot on it (resetSession, the two effects and      *)
(* sendCommand of GuidedLearningWorkbench.tsx).                            *)
THEOREM SettledViewsAreCurrent == Spec => []SettledViewIsCurrent
<1>1. ViewInv => SettledViewIsCurrent
  BY DEF ViewInv, TrueToService, UpToDate, SettledViewIsCurrent
<1> QED
  BY <1>1, ViewInvHolds, PTL
=============================================================================
