-------------------------------- MODULE Feed --------------------------------
(***************************************************************************)
(* The external policy feed (internal/extpolicy) and its consumer          *)
(* packeteer-policy (cmd/policy): the routes the announce controller has   *)
(* on the wire, published with an expiry, long-polled by the consumer and  *)
(* put on the operator's own BGP daemon.                                   *)
(*                                                                         *)
(* Four activities meet: the announce controller's calls (a Mirror call is *)
(* two steps: the announcer, then the feed), the decision rounds, one      *)
(* request in the server, and the consumer's loop.  Every time is relative *)
(* to now: an age counts up to Cap, a deadline or a timer counts down to   *)
(* 0.  A step that is due is taken before the clock moves on, but for a    *)
(* frozen process, a round and an apply, which may take time.              *)
(*                                                                         *)
(* A route is its prefix: a route that moves is another prefix.  Checks of *)
(* the token, of a route's fields and of the document's syntax are left    *)
(* out, and so is the gRPC stream, which packeteer-policy does not use.    *)
(***************************************************************************)
EXTENDS Integers

CONSTANTS
  Prefix,
  TTLs,      \* the values of external_policy.ttl
  Interval,  \* the probe interval: a round starts at least this often
  StartPoll, \* startPoll
  Slack,     \* pollSlack
  Retry,     \* retryWait
  Transit,   \* an answer arrives within this time or not at all
  ApplyTime, \* an apply ends within this time (reloadTimeout)
  MaxEvents  \* bound on Mirror calls, reloads, stops, crashes and failures

ASSUME FeedAssumption ==
  /\ Interval \in Nat \ {0} /\ StartPoll \in Nat \ {0} /\ Retry \in Nat \ {0}
  /\ TTLs \subseteq Nat /\ \A t \in TTLs : t >= 3 * Interval
  /\ \E t \in TTLs : \A u \in TTLs : u <= t
  /\ {Slack, Transit, MaxEvents} \subseteq Nat /\ ApplyTime \in Nat \ {0}

VARIABLES
  ctl,     \* the controller process
  feed,    \* extpolicy.Feed; age is the age of fresh
  inner,   \* the routes the announcer behind Mirror has on the wire
  call,    \* the Mirror call between its two steps
  torn,    \* what failed calls took off the wire and no later call settled
  round,   \* the decision round: whether it runs and the age of its start
  req,     \* the consumer's request: where it is, and the answer
  con,     \* the consumer; left is deadline minus now
  daemon,  \* the routes on the operator's daemon
  half,    \* an apply failed after it changed the daemon, and none succeeded since
  renewed, \* the age of the newest round any Touch published
  lag,     \* for how long the daemon has had each prefix while it is not listed
  healthy, \* nothing was lost, late, stopped or turned off so far
  events

vars == <<ctl, feed, inner, call, torn, round, req, con, daemon, half, renewed,
          lag, healthy, events>>

MaxTTL == CHOOSE t \in TTLs : \A u \in TTLs : u <= t
Cap == MaxTTL + Transit + 2 * ApplyTime
Never == -1
Lower(x, y) == IF x < y THEN x ELSE y
Older(age) == IF age = Never THEN Never ELSE Lower(age + 1, Cap)
Down(t) == IF t = 0 THEN 0 ELSE t - 1

Doc == [rev : Nat, left : Nat, poll : Nat \ {0}, routes : SUBSET Prefix]
FeedState == [wire : SUBSET Prefix, routes : SUBSET Prefix, rev : Nat,
              age : {Never} \cup 0..Cap, ttl : TTLs, enabled : BOOLEAN,
              closed : BOOLEAN]
Call == [op : {"none", "set", "del", "clear"}, on : SUBSET Prefix]
Request == [at : {"none", "sent", "armed", "parked", "doc", "answer"},
            rev : Nat, wait : BOOLEAN, changed : Nat, timer : Nat, doc : Doc]
Consumer == [at : {"top", "ask", "fetch", "put", "failed", "pause", "final",
                   "stopped", "crashed"},
             next : {"top", "ask", "failed", "final", "stopped"},
             applied : SUBSET Prefix, want : SUBSET Prefix, started : BOOLEAN,
             left : Nat, poll : Nat, rev : Nat, haveRev : BOOLEAN,
             timer : Nat, error : BOOLEAN]

TypeOK ==
  /\ ctl \in {"up", "frozen", "down"}
  /\ feed \in FeedState /\ inner \subseteq Prefix /\ call \in Call
  /\ torn \subseteq Prefix /\ half \in BOOLEAN
  /\ round \in [open : BOOLEAN, age : 0..Cap]
  /\ req \in Request /\ con \in Consumer /\ daemon \subseteq Prefix
  /\ renewed \in {Never} \cup 0..Cap /\ lag \in [Prefix -> 0..Cap]
  /\ healthy \in BOOLEAN /\ events \in 0..MaxEvents

-----------------------------------------------------------------------------
\* What happens from outside is bounded.
Event == events < MaxEvents /\ events' = events + 1
NoEvent == UNCHANGED <<events, healthy>>

feedSide == <<ctl, feed, inner, call, torn, round, renewed>>
conSide == <<con, daemon, half>>

\* New
NewFeed(ttl, enabled) ==
  [wire |-> {}, routes |-> {}, rev |-> 0, age |-> Never, ttl |-> ttl,
   enabled |-> enabled, closed |-> FALSE]

NoCall == [op |-> "none", on |-> {}]
NoDoc == [rev |-> 0, left |-> 0, poll |-> 1, routes |-> {}]
NoReq == [at |-> "none", rev |-> 0, wait |-> FALSE, changed |-> 0,
          timer |-> 0, doc |-> NoDoc]

NewConsumer ==
  [at |-> "top", next |-> "top", applied |-> {}, want |-> {},
   started |-> FALSE, left |-> 0, poll |-> 0, rev |-> 0, haveRev |-> FALSE,
   timer |-> 0, error |-> FALSE]

\* A consumer may find routes an earlier one left on the daemon.
Init ==
  /\ ctl = "up"
  /\ \E t \in TTLs : feed = NewFeed(t, TRUE)
  /\ inner = {} /\ call = NoCall /\ torn = {} /\ half = FALSE
  /\ round = [open |-> FALSE, age |-> Interval]
  /\ req = NoReq /\ con = NewConsumer
  /\ daemon \in SUBSET Prefix
  /\ renewed = Never /\ lag = [p \in Prefix |-> 0] /\ healthy = TRUE /\ events = 0

-----------------------------------------------------------------------------
(* The feed *)

\* Mutant: the heartbeat is the TTL itself.
HeartbeatOnce(ttl) == ttl

HeartbeatOf(ttl) == IF ttl \div 3 > 1 THEN ttl \div 3 ELSE 1

Document ==
  LET live == feed.age # Never /\ feed.enabled /\ ~feed.closed
              /\ feed.age < feed.ttl
  IN [rev |-> feed.rev, poll |-> HeartbeatOf(feed.ttl),
      left |-> IF live THEN feed.ttl - feed.age ELSE 0,
      routes |-> IF live THEN feed.routes ELSE {}]

\* Mutant: a withdrawn route stays published until the next Touch.
UnpublishLater(f, gone) == f

\* unpublishLocked; a new revision is also what closes the changed channel.
Unpublish(f, gone) ==
  IF f.closed \/ f.routes \cap gone = {} THEN f
  ELSE [f EXCEPT !.routes = @ \ gone, !.rev = @ + 1]

\* The controller is up and its shutdown has not reached the feed.
Running == ctl = "up" /\ ~feed.closed

\* Announce, Withdraw, WithdrawAll and SetRouters, up to the announcer's
\* return.  The controller withdraws what it counts as announced, which is what
\* the feed has recorded; SetRouters clears the feed whatever its announcer kept.
MirrorCall ==
  /\ Running /\ call = NoCall /\ Event
  /\ \/ \E p \in Prefix : /\ inner' = inner \cup {p}
                          /\ call' = [op |-> "set", on |-> {p}]
     \/ \E p \in feed.wire : /\ inner' = inner \ {p}
                             /\ call' = [op |-> "del", on |-> {p}]
     \/ /\ inner' \in SUBSET inner
        /\ call' = [op |-> "clear", on |-> Prefix]
  /\ UNCHANGED <<ctl, feed, torn, round, req, con, daemon, half, renewed, lag,
                 healthy>>

\* The announcer returns an error and Mirror leaves the feed as it was.  An
\* Announce that moves a route to a next hop a router blocks has taken the old
\* path off the wire before it fails, and a WithdrawAll that fails has removed
\* every path but the ones it failed on.
MirrorFails ==
  /\ Running /\ call = NoCall /\ Event
  /\ \/ \E p \in Prefix : inner' \in {inner, inner \ {p}}
     \/ inner' \in SUBSET inner /\ inner' # {}
  /\ torn' = torn \cup (inner \ inner')
  /\ UNCHANGED <<ctl, feed, call, round, req, con, daemon, half, renewed, lag,
                 healthy>>

\* Feed.set, Feed.del and Feed.clear: the end of the call.
MirrorRecord ==
  /\ ctl = "up" /\ call # NoCall
  /\ feed' = IF call.op = "set" THEN [feed EXCEPT !.wire = @ \cup call.on]
             ELSE Unpublish([feed EXCEPT !.wire = @ \ call.on], call.on)
  /\ call' = NoCall /\ torn' = torn \ call.on
  /\ NoEvent
  /\ UNCHANGED <<ctl, inner, round, req, con, daemon, half, renewed, lag>>

\* A round reads the clock when it starts (at a tick or a kick).
RoundStart ==
  /\ Running /\ ~round.open /\ round.age > 0
  /\ round' = [open |-> TRUE, age |-> 0]
  /\ NoEvent
  /\ UNCHANGED <<ctl, feed, inner, call, torn, req, con, daemon, half, renewed, lag>>

\* Touch, after the round's Sync, with the time the round started.
Touch ==
  /\ ctl = "up" /\ round.open
  /\ round' = [round EXCEPT !.open = FALSE]
  /\ feed' = IF feed.closed THEN feed
             ELSE [feed EXCEPT !.age = round.age, !.routes = feed.wire,
                               !.rev = IF feed.wire = feed.routes THEN @
                                       ELSE @ + 1]
  /\ renewed' = IF feed.closed THEN renewed ELSE round.age
  /\ lag' = [p \in Prefix |-> IF p \in feed'.routes THEN 0 ELSE lag[p]]
  /\ NoEvent
  /\ UNCHANGED <<ctl, inner, call, torn, req, con, daemon, half>>

\* A config reload; turning the feed off is the operator's own drop.
SetRuntime ==
  /\ Running /\ Event
  /\ \E t \in TTLs, e \in BOOLEAN :
       /\ feed.enabled # e \/ feed.ttl # t
       /\ feed' = [feed EXCEPT !.rev = @ + 1, !.enabled = e, !.ttl = t]
  /\ healthy' = FALSE
  /\ UNCHANGED <<ctl, inner, call, torn, round, req, con, daemon, half, renewed, lag>>

\* The shutdown closes the feed once the last round and call have ended.
Close ==
  /\ Running /\ call = NoCall /\ ~round.open /\ Event
  /\ feed' = [feed EXCEPT !.closed = TRUE, !.rev = @ + 1]
  /\ healthy' = FALSE
  /\ UNCHANGED <<ctl, inner, call, torn, round, req, con, daemon, half, renewed, lag>>

-----------------------------------------------------------------------------
(* The server: one GET of the consumer *)

InServer == req.at \in {"sent", "armed", "parked", "doc"}

\* The timer starts before the first look at the feed; Changed comes before
\* Document.
ServerArm ==
  /\ ctl = "up"
  /\ \/ req.at = "sent"
     \/ req.at = "parked" /\ req.changed # feed.rev
  /\ req' = IF req.wait
            THEN [req EXCEPT !.at = IF feed.closed THEN "doc" ELSE "armed",
                             !.changed = feed.rev,
                             !.timer = IF req.at = "sent"
                                       THEN HeartbeatOf(feed.ttl) ELSE @]
            ELSE [req EXCEPT !.at = "doc"]
  /\ NoEvent
  /\ UNCHANGED <<feedSide, conSide, lag>>

\* Mutant: waitChange reads the revision before the changed channel.
ServerCheckSwapped ==
  /\ ctl = "up" /\ req.at = "armed"
  /\ req' = [req EXCEPT !.at = IF req.changed # req.rev THEN "doc" ELSE "parked",
                        !.changed = feed.rev]
  /\ NoEvent
  /\ UNCHANGED <<feedSide, conSide, lag>>

ServerCheck ==
  /\ ctl = "up" /\ req.at = "armed"
  /\ req' = [req EXCEPT !.at = IF feed.rev # req.rev THEN "doc" ELSE "parked"]
  /\ NoEvent
  /\ UNCHANGED <<feedSide, conSide, lag>>

ServerTimer ==
  /\ ctl = "up" /\ req.at = "parked" /\ req.timer = 0
  /\ req' = [req EXCEPT !.at = "doc"]
  /\ NoEvent
  /\ UNCHANGED <<feedSide, conSide, lag>>

ServerAnswer ==
  /\ ctl = "up" /\ req.at = "doc"
  /\ req' = [req EXCEPT !.at = "answer", !.timer = Transit, !.doc = Document]
  /\ NoEvent
  /\ UNCHANGED <<feedSide, conSide, lag>>

-----------------------------------------------------------------------------
(* The consumer *)

\* Mutant: put does not ask whether anything was applied yet.
PutUnstarted(c, want, next) ==
  IF want = c.applied
  THEN [c EXCEPT !.at = next, !.error = FALSE]
  ELSE [c EXCEPT !.at = "put", !.want = want, !.next = next,
                 !.timer = ApplyTime]

\* put: skipped when want is what the last apply that succeeded has put there.
Put(c, want, next) ==
  IF c.started /\ want = c.applied
  THEN [c EXCEPT !.at = next, !.error = FALSE]
  ELSE [c EXCEPT !.at = "put", !.want = want, !.next = next,
                 !.timer = ApplyTime]

PollEvery(c) == IF c.poll = 0 THEN StartPoll ELSE c.poll

\* Mutant: a fetch may wait past the deadline.
LimitUnclamped(c) == PollEvery(c) + Slack

\* How long step lets a fetch take: never past the deadline.
Limit(c) ==
  LET longest == PollEvery(c) + Slack
  IN IF c.left > 0 THEN Lower(c.left, longest) ELSE longest

\* The start of step: routes past their deadline go before the fetch.
StepTop ==
  /\ con.at = "top"
  /\ con' = IF con.left = 0 THEN Put(con, {}, "ask")
            ELSE [con EXCEPT !.at = "ask"]
  /\ NoEvent
  /\ UNCHANGED <<feedSide, req, daemon, half, lag>>

StepFetch ==
  /\ con.at = "ask"
  /\ con' = [con EXCEPT !.at = "fetch", !.timer = Limit(con)]
  /\ req' = [NoReq EXCEPT !.at = "sent", !.rev = con.rev, !.wait = con.haveRev]
  /\ NoEvent
  /\ UNCHANGED <<feedSide, daemon, half, lag>>

\* The rest of step when a document arrives: left is counted from now.
StepDocument ==
  /\ con.at = "fetch" /\ req.at = "answer"
  /\ LET got == [con EXCEPT !.left = req.doc.left, !.rev = req.doc.rev,
                            !.haveRev = TRUE, !.poll = req.doc.poll]
     IN con' = Put(got, IF got.left = 0 THEN {} ELSE req.doc.routes, "top")
  /\ req' = NoReq
  /\ NoEvent
  /\ UNCHANGED <<feedSide, daemon, half, lag>>

FetchFails == con' = Put(con, IF con.left = 0 THEN {} ELSE con.applied, "failed")

\* The fetch ends without a document: at its limit, or because the process
\* that would answer is gone.
StepError ==
  /\ con.at = "fetch"
  /\ con.timer = 0 \/ (ctl = "down" /\ req.at # "answer") \/ req.at = "none"
  /\ FetchFails /\ req' = NoReq
  /\ NoEvent
  /\ UNCHANGED <<feedSide, daemon, half, lag>>

\* The network loses the request or the answer at any point; the consumer sees
\* an error at once or finds out at its limit.
Lose ==
  /\ con.at = "fetch" /\ req.at # "none" /\ Event
  /\ req' = NoReq
  /\ healthy' = FALSE
  /\ UNCHANGED <<feedSide, conSide, lag>>

\* run pauses after an error, but not past the deadline.
Pause ==
  /\ con.at = "failed"
  /\ con' = [con EXCEPT !.at = "pause",
                        !.timer = IF con.left > 0 THEN Lower(con.left, Retry)
                                  ELSE Retry]
  /\ NoEvent
  /\ UNCHANGED <<feedSide, req, daemon, half, lag>>

Wake ==
  /\ con.at = "pause" /\ con.timer = 0
  /\ con' = [con EXCEPT !.at = "top"]
  /\ NoEvent
  /\ UNCHANGED <<feedSide, req, daemon, half, lag>>

ApplyDone ==
  /\ con.at = "put"
  /\ daemon' = con.want /\ half' = FALSE
  /\ con' = [con EXCEPT !.at = con.next, !.applied = con.want, !.want = {},
                        !.started = TRUE, !.error = FALSE]
  /\ NoEvent
  /\ UNCHANGED <<feedSide, req, lag>>

\* An apply fails before it changes anything (the file cannot be written) or,
\* as the file is replaced before the reload runs and as lines reach ExaBGP one
\* by one, after the daemon has the new routes.
ApplyFails ==
  /\ con.at = "put" /\ Event
  /\ daemon' \in {daemon, con.want} /\ half' = (half \/ daemon' # daemon)
  /\ con' = [con EXCEPT !.at = con.next, !.want = {}, !.error = TRUE]
  /\ healthy' = FALSE
  /\ UNCHANGED <<feedSide, req, lag>>

\* SIGTERM ends a fetch or a pause; an apply that is under way ends first (a
\* reload that is killed by it has failed).
Stop ==
  /\ con.at \in {"top", "ask", "fetch", "put", "failed", "pause"} /\ Event
  /\ con' = IF con.at = "put" THEN [con EXCEPT !.next = "final"]
            ELSE [con EXCEPT !.at = "final"]
  /\ req' = NoReq
  /\ healthy' = FALSE
  /\ UNCHANGED <<feedSide, daemon, half, lag>>

StopFinal ==
  /\ con.at = "final"
  /\ con' = Put(con, {}, "stopped")
  /\ NoEvent
  /\ UNCHANGED <<feedSide, req, daemon, half, lag>>

-----------------------------------------------------------------------------
(* Processes and time *)

\* SIGKILL of the consumer, in the middle of an apply or not.
ConsumerCrash ==
  /\ con.at \notin {"stopped", "crashed"} /\ Event
  /\ daemon' \in IF con.at = "put" THEN {daemon, con.want} ELSE {daemon}
  /\ con' = [NewConsumer EXCEPT !.at = "crashed"]
  /\ req' = NoReq
  /\ healthy' = FALSE
  /\ UNCHANGED <<feedSide, half, lag>>

ConsumerStart ==
  /\ con.at \in {"stopped", "crashed"}
  /\ con' = NewConsumer
  /\ NoEvent
  /\ UNCHANGED <<feedSide, req, daemon, half, lag>>

\* A stopped or stuck process: nothing in it moves until it is resumed.
Freeze ==
  /\ ctl = "up" /\ Event
  /\ ctl' = "frozen" /\ healthy' = FALSE
  /\ UNCHANGED <<feed, inner, call, torn, round, req, con, daemon, half, renewed, lag>>

Thaw ==
  /\ ctl = "frozen"
  /\ ctl' = "up"
  /\ NoEvent
  /\ UNCHANGED <<feed, inner, call, torn, round, req, con, daemon, half, renewed, lag>>

\* The end of the process.  A request it was serving ends with it, an answer on
\* its way still arrives, and the announcer's session takes its routes along.
Gone ==
  /\ ctl' = "down"
  /\ inner' = {} /\ call' = NoCall /\ torn' = {}
  /\ round' = [open |-> FALSE, age |-> Interval]
  /\ feed' = NewFeed(feed.ttl, feed.enabled)
  /\ req' = IF InServer THEN NoReq ELSE req
  /\ UNCHANGED <<con, daemon, half, renewed, lag>>

\* Server.Shutdown lets the requests it has finish.
Exit ==
  /\ ctl = "up" /\ feed.closed /\ req.at \notin {"armed", "parked", "doc"}
  /\ Gone /\ NoEvent

Crash ==
  /\ ctl # "down" /\ Event
  /\ Gone /\ healthy' = FALSE

Restart ==
  /\ ctl = "down"
  /\ ctl' = "up"
  /\ NoEvent
  /\ UNCHANGED <<feed, inner, call, torn, round, req, con, daemon, half, renewed, lag>>

\* Nothing that takes no time is due.
Idle ==
  /\ con.at \in {"fetch", "put", "pause", "stopped", "crashed"}
  /\ con.at \in {"fetch", "put", "pause"} => con.timer > 0
  /\ req.at = "answer" => req.timer > 0
  /\ ctl = "up" =>
       /\ call = NoCall
       /\ ~feed.closed => round.open \/ round.age < Interval
       /\ req.at \notin {"sent", "armed", "doc"}
       /\ req.at = "parked" => req.timer > 0 /\ req.changed = feed.rev

\* One unit of time.  A round or an apply that takes time is late.
Tick ==
  /\ Idle
  /\ feed' = [feed EXCEPT !.age = Older(@)]
  /\ round' = [round EXCEPT !.age = Lower(@ + 1, Cap)]
  /\ req' = [req EXCEPT !.timer = Down(@)]
  /\ con' = [con EXCEPT !.left = Down(@), !.timer = Down(@)]
  /\ renewed' = Older(renewed)
  /\ lag' = [p \in Prefix |-> IF p \in daemon \ Document.routes
                               THEN Lower(lag[p] + 1, Cap) ELSE 0]
  /\ healthy' = (healthy /\ ~round.open /\ con.at # "put")
  /\ UNCHANGED <<ctl, inner, call, torn, daemon, half, events>>

Next ==
  \/ MirrorCall \/ MirrorFails \/ MirrorRecord \/ RoundStart \/ Touch \/ SetRuntime
  \/ Close
  \/ ServerArm \/ ServerCheck \/ ServerTimer \/ ServerAnswer
  \/ StepTop \/ StepFetch \/ StepDocument \/ StepError \/ Lose \/ Pause \/ Wake
  \/ ApplyDone \/ ApplyFails \/ Stop \/ StopFinal \/ ConsumerCrash
  \/ ConsumerStart \/ Freeze \/ Thaw \/ Exit \/ Crash \/ Restart \/ Tick

Spec == Init /\ [][Next]_vars

-----------------------------------------------------------------------------
(***************************************************************************)
(* Fail safe (the package comment of extpolicy): once no round renews the  *)
(* feed, the routes are off the daemon within the TTL, whether the         *)
(* controller is killed, frozen or cut off, or its loop hangs in a round.  *)
(* The deadline is counted from the answer's arrival, so its transit comes *)
(* on top, and so do an apply that is under way and the one that drops     *)
(* them.  A drop that fails is tried again after the next fetch.  What an  *)
(* apply left on the daemon when it failed half-way is out of put's sight  *)
(* until the next apply that succeeds.                                     *)
(***************************************************************************)
DropsOnTime ==
  con.started /\ con.at # "crashed" /\ ~con.error /\ ~half /\ daemon # {} =>
    renewed # Never /\ renewed < MaxTTL + Transit + 2 * ApplyTime

(***************************************************************************)
(* validateExternalPolicy: three intervals leave room before a healthy     *)
(* feed expires.  While rounds and applies are quick and nothing is lost,  *)
(* no route reaches its deadline on the consumer.                          *)
(***************************************************************************)
HealthyKeeps == healthy /\ con.applied # {} => con.left > 0

(***************************************************************************)
(* del and clear unpublish at once and a long poll answers at once: a      *)
(* withdrawn route is off the daemon after one answer that was on its way  *)
(* and the next one, without waiting for a heartbeat or a round.           *)
(***************************************************************************)
WithdrawPrompt == healthy => \A p \in Prefix : lag[p] <= 2 * Transit

(***************************************************************************)
(* Mirror lists a route only once the announcer accepted it and until a    *)
(* call took it off the wire: no Touch publishes, between the two steps of *)
(* a call, a route that is neither on the wire nor about to be             *)
(* unpublished, and what a call that failed took off the wire is listed    *)
(* only until the next call for that route settles it.                     *)
(***************************************************************************)
FeedOnWire == feed.wire \cup feed.routes \subseteq inner \cup call.on \cup torn

(***************************************************************************)
(* What mirror.go says of the feed, "it lists exactly what is on the       *)
(* wire".  It does not hold: Mirror returns before feed.set or feed.clear  *)
(* on an error of an announcer that has removed routes already.            *)
(***************************************************************************)
FeedExact == feed.wire \cup feed.routes \subseteq inner \cup call.on

(***************************************************************************)
(* run applies the empty set when it is stopped: nothing stays on the      *)
(* daemon, also of an earlier consumer and of an apply the stop met,       *)
(* unless that last apply itself fails, or an apply failed after it had    *)
(* changed the daemon and none succeeded since.                            *)
(***************************************************************************)
StopDrops == con.at = "stopped" /\ ~con.error /\ ~half => daemon = {}

(***************************************************************************)
(* What docs/external-policy.md says of a consumer that stops, "applies    *)
(* the empty set when stopped", without that exception.  It does not hold: *)
(* a stop that kills the reload of a first route leaves applied empty and  *)
(* the route on the daemon, and put skips the empty set.                   *)
(***************************************************************************)
StopDropsAlways == con.at = "stopped" /\ ~con.error => daemon = {}

(***************************************************************************)
(* docs/external-policy.md: "A failed reload is retried at the next poll." *)
(* When the consumer waits on the feed and its last put did not fail, the  *)
(* daemon has what the consumer believes is on it.                         *)
(***************************************************************************)
FailureIsRetried ==
  con.at = "fetch" /\ con.started /\ ~con.error => daemon = con.applied

-----------------------------------------------------------------------------
(***************************************************************************)
(* Why DropsOnTime, FeedOnWire and StopDrops hold: an inductive invariant. *)
(* Deadline is the latest age a deadline on the consumer allows.           *)
(***************************************************************************)
Deadline == MaxTTL + Transit

\* A Mirror call under way and the feed.
CallInv ==
  /\ FeedOnWire
  /\ call.op = "none" => call.on = {}
  /\ call.op = "set" => call.on \subseteq inner
  /\ call.op # "none" => ~feed.closed

\* renewed is the age of what the feed holds, and no round renews backwards.
RenewInv ==
  /\ feed.age # Never => renewed # Never /\ renewed <= feed.age
  /\ round.open /\ renewed # Never => round.age <= renewed

\* The time left in an answer, and on the consumer.
LeftInv ==
  /\ req.at = "answer" /\ req.doc.left > 0 =>
       renewed # Never /\ renewed + req.doc.left + req.timer <= Deadline
  /\ con.left > 0 => renewed # Never /\ renewed + con.left <= Deadline

\* What the consumer believes, and what it is about to apply.
AppliedInv ==
  /\ con.started /\ ~half => daemon = con.applied
  /\ ~con.started => con.applied = {}
  /\ con.at = "put" /\ con.want # {} =>
       /\ con.next \in {"top", "final"}
       /\ renewed # Never /\ renewed + con.timer < Deadline + ApplyTime

\* Where the consumer can be while it keeps routes and its last put succeeded.
KeepInv ==
  con.started /\ con.applied # {} /\ ~con.error =>
    /\ renewed # Never
    /\ con.at \in {"top", "ask", "fetch", "put", "failed", "pause", "final"}
    /\ con.at \in {"fetch", "pause"} =>
         con.timer <= con.left /\ renewed + con.left <= Deadline
    /\ con.at \in {"ask", "failed"} => con.left > 0
    /\ con.at \in {"top", "final"} => renewed < Deadline + ApplyTime
    /\ con.at = "put" => renewed + con.timer < Deadline + 2 * ApplyTime

\* A consumer that stopped without an error has applied the empty set.
StoppedInv == con.at = "stopped" => con.started \/ con.error

IInv == TypeOK /\ CallInv /\ RenewInv /\ LeftInv /\ AppliedInv /\ KeepInv
        /\ StoppedInv

-----------------------------------------------------------------------------
(***************************************************************************)
(* Why HealthyKeeps and WithdrawPrompt hold: what is true while nothing    *)
(* was lost or late.  Beat is the poll interval the server answers by,     *)
(* AnswerIn the longest time until the request under way is answered, and  *)
(* Shown what the daemon has once an apply under way has ended.            *)
(***************************************************************************)
Beat == HeartbeatOf(feed.ttl)
AnswerIn ==
  IF req.at = "sent" THEN (IF req.wait THEN Beat ELSE 0) + Transit
  ELSE IF req.at \in {"armed", "parked"} THEN req.timer + Transit
  ELSE IF req.at = "doc" THEN Transit ELSE req.timer
Shown == IF con.at = "put" THEN con.want ELSE daemon

\* The times that keep a healthy feed alive: an answer that is due arrives
\* before the fetch gives up and before the routes expire.
PollsCover ==
  /\ Transit < Slack
  /\ \A t \in TTLs : HeartbeatOf(t) + Transit < t - Interval

\* Both processes run, rounds come in time and no fetch has failed.
SmoothInv ==
  /\ ctl = "up" /\ feed.enabled /\ ~feed.closed
  /\ round.age <= Interval /\ (round.open => round.age = 0)
  /\ feed.age # Never =>
       feed.age <= Interval /\ (~round.open => feed.age <= round.age)
  /\ feed.age = Never => feed.routes = {}
  /\ con.at \in {"top", "ask", "fetch", "put"}
  /\ con.at = "put" => con.next \in {"top", "ask"}
  /\ con.at = "fetch" <=> req.at # "none"
  /\ con.started => daemon = con.applied
  /\ ~con.started =>
       /\ con.left = 0 /\ con.applied = {} /\ con.at \in {"top", "put"}
       /\ con.at = "put" => con.want = {}

\* An answer comes before the fetch gives up and before the routes expire.
FreshInv ==
  /\ con.poll = IF con.haveRev THEN Beat ELSE 0
  /\ con.left > 0 => feed.age # Never
  /\ con.at # "fetch" /\ con.left > 0 => con.left > Beat + Transit
  /\ con.at = "fetch" =>
       /\ con.timer > AnswerIn
       /\ con.left > 0 => con.left > AnswerIn
  /\ con.applied # {} \/ (con.at = "put" /\ con.want # {}) => con.left > 0
  /\ req.at = "answer" =>
       /\ req.doc.poll = Beat
       /\ req.doc.left = 0 => con.left = 0
       /\ req.doc.left > 0 =>
            feed.age # Never /\ req.doc.left > Beat + Transit

\* A revision stands for its routes, and a parked request for the revision the
\* consumer has.
RevInv ==
  /\ con.rev <= feed.rev
  /\ con.haveRev /\ con.rev = feed.rev => Shown \subseteq feed.routes
  /\ con.at = "fetch" => req.rev = con.rev /\ req.wait = con.haveRev
  /\ req.at \in {"armed", "parked"} =>
       req.wait /\ req.rev <= req.changed /\ req.changed <= feed.rev
  /\ req.at = "parked" => req.changed = req.rev
  /\ req.at = "answer" =>
       /\ req.doc.rev <= feed.rev
       /\ req.doc.rev = feed.rev => req.doc.routes \subseteq feed.routes

\* A route the feed does not list is at most one answer that was on its way and
\* the next one away from its end.
LagInv ==
  \A p \in Prefix :
    /\ lag[p] <= 2 * Transit
    /\ p \in feed.routes => lag[p] = 0
    /\ p \in Shown /\ req.at # "answer" => lag[p] <= Transit
    /\ req.at = "answer" =>
         /\ p \in daemon => lag[p] + req.timer <= 2 * Transit
         /\ p \in req.doc.routes => lag[p] + req.timer <= Transit

HealthyInv == healthy => SmoothInv /\ FreshInv /\ RevInv /\ LagInv
=============================================================================
