----------------------------- MODULE Supervisor -----------------------------
(***************************************************************************)
(* The supervisor of an out-of-process plugin                              *)
(* (internal/plugins/grpcplugin/supervisor.go): the plugin host starts and *)
(* stops it, callers use the process in service, and the loop checks it,   *)
(* stops what was taken out of service and launches the next one.          *)
(*                                                                         *)
(* The identity of a process that is gone is used again once no call       *)
(* refers to it, as a pointer would be.  Time is left out: a health check  *)
(* is due at any moment, and due says whether nextTry has passed.  How the *)
(* delay doubles is not modelled.                                          *)
(***************************************************************************)
EXTENDS Integers, FiniteSets

CONSTANTS
  Proc,         \* processes that can be there at once
  Caller,
  MaxMishaps    \* bound on failing launches, processes and connections

None == "none"
ASSUME NoneAssumption == None \notin Proc

VARIABLES
  proc,         \* proc[p]: starting, ok, hung, exited, or gone
  cur, dead, due, woken,   \* supervisor: cur, dead, nextTry, wake
  sup,          \* its cancel, the context of the loop, and done
  host,         \* the Start or Stop under way
  loop,         \* where the loop is, with down, the process at hand and what it stops
  inCall,       \* inCall[c]: the process a call uses
  mishaps

supervisorVars == <<proc, cur, dead, due, woken, sup, host, loop, inCall, mishaps>>

Looping(at) == [at |-> at, down |-> FALSE, p |-> None, stops |-> {}]

SupervisorInit ==
  /\ proc = [p \in Proc |-> "gone"]
  /\ cur = None /\ dead = {} /\ due = TRUE /\ woken = FALSE
  /\ sup = [on |-> FALSE, cancelled |-> FALSE, done |-> "none"]
  /\ host = [at |-> "idle", p |-> None] /\ loop = Looping("none")
  /\ inCall = [c \in Caller |-> None] /\ mishaps = 0

Mishap == mishaps < MaxMishaps /\ mishaps' = mishaps + 1

\* launch begins: the process is a new one.
Launch(p) ==
  /\ proc[p] = "gone" /\ p \notin dead \cup loop.stops /\ \A c \in Caller : inCall[c] # p
  /\ proc' = [proc EXCEPT ![p] = "starting"]

Is(p, state) == proc' = [proc EXCEPT ![p] = state]

\* Mutant: whatever failed, the process in service is taken out.
markDownAny(l) ==
  IF cur # None
  THEN cur' = None /\ dead' = dead \cup {l} /\ due' = FALSE /\ woken' = TRUE
  ELSE UNCHANGED <<cur, dead, due, woken>>

\* markDown, with scheduleRetry and the wake-up: nothing when l is replaced.
markDown(l) ==
  IF cur = l
  THEN cur' = None /\ dead' = dead \cup {l} /\ due' = FALSE /\ woken' = TRUE
  ELSE UNCHANGED <<cur, dead, due, woken>>

-----------------------------------------------------------------------------
(* The plugin host starts and stops in turn *)

\* Start, refused while the previous loop is still ending.
StartPlugin(p) ==
  /\ host.at = "idle" /\ ~sup.on /\ sup.done # "open"
  /\ Launch(p) /\ host' = [at |-> "start", p |-> p]
  /\ UNCHANGED <<cur, dead, due, woken, sup, loop, inCall, mishaps>>

Started ==
  /\ host.at = "start" /\ Is(host.p, "ok") /\ host' = [at |-> "idle", p |-> None]
  /\ cur' = host.p /\ due' = TRUE
  /\ sup' = [on |-> TRUE, cancelled |-> FALSE, done |-> "open"]
  /\ loop' = Looping("top")
  /\ UNCHANGED <<dead, woken, inCall, mishaps>>

StartFails ==
  /\ host.at = "start" /\ Mishap
  /\ Is(host.p, "gone") /\ host' = [at |-> "idle", p |-> None]
  /\ UNCHANGED <<cur, dead, due, woken, sup, loop, inCall>>

StopPlugin ==
  /\ host.at = "idle" /\ sup.on
  /\ sup' = [sup EXCEPT !.on = FALSE, !.cancelled = TRUE]
  /\ host' = [at |-> "stop", p |-> None]
  /\ UNCHANGED <<proc, cur, dead, due, woken, loop, inCall, mishaps>>

\* The loop has ended, or the caller's time is over and it ends later.
StopReturns ==
  /\ host.at = "stop" /\ host' = [at |-> "idle", p |-> None]
  /\ UNCHANGED <<proc, cur, dead, due, woken, sup, loop, inCall, mishaps>>

-----------------------------------------------------------------------------
(* loop *)

\* reap takes the list over, and stops its processes one by one.
Top ==
  /\ loop.at = "top"
  /\ loop' = [loop EXCEPT !.at = "reap", !.stops = dead] /\ dead' = {}
  /\ UNCHANGED <<proc, cur, due, woken, sup, host, inCall, mishaps>>

StopOne(p) ==
  /\ p \in loop.stops /\ Is(p, "gone")
  /\ loop' = [loop EXCEPT !.stops = @ \ {p}]
  /\ UNCHANGED <<cur, dead, due, woken, sup, host, inCall, mishaps>>

Reaped ==
  /\ loop.at = "reap" /\ loop.stops = {}
  /\ loop' = [loop EXCEPT !.at = "wait", !.down = cur = None]
  /\ UNCHANGED <<proc, cur, dead, due, woken, sup, host, inCall, mishaps>>

\* The select, and the look at the context after it.
Wait ==
  /\ loop.at = "wait"
  /\ \/ sup.cancelled /\ woken' \in {woken, FALSE}
     \/ ~sup.cancelled /\ woken /\ woken' = FALSE
     \/ ~sup.cancelled /\ (loop.down => due) /\ UNCHANGED woken
  /\ loop' = [loop EXCEPT !.at = IF sup.cancelled THEN "end" ELSE IF loop.down THEN "restart" ELSE "check"]
  /\ UNCHANGED <<proc, cur, dead, due, sup, host, inCall, mishaps>>

\* check
Check ==
  /\ loop.at = "check"
  /\ loop' = IF cur = None THEN Looping("top") ELSE [Looping("health") EXCEPT !.p = cur]
  /\ UNCHANGED <<proc, cur, dead, due, woken, sup, host, inCall, mishaps>>

\* An answer that does not come is a failure, unless the loop is being ended.
Health ==
  /\ loop.at = "health" /\ loop' = Looping("top")
  /\ IF proc[loop.p] = "ok" \/ sup.cancelled
     THEN UNCHANGED <<cur, dead, due, woken>> ELSE markDown(loop.p)
  /\ UNCHANGED <<proc, sup, host, inCall, mishaps>>

\* restart: a wake-up left over does not skip the delay.
RestartEarly ==
  /\ loop.at = "restart" /\ ~due /\ loop' = Looping("top")
  /\ UNCHANGED <<proc, cur, dead, due, woken, sup, host, inCall, mishaps>>

Restart(p) ==
  /\ loop.at = "restart" /\ due
  /\ Launch(p) /\ loop' = [Looping("launch") EXCEPT !.p = p]
  /\ UNCHANGED <<cur, dead, due, woken, sup, host, inCall, mishaps>>

Restarted ==
  /\ loop.at = "launch" /\ loop' = Looping("top")
  /\ Is(loop.p, "ok")
  /\ IF sup.cancelled THEN dead' = dead \cup {loop.p} /\ UNCHANGED cur
                      ELSE cur' = loop.p /\ UNCHANGED dead
  /\ UNCHANGED <<due, woken, sup, host, inCall, mishaps>>

\* A launch fails, or the end of the loop cancels it.
RestartFails ==
  /\ loop.at = "launch" /\ loop' = Looping("top")
  /\ Is(loop.p, "gone")
  /\ \/ sup.cancelled /\ UNCHANGED <<due, mishaps>>
     \/ ~sup.cancelled /\ due' = FALSE /\ Mishap
  /\ UNCHANGED <<cur, dead, woken, sup, host, inCall>>

\* reapAll; nothing is added to dead once cur is nil.
ReapAll ==
  /\ loop.at = "end"
  /\ loop' = [Looping("ending") EXCEPT !.stops = dead \cup ({cur} \ {None})]
  /\ cur' = None /\ dead' = {}
  /\ UNCHANGED <<proc, due, woken, sup, host, inCall, mishaps>>

Ended ==
  /\ loop.at = "ending" /\ loop.stops = {}
  /\ loop' = Looping("none") /\ sup' = [sup EXCEPT !.done = "closed"]
  /\ UNCHANGED <<proc, cur, dead, due, woken, host, inCall, mishaps>>

-----------------------------------------------------------------------------
(* Calls, processes and time *)

CallBegins(c) ==
  /\ inCall[c] = None /\ cur # None /\ inCall' = [inCall EXCEPT ![c] = cur]
  /\ UNCHANGED <<proc, cur, dead, due, woken, sup, host, loop, mishaps>>

\* call: an answer, or an error other than a lost connection.
CallReturns(c) ==
  /\ inCall[c] # None /\ inCall' = [inCall EXCEPT ![c] = None]
  /\ UNCHANGED <<proc, cur, dead, due, woken, sup, host, loop, mishaps>>

CallUnavailable(c) ==
  /\ inCall[c] # None /\ inCall' = [inCall EXCEPT ![c] = None]
  /\ IF proc[inCall[c]] \in {"exited", "gone"} THEN UNCHANGED mishaps ELSE Mishap
  /\ markDown(inCall[c])
  /\ UNCHANGED <<proc, sup, host, loop>>

ProcessFails(p) ==
  /\ proc[p] \in {"ok", "hung"} /\ Mishap /\ \E s \in {"hung", "exited"} \ {proc[p]} : Is(p, s)
  /\ UNCHANGED <<cur, dead, due, woken, sup, host, loop, inCall>>

Due ==
  /\ ~due /\ due' = TRUE
  /\ UNCHANGED <<proc, cur, dead, woken, sup, host, loop, inCall, mishaps>>

-----------------------------------------------------------------------------

LoopStep ==
  \/ Top \/ Reaped \/ Wait \/ Check \/ Health \/ RestartEarly \/ Restarted \/ RestartFails
  \/ ReapAll \/ Ended \/ \E p \in Proc : StopOne(p) \/ Restart(p)

SupervisorNext ==
  \/ Started \/ StartFails \/ StopPlugin \/ StopReturns \/ LoopStep \/ Due
  \/ \E p \in Proc : StartPlugin(p) \/ ProcessFails(p)
  \/ \E c \in Caller : CallBegins(c) \/ CallReturns(c) \/ CallUnavailable(c)

SupervisorSpec == SupervisorInit /\ [][SupervisorNext]_supervisorVars

\* The loop runs and its timers fire.
SupervisorFair == WF_supervisorVars(LoopStep) /\ WF_supervisorVars(Due)

-----------------------------------------------------------------------------

\* Every process that is there is the one in service or one that the loop or
\* Start is about to stop or to put into service, whatever failed late; and
\* once the loop has ended none is left (markDown, reapAll).
Held == {cur, host.p, loop.p} \cup dead \cup loop.stops
ProcessesOwned ==
  /\ \A p \in Proc : proc[p] # "gone" => p \in Held
  /\ sup.done # "open" /\ host.at # "start" => \A p \in Proc : proc[p] = "gone"

\* The inductive form: which processes there can be at each point of the loop.
Owned ==
  /\ proc \in [Proc -> {"starting", "ok", "hung", "exited", "gone"}]
  /\ cur \in Proc \cup {None} /\ dead \subseteq Proc
  /\ sup \in [on : BOOLEAN, cancelled : BOOLEAN, done : {"none", "open", "closed"}]
  /\ host \in [at : {"idle", "start", "stop"}, p : Proc \cup {None}]
  /\ loop \in [at : {"none", "top", "reap", "wait", "check", "health", "restart", "launch",
                     "end", "ending"},
               down : BOOLEAN, p : Proc \cup {None}, stops : SUBSET Proc]
  /\ inCall \in [Caller -> Proc \cup {None}]
  /\ \A p \in Proc : proc[p] # "gone" => p \in Held
  /\ sup.on => sup.done = "open" /\ ~sup.cancelled
  /\ loop.at \in {"end", "ending"} => sup.cancelled
  /\ loop.at = "none" <=> sup.done # "open"
  /\ host.at = "start" => host.p \in Proc /\ loop.at = "none"
  /\ host.at # "start" => host.p = None
  /\ loop.at \notin {"reap", "ending"} => loop.stops = {}
  /\ loop.at \notin {"health", "launch"} => loop.p = None
  /\ loop.at = "launch" => loop.p \in Proc
  /\ loop.at = "health" => loop.p \in Proc \cap ({cur} \cup dead)
  /\ loop.at \in {"none", "restart", "launch", "ending"} \/ (loop.at = "wait" /\ loop.down)
       => cur = None
  /\ loop.at \in {"none", "ending"} => dead = {}

\* A plugin that is supervised comes back after every failure, and the loop of
\* one that was stopped ends, with its process (loop, restart).
ComesBack ==
  /\ sup.on ~> (cur # None \/ ~sup.on)
  /\ sup.cancelled ~> sup.done = "closed"
=============================================================================
