--------------------------------- MODULE HA ---------------------------------
(***************************************************************************)
(* A high-availability pair: the lease elector of each instance, the core  *)
(* that drives it (cmd/controller/ha.go and the shutdown of main.go), the  *)
(* announcers it gates and the routers that carry the announced routes.    *)
(*                                                                         *)
(* Outbound, inbound and mitigation controllers are one announcer here:    *)
(* each checks Leader under its lock at the start of a sync, and the HA    *)
(* control withdraws all three together.                                   *)
(*                                                                         *)
(* The environment.  I/O on the lease file works or fails at once, so a    *)
(* tick, which opMu and the file lock make one critical section, is one    *)
(* step; an instance whose I/O works ticks in every renew interval.  (What *)
(* slow I/O does to the role is Lease's subject.)  An instance that lost   *)
(* its role withdraws, or dies, within one renew interval: that is the     *)
(* allowance wait() adds.  A router drops the routes of a session that     *)
(* closes, applies a withdraw within haWithdrawSettle, and drops the       *)
(* routes of a dead peer when the hold time has passed.                    *)
(***************************************************************************)
EXTENDS LeaseState

CONSTANTS
  Settle,   \* haWithdrawSettle
  Faults,   \* which of the special faults below the environment commits
  MaxEvents \* bound on crashes, shutdowns and faults, all instances together

ASSUME HAAssumption ==
  /\ Settle \in Nat /\ MaxEvents \in Nat
  /\ Faults \subseteq {"withdraw", "drop", "heal", "hold"}

VARIABLES
  ticked,  \* ticked[n]: n's renew loop had its turn at this time
  health,  \* health[n]: n's BGP sessions, as below
  hold,    \* hold[n]: the hold time n's sessions negotiated
  storage, \* storage[n]: n's I/O on the lease file works
  was,     \* was[n]: haControl.was
  handler, \* handler[n]: where haControl.changed is
  wakeAt,  \* wakeAt[n]: when its sleep ends
  main,    \* main[n]: where the shutdown of main is
  stopAt,  \* stopAt[n]: when its sleep ends
  syncing, \* syncing[n]: a sync passed the Leader check and holds the lock
  paths,   \* paths[n]: n's speaker holds Packeteer routes
  events,  \* how many crashes, shutdowns and faults there were
  healed,  \* history: something that was lost came back, or a drop failed
  until    \* until[n]: routers may carry withdrawn or orphaned routes so long

envVars == <<health, hold, storage, events, healed>>
coreVars == <<was, handler, wakeAt, main, stopAt>>
routeVars == <<syncing, paths, until>>
haVars == <<envVars, coreVars, routeVars>>
leaseVars == <<stateVars, ticked>>
vars == <<leaseVars, haVars>>

\* Never up in this process, up, lost, or shut down for good by DropSessions,
\* which closed them ("dropped") or failed to ("stuck").
Health == {"new", "up", "lost", "dropped", "stuck"}

TypeOK ==
  /\ StateType
  /\ ticked \in [Node -> BOOLEAN]
  /\ health \in [Node -> Health]
  /\ hold \in [Node -> Hold]
  /\ storage \in [Node -> BOOLEAN]
  /\ was \in [Node -> BOOLEAN]
  /\ handler \in [Node -> {"idle", "called", "withdraw", "settle", "resign"}]
  /\ wakeAt \in [Node -> Nat]
  /\ main \in [Node -> {"run", "withdraw", "settle", "resign", "stop"}]
  /\ stopAt \in [Node -> Nat]
  /\ syncing \in [Node -> BOOLEAN]
  /\ paths \in [Node -> BOOLEAN]
  /\ until \in [Node -> Nat]
  /\ events \in 0..MaxEvents
  /\ healed \in BOOLEAN

Alive(n) == life[n] # "down"

\* Ready: some session is established.
Ready(n) == Alive(n) /\ health[n] \in {"up", "stuck"}

\* The routers may carry routes of n.
Carried(n) == (paths[n] /\ Ready(n)) \/ now < until[n]

\* The candidacy newHAControl registers.
Candidate(n) == [eligible |-> Ready(n), hold |-> hold[n]]

Init ==
  /\ StateInit
  /\ ticked = [n \in Node |-> FALSE]
  /\ health = [n \in Node |-> "new"]
  /\ hold \in [Node -> Hold]
  /\ storage = [n \in Node |-> TRUE]
  /\ was = [n \in Node |-> FALSE]
  /\ handler = [n \in Node |-> "idle"]
  /\ wakeAt = [n \in Node |-> 0]
  /\ main = [n \in Node |-> "run"]
  /\ stopAt = [n \in Node |-> 0]
  /\ syncing = [n \in Node |-> FALSE]
  /\ paths = [n \in Node |-> FALSE]
  /\ until = [n \in Node |-> 0]
  /\ events = 0
  /\ healed = FALSE

\* One more crash, shutdown or fault.
Event == events < MaxEvents /\ events' = events + 1
-----------------------------------------------------------------------------
(* The announcer. *)

\* WithdrawAll succeeds: the speaker deletes every path and tells the routers.
WithdrawAll(n) ==
  /\ ~syncing[n]
  /\ paths' = [paths EXCEPT ![n] = FALSE]
  /\ until' = [until EXCEPT ![n] =
                 IF paths[n] /\ Ready(n) THEN now + Settle ELSE @]
  /\ UNCHANGED syncing

\* A variant of SyncStart: the shutdown does not stop the loop first.
SyncStartUnstopped(n) ==
  /\ life[n] = "running"
  /\ ~syncing[n]
  /\ Active(n) /\ Ready(n)
  /\ syncing' = [syncing EXCEPT ![n] = TRUE]
  /\ UNCHANGED <<leaseVars, envVars, coreVars, paths, until>>

\* A sync of the decision loop, up to the Leader and Ready checks.
SyncStart(n) ==
  /\ life[n] = "running" /\ main[n] = "run"
  /\ ~syncing[n]
  /\ Active(n) /\ Ready(n)
  /\ syncing' = [syncing EXCEPT ![n] = TRUE]
  /\ UNCHANGED <<leaseVars, envVars, coreVars, paths, until>>

\* The rest of it: whatever happened to the role, the paths are announced.
SyncAnnounce(n) ==
  /\ syncing[n]
  /\ syncing' = [syncing EXCEPT ![n] = FALSE]
  /\ paths' = [paths EXCEPT ![n] = TRUE]
  /\ UNCHANGED <<leaseVars, envVars, coreVars, until>>

\* standbyRound, or a sync without a ready view: the gate withdraws.
SyncStandby(n) ==
  /\ life[n] = "running" /\ main[n] = "run"
  /\ ~Active(n) \/ ~Ready(n)
  /\ paths[n]
  /\ WithdrawAll(n)
  /\ UNCHANGED <<leaseVars, envVars, coreVars>>

-----------------------------------------------------------------------------
(* The elector, driven by its loop and by the core. *)

\* tick: the storage fails and nothing happens,
TickSkips(n) ==
  /\ ~storage[n]
  /\ UNCHANGED <<file, seen, lastChange, lastOK, active, changed>>

\* or n renews its record or takes it over,
TickWrites(n) ==
  /\ storage[n] /\ Acquires(n, Candidate(n))
  /\ file' = Written(n, Candidate(n), FALSE)
  /\ seen' = [m \in Node |-> m = n]
  /\ lastOK' = [lastOK EXCEPT ![n] = now]
  /\ active' = [active EXCEPT ![n] = TRUE]
  /\ changed' = [changed EXCEPT ![n] = @ \/ ~active[n] \/ ~Mine(n)]
  /\ lastChange' = [lastChange EXCEPT ![n] = ChangeAt(n)]

\* or it leaves the record alone and steps down.
TickReads(n) ==
  /\ storage[n] /\ ~Acquires(n, Candidate(n))
  /\ seen' = [seen EXCEPT ![n] = TRUE]
  /\ lastChange' = [lastChange EXCEPT ![n] = ChangeAt(n)]
  /\ SetActive(n, FALSE)
  /\ UNCHANGED <<file, lastOK>>

ElectorTick(n) ==
  /\ life[n] = "running" /\ ~ticked[n]
  /\ ticked' = [ticked EXCEPT ![n] = TRUE]
  /\ TickSkips(n) \/ TickWrites(n) \/ TickReads(n)
  /\ UNCHANGED <<now, life, starts, noAcquire, haVars>>

\* A variant of Watchdog that does not wake the notifier.
WatchdogSilent(n) ==
  /\ active[n] /\ ~Active(n)
  /\ active' = [active EXCEPT ![n] = FALSE]
  /\ UNCHANGED <<now, file, life, starts, lastOK, seen, lastChange, noAcquire,
                 changed, ticked, haVars>>

Watchdog(n) == StateWatchdog(n) /\ UNCHANGED <<ticked, haVars>>

\* Resign, from the file lock on: the release is written, or is not.
Release(n) ==
  /\ IF Mine(n) /\ storage[n]
       THEN /\ file' = Written(n, Candidate(n), TRUE)
            /\ seen' = [m \in Node |-> m = n]
       ELSE UNCHANGED <<file, seen>>
  /\ UNCHANGED <<now, life, starts, active, lastOK, lastChange, noAcquire,
                 changed, ticked>>

-----------------------------------------------------------------------------
(* haControl.changed. *)

HandlerCall(n) ==
  /\ handler[n] = "idle"
  /\ StateNotify(n)
  /\ handler' = [handler EXCEPT ![n] = "called"]
  /\ UNCHANGED <<ticked, envVars, routeVars, was, wakeAt, main, stopAt>>

HandlerRead(n) ==
  /\ handler[n] = "called"
  /\ handler' = [handler EXCEPT ![n] = IF Active(n) THEN "idle" ELSE "withdraw"]
  /\ was' = [was EXCEPT ![n] = @ \/ Active(n)]
  /\ UNCHANGED <<leaseVars, envVars, routeVars, wakeAt, main, stopAt>>

\* A variant of HandlerWithdraw: the resignation does not wait.
HandlerWithdrawAtOnce(n) ==
  /\ handler[n] = "withdraw"
  /\ WithdrawAll(n)
  /\ was' = [was EXCEPT ![n] = FALSE]
  /\ handler' = [handler EXCEPT ![n] = IF was[n] THEN "settle" ELSE "idle"]
  /\ wakeAt' = [wakeAt EXCEPT ![n] = now]
  /\ UNCHANGED <<leaseVars, envVars, main, stopAt>>

\* One of the tries succeeds; who was active sleeps before it resigns.
HandlerWithdraw(n) ==
  /\ handler[n] = "withdraw"
  /\ WithdrawAll(n)
  /\ was' = [was EXCEPT ![n] = FALSE]
  /\ handler' = [handler EXCEPT ![n] = IF was[n] THEN "settle" ELSE "idle"]
  /\ wakeAt' = [wakeAt EXCEPT ![n] = now + Settle]
  /\ UNCHANGED <<leaseVars, envVars, main, stopAt>>

\* Every try fails: the sessions are shut down for good, or stay as they are.
HandlerDrop(n) ==
  /\ "withdraw" \in Faults
  /\ handler[n] = "withdraw"
  /\ ~syncing[n]
  /\ Event
  /\ was' = [was EXCEPT ![n] = FALSE]
  /\ handler' = [handler EXCEPT ![n] = "idle"]
  /\ \/ health' = [health EXCEPT ![n] = "dropped"] /\ UNCHANGED healed
     \/ /\ "drop" \in Faults /\ health[n] = "up"
        /\ health' = [health EXCEPT ![n] = "stuck"] /\ healed' = TRUE
  /\ UNCHANGED <<leaseVars, hold, storage, routeVars, wakeAt, main, stopAt>>

HandlerResign(n) ==
  /\ handler[n] = "settle"
  /\ now >= wakeAt[n]
  /\ StateResign(n)
  /\ handler' = [handler EXCEPT ![n] = "resign"]
  /\ UNCHANGED <<ticked, envVars, routeVars, was, wakeAt, main, stopAt>>

HandlerRelease(n) ==
  /\ handler[n] = "resign"
  /\ Release(n)
  /\ handler' = [handler EXCEPT ![n] = "idle"]
  /\ UNCHANGED <<envVars, routeVars, was, wakeAt, main, stopAt>>

-----------------------------------------------------------------------------
(* Shutdown: the loops have ended before the withdraw. *)

ShutdownStart(n) ==
  /\ life[n] = "running" /\ main[n] = "run"
  /\ ~syncing[n]
  /\ Event
  /\ main' = [main EXCEPT ![n] = "withdraw"]
  /\ UNCHANGED <<leaseVars, health, hold, storage, healed, routeVars, was, handler,
                 wakeAt, stopAt>>

ShutdownWithdraw(n) ==
  /\ main[n] = "withdraw"
  /\ WithdrawAll(n)
  /\ was' = [was EXCEPT ![n] = FALSE]
  /\ main' = [main EXCEPT ![n] = "settle"]
  /\ stopAt' = [stopAt EXCEPT ![n] = now + Settle]
  /\ UNCHANGED <<leaseVars, envVars, handler, wakeAt>>

\* The withdraw fails: the lease is left to run out.
ShutdownKeep(n) ==
  /\ "withdraw" \in Faults
  /\ main[n] = "withdraw"
  /\ Event
  /\ was' = [was EXCEPT ![n] = FALSE]
  /\ main' = [main EXCEPT ![n] = "stop"]
  /\ UNCHANGED <<leaseVars, health, hold, storage, healed, routeVars, handler, wakeAt,
                 stopAt>>

ShutdownResign(n) ==
  /\ main[n] = "settle"
  /\ now >= stopAt[n]
  /\ StateResign(n)
  /\ main' = [main EXCEPT ![n] = "resign"]
  /\ UNCHANGED <<ticked, envVars, routeVars, was, handler, wakeAt, stopAt>>

ShutdownRelease(n) ==
  /\ main[n] = "resign"
  /\ Release(n)
  /\ main' = [main EXCEPT ![n] = "stop"]
  /\ UNCHANGED <<envVars, routeVars, was, handler, wakeAt, stopAt>>

\* The plugins stop.
ShutdownStop(n) ==
  /\ main[n] = "stop"
  /\ StateStop(n)
  /\ UNCHANGED <<ticked, haVars>>

-----------------------------------------------------------------------------
(* The life of a process and of its sessions. *)

Boot(n) ==
  /\ StateStart(n)
  /\ ticked' = [ticked EXCEPT ![n] = FALSE]
  /\ health' = [health EXCEPT ![n] = "new"]
  /\ storage' = [storage EXCEPT ![n] = TRUE]
  /\ UNCHANGED <<hold, events, healed, coreVars, routeVars>>

\* The process ends: its memory and its speaker go with it.
Gone(n) ==
  /\ StateExit(n)
  /\ was' = [was EXCEPT ![n] = FALSE]
  /\ handler' = [handler EXCEPT ![n] = "idle"]
  /\ main' = [main EXCEPT ![n] = "run"]
  /\ syncing' = [syncing EXCEPT ![n] = FALSE]
  /\ paths' = [paths EXCEPT ![n] = FALSE]
  /\ UNCHANGED <<ticked, health, hold, storage, healed, wakeAt, stopAt>>

\* A clean exit closes the sessions, and the routers drop the routes.
Quit(n) ==
  /\ main[n] = "stop" /\ life[n] = "stopped"
  /\ Gone(n)
  /\ UNCHANGED <<until, events>>

\* A crash leaves the routers to their hold timers.
Crash(n) ==
  /\ Event
  /\ Gone(n)
  /\ until' = [until EXCEPT ![n] =
                 IF paths[n] /\ Ready(n) THEN now + hold[n] ELSE @]

\* A session establishes: the first one, one that came back after all were
\* lost, or one more, which can raise the longest hold time.
SessionUp(n) ==
  /\ Alive(n)
  /\ \/ health[n] = "new"
     \/ health[n] = "lost" /\ "heal" \in Faults
     \/ health[n] = "up" /\ "hold" \in Faults
  /\ healed' = (healed \/ health[n] = "lost")
  /\ health' = [health EXCEPT ![n] = "up"]
  /\ \E h \in Hold : /\ health[n] = "up" => h > hold[n]
                     /\ hold' = [hold EXCEPT ![n] = h]
  /\ UNCHANGED <<leaseVars, storage, events, coreVars, routeVars>>

\* Both ends see the sessions close.
SessionLost(n) ==
  /\ Ready(n)
  /\ Event
  /\ health' = [health EXCEPT ![n] = IF @ = "up" THEN "lost" ELSE "dropped"]
  /\ UNCHANGED <<leaseVars, hold, storage, healed, coreVars, routeVars>>

StorageChange(n) ==
  /\ Alive(n)
  /\ storage[n] \/ "heal" \in Faults
  /\ Event
  /\ storage' = [storage EXCEPT ![n] = ~@]
  /\ healed' = (healed \/ ~storage[n])
  /\ UNCHANGED <<leaseVars, health, hold, coreVars, routeVars>>

-----------------------------------------------------------------------------
\* What must have happened before the clock moves on.
Settled(n) ==
  Alive(n) =>
    /\ life[n] = "running" => ticked[n]
    /\ handler[n] # "resign" /\ main[n] # "resign"
    /\ (paths[n] \/ syncing[n]) /\ Ready(n) =>
         now + 1 < lastOK[n] + Half(n) + Renew[n]

Elapse ==
  /\ \A n \in Node : Settled(n)
  /\ now < MaxTime
  /\ now' = now + 1
  /\ ticked' = [n \in Node |-> FALSE]
  /\ UNCHANGED <<file, life, starts, active, lastOK, seen, lastChange,
                 noAcquire, changed, haVars>>

InstanceStep(n) ==
  \/ Boot(n) \/ Quit(n) \/ Crash(n)
  \/ SessionUp(n) \/ SessionLost(n) \/ StorageChange(n)
  \/ ElectorTick(n) \/ Watchdog(n)
  \/ SyncStart(n) \/ SyncAnnounce(n) \/ SyncStandby(n)
  \/ HandlerCall(n) \/ HandlerRead(n) \/ HandlerWithdraw(n)
  \/ HandlerDrop(n) \/ HandlerResign(n) \/ HandlerRelease(n)
  \/ ShutdownStart(n) \/ ShutdownWithdraw(n) \/ ShutdownKeep(n)
  \/ ShutdownResign(n) \/ ShutdownRelease(n) \/ ShutdownStop(n)

Next == Elapse \/ \E n \in Node : InstanceStep(n)

Spec == Init /\ [][Next]_vars

-----------------------------------------------------------------------------
(* Properties. *)

\* "the edge never carries routes from both instances": routers carry the
\* routes of at most one instance, over step-downs, crashes and shutdowns, as
\* long as what was lost stays lost and sessions that must be dropped are.
RoutersCarryOne ==
  \A m, n \in Node : ~healed /\ Carried(m) /\ Carried(n) => m = n

\* Resign is called "only after ... every route it announced was withdrawn",
\* under the same condition.
ResignsWithoutRoutes ==
  [][\A n \in Node : ~healed /\ (HandlerResign(n) \/ ShutdownResign(n)) =>
       ~paths[n] /\ ~syncing[n]]_vars

\* An instance that lost its role with routes still in its speaker has a
\* withdraw coming: a wake-up not consumed, a handler on its way, a shutdown
\* before its withdraw or a watchdog that has yet to look; unless both the
\* withdraw and DropSessions have failed.
WithdrawComes ==
  \A n \in Node :
    life[n] = "running" /\ paths[n] /\ Ready(n) /\ ~Active(n) =>
      \/ active[n] \/ changed[n]
      \/ handler[n] \in {"called", "withdraw"}
      \/ main[n] # "run"
      \/ health[n] = "stuck"

-----------------------------------------------------------------------------
(* Why they hold: the inductive invariant. *)

\* What wait() takes for granted: a session that is up keeps its hold time, no
\* instance outlives its deadline by more than the renew interval of the one
\* that waits, and a withdraw settles within any hold time.
HandoverFits ==
  /\ "hold" \notin Faults
  /\ \A m, n \in Node :
       Half(n) + Renew[n] <= (Larger(TTL[m], TTL[n]) \div 2) + Renew[m]
  /\ \A h \in Hold \cup {DefaultRouteHold} : h > 0 => Settle <= h

\* n carries routes, is about to, or may start a sync that will.
Live(n) == Ready(n) /\ (paths[n] \/ syncing[n] \/ Active(n))

\* n lost what it needs to be a leader.
Spent(n) == health[n] \in {"lost", "dropped"} \/ ~storage[n]

\* A process that ended left nothing behind but its record and its routes.
DownInv(n) ==
  ~Alive(n) =>
    /\ ~active[n] /\ ~was[n] /\ ~syncing[n] /\ ~paths[n]
    /\ handler[n] = "idle" /\ main[n] = "run"

\* What the core can count on at each of its points.
StageInv(n) ==
  /\ life[n] = "stopped" => main[n] = "stop"
  /\ health[n] = "new" => ~active[n] /\ ~was[n] /\ ~paths[n] /\ ~syncing[n]
  /\ main[n] # "run" => ~syncing[n]
  /\ main[n] \in {"settle", "resign"} => ~paths[n]
  /\ handler[n] \in {"settle", "resign"} => ~was[n]
  /\ active[n] => now >= noAcquire[n]
  /\ handler[n] = "resign" \/ main[n] = "resign" =>
       ~active[n] /\ now < noAcquire[n]
  /\ lastOK[n] <= now

\* A wake-up that is not consumed covers an instance with paths that is not
\* active, or the sessions were dropped in place of a withdraw.
WakeInv(n) ==
  life[n] = "running" /\ main[n] = "run" /\ (paths[n] \/ syncing[n]) =>
    \/ active[n] \/ changed[n]
    \/ handler[n] \in {"called", "withdraw"}
    \/ health[n] \in {"dropped", "stuck"}

\* A record with the current token of a live instance says what the instance
\* would write now.
RecordInv(n) ==
  Alive(n) /\ Mine(n) =>
    file = Written(n, Candidate(n), FALSE) /\ health[n] # "new"

\* Who may announce holds the record, is within its deadline, and the others
\* have been waiting for no longer than since its last renewal.
HolderInv(n) ==
  Live(n) =>
    /\ Mine(n)
    /\ now < lastOK[n] + Half(n) + Renew[n]
    /\ \A m \in Node \ {n} : seen[m] => lastChange[m] >= lastOK[n]

\* Routes that linger are those of the instance in the record, and whoever
\* waits for the record waits them out.
LingerInv(n) ==
  /\ now < until[n] =>
       /\ file.kind = "lease" /\ file.node = n /\ ~file.released
       /\ \A m \in Node :
            /\ until[n] <= now + Wait(m)
            /\ ~Mine(m) /\ seen[m] => until[n] <= lastChange[m] + Wait(m)
  /\ Alive(n) /\ Mine(n) => until[n] <= now + Settle

\* An instance that was active is active or lost something, and stays out of
\* the role until it has resigned, when its routes have left the routers.
RoleInv(n) ==
  /\ was[n] /\ main[n] = "run" /\ ~Active(n) => Spent(n)
  /\ handler[n] = "withdraw" /\ was[n] /\ main[n] = "run" =>
       ~Active(n) /\ Spent(n)
  /\ handler[n] = "settle" =>
       /\ ~paths[n] /\ ~syncing[n]
       /\ main[n] = "run" => ~Active(n) /\ Spent(n)
       /\ Mine(n) => until[n] <= now \/ until[n] <= wakeAt[n]
  /\ handler[n] = "resign" =>
       ~paths[n] /\ ~syncing[n] /\ (Mine(n) => until[n] <= now)
  /\ main[n] = "settle" /\ Mine(n) => until[n] <= now \/ until[n] <= stopAt[n]
  /\ main[n] = "resign" /\ Mine(n) => until[n] <= now

\* A tick of an instance that keeps the role renews it.
RenewInv(n) ==
  life[n] = "running" /\ ticked[n] /\ Active(n) /\ Ready(n) /\ storage[n] =>
    lastOK[n] = now

CoreInv ==
  /\ TypeOK
  /\ file.kind = "lease" => file.start <= starts[file.node]
  /\ \A n \in Node : DownInv(n) /\ StageInv(n) /\ WakeInv(n)

HandoverInv ==
  \A n \in Node :
    RecordInv(n) /\ HolderInv(n) /\ LingerInv(n) /\ RoleInv(n) /\ RenewInv(n)

IInv == CoreInv /\ (~healed => HandoverInv)
=============================================================================
