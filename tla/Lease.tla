------------------------------- MODULE Lease -------------------------------
(***************************************************************************)
(* The built-in high-availability elector: a lease record on storage that  *)
(* every instance mounts (internal/plugins/elector/lease/lease.go).        *)
(*                                                                         *)
(* Each instance runs four activities over the shared record: the renew    *)
(* loop (tick), the watchdog, the notifier and, when the core calls it,    *)
(* Resign.  tick and Resign exclude each other inside an instance (opMu)   *)
(* and across instances (flock), so holding the record's lock is derived   *)
(* from the two program counters.  A step ends wherever the code waits or  *)
(* releases mu, and time passes between any two steps.                     *)
(***************************************************************************)
EXTENDS LeaseState

CONSTANT
  ResignWithinTTL \* whether a Resign call reaches the file lock in one ttl

ASSUME ResignAssumption == ResignWithinTTL \in BOOLEAN

VARIABLES
  tick,  \* tick[n]: where the renew loop is
  start, \* start[n]: when the tick in progress began
  cand,  \* cand[n]: the candidacy the tick in progress read
  resign \* resign[n]: where the Resign call in progress is

leaseVars == <<stateVars, tick, start, cand, resign>>

TypeOK ==
  /\ StateType
  /\ tick \in [Node -> {"idle", "lock", "write", "renamed"}]
  /\ start \in [Node -> Nat]
  /\ cand \in [Node -> Candidacy]
  /\ resign \in [Node -> {"idle", "lock", "write", "renamed"}]

\* The exclusive flock (and the holder's opMu) is held by n, or by nobody.
Writing(n) == tick[n] \in {"write", "renamed"}
Releasing(n) == resign[n] \in {"write", "renamed"}
Holding(n) == Writing(n) \/ Releasing(n)
LockFree == \A n \in Node : ~Holding(n)

\* write: the rename replaces the record, and nobody has read the new bytes.
Replace(n, c, released) ==
  /\ file' = Written(n, c, released)
  /\ seen' = [m \in Node |-> FALSE]

AnyCandidacy == CHOOSE c \in Candidacy : ~c.eligible

Init ==
  /\ StateInit
  /\ tick = [n \in Node |-> "idle"]
  /\ start = [n \in Node |-> 0]
  /\ cand = [n \in Node |-> AnyCandidacy]
  /\ resign = [n \in Node |-> "idle"]

Start(n) == StateStart(n) /\ UNCHANGED <<tick, start, cand, resign>>

\* A tick in flight may finish after Stop.
Stop(n) == StateStop(n) /\ UNCHANGED <<tick, start, cand, resign>>

\* The kernel drops the file lock of a process that ends.
Exit(n) ==
  /\ StateExit(n)
  /\ tick' = [tick EXCEPT ![n] = "idle"]
  /\ start' = [start EXCEPT ![n] = 0]
  /\ resign' = [resign EXCEPT ![n] = "idle"]
  /\ UNCHANGED cand

-----------------------------------------------------------------------------
(* tick: one turn of the renew loop. *)

\* It reads the candidacy and the clock before it asks for any lock.
TickStart(n, c) ==
  /\ life[n] # "down"
  /\ tick[n] = "idle"
  /\ tick' = [tick EXCEPT ![n] = "lock"]
  /\ start' = [start EXCEPT ![n] = now]
  /\ cand' = [cand EXCEPT ![n] = c]
  /\ UNCHANGED <<stateVars, resign>>

\* The lock is not obtained within renew, or the file cannot be read.
TickFail(n) ==
  /\ tick[n] = "lock"
  /\ tick' = [tick EXCEPT ![n] = "idle"]
  /\ UNCHANGED <<stateVars, start, cand, resign>>

\* read and decide, under the lock.  Whoever is not to write steps down.
TickDecide(n) ==
  LET go == Acquires(n, cand[n])
  IN  /\ tick[n] = "lock"
      /\ LockFree
      /\ seen' = [seen EXCEPT ![n] = TRUE]
      /\ lastChange' = [lastChange EXCEPT ![n] = ChangeAt(n)]
      /\ tick' = [tick EXCEPT ![n] = IF go THEN "write" ELSE "idle"]
      /\ IF Mine(n) /\ go THEN UNCHANGED <<active, changed>>
                          ELSE SetActive(n, FALSE)
      /\ UNCHANGED <<now, file, life, starts, lastOK, noAcquire, start, cand,
                     resign>>

\* write succeeds.
TickRename(n) ==
  /\ tick[n] = "write"
  /\ Replace(n, cand[n], FALSE)
  /\ tick' = [tick EXCEPT ![n] = "renamed"]
  /\ UNCHANGED <<now, life, starts, active, lastOK, lastChange, noAcquire,
                 changed, start, cand, resign>>

\* write fails before the rename, or after it in the directory's fsync.
TickWriteFail(n) ==
  /\ tick[n] = "write"
  /\ Replace(n, cand[n], FALSE) \/ UNCHANGED <<file, seen>>
  /\ tick' = [tick EXCEPT ![n] = "idle"]
  /\ UNCHANGED <<now, life, starts, active, lastOK, lastChange, noAcquire,
                 changed, start, cand, resign>>

\* A variant of TickActivate that overlooks a Resign during the write.
TickActivateAnyway(n) ==
  /\ tick[n] = "renamed"
  /\ tick' = [tick EXCEPT ![n] = "idle"]
  /\ seen' = [seen EXCEPT ![n] = TRUE]
  /\ IF life[n] = "stopped"
       THEN UNCHANGED <<lastOK, active, changed>>
       ELSE /\ lastOK' = [lastOK EXCEPT ![n] = start[n]]
            /\ SetActive(n, TRUE)
  /\ UNCHANGED <<now, file, life, starts, lastChange, noAcquire, start, cand,
                 resign>>

\* The renewal counts from its start, unless Resign or Stop came in between.
TickActivate(n) ==
  /\ tick[n] = "renamed"
  /\ tick' = [tick EXCEPT ![n] = "idle"]
  /\ seen' = [seen EXCEPT ![n] = TRUE]
  /\ IF now < noAcquire[n] \/ life[n] = "stopped"
       THEN UNCHANGED <<lastOK, active, changed>>
       ELSE /\ lastOK' = [lastOK EXCEPT ![n] = start[n]]
            /\ SetActive(n, TRUE)
  /\ UNCHANGED <<now, file, life, starts, lastChange, noAcquire, start, cand,
                 resign>>

-----------------------------------------------------------------------------
Watchdog(n) == StateWatchdog(n) /\ UNCHANGED <<tick, start, cand, resign>>

Notify(n) == StateNotify(n) /\ UNCHANGED <<tick, start, cand, resign>>

-----------------------------------------------------------------------------
(* Resign: called by the core, on another goroutine than tick. *)

ResignStart(n) ==
  /\ resign[n] = "idle"
  /\ StateResign(n)
  /\ resign' = [resign EXCEPT ![n] = "lock"]
  /\ UNCHANGED <<tick, start, cand>>

\* Under the lock: only a record of this process that is held is released.
ResignLock(n) ==
  /\ resign[n] = "lock"
  /\ LockFree
  /\ resign' = [resign EXCEPT ![n] = IF Mine(n) THEN "write" ELSE "idle"]
  /\ UNCHANGED <<stateVars, tick, start, cand>>

\* write succeeds up to the rename.
ResignRename(n, c) ==
  /\ resign[n] = "write"
  /\ Replace(n, c, TRUE)
  /\ resign' = [resign EXCEPT ![n] = "renamed"]
  /\ UNCHANGED <<now, life, starts, active, lastOK, lastChange, noAcquire,
                 changed, tick, start, cand>>

ResignDone(n) ==
  /\ resign[n] = "renamed"
  /\ seen' = [seen EXCEPT ![n] = TRUE]
  /\ resign' = [resign EXCEPT ![n] = "idle"]
  /\ UNCHANGED <<now, file, life, starts, active, lastOK, lastChange,
                 noAcquire, changed, tick, start, cand>>

\* The lock is not obtained in time, or a step of the write fails.
ResignFail(n) ==
  /\ resign[n] # "idle"
  /\ resign' = [resign EXCEPT ![n] = "idle"]
  /\ UNCHANGED <<stateVars, tick, start, cand>>

-----------------------------------------------------------------------------
\* Time passes, whatever the instances are in the middle of.  With
\* ResignWithinTTL it does not pass the end of the back-off of a Resign that
\* has not reached the file lock.
Tick ==
  /\ now < MaxTime
  /\ ResignWithinTTL =>
       \A n \in Node : resign[n] = "lock" => now + 1 < noAcquire[n]
  /\ now' = now + 1
  /\ UNCHANGED <<file, life, starts, active, lastOK, seen, lastChange,
                 noAcquire, changed, tick, start, cand, resign>>

TickStep(n) ==
  \/ \E c \in Candidacy : TickStart(n, c)
  \/ TickFail(n)
  \/ TickDecide(n)
  \/ TickRename(n)
  \/ TickWriteFail(n)
  \/ TickActivate(n)

ResignStep(n) ==
  \/ ResignStart(n)
  \/ ResignLock(n)
  \/ \E c \in Candidacy : ResignRename(n, c)
  \/ ResignDone(n)
  \/ ResignFail(n)

Next ==
  \/ Tick
  \/ \E n \in Node :
       \/ Start(n) \/ Stop(n) \/ Exit(n)
       \/ TickStep(n) \/ Watchdog(n) \/ Notify(n)
       \/ ResignStep(n)

Spec == Init /\ [][Next]_leaseVars

-----------------------------------------------------------------------------
(* Properties. *)

\* Active() is true in at most one instance: it "must turn false before any
\* other instance can turn true", whatever is stuck in file I/O.
AtMostOneActive ==
  \A m, n \in Node : Active(m) /\ Active(n) => m = n

\* The elector keeps the promise of its interface: no step hands the role
\* from one instance to another directly.
Elector == INSTANCE Leadership WITH leaders <- {n \in Node : Active(n)}
OneLeaderAtATime == Elector!Spec

-----------------------------------------------------------------------------
(* The inductive invariant behind AtMostOneActive. *)

\* The file lock excludes, between instances and inside one.
LockInv ==
  /\ \A m, n \in Node : Holding(m) /\ Holding(n) => m = n
  /\ \A n \in Node : ~(Writing(n) /\ Releasing(n))

\* A process that is down does nothing.
DownInv ==
  \A n \in Node : life[n] = "down" =>
    ~active[n] /\ tick[n] = "idle" /\ resign[n] = "idle"

\* Recorded times are past; a record carries its writer's ttl.
TimeInv ==
  /\ \A n \in Node : lastOK[n] <= now /\ start[n] <= now
  /\ file.kind = "lease" => file.ttl = TTL[file.node]

\* Whoever is active holds the record.
HolderInv == \A n \in Node : Active(n) => Mine(n)

\* An instance about to replace the record does so when no other is active.
WriteInv ==
  \A m, n \in Node : tick[m] = "write" /\ m # n => ~Active(n)

\* Between the rename and the activation nobody has seen the new record.
RenamedInv ==
  \A n \in Node : tick[n] = "renamed" => Mine(n) /\ \A m \in Node : ~seen[m]

\* What another instance has seen it has seen after the renewal that keeps
\* the holder active began.
SeenInv ==
  \A m, n \in Node :
    m # n /\ Active(n) /\ seen[m] => lastChange[m] >= lastOK[n]

\* While Resign runs the instance stays inactive.
ResignInv ==
  \A n \in Node :
    /\ resign[n] # "idle" => ~active[n]
    /\ resign[n] = "lock" => now < noAcquire[n]
    /\ resign[n] = "write" => Mine(n)
    /\ resign[n] = "renamed" => \A m \in Node : ~Active(m)

IInv == /\ TypeOK /\ LockInv /\ DownInv /\ TimeInv /\ HolderInv
        /\ WriteInv /\ RenamedInv /\ SeenInv /\ ResignInv
=============================================================================
