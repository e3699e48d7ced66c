----------------------------- MODULE LeaseState -----------------------------
(***************************************************************************)
(* The lease record and what one instance knows of it: the state and the   *)
(* decisions of internal/plugins/elector/lease/lease.go.  Lease runs them  *)
(* with every interleaving of storage operations, HA as whole steps under  *)
(* the core.                                                               *)
(*                                                                         *)
(* Time is a global clock.  Every instance measures only differences on    *)
(* it, as the code does on its monotonic clock.                            *)
(*                                                                         *)
(* The bytes of the record matter only through bytes.Equal(raw, lastRaw):  *)
(* every write carries a new sequence number and time, so seen[n] (what n  *)
(* last read or wrote is what the file holds now) stands for that test.    *)
(***************************************************************************)
EXTENDS Integers, FiniteSets

CONSTANTS
  Node,             \* the instances that share the lease file
  TTL,              \* TTL[n]: n's configured ttl
  Renew,            \* Renew[n]: n's configured renew interval
  Hold,             \* the BGP hold times a candidacy can report; 0 is unknown
  DefaultRouteHold, \* assumed for a record that says nothing
  MaxTime,          \* bound on the clock
  MaxStarts         \* bound on the starts of one instance

ASSUME ConfigAssumption ==
  /\ Node # {}
  /\ TTL \in [Node -> Nat]
  /\ Renew \in [Node -> Nat]
  /\ \A n \in Node : TTL[n] >= 2 /\ Renew[n] >= 1 /\ Renew[n] * 4 <= TTL[n]
  /\ Hold \subseteq Nat
  /\ Hold # {}
  /\ DefaultRouteHold \in Nat \ {0}

ASSUME BoundAssumption == MaxTime \in Nat /\ MaxStarts \in Nat

VARIABLES
  now,        \* the clock
  file,       \* the lease file
  life,       \* life[n]: "down", "running" or "stopped" (Stop was called)
  starts,     \* starts[n]: how often n started; with n it is n's token
  active,     \* active[n]: Lease.active
  lastOK,     \* lastOK[n]: start of the last successful renewal
  seen,       \* seen[n]: lastRaw equals the file's bytes
  lastChange, \* lastChange[n]: when n last saw the record change
  noAcquire,  \* noAcquire[n]: Resign backs off acquisition until then
  changed     \* changed[n]: the one-slot channel that wakes the notifier

stateVars == <<now, file, life, starts, active, lastOK, seen, lastChange,
               noAcquire, changed>>

Candidacy == [eligible : BOOLEAN, hold : Hold]

Record == [kind : {"none", "garbage", "lease"}, node : Node, start : Nat,
           released : BOOLEAN, hold : Nat, ttl : Nat]

StateType ==
  /\ now \in Nat
  /\ file \in Record
  /\ life \in [Node -> {"down", "running", "stopped"}]
  /\ starts \in [Node -> Nat]
  /\ active \in [Node -> BOOLEAN]
  /\ lastOK \in [Node -> Nat]
  /\ seen \in [Node -> BOOLEAN]
  /\ lastChange \in [Node -> Nat]
  /\ noAcquire \in [Node -> Nat]
  /\ changed \in [Node -> BOOLEAN]

-----------------------------------------------------------------------------
Half(n) == TTL[n] \div 2

\* A variant of Active without the deadline: the watchdog will notice.
ActiveByFlag(n) == active[n]

\* activeLocked: what Active() answers now.
Active(n) == active[n] /\ now - lastOK[n] < Half(n)

\* The record carries n's current token and is not released.
Mine(n) == /\ file.kind = "lease"
           /\ file.node = n
           /\ file.start = starts[n]
           /\ ~file.released

Larger(x, y) == IF x >= y THEN x ELSE y

\* wait: how long n leaves an unchanged record of another instance alone.
Wait(n) ==
  LET ttl  == IF file.kind = "lease" THEN Larger(TTL[n], file.ttl) ELSE TTL[n]
      hold == IF file.kind = "lease" /\ file.hold > 0 THEN file.hold
              ELSE DefaultRouteHold
  IN  Larger(ttl, (ttl \div 2) + hold + Renew[n])

\* decide, the record's part: when n, reading it now, takes it to have changed.
ChangeAt(n) == IF seen[n] THEN lastChange[n] ELSE now

\* decide, the answer: whether n writes the record as its holder.
Acquires(n, c) ==
  /\ c.eligible
  /\ now >= noAcquire[n]
  /\ \/ Mine(n)
     \/ file.kind = "none"
     \/ file.kind = "lease" /\ file.released
     \/ now - ChangeAt(n) >= Wait(n)

\* setActiveLocked: a change of role wakes the notifier.
SetActive(n, b) ==
  /\ active' = [active EXCEPT ![n] = b]
  /\ changed' = [changed EXCEPT ![n] = @ \/ active[n] # b]

\* write: the record that replaces the file's.  A candidacy without a hold
\* time stands for the default one.
Written(n, c, released) ==
  [kind |-> "lease", node |-> n, start |-> starts[n], released |-> released,
   hold |-> IF c.hold > 0 THEN c.hold ELSE DefaultRouteHold, ttl |-> TTL[n]]

StateInit ==
  /\ now = 0
  /\ file \in {[kind |-> k, node |-> CHOOSE n \in Node : TRUE, start |-> 0,
               released |-> FALSE, hold |-> 0, ttl |-> 0]
                : k \in {"none", "garbage"}}
  /\ life = [n \in Node |-> "down"]
  /\ starts = [n \in Node |-> 0]
  /\ active = [n \in Node |-> FALSE]
  /\ lastOK = [n \in Node |-> 0]
  /\ seen = [n \in Node |-> FALSE]
  /\ lastChange = [n \in Node |-> 0]
  /\ noAcquire = [n \in Node |-> 0]
  /\ changed = [n \in Node |-> FALSE]

\* newLease and Start: a fresh token, no memory of the record but its absence.
StateStart(n) ==
  /\ life[n] = "down"
  /\ starts[n] < MaxStarts
  /\ life' = [life EXCEPT ![n] = "running"]
  /\ starts' = [starts EXCEPT ![n] = @ + 1]
  /\ lastChange' = [lastChange EXCEPT ![n] = now]
  /\ seen' = [seen EXCEPT ![n] = file.kind = "none"]
  /\ UNCHANGED <<now, file, active, lastOK, noAcquire, changed>>

\* Stop: no resignation and no notification.
StateStop(n) ==
  /\ life[n] = "running"
  /\ life' = [life EXCEPT ![n] = "stopped"]
  /\ active' = [active EXCEPT ![n] = FALSE]
  /\ UNCHANGED <<now, file, starts, lastOK, seen, lastChange, noAcquire,
                 changed>>

\* The process ends, cleanly or not: its memory is lost.
StateExit(n) ==
  /\ life[n] # "down"
  /\ life' = [life EXCEPT ![n] = "down"]
  /\ active' = [active EXCEPT ![n] = FALSE]
  /\ lastOK' = [lastOK EXCEPT ![n] = 0]
  /\ noAcquire' = [noAcquire EXCEPT ![n] = 0]
  /\ changed' = [changed EXCEPT ![n] = FALSE]
  /\ UNCHANGED <<now, file, starts, seen, lastChange>>

\* watchdog: the deadline Active() applies becomes a change of role.
StateWatchdog(n) ==
  /\ active[n] /\ ~Active(n)
  /\ SetActive(n, FALSE)
  /\ UNCHANGED <<now, file, life, starts, lastOK, seen, lastChange, noAcquire>>

\* notifier: it takes the wake-up and calls onChange.
StateNotify(n) ==
  /\ life[n] # "down"
  /\ changed[n]
  /\ changed' = [changed EXCEPT ![n] = FALSE]
  /\ UNCHANGED <<now, file, life, starts, active, lastOK, seen, lastChange,
                 noAcquire>>

\* Resign, up to the file lock.
StateResign(n) ==
  /\ life[n] # "down"
  /\ SetActive(n, FALSE)
  /\ noAcquire' = [noAcquire EXCEPT ![n] = now + TTL[n]]
  /\ UNCHANGED <<now, file, life, starts, lastOK, seen, lastChange>>
=============================================================================
