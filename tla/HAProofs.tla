------------------------------ MODULE HAProofs ------------------------------
(***************************************************************************)
(* Proofs about the high-availability pair, for any instances, any ttl,    *)
(* renew and hold times, any number of crashes, shutdowns and faults.      *)
(***************************************************************************)
EXTENDS HA, TLAPS

-----------------------------------------------------------------------------
(* The operators of the lease. *)

\* Half a ttl is at least two renew intervals' worth of time.
LEMMA HalfTTL ==
  ASSUME NEW n \in Node
  PROVE  /\ TTL[n] \in Nat /\ Renew[n] \in Nat /\ Half(n) \in Nat
         /\ Half(n) >= 2 /\ Renew[n] >= 1 /\ TTL[n] >= 2
BY ConfigAssumption DEF Half

\* wait() is positive.
LEMMA WaitPositive ==
  ASSUME NEW n \in Node, file \in Record
  PROVE  Wait(n) \in Nat /\ Wait(n) >= 2
BY ConfigAssumption DEF Wait, Larger, Record

\* A written record is a record, with a positive hold time.
LEMMA WrittenType ==
  ASSUME TypeOK, NEW n \in Node, NEW b \in BOOLEAN
  PROVE  Written(n, Candidate(n), b) \in Record
<1>1. /\ hold[n] \in Nat /\ DefaultRouteHold \in Nat
      /\ TTL[n] \in Nat /\ starts[n] \in Nat
  BY ConfigAssumption, Zenon DEF TypeOK, StateType
<1> QED
  BY <1>1, Zenon DEF Written, Candidate, Record

-----------------------------------------------------------------------------
(* Types. *)

\* A withdraw keeps the types of the routes.
LEMMA WithdrawType ==
  ASSUME TypeOK, NEW n \in Node, WithdrawAll(n)
  PROVE  /\ syncing' \in [Node -> BOOLEAN]
         /\ paths' \in [Node -> BOOLEAN]
         /\ until' \in [Node -> Nat]
         /\ now + Settle \in Nat
<1>1. now + Settle \in Nat
  BY HAAssumption DEF TypeOK, StateType
<1> QED
  BY <1>1, Zenon DEF WithdrawAll, TypeOK

\* An event keeps the count in its bounds.
LEMMA EventType == TypeOK /\ Event => events' \in 0..MaxEvents
BY HAAssumption DEF TypeOK, Event

\* Every step keeps the types of the state.
LEMMA TypeStep == TypeOK /\ [Next]_vars => TypeOK'
<1> SUFFICES ASSUME TypeOK, [Next]_vars PROVE TypeOK'
  BY Zenon
<1> USE DEF TypeOK, StateType, Health, vars, leaseVars, haVars, stateVars, envVars,
            coreVars, routeVars
<1>1. CASE Elapse
  <2>1. now + 1 \in Nat
    OBVIOUS
  <2> QED
    BY <1>1, <2>1, Zenon DEF Elapse
<1>2. ASSUME NEW n \in Node, InstanceStep(n) PROVE TypeOK'
  <2>1. CASE Boot(n)
    <3>1. starts[n] + 1 \in Nat
      OBVIOUS
    <3> QED
      BY <2>1, <3>1, Zenon DEF Boot, StateStart
  <2>2. CASE Quit(n)
    BY <2>2, Zenon DEF Quit, Gone, StateExit
  <2>3. CASE Crash(n)
    <3>0. hold[n] \in Nat /\ now \in Nat
      BY ConfigAssumption, Zenon
    <3>1. now + hold[n] \in Nat
      BY <3>0
    <3> QED
      BY <2>3, <3>1, EventType DEF Crash, Gone, StateExit
  <2>4. CASE SessionUp(n)
    BY <2>4, Zenon DEF SessionUp
  <2>5. CASE SessionLost(n)
    BY <2>5, EventType, Zenon DEF SessionLost
  <2>6. CASE StorageChange(n)
    BY <2>6, EventType, Zenon DEF StorageChange
  <2>7. CASE ElectorTick(n)
    <3>1. Written(n, Candidate(n), FALSE) \in Record
      BY WrittenType, Zenon
    <3>2. Mine(n) \in BOOLEAN /\ ChangeAt(n) \in Nat
      BY Zenon DEF Mine, ChangeAt
    <3>3. CASE TickSkips(n)
      BY <2>7, <3>3, Zenon DEF ElectorTick, TickSkips
    <3>4. CASE TickWrites(n)
      BY <2>7, <3>1, <3>2, <3>4, Zenon DEF ElectorTick, TickWrites
    <3>5. CASE TickReads(n)
      BY <2>7, <3>2, <3>5, Zenon DEF ElectorTick, TickReads, SetActive
    <3> QED
      BY <2>7, <3>3, <3>4, <3>5, Zenon DEF ElectorTick
  <2>8. CASE Watchdog(n)
    BY <2>8, Zenon DEF Watchdog, StateWatchdog, SetActive
  <2>9. CASE SyncStart(n)
    BY <2>9, Zenon DEF SyncStart
  <2>20. CASE SyncAnnounce(n)
    BY <2>20, Zenon DEF SyncAnnounce
  <2>10. CASE SyncStandby(n)
    BY <2>10, WithdrawType, Zenon DEF SyncStandby
  <2>11. CASE HandlerCall(n)
    BY <2>11, Zenon DEF HandlerCall, StateNotify
  <2>12. CASE HandlerRead(n)
    BY <2>12, Zenon DEF HandlerRead, Active
  <2>13. CASE HandlerWithdraw(n)
    BY <2>13, WithdrawType, Zenon DEF HandlerWithdraw
  <2>14. CASE HandlerDrop(n)
    BY <2>14, EventType, Zenon DEF HandlerDrop
  <2>15. ASSUME StateResign(n)
         PROVE  /\ active' \in [Node -> BOOLEAN]
                /\ changed' \in [Node -> BOOLEAN]
                /\ noAcquire' \in [Node -> Nat]
    <3>0. now \in Nat /\ TTL[n] \in Nat
      BY HalfTTL, Zenon
    <3>1. now + TTL[n] \in Nat
      BY <3>0, SMT
    <3> QED
      BY <2>15, <3>1, Zenon DEF StateResign, SetActive
  <2>16. ASSUME Release(n) PROVE file' \in Record /\ seen' \in [Node -> BOOLEAN]
    <3>1. Written(n, Candidate(n), TRUE) \in Record
      BY WrittenType, Zenon
    <3>2. CASE Mine(n) /\ storage[n]
      <4>1. /\ file' = Written(n, Candidate(n), TRUE)
            /\ seen' = [m \in Node |-> m = n]
        BY <2>16, <3>2, Zenon DEF Release
      <4> QED
        BY <3>1, <4>1, Zenon
    <3>3. CASE ~(Mine(n) /\ storage[n])
      BY <2>16, <3>3, Zenon DEF Release
    <3> QED
      BY <3>2, <3>3, Zenon
  <2>17. CASE ShutdownStart(n)
    BY <2>17, EventType, Zenon DEF ShutdownStart
  <2>21. CASE ShutdownKeep(n)
    BY <2>21, EventType, Zenon DEF ShutdownKeep
  <2>22. CASE HandlerResign(n)
    BY <2>15, <2>22, Zenon DEF HandlerResign, StateResign
  <2>23. CASE ShutdownResign(n)
    BY <2>15, <2>23, Zenon DEF ShutdownResign, StateResign
  <2>24. CASE HandlerRelease(n)
    BY <2>16, <2>24, Zenon DEF HandlerRelease, Release
  <2>25. CASE ShutdownRelease(n)
    BY <2>16, <2>25, Zenon DEF ShutdownRelease, Release
  <2>18. CASE ShutdownWithdraw(n)
    BY <2>18, WithdrawType, Zenon DEF ShutdownWithdraw
  <2>19. CASE ShutdownStop(n)
    BY <2>19, Zenon DEF ShutdownStop, StateStop
  <2> QED
    BY <1>2, <2>1, <2>2, <2>3, <2>4, <2>5, <2>6, <2>7, <2>8, <2>9, <2>10, <2>11,
       <2>12, <2>13, <2>14, <2>17, <2>18, <2>19, <2>20, <2>21, <2>22, <2>23,
       <2>24, <2>25, Zenon
    DEF InstanceStep
<1>3. CASE UNCHANGED vars
  BY <1>3, Zenon
<1> QED
  BY <1>1, <1>2, <1>3, Zenon DEF Next

-----------------------------------------------------------------------------
(* What a step leaves alone. *)

\* The step does not touch what instance m keeps for itself.
Untouched(m) ==
  /\ life'[m] = life[m] /\ starts'[m] = starts[m] /\ active'[m] = active[m]
  /\ lastOK'[m] = lastOK[m] /\ lastChange'[m] = lastChange[m]
  /\ noAcquire'[m] = noAcquire[m] /\ changed'[m] = changed[m]
  /\ ticked'[m] = ticked[m] /\ health'[m] = health[m] /\ hold'[m] = hold[m]
  /\ storage'[m] = storage[m] /\ was'[m] = was[m] /\ handler'[m] = handler[m]
  /\ wakeAt'[m] = wakeAt[m] /\ main'[m] = main[m] /\ stopAt'[m] = stopAt[m]
  /\ syncing'[m] = syncing[m] /\ paths'[m] = paths[m] /\ until'[m] = until[m]

\* A step of one instance takes no time and touches no other instance.
LEMMA OthersUntouched ==
  ASSUME TypeOK, NEW n \in Node, InstanceStep(n)
  PROVE  now' = now /\ \A m \in Node : m # n => Untouched(m)
<1> USE DEF vars, leaseVars, haVars, stateVars, envVars, coreVars, routeVars
<1>1. now' = now
  BY Zenon DEF InstanceStep, Boot, StateStart, Quit, Gone, StateExit, Crash,
     SessionUp, SessionLost, StorageChange, ElectorTick, Watchdog,
     StateWatchdog, SetActive, SyncStart, SyncAnnounce, SyncStandby,
     WithdrawAll, HandlerCall, StateNotify, HandlerRead, HandlerWithdraw,
     HandlerDrop, HandlerResign, StateResign, HandlerRelease, Release,
     ShutdownStart, ShutdownWithdraw, ShutdownKeep, ShutdownResign,
     ShutdownRelease, ShutdownStop, StateStop
<1>2. ASSUME NEW m \in Node, m # n PROVE Untouched(m)
  <2> USE <1>2 DEF Untouched, TypeOK, StateType
  <2>1. CASE Boot(n)
    BY <2>1, Zenon DEF Boot, StateStart
  <2>2. CASE Quit(n)
    BY <2>2, Zenon DEF Quit, Gone, StateExit
  <2>3. CASE Crash(n)
    BY <2>3, Zenon DEF Crash, Gone, StateExit
  <2>4. CASE SessionUp(n)
    BY <2>4, Zenon DEF SessionUp
  <2>5. CASE SessionLost(n)
    BY <2>5, Zenon DEF SessionLost
  <2>6. CASE StorageChange(n)
    BY <2>6, Zenon DEF StorageChange
  <2>7. CASE ElectorTick(n)
    BY <2>7, ZenonT(60) DEF ElectorTick, TickSkips, TickWrites, TickReads, SetActive
  <2>8. CASE Watchdog(n)
    BY <2>8, ZenonT(60) DEF Watchdog, StateWatchdog, SetActive
  <2>9. CASE SyncStart(n)
    BY <2>9, Zenon DEF SyncStart
  <2>10. CASE SyncAnnounce(n)
    BY <2>10, Zenon DEF SyncAnnounce
  <2>11. CASE SyncStandby(n)
    BY <2>11, Zenon DEF SyncStandby, WithdrawAll
  <2>12. CASE HandlerCall(n)
    BY <2>12, Zenon DEF HandlerCall, StateNotify
  <2>13. CASE HandlerRead(n)
    BY <2>13, Zenon DEF HandlerRead
  <2>14. CASE HandlerWithdraw(n)
    BY <2>14, Zenon DEF HandlerWithdraw, WithdrawAll
  <2>15. CASE HandlerDrop(n)
    BY <2>15, ZenonT(60) DEF HandlerDrop
  <2>16. CASE HandlerResign(n)
    BY <2>16, Zenon DEF HandlerResign, StateResign, SetActive
  <2>17. CASE HandlerRelease(n)
    BY <2>17, Zenon DEF HandlerRelease, Release
  <2>18. CASE ShutdownStart(n)
    BY <2>18, Zenon DEF ShutdownStart
  <2>19. CASE ShutdownWithdraw(n)
    BY <2>19, Zenon DEF ShutdownWithdraw, WithdrawAll
  <2>20. CASE ShutdownKeep(n)
    BY <2>20, Zenon DEF ShutdownKeep
  <2>21. CASE ShutdownResign(n)
    BY <2>21, Zenon DEF ShutdownResign, StateResign, SetActive
  <2>22. CASE ShutdownRelease(n)
    BY <2>22, Zenon DEF ShutdownRelease, Release
  <2>23. CASE ShutdownStop(n)
    BY <2>23, Zenon DEF ShutdownStop, StateStop
  <2> QED
    BY <1>2, <2>1, <2>2, <2>3, <2>4, <2>5, <2>6, <2>7, <2>8, <2>9, <2>10,
       <2>11, <2>12, <2>13, <2>14, <2>15, <2>16, <2>17, <2>18, <2>19, <2>20,
       <2>21, <2>22, <2>23, Zenon
    DEF InstanceStep
<1> QED
  BY <1>1, <1>2, Zenon

-----------------------------------------------------------------------------
(* The processes by themselves. *)

\* What an untouched instance keeps.
LEMMA UntouchedKeeps ==
  ASSUME NEW m \in Node, Untouched(m), now' = now
  PROVE  /\ Alive(m)' = Alive(m) /\ Ready(m)' = Ready(m) /\ Active(m)' = Active(m)
         /\ Live(m)' = Live(m) /\ Spent(m)' = Spent(m)
         /\ DownInv(m) => DownInv(m)'
         /\ StageInv(m) => StageInv(m)'
         /\ WakeInv(m) => WakeInv(m)'
         /\ RenewInv(m) => RenewInv(m)'
<1> USE DEF Untouched, Alive, Ready, Active
<1>1. /\ Alive(m)' = Alive(m) /\ Ready(m)' = Ready(m) /\ Active(m)' = Active(m)
      /\ Spent(m)' = Spent(m)
  BY Zenon DEF Spent
<1>2. Live(m)' = Live(m)
  BY <1>1, Zenon DEF Live
<1>3. DownInv(m) => DownInv(m)'
  BY Zenon DEF DownInv
<1>4. StageInv(m) => StageInv(m)'
  BY Zenon DEF StageInv
<1>5. WakeInv(m) => WakeInv(m)'
  BY Zenon DEF WakeInv
<1>6. RenewInv(m) => RenewInv(m)'
  BY Zenon DEF RenewInv
<1> QED
  BY <1>1, <1>2, <1>3, <1>4, <1>5, <1>6, Zenon

\* A step of an instance keeps what holds of its own process.
LEMMA CoreHere ==
  ASSUME CoreInv, NEW n \in Node, InstanceStep(n)
  PROVE  DownInv(n)' /\ StageInv(n)' /\ WakeInv(n)'
<1>0. TypeOK /\ DownInv(n) /\ StageInv(n) /\ WakeInv(n)
  BY Zenon DEF CoreInv
<1>00. /\ 0 <= now /\ now <= now /\ now < now + TTL[n]
       /\ ~(now >= noAcquire[n] /\ now < noAcquire[n])
  <2>1. now \in Nat /\ noAcquire[n] \in Nat
    BY <1>0, Zenon DEF TypeOK, StateType
  <2> QED
    BY <2>1, HalfTTL, SMT
<1> USE <1>0 DEF TypeOK, StateType, vars, leaseVars, haVars, stateVars, envVars,
                 coreVars, routeVars, Alive, DownInv, StageInv, WakeInv
<1>1. CASE Boot(n)
  BY <1>1, Zenon DEF Boot, StateStart
<1>2. CASE Quit(n)
  BY <1>00, <1>2, Zenon DEF Quit, Gone, StateExit
<1>3. CASE Crash(n)
  BY <1>00, <1>3, Zenon DEF Crash, Gone, StateExit
<1>4. CASE SessionUp(n)
  BY <1>4, Zenon DEF SessionUp
<1>5. CASE SessionLost(n)
  BY <1>5, Zenon DEF SessionLost
<1>6. CASE StorageChange(n)
  BY <1>6, Zenon DEF StorageChange
<1>7. CASE ElectorTick(n)
  <2>1. CASE TickSkips(n)
    BY <1>7, <2>1, Zenon DEF ElectorTick, TickSkips
  <2>2. CASE TickWrites(n)
    <3>1. now >= noAcquire[n] /\ Ready(n)
      BY <2>2, Zenon DEF TickWrites, Acquires, Candidate
    <3> QED
      BY <1>00, <1>7, <2>2, <3>1, Zenon DEF ElectorTick, TickWrites, Ready
  <2>3. CASE TickReads(n)
    BY <1>7, <2>3, Zenon DEF ElectorTick, TickReads, SetActive
  <2> QED
    BY <1>7, <2>1, <2>2, <2>3, Zenon DEF ElectorTick
<1>8. CASE Watchdog(n)
  BY <1>8, Zenon DEF Watchdog, StateWatchdog, SetActive
<1>9. CASE SyncStart(n)
  BY <1>9, Zenon DEF SyncStart, Active, Ready
<1>10. CASE SyncAnnounce(n)
  BY <1>10, Zenon DEF SyncAnnounce
<1>11. CASE SyncStandby(n)
  BY <1>11, Zenon DEF SyncStandby, WithdrawAll
<1>12. CASE HandlerCall(n)
  BY <1>12, Zenon DEF HandlerCall, StateNotify
<1>13. CASE HandlerRead(n)
  BY <1>13, Zenon DEF HandlerRead, Active
<1>14. CASE HandlerWithdraw(n)
  BY <1>14, Zenon DEF HandlerWithdraw, WithdrawAll
<1>15. CASE HandlerDrop(n)
  BY <1>15, Zenon DEF HandlerDrop
<1>16. CASE HandlerResign(n)
  BY <1>00, <1>16, Zenon DEF HandlerResign, StateResign, SetActive
<1>17. CASE HandlerRelease(n)
  BY <1>17, Zenon DEF HandlerRelease, Release
<1>18. CASE ShutdownStart(n)
  BY <1>18, Zenon DEF ShutdownStart
<1>19. CASE ShutdownWithdraw(n)
  BY <1>19, Zenon DEF ShutdownWithdraw, WithdrawAll
<1>20. CASE ShutdownKeep(n)
  BY <1>20, Zenon DEF ShutdownKeep
<1>21. CASE ShutdownResign(n)
  BY <1>00, <1>21, Zenon DEF ShutdownResign, StateResign, SetActive
<1>22. CASE ShutdownRelease(n)
  BY <1>22, Zenon DEF ShutdownRelease, Release
<1>23. CASE ShutdownStop(n)
  BY <1>23, Zenon DEF ShutdownStop, StateStop
<1> QED
  BY <1>1, <1>2, <1>3, <1>4, <1>5, <1>6, <1>7, <1>8, <1>9, <1>10, <1>11, <1>12,
     <1>13, <1>14, <1>15, <1>16, <1>17, <1>18, <1>19, <1>20, <1>21, <1>22,
     <1>23, Zenon
  DEF InstanceStep

\* A step of an instance leaves the record alone, or writes its own.
LEMMA FileChange ==
  ASSUME NEW n \in Node, InstanceStep(n)
  PROVE  \/ UNCHANGED <<file, starts>>
         \/ file' = file /\ Boot(n)
         \/ /\ starts' = starts
            /\ file' \in {Written(n, Candidate(n), b) : b \in BOOLEAN}
<1> USE DEF vars, leaseVars, haVars, stateVars, envVars, coreVars, routeVars
<1>1. CASE ElectorTick(n)
  BY <1>1, Zenon DEF ElectorTick, TickSkips, TickWrites, TickReads
<1>2. CASE HandlerRelease(n)
  BY <1>2, Zenon DEF HandlerRelease, Release
<1>3. CASE ShutdownRelease(n)
  BY <1>3, Zenon DEF ShutdownRelease, Release
<1>4. CASE ~(ElectorTick(n) \/ HandlerRelease(n) \/ ShutdownRelease(n))
  BY <1>4, Zenon DEF InstanceStep, Boot, StateStart, Quit, Gone, StateExit,
     Crash, SessionUp, SessionLost, StorageChange, Watchdog, StateWatchdog,
     SyncStart, SyncAnnounce, SyncStandby, HandlerCall, StateNotify,
     HandlerRead, HandlerWithdraw, HandlerDrop, HandlerResign, StateResign,
     ShutdownStart, ShutdownWithdraw, ShutdownKeep, ShutdownResign,
     ShutdownStop, StateStop
<1> QED
  BY <1>1, <1>2, <1>3, <1>4, Zenon

\* The token in the record is one its instance has had.
LEMMA TokenStep ==
  ASSUME TypeOK, TypeOK', file.kind = "lease" => file.start <= starts[file.node],
         NEW n \in Node, InstanceStep(n)
  PROVE  file'.kind = "lease" => file'.start <= starts'[file'.node]
<1>0. file \in Record /\ file.start \in Nat /\ file.node \in Node
  BY Zenon DEF TypeOK, StateType, Record
<1>1. CASE UNCHANGED <<file, starts>>
  BY <1>1, Zenon
<1>2. CASE file' = file /\ Boot(n)
  <2>1. starts' = [starts EXCEPT ![n] = starts[n] + 1] /\ file' = file
    BY <1>2, Zenon DEF Boot, StateStart
  <2>2. starts \in [Node -> Nat]
    BY Zenon DEF TypeOK, StateType
  <2>3. starts'[file.node] >= starts[file.node]
    BY <1>0, <2>1, <2>2, SMT
  <2>4. starts'[file.node] \in Nat /\ starts[file.node] \in Nat
    BY <1>0, Zenon DEF TypeOK, StateType
  <2> QED
    BY <1>0, <2>1, <2>3, <2>4, SMT
<1>3. CASE starts' = starts /\ file' \in {Written(n, Candidate(n), b) : b \in BOOLEAN}
  <2>0. PICK b \in BOOLEAN : file' = Written(n, Candidate(n), b)
    BY <1>3, Zenon
  <2>1. file'.start = starts[n] /\ file'.node = n /\ starts' = starts
    BY <1>3, <2>0, Zenon DEF Written
  <2>2. starts[n] \in Nat
    BY Zenon DEF TypeOK, StateType
  <2>3. starts[n] <= starts[n]
    BY <2>2, SMT
  <2> QED
    BY <2>1, <2>3, Zenon
<1> QED
  BY <1>1, <1>2, <1>3, FileChange, Zenon

\* Every step keeps what holds of the processes.
LEMMA CoreStep == CoreInv /\ [Next]_vars => CoreInv'
<1> SUFFICES ASSUME CoreInv, [Next]_vars PROVE CoreInv'
  BY Zenon
<1>0. TypeOK /\ TypeOK'
  BY TypeStep, Zenon DEF CoreInv
<1>1. CASE Elapse
  <2>1. file' = file /\ starts' = starts
    BY <1>1, Zenon DEF Elapse
  <2>2. ASSUME NEW n \in Node PROVE DownInv(n)' /\ WakeInv(n)'
    BY <1>1, Zenon DEF Elapse, CoreInv, DownInv, WakeInv, Alive, haVars, envVars,
       coreVars, routeVars
  <2>3. ASSUME NEW n \in Node PROVE StageInv(n)'
    <3>1. StageInv(n) /\ DownInv(n)
      BY Zenon DEF CoreInv
    <3>2. handler[n] # "resign" /\ main[n] # "resign"
      BY <1>1, <3>1, Zenon DEF Elapse, Settled, DownInv
    <3>3. now \in Nat /\ noAcquire[n] \in Nat /\ lastOK[n] \in Nat /\ now' = now + 1
      BY <1>0, <1>1, Zenon DEF Elapse, TypeOK, StateType
    <3>4. /\ now >= noAcquire[n] => now' >= noAcquire[n]
          /\ lastOK[n] <= now => lastOK[n] <= now'
      BY <3>3, SMT
    <3> QED
      BY <1>1, <3>1, <3>2, <3>4, Zenon
      DEF Elapse, StageInv, haVars, envVars, coreVars, routeVars
  <2> QED
    BY <1>0, <2>1, <2>2, <2>3, Zenon DEF CoreInv
<1>2. ASSUME NEW n \in Node, InstanceStep(n) PROVE CoreInv'
  <2>1. ASSUME NEW m \in Node PROVE DownInv(m)' /\ StageInv(m)' /\ WakeInv(m)'
    BY <1>0, <1>2, OthersUntouched, UntouchedKeeps, CoreHere, Zenon DEF CoreInv
  <2>2. file'.kind = "lease" => file'.start <= starts'[file'.node]
    BY <1>0, <1>2, TokenStep, Zenon DEF CoreInv
  <2> QED
    BY <1>0, <2>1, <2>2, Zenon DEF CoreInv
<1>3. CASE UNCHANGED vars
  BY <1>0, <1>3, Zenon DEF CoreInv, DownInv, StageInv, WakeInv, Alive, vars, leaseVars,
     haVars, stateVars, envVars, coreVars, routeVars
<1> QED
  BY <1>1, <1>2, <1>3, Zenon DEF Next

\* The pair starts in such a state.
LEMMA InitCore == Init => CoreInv
<1> SUFFICES ASSUME Init PROVE CoreInv
  BY Zenon
<1>1. PICK k \in {"none", "garbage"} :
        file = [kind |-> k, node |-> CHOOSE n \in Node : TRUE, start |-> 0,
                released |-> FALSE, hold |-> 0, ttl |-> 0]
  BY Zenon DEF Init, StateInit
<1>2. (CHOOSE n \in Node : TRUE) \in Node
  BY ConfigAssumption, Zenon
<1>3. file \in Record /\ file.kind # "lease"
  BY <1>1, <1>2, Zenon DEF Record
<1>4. 0 \in Nat /\ 0 \in 0..MaxEvents /\ 0 >= 0 /\ 0 <= 0
  BY HAAssumption
<1>5. TypeOK
  BY <1>3, <1>4, Zenon DEF Init, StateInit, TypeOK, StateType, Health
<1> QED
  BY <1>3, <1>4, <1>5, Zenon DEF Init, StateInit, CoreInv, DownInv, StageInv, WakeInv

\* Types, what each process can count on, and that the wake-ups of the elector
\* cover every instance with paths.
THEOREM CoreHolds == Spec => []CoreInv
BY InitCore, CoreStep, PTL DEF Spec

\* An instance that loses the role with routes still in its speaker always has
\* a withdraw coming, whatever fails or comes back.
THEOREM WithdrawIsComing == Spec => []WithdrawComes
<1>1. CoreInv => WithdrawComes
  BY Zenon DEF CoreInv, WakeInv, WithdrawComes, Ready
<1> QED
  BY <1>1, CoreHolds, PTL

-----------------------------------------------------------------------------
(* The hand-over. *)

\* wait() covers the deadline of the holder of the record, its hold time and the
\* time a withdraw takes.
LEMMA WaitCovers ==
  ASSUME HandoverFits, TypeOK, NEW m \in Node, NEW n \in Node,
         file = Written(n, Candidate(n), FALSE)
  PROVE  /\ Wait(m) \in Nat /\ hold[n] \in Nat
         /\ Wait(m) >= Half(n) + Renew[n] + hold[n]
         /\ Wait(m) >= Half(n) + Renew[n] + Settle
<1> DEFINE h == IF hold[n] > 0 THEN hold[n] ELSE DefaultRouteHold
           t == Larger(TTL[m], TTL[n])
<1>1. hold[n] \in Nat /\ hold[n] \in Hold /\ DefaultRouteHold \in Nat \ {0}
  BY ConfigAssumption, Zenon DEF TypeOK
<1>2. h \in Nat /\ h > 0 /\ h >= hold[n] /\ h \in Hold \cup {DefaultRouteHold}
  BY <1>1, SMT
<1>3. Settle <= h /\ Settle \in Nat
  BY <1>2, HAAssumption, Zenon DEF HandoverFits
<1>4. file.kind = "lease" /\ file.hold = h /\ file.ttl = TTL[n]
  BY Zenon DEF Written, Candidate
<1>5. /\ TTL[m] \in Nat /\ TTL[n] \in Nat /\ Renew[m] \in Nat /\ Renew[n] \in Nat
      /\ Half(n) \in Nat
  BY HalfTTL, Zenon
<1>6. t \in Nat
  BY <1>5, SMT DEF Larger
<1>7. Half(n) + Renew[n] <= (t \div 2) + Renew[m]
  BY Zenon DEF HandoverFits
<1>8. Wait(m) = Larger(t, (t \div 2) + h + Renew[m])
  BY <1>2, <1>4, Zenon DEF Wait
<1> HIDE DEF h, t
<1> QED
  BY <1>1, <1>2, <1>3, <1>5, <1>6, <1>7, <1>8, SMT DEF Larger

\* The step leaves the clock, the record and what is known of it alone.
Quiet == UNCHANGED <<now, file, seen, lastChange, starts>>

\* Then everybody keeps waiting for the same record.
LEMMA QuietKeeps ==
  ASSUME Quiet, NEW m \in Node
  PROVE  Mine(m)' = Mine(m) /\ Wait(m)' = Wait(m)
BY Zenon DEF Quiet, Mine, Wait

\* Whatever was lost and came back is remembered.
LEMMA HealedStays == [Next]_vars /\ ~healed' => ~healed
<1> SUFFICES ASSUME [Next]_vars, ~healed' PROVE ~healed
  BY Zenon
<1> USE DEF vars, leaseVars, haVars, stateVars, envVars, coreVars, routeVars
<1>1. CASE Elapse \/ UNCHANGED vars
  BY <1>1, Zenon DEF Elapse
<1>2. ASSUME NEW n \in Node, Boot(n) \/ Quit(n) \/ Crash(n) PROVE ~healed
  BY <1>2, Zenon DEF Boot, Quit, Crash, Gone
<1>3. ASSUME NEW n \in Node, SessionUp(n) \/ SessionLost(n) \/ StorageChange(n)
      PROVE  ~healed
  BY <1>3, Zenon DEF SessionUp, SessionLost, StorageChange
<1>4. ASSUME NEW n \in Node, ElectorTick(n) \/ Watchdog(n) PROVE ~healed
  BY <1>4, Zenon DEF ElectorTick, Watchdog
<1>5. ASSUME NEW n \in Node, SyncStart(n) \/ SyncAnnounce(n) \/ SyncStandby(n)
      PROVE  ~healed
  BY <1>5, Zenon DEF SyncStart, SyncAnnounce, SyncStandby
<1>6. ASSUME NEW n \in Node, HandlerCall(n) \/ HandlerRead(n) \/ HandlerWithdraw(n)
      PROVE  ~healed
  BY <1>6, Zenon DEF HandlerCall, HandlerRead, HandlerWithdraw
<1>7. ASSUME NEW n \in Node, HandlerDrop(n) \/ HandlerResign(n) \/ HandlerRelease(n)
      PROVE  ~healed
  BY <1>7, Zenon DEF HandlerDrop, HandlerResign, HandlerRelease
<1>8. ASSUME NEW n \in Node, ShutdownStart(n) \/ ShutdownWithdraw(n) \/ ShutdownKeep(n)
      PROVE  ~healed
  BY <1>8, Zenon DEF ShutdownStart, ShutdownWithdraw, ShutdownKeep
<1>9. ASSUME NEW n \in Node, ShutdownResign(n) \/ ShutdownRelease(n) \/ ShutdownStop(n)
      PROVE  ~healed
  BY <1>9, Zenon DEF ShutdownResign, ShutdownRelease, ShutdownStop, Gone
<1> QED
  BY <1>1, <1>2, <1>3, <1>4, <1>5, <1>6, <1>7, <1>8, <1>9, Zenon DEF Next, InstanceStep

\* A quiet step keeps the invariants of the instances it does not touch.
LEMMA QuietOthers ==
  ASSUME HandoverInv, Quiet, NEW m \in Node, Untouched(m)
  PROVE  /\ RecordInv(m)' /\ HolderInv(m)' /\ LingerInv(m)' /\ RoleInv(m)'
         /\ RenewInv(m)'
<1>0. RecordInv(m) /\ HolderInv(m) /\ LingerInv(m) /\ RoleInv(m) /\ RenewInv(m)
  BY Zenon DEF HandoverInv
<1>1. Untouched(m) /\ now' = now
  BY Zenon DEF Quiet
<1>2. /\ Alive(m)' = Alive(m) /\ Ready(m)' = Ready(m) /\ Active(m)' = Active(m)
      /\ Live(m)' = Live(m) /\ Spent(m)' = Spent(m) /\ RenewInv(m)'
  BY <1>0, <1>1, UntouchedKeeps, Zenon
<1>3. \A k \in Node : Mine(k)' = Mine(k) /\ Wait(k)' = Wait(k)
  BY QuietKeeps, Zenon
<1>4. RecordInv(m)'
  <2>1. Written(m, Candidate(m), FALSE)' = Written(m, Candidate(m), FALSE)
    BY <1>1, <1>2, Zenon DEF Untouched, Written, Candidate
  <2> QED
    BY <1>0, <1>1, <1>2, <1>3, <2>1, Zenon DEF RecordInv, Untouched, Quiet
<1>5. HolderInv(m)'
  BY <1>0, <1>1, <1>2, <1>3, Zenon DEF HolderInv, Untouched, Quiet, Half
<1>6. LingerInv(m)'
  BY <1>0, <1>1, <1>2, <1>3, Zenon DEF LingerInv, Untouched, Quiet
<1>7. RoleInv(m)'
  BY <1>0, <1>1, <1>2, <1>3, Zenon DEF RoleInv, Untouched
<1> QED
  BY <1>2, <1>4, <1>5, <1>6, <1>7, Zenon

\* Nothing the hand-over depends on has become more of n.
Kept(n) ==
  /\ Alive(n)' => Alive(n)
  /\ health[n] # "new" => hold'[n] = hold[n] /\ health'[n] # "new"
  /\ until'[n] = until[n]
  /\ Live(n)' => Live(n) /\ lastOK'[n] = lastOK[n]

\* A quiet step that keeps n keeps n's record, deadline and lingering routes.
LEMMA KeptHere ==
  ASSUME NEW n \in Node, Quiet, Kept(n), RecordInv(n), HolderInv(n), LingerInv(n)
  PROVE  RecordInv(n)' /\ HolderInv(n)' /\ LingerInv(n)'
<1>1. \A k \in Node : Mine(k)' = Mine(k) /\ Wait(k)' = Wait(k)
  BY QuietKeeps, Zenon
<1>2. RecordInv(n)'
  <2>1. health[n] # "new" =>
          Written(n, Candidate(n), FALSE)' = Written(n, Candidate(n), FALSE)
    BY Zenon DEF Kept, Quiet, Written, Candidate
  <2> QED
    BY <1>1, <2>1, Zenon DEF RecordInv, Kept, Quiet
<1>3. HolderInv(n)'
  BY <1>1, Zenon DEF HolderInv, Kept, Quiet, Half
<1>4. LingerInv(n)'
  BY <1>1, Zenon DEF LingerInv, Kept, Quiet
<1> QED
  BY <1>2, <1>3, <1>4, Zenon

\* The steps that are always quiet and leave until alone.
QuietStep(n) ==
  \/ Quit(n) \/ SessionUp(n) \/ SessionLost(n) \/ StorageChange(n) \/ Watchdog(n)
  \/ SyncStart(n) \/ SyncAnnounce(n)
  \/ HandlerCall(n) \/ HandlerRead(n) \/ HandlerDrop(n) \/ HandlerResign(n)
  \/ ShutdownStart(n) \/ ShutdownKeep(n) \/ ShutdownResign(n) \/ ShutdownStop(n)

\* They are quiet and keep n, if nothing came back and hold times last.
LEMMA QuietStepKeeps ==
  ASSUME CoreInv, HandoverFits, ~healed', NEW n \in Node, QuietStep(n)
  PROVE  Quiet /\ Kept(n)
<1>0. TypeOK /\ DownInv(n) /\ StageInv(n)
  BY Zenon DEF CoreInv
<1> USE <1>0 DEF TypeOK, StateType, vars, leaseVars, haVars, stateVars, envVars,
                 coreVars, routeVars, Quiet, Kept, Alive, Ready, Active, Live
<1>1. CASE Quit(n)
  BY <1>1, Zenon DEF Quit, Gone, StateExit
<1>2. CASE SessionUp(n)
  BY <1>2, Zenon DEF SessionUp, StageInv, HandoverFits
<1>3. CASE SessionLost(n)
  BY <1>3, Zenon DEF SessionLost
<1>4. CASE StorageChange(n)
  BY <1>4, Zenon DEF StorageChange
<1>5. CASE Watchdog(n)
  BY <1>5, Zenon DEF Watchdog, StateWatchdog, SetActive
<1>6. CASE SyncStart(n)
  BY <1>6, Zenon DEF SyncStart
<1>7. CASE SyncAnnounce(n)
  BY <1>7, Zenon DEF SyncAnnounce
<1>8. CASE HandlerCall(n)
  BY <1>8, Zenon DEF HandlerCall, StateNotify
<1>9. CASE HandlerRead(n)
  BY <1>9, Zenon DEF HandlerRead
<1>10. CASE HandlerDrop(n)
  BY <1>10, Zenon DEF HandlerDrop
<1>11. CASE HandlerResign(n)
  BY <1>11, Zenon DEF HandlerResign, StateResign, SetActive
<1>12. CASE ShutdownStart(n)
  BY <1>12, Zenon DEF ShutdownStart
<1>13. CASE ShutdownKeep(n)
  BY <1>13, Zenon DEF ShutdownKeep
<1>14. CASE ShutdownResign(n)
  BY <1>14, Zenon DEF ShutdownResign, StateResign, SetActive
<1>15. CASE ShutdownStop(n)
  BY <1>15, Zenon DEF ShutdownStop, StateStop
<1> QED
  BY <1>1, <1>2, <1>3, <1>4, <1>5, <1>6, <1>7, <1>8, <1>9, <1>10, <1>11, <1>12,
     <1>13, <1>14, <1>15, Zenon
  DEF QuietStep

\* They keep where the role and the renewal stand.
LEMMA QuietRole ==
  ASSUME CoreInv, HandoverFits, ~healed', NEW n \in Node, QuietStep(n), RecordInv(n),
         HolderInv(n), LingerInv(n), RoleInv(n), RenewInv(n)
  PROVE  RoleInv(n)' /\ RenewInv(n)'
<1>0. TypeOK /\ DownInv(n) /\ StageInv(n)
  BY Zenon DEF CoreInv
<1>00. Mine(n)' = Mine(n) /\ Quiet
  BY QuietStepKeeps, QuietKeeps, Zenon
<1> USE <1>0, <1>00 DEF TypeOK, StateType, vars, leaseVars, haVars, stateVars, envVars,
                 coreVars, routeVars, Alive, Ready, Active, Spent, RoleInv, RenewInv
<1>1. CASE Quit(n)
  BY <1>1, Zenon DEF Quit, Gone, StateExit, StageInv
<1>2. CASE SessionUp(n)
  BY <1>2, Zenon DEF SessionUp, StageInv
<1>3. CASE SessionLost(n)
  BY <1>3, Zenon DEF SessionLost, StageInv
<1>4. CASE StorageChange(n)
  BY <1>4, Zenon DEF StorageChange, StageInv
<1>5. CASE Watchdog(n)
  BY <1>5, Zenon DEF Watchdog, StateWatchdog, SetActive, StageInv
<1>6. CASE SyncStart(n)
  BY <1>6, Zenon DEF SyncStart, StageInv
<1>7. CASE SyncAnnounce(n)
  BY <1>7, Zenon DEF SyncAnnounce, StageInv
<1>8. CASE HandlerCall(n)
  BY <1>8, Zenon DEF HandlerCall, StateNotify, StageInv
<1>9. CASE HandlerRead(n)
  BY <1>9, Zenon DEF HandlerRead, StageInv
<1>10. CASE HandlerDrop(n)
  BY <1>10, Zenon DEF HandlerDrop, StageInv
<1>11. CASE HandlerResign(n)
  <2>1. now \in Nat /\ until[n] \in Nat /\ wakeAt[n] \in Nat /\ now >= wakeAt[n]
    BY <1>11, Zenon DEF HandlerResign
  <2>2. until[n] <= now \/ until[n] <= wakeAt[n] => until[n] <= now
    BY <2>1, SMT
  <2> QED
    BY <1>11, <2>2, Zenon DEF HandlerResign, StateResign, SetActive, StageInv
<1>12. CASE ShutdownStart(n)
  BY <1>12, Zenon DEF ShutdownStart, StageInv
<1>13. CASE ShutdownKeep(n)
  BY <1>13, Zenon DEF ShutdownKeep, StageInv
<1>14. CASE ShutdownResign(n)
  <2>1. now \in Nat /\ until[n] \in Nat /\ stopAt[n] \in Nat /\ now >= stopAt[n]
    BY <1>14, Zenon DEF ShutdownResign
  <2>2. until[n] <= now \/ until[n] <= stopAt[n] => until[n] <= now
    BY <2>1, SMT
  <2> QED
    BY <1>14, <2>2, Zenon DEF ShutdownResign, StateResign, SetActive, StageInv
<1>15. CASE ShutdownStop(n)
  BY <1>15, Zenon DEF ShutdownStop, StateStop, StageInv
<1> QED
  BY <1>1, <1>2, <1>3, <1>4, <1>5, <1>6, <1>7, <1>8, <1>9, <1>10, <1>11, <1>12,
     <1>13, <1>14, <1>15, Zenon
  DEF QuietStep

\* Routes that are left behind now, for a hold time or for as long as a withdraw
\* takes, are gone before anyone else takes the record over.
LEMMA LeftBehind ==
  ASSUME HandoverFits, CoreInv, NEW n \in Node, Live(n), RecordInv(n), HolderInv(n),
         NEW x \in {hold[n], Settle}
  PROVE  /\ now + x \in Nat
         /\ file.kind = "lease" /\ file.node = n /\ ~file.released
         /\ \A m \in Node :
              /\ now + x <= now + Wait(m)
              /\ ~Mine(m) /\ seen[m] => now + x <= lastChange[m] + Wait(m)
<1>1. Mine(n) /\ Alive(n) /\ file = Written(n, Candidate(n), FALSE)
  BY Zenon DEF HolderInv, RecordInv, Live, Ready
<1>2. TypeOK
  BY Zenon DEF CoreInv
<1>3. now \in Nat /\ lastOK[n] \in Nat /\ \A m \in Node : lastChange[m] \in Nat
  BY <1>2, Zenon DEF TypeOK, StateType
<1>4. hold[n] \in Nat /\ Settle \in Nat /\ Half(n) \in Nat /\ Renew[n] \in Nat
  BY <1>1, <1>2, WaitCovers, HalfTTL, HAAssumption, Zenon
<1>5. now < lastOK[n] + Half(n) + Renew[n]
  BY Zenon DEF HolderInv
<1>6. x \in Nat
  BY <1>4, Zenon
<1>7. ASSUME NEW m \in Node
      PROVE  /\ now + x <= now + Wait(m)
             /\ ~Mine(m) /\ seen[m] => now + x <= lastChange[m] + Wait(m)
  <2>1. Wait(m) \in Nat /\ Wait(m) >= Half(n) + Renew[n] + x
    BY <1>1, <1>2, WaitCovers, Zenon
  <2>2. ~Mine(m) /\ seen[m] => lastChange[m] >= lastOK[n]
    BY <1>1, Zenon DEF HolderInv
  <2>3. now + x <= now + Wait(m)
    BY <1>3, <1>4, <1>6, <2>1, SMT
  <2>4. lastChange[m] >= lastOK[n] => now + x <= lastChange[m] + Wait(m)
    BY <1>3, <1>4, <1>5, <1>6, <2>1, SMT
  <2> QED
    BY <2>2, <2>3, <2>4, Zenon
<1>8. now + x \in Nat
  BY <1>3, <1>6, SMT
<1> QED
  BY <1>1, <1>7, <1>8, Zenon DEF Mine

\* A withdraw keeps the record and the deadline, and its routes linger for as
\* long as a withdraw takes.
LEMMA WithdrawHere ==
  ASSUME HandoverFits, CoreInv, NEW n \in Node, Alive(n), Quiet, WithdrawAll(n),
         UNCHANGED <<life, health, hold, active, lastOK>>,
         RecordInv(n), HolderInv(n), LingerInv(n)
  PROVE  RecordInv(n)' /\ HolderInv(n)' /\ LingerInv(n)'
<1>1. \A k \in Node : Mine(k)' = Mine(k) /\ Wait(k)' = Wait(k)
  BY QuietKeeps, Zenon
<1>2. TypeOK
  BY Zenon DEF CoreInv
<1>3. Live(n)' => Live(n)
  BY <1>2, Zenon DEF Live, Ready, Alive, Active, WithdrawAll, Quiet, TypeOK
<1>4. CASE ~(paths[n] /\ Ready(n))
  <2>1. until'[n] = until[n]
    BY <1>2, <1>4, Zenon DEF WithdrawAll, TypeOK
  <2>2. Kept(n)
    BY <1>3, <2>1, Zenon DEF Kept, Alive
  <2> QED
    BY <2>2, KeptHere, Zenon
<1>5. CASE paths[n] /\ Ready(n)
  <2>1. until'[n] = now + Settle
    BY <1>2, <1>5, Zenon DEF WithdrawAll, TypeOK
  <2>2. Live(n)
    BY <1>5, Zenon DEF Live
  <2>3. /\ now + Settle \in Nat
        /\ file.kind = "lease" /\ file.node = n /\ ~file.released
        /\ \A m \in Node :
             /\ now + Settle <= now + Wait(m)
             /\ ~Mine(m) /\ seen[m] => now + Settle <= lastChange[m] + Wait(m)
    BY <2>2, LeftBehind, Zenon
  <2>4. now + Settle <= now + Settle
    BY <2>3, SMT
  <2>5. LingerInv(n)'
    BY <1>1, <2>1, <2>3, <2>4, Zenon DEF LingerInv, Quiet
  <2>6. Written(n, Candidate(n), FALSE)' = Written(n, Candidate(n), FALSE)
    BY Zenon DEF Quiet, Written, Candidate
  <2>7. RecordInv(n)'
    BY <1>1, <2>6, Zenon DEF RecordInv, Quiet, Alive
  <2>8. HolderInv(n)'
    BY <1>1, <1>3, Zenon DEF HolderInv, Quiet, Half
  <2> QED
    BY <2>5, <2>7, <2>8, Zenon
<1> QED
  BY <1>4, <1>5, Zenon

\* The three withdraws keep the hand-over of their instance.
LEMMA WithdrawSteps ==
  ASSUME HandoverFits, CoreInv, NEW n \in Node, RecordInv(n), HolderInv(n),
         LingerInv(n), RoleInv(n), RenewInv(n),
         SyncStandby(n) \/ HandlerWithdraw(n) \/ ShutdownWithdraw(n)
  PROVE  /\ Quiet /\ RecordInv(n)' /\ HolderInv(n)' /\ LingerInv(n)'
         /\ RoleInv(n)' /\ RenewInv(n)'
<1>0. TypeOK /\ DownInv(n) /\ StageInv(n)
  BY Zenon DEF CoreInv
<1>1. Alive(n)
  <2>1. CASE SyncStandby(n)
    BY <2>1, Zenon DEF SyncStandby, Alive
  <2>2. CASE HandlerWithdraw(n)
    BY <1>0, <2>2, Zenon DEF HandlerWithdraw, DownInv
  <2>3. CASE ShutdownWithdraw(n)
    BY <1>0, <2>3, Zenon DEF ShutdownWithdraw, DownInv
  <2> QED
    BY <2>1, <2>2, <2>3, Zenon
<1>2. /\ Quiet /\ WithdrawAll(n) /\ UNCHANGED leaseVars
      /\ UNCHANGED <<life, health, hold, storage, ticked, active, lastOK>>
  BY Zenon DEF SyncStandby, HandlerWithdraw, ShutdownWithdraw, Quiet, leaseVars,
     stateVars, envVars
<1>3. RecordInv(n)' /\ HolderInv(n)' /\ LingerInv(n)'
  BY <1>1, <1>2, WithdrawHere, Zenon
<1>4. /\ Alive(n)' = Alive(n) /\ Ready(n)' = Ready(n) /\ Active(n)' = Active(n)
      /\ Spent(n)' = Spent(n) /\ Mine(n)' = Mine(n)
  BY <1>2, QuietKeeps, Zenon DEF Quiet, Alive, Ready, Active, Spent
<1>5. RenewInv(n)'
  BY <1>2, <1>4, Zenon DEF RenewInv, Quiet
<1>6. /\ ~paths'[n] /\ ~syncing'[n] /\ now' = now
      /\ ~paths[n] => until'[n] = until[n]
      /\ until'[n] = now + Settle \/ until'[n] = until[n]
  BY <1>0, <1>2, Zenon DEF WithdrawAll, TypeOK, Quiet
<1>7. Mine(n) => until'[n] <= now + Settle
  <2>1. now \in Nat /\ Settle \in Nat
    BY <1>0, HAAssumption, Zenon DEF TypeOK, StateType
  <2>2. now + Settle <= now + Settle
    BY <2>1, SMT
  <2> QED
    BY <1>1, <1>6, <2>2, Zenon DEF LingerInv
<1>8. RoleInv(n)'
  <2> USE DEF coreVars, TypeOK
  <2>1. CASE SyncStandby(n)
    BY <1>0, <1>4, <1>6, <2>1, Zenon DEF SyncStandby, RoleInv, StageInv
  <2>2. CASE HandlerWithdraw(n)
    BY <1>0, <1>4, <1>6, <1>7, <2>2, Zenon DEF HandlerWithdraw, RoleInv, StageInv
  <2>3. CASE ShutdownWithdraw(n)
    BY <1>0, <1>4, <1>6, <1>7, <2>3, Zenon DEF ShutdownWithdraw, RoleInv, StageInv
  <2> QED
    BY <2>1, <2>2, <2>3, Zenon
<1> QED
  BY <1>2, <1>3, <1>5, <1>8, Zenon

\* A crash leaves routes to the hold timers of the routers, and nothing else.
LEMMA CrashHere ==
  ASSUME HandoverFits, CoreInv, NEW n \in Node, RecordInv(n), HolderInv(n),
         LingerInv(n), Crash(n)
  PROVE  /\ Quiet /\ RecordInv(n)' /\ HolderInv(n)' /\ LingerInv(n)'
         /\ RoleInv(n)' /\ RenewInv(n)'
<1>0. TypeOK
  BY Zenon DEF CoreInv
<1>1. /\ Quiet /\ ~Alive(n)' /\ ~was'[n] /\ handler'[n] = "idle" /\ main'[n] = "run"
      /\ life'[n] = "down"
  BY <1>0, Zenon DEF Crash, Gone, StateExit, Quiet, Alive, TypeOK, StateType
<1>2. \A k \in Node : Mine(k)' = Mine(k) /\ Wait(k)' = Wait(k)
  BY <1>1, QuietKeeps, Zenon
<1>3. RecordInv(n)' /\ HolderInv(n)' /\ RoleInv(n)' /\ RenewInv(n)'
  BY <1>1, Zenon DEF RecordInv, HolderInv, RoleInv, RenewInv, Live, Ready
<1>4. LingerInv(n)'
  <2>1. CASE paths[n] /\ Ready(n)
    <3>1. until'[n] = now + hold[n]
      BY <1>0, <2>1, Zenon DEF Crash, TypeOK
    <3>2. Live(n)
      BY <2>1, Zenon DEF Live
    <3>3. /\ file.kind = "lease" /\ file.node = n /\ ~file.released
          /\ \A m \in Node :
               /\ now + hold[n] <= now + Wait(m)
               /\ ~Mine(m) /\ seen[m] => now + hold[n] <= lastChange[m] + Wait(m)
      BY <3>2, LeftBehind, Zenon
    <3> QED
      BY <1>1, <1>2, <3>1, <3>3, Zenon DEF LingerInv, Quiet
  <2>2. CASE ~(paths[n] /\ Ready(n))
    <3>1. until'[n] = until[n]
      BY <1>0, <2>2, Zenon DEF Crash, TypeOK
    <3> QED
      BY <1>1, <1>2, <3>1, Zenon DEF LingerInv, Quiet
  <2> QED
    BY <2>1, <2>2, Zenon
<1> QED
  BY <1>1, <1>3, <1>4, Zenon

\* A process that starts has a fresh token and has seen no record.
LEMMA BootStep ==
  ASSUME CoreInv, HandoverInv, NEW n \in Node, Boot(n)
  PROVE  HandoverInv'
<1>0. /\ TypeOK /\ DownInv(n)
      /\ file.kind = "lease" => file.start <= starts[file.node]
  BY Zenon DEF CoreInv
<1>1. /\ now' = now /\ file' = file /\ life[n] = "down" /\ health'[n] = "new"
      /\ ticked'[n] = FALSE /\ until' = until /\ was'[n] = was[n]
      /\ handler'[n] = handler[n]
      /\ starts' = [starts EXCEPT ![n] = starts[n] + 1]
      /\ seen' = [seen EXCEPT ![n] = file.kind = "none"]
      /\ lastChange' = [lastChange EXCEPT ![n] = now]
  BY <1>0, Zenon DEF Boot, StateStart, TypeOK, StateType, coreVars, routeVars
<1>2. starts'[n] # file.start \/ file.kind # "lease" \/ file.node # n
  <2>1. starts \in [Node -> Nat] /\ file.start \in Nat
    BY <1>0, Zenon DEF TypeOK, StateType, Record
  <2>2. starts'[n] = starts[n] + 1 /\ starts[n] \in Nat
    BY <1>1, <2>1, Zenon
  <2>3. file.start <= starts[n] => starts'[n] # file.start
    BY <2>1, <2>2, SMT
  <2> QED
    BY <1>0, <2>3, Zenon
<1>3. ~Mine(n)' /\ ~Live(n)'
  BY <1>1, <1>2, Zenon DEF Mine, Live, Ready
<1>4. \A k \in Node : k # n => Mine(k)' = Mine(k)
  BY <1>0, <1>1, Zenon DEF Mine, TypeOK, StateType
<1>5. \A k \in Node : Wait(k)' = Wait(k)
  BY <1>1, Zenon DEF Wait
<1>6. /\ file.kind = "lease" => ~seen'[n]
      /\ \A k \in Node : k # n => seen'[k] = seen[k] /\ lastChange'[k] = lastChange[k]
  BY <1>0, <1>1, Zenon DEF TypeOK, StateType
<1>7. ASSUME NEW m \in Node PROVE LingerInv(m)'
  <2>1. LingerInv(m)
    BY Zenon DEF HandoverInv
  <2>2. CASE m = n
    BY <1>1, <1>3, <1>4, <1>5, <1>6, <2>1, <2>2, Zenon DEF LingerInv
  <2>3. CASE m # n
    <3>1. Alive(m)' = Alive(m)
      BY <1>0, <2>3, Zenon DEF Boot, StateStart, Alive, TypeOK, StateType
    <3> QED
      BY <1>1, <1>3, <1>4, <1>5, <1>6, <2>1, <2>3, <3>1, Zenon DEF LingerInv
  <2> QED
    BY <2>2, <2>3, Zenon
<1>8. RecordInv(n)' /\ HolderInv(n)' /\ RoleInv(n)' /\ RenewInv(n)'
  BY <1>0, <1>1, <1>3, Zenon DEF RecordInv, HolderInv, RoleInv, RenewInv, DownInv, Alive
<1>9. ASSUME NEW m \in Node, m # n
      PROVE  RecordInv(m)' /\ HolderInv(m)' /\ RoleInv(m)' /\ RenewInv(m)'
  <2>0. RecordInv(m) /\ HolderInv(m) /\ RoleInv(m) /\ RenewInv(m)
    BY Zenon DEF HandoverInv
  <2>1. Untouched(m)
    BY <1>0, <1>9, OthersUntouched, Zenon DEF InstanceStep
  <2>2. /\ Alive(m)' = Alive(m) /\ Ready(m)' = Ready(m) /\ Active(m)' = Active(m)
        /\ Live(m)' = Live(m) /\ Spent(m)' = Spent(m) /\ RenewInv(m)'
    BY <1>1, <2>0, <2>1, UntouchedKeeps, Zenon
  <2>3. Written(m, Candidate(m), FALSE)' = Written(m, Candidate(m), FALSE)
    BY <2>1, <2>2, Zenon DEF Untouched, Written, Candidate
  <2>4. RecordInv(m)'
    BY <1>1, <1>4, <1>9, <2>0, <2>1, <2>2, <2>3, Zenon DEF RecordInv, Untouched
  <2>5. HolderInv(m)'
    BY <1>1, <1>4, <1>6, <1>9, <2>0, <2>1, <2>2, Zenon
    DEF HolderInv, Untouched, Mine, Half
  <2>6. RoleInv(m)'
    BY <1>1, <1>4, <1>9, <2>0, <2>1, <2>2, Zenon DEF RoleInv, Untouched
  <2> QED
    BY <2>2, <2>4, <2>5, <2>6, Zenon
<1> QED
  BY <1>7, <1>8, <1>9, Zenon DEF HandoverInv

\* Who takes the record over finds nobody able to announce and no routes left.
LEMMA TakeOverClean ==
  ASSUME HandoverFits, CoreInv, HandoverInv, NEW n \in Node, ~Mine(n),
         Acquires(n, Candidate(n)), NEW m \in Node
  PROVE  ~Live(m) /\ ~(now < until[m])
<1>0. TypeOK /\ RecordInv(m) /\ HolderInv(m) /\ LingerInv(m)
  BY Zenon DEF CoreInv, HandoverInv
<1>1. /\ now \in Nat /\ lastOK[m] \in Nat /\ lastChange[n] \in Nat
      /\ until[m] \in Nat /\ file \in Record
  BY <1>0, Zenon DEF TypeOK, StateType
<1>2. Wait(n) \in Nat /\ Wait(n) >= 2
  BY <1>1, WaitPositive, Zenon
<1>3. file.kind = "lease" /\ ~file.released =>
        seen[n] /\ now - lastChange[n] >= Wait(n)
  <2>1. file.kind = "lease" /\ ~file.released => now - ChangeAt(n) >= Wait(n)
    BY Zenon DEF Acquires
  <2>2. ~(now - now >= Wait(n))
    BY <1>1, <1>2, SMT
  <2> QED
    BY <2>1, <2>2, Zenon DEF ChangeAt
<1>4. ASSUME Live(m) PROVE FALSE
  <2>1. /\ Mine(m) /\ Alive(m) /\ m # n
        /\ now < lastOK[m] + Half(m) + Renew[m]
        /\ seen[n] => lastChange[n] >= lastOK[m]
    BY <1>0, <1>4, Zenon DEF HolderInv, Live, Ready
  <2>2. file = Written(m, Candidate(m), FALSE) /\ seen[n]
        /\ now - lastChange[n] >= Wait(n)
    BY <1>0, <1>3, <2>1, Zenon DEF RecordInv, Mine
  <2>3. hold[m] \in Nat /\ Wait(n) >= Half(m) + Renew[m] + hold[m]
    BY <1>0, <2>2, WaitCovers, Zenon
  <2>4. Half(m) \in Nat /\ Renew[m] \in Nat /\ lastChange[n] >= lastOK[m]
    BY <2>1, <2>2, HalfTTL, Zenon
  <2> QED
    BY <1>1, <1>2, <2>1, <2>2, <2>3, <2>4, SMT
<1>5. ASSUME now < until[m] PROVE FALSE
  <2>1. /\ file.kind = "lease" /\ ~file.released
        /\ seen[n] => until[m] <= lastChange[n] + Wait(n)
    BY <1>0, <1>5, Zenon DEF LingerInv
  <2>2. now - lastChange[n] >= Wait(n) /\ until[m] <= lastChange[n] + Wait(n)
    BY <1>3, <2>1, Zenon
  <2> QED
    BY <1>1, <1>2, <1>5, <2>2, SMT
<1> QED
  BY <1>4, <1>5, Zenon

\* A tick that writes the record starts from one of two states: n holds the record
\* and writes it again, or nobody announces and no routes linger.
LEMMA WriteStep ==
  ASSUME HandoverFits, CoreInv, HandoverInv, NEW n \in Node, ElectorTick(n),
         TickWrites(n)
  PROVE  HandoverInv'
<1>0. TypeOK /\ DownInv(n) /\ StageInv(n) /\ RecordInv(n) /\ LingerInv(n) /\ RoleInv(n)
  BY Zenon DEF CoreInv, HandoverInv
<1>1. /\ storage[n] /\ Ready(n) /\ life[n] = "running" /\ Acquires(n, Candidate(n))
      /\ file' = Written(n, Candidate(n), FALSE)
      /\ \A k \in Node : seen'[k] = (k = n)
      /\ lastOK'[n] = now /\ active'[n] = TRUE
  BY <1>0, Zenon DEF ElectorTick, TickWrites, Acquires, Candidate, TypeOK, StateType
<1>2. /\ now' = now /\ starts' = starts /\ life' = life /\ health' = health
      /\ hold' = hold /\ storage' = storage /\ was' = was /\ handler' = handler
      /\ main' = main /\ wakeAt' = wakeAt /\ stopAt' = stopAt /\ syncing' = syncing
      /\ paths' = paths /\ until' = until
  BY Zenon DEF ElectorTick, haVars, envVars, coreVars, routeVars
<1>3. /\ now \in Nat /\ Half(n) \in Nat /\ Renew[n] \in Nat /\ Half(n) >= 2
      /\ Renew[n] >= 1
  BY <1>0, HalfTTL, Zenon DEF TypeOK, StateType
<1>4. now - now < Half(n) /\ now < now + Half(n) + Renew[n]
  BY <1>3, SMT
<1>5. Mine(n)' /\ Active(n)' /\ \A k \in Node : k # n => ~Mine(k)'
  BY <1>1, <1>2, <1>4, Zenon DEF Mine, Written, Active
<1>6. /\ Ready(n)' /\ Alive(n)' /\ ~Spent(n)
      /\ Written(n, Candidate(n), FALSE)' = Written(n, Candidate(n), FALSE)
      /\ health[n] # "new"
  BY <1>1, <1>2, Zenon DEF Ready, Alive, Spent, Written, Candidate
<1>7. RecordInv(n)' /\ HolderInv(n)' /\ RenewInv(n)'
  BY <1>1, <1>2, <1>4, <1>5, <1>6, Zenon DEF RecordInv, HolderInv, RenewInv, Half
<1>8. \A m \in Node : m # n => ~Live(m)
  <2>1. CASE Mine(n)
    <3>1. \A m \in Node : Mine(m) => m = n
      BY <2>1, Zenon DEF Mine
    <3> QED
      BY <3>1, Zenon DEF HandoverInv, HolderInv
  <2>2. CASE ~Mine(n)
    BY <1>1, <2>2, TakeOverClean, Zenon
  <2> QED
    BY <2>1, <2>2, Zenon
<1>9. ASSUME NEW m \in Node, m # n
      PROVE  RecordInv(m)' /\ HolderInv(m)' /\ RoleInv(m)' /\ RenewInv(m)'
  <2>1. Untouched(m)
    BY <1>0, <1>9, OthersUntouched, Zenon DEF InstanceStep
  <2>2. /\ Alive(m)' = Alive(m) /\ Active(m)' = Active(m) /\ Live(m)' = Live(m)
        /\ Spent(m)' = Spent(m)
    BY <1>2, <2>1, UntouchedKeeps, Zenon
  <2>3. RenewInv(m)'
    BY <1>2, <2>1, UntouchedKeeps, Zenon DEF HandoverInv
  <2>4. RecordInv(m)' /\ HolderInv(m)'
    BY <1>5, <1>8, <1>9, <2>2, Zenon DEF RecordInv, HolderInv
  <2>5. RoleInv(m)'
    BY <1>2, <1>5, <1>9, <2>1, <2>2, Zenon DEF RoleInv, HandoverInv, Untouched
  <2> QED
    BY <2>3, <2>4, <2>5, Zenon
<1>10. CASE Mine(n)
  <2>1. file' = file
    BY <1>0, <1>1, <1>10, Zenon DEF RecordInv, Ready
  <2>2. \A k \in Node : Mine(k)' = Mine(k) /\ Wait(k)' = Wait(k)
    BY <1>2, <2>1, Zenon DEF Mine, Wait
  <2>3. ASSUME NEW m \in Node PROVE LingerInv(m)'
    <3>1. LingerInv(m)
      BY Zenon DEF HandoverInv
    <3> QED
      BY <1>1, <1>2, <1>10, <2>1, <2>2, <3>1, Zenon DEF LingerInv, Alive
  <2>4. RoleInv(n)'
    BY <1>0, <1>2, <1>5, <1>6, <1>10, <2>2, Zenon DEF RoleInv
  <2> QED
    BY <1>7, <1>9, <2>3, <2>4, Zenon DEF HandoverInv
<1>11. CASE ~Mine(n)
  <2>1. ASSUME NEW m \in Node PROVE ~(now < until[m]) /\ until[m] <= now
    <3>1. ~(now < until[m]) /\ now \in Nat /\ until[m] \in Nat
      BY <1>0, <1>1, <1>11, TakeOverClean, Zenon DEF TypeOK, StateType
    <3> QED
      BY <3>1, SMT
  <2>2. until[n] <= now + Settle
    <3>1. now \in Nat /\ until[n] \in Nat /\ Settle \in Nat /\ until[n] <= now
      BY <1>0, <2>1, HAAssumption, Zenon DEF TypeOK, StateType
    <3> QED
      BY <3>1, SMT
  <2>3. ASSUME NEW m \in Node PROVE LingerInv(m)'
    BY <1>2, <1>5, <2>1, <2>2, Zenon DEF LingerInv
  <2>4. RoleInv(n)'
    BY <1>0, <1>2, <1>5, <1>6, <2>1, Zenon DEF RoleInv
  <2> QED
    BY <1>7, <1>9, <2>3, <2>4, Zenon DEF HandoverInv
<1> QED
  BY <1>10, <1>11, Zenon

\* A tick that only reads: n has the record in view from now on, and steps down.
LEMMA ReadStep ==
  ASSUME HandoverFits, CoreInv, HandoverInv, NEW n \in Node, ElectorTick(n),
         TickReads(n)
  PROVE  HandoverInv'
<1>0. /\ TypeOK /\ StageInv(n) /\ RecordInv(n) /\ HolderInv(n) /\ LingerInv(n)
      /\ RoleInv(n)
  BY Zenon DEF CoreInv, HandoverInv
<1>1. /\ storage[n] /\ life[n] = "running" /\ ~Acquires(n, Candidate(n))
      /\ file' = file /\ lastOK' = lastOK /\ ~active'[n]
      /\ lastChange'[n] = IF seen[n] THEN lastChange[n] ELSE now
      /\ \A k \in Node : k # n => seen'[k] = seen[k] /\ lastChange'[k] = lastChange[k]
  BY <1>0, Zenon DEF ElectorTick, TickReads, SetActive, ChangeAt, TypeOK, StateType
<1>2. /\ now' = now /\ starts' = starts /\ life' = life /\ health' = health
      /\ hold' = hold /\ storage' = storage /\ was' = was /\ handler' = handler
      /\ main' = main /\ wakeAt' = wakeAt /\ stopAt' = stopAt /\ syncing' = syncing
      /\ paths' = paths /\ until' = until
  BY Zenon DEF ElectorTick, haVars, envVars, coreVars, routeVars
<1>3. \A k \in Node : /\ Mine(k)' = Mine(k) /\ Wait(k)' = Wait(k)
                      /\ Ready(k)' = Ready(k) /\ Alive(k)' = Alive(k)
                      /\ Spent(k)' = Spent(k)
  BY <1>1, <1>2, Zenon DEF Mine, Wait, Ready, Alive, Spent
<1>4. \A k \in Node : Active(k)' => Active(k)
  <2>1. \A k \in Node : active'[k] => active[k]
    BY <1>0, Zenon DEF TickReads, SetActive, TypeOK, StateType
  <2> QED
    BY <1>1, <1>2, <2>1, Zenon DEF Active
<1>5. \A k \in Node : Live(k)' => Live(k)
  BY <1>2, <1>3, <1>4, Zenon DEF Live
<1>6. ASSUME NEW m \in Node PROVE RecordInv(m)'
  <2>1. Written(m, Candidate(m), FALSE)' = Written(m, Candidate(m), FALSE)
    BY <1>2, <1>3, Zenon DEF Written, Candidate
  <2> QED
    BY <1>1, <1>2, <1>3, <2>1, Zenon DEF RecordInv, HandoverInv
<1>7. ASSUME NEW m \in Node PROVE HolderInv(m)'
  <2>1. HolderInv(m)
    BY Zenon DEF HandoverInv
  <2>2. now >= lastOK[m]
    <3>1. lastOK[m] <= now /\ now \in Nat /\ lastOK[m] \in Nat
      BY <1>0, Zenon DEF CoreInv, StageInv, TypeOK, StateType
    <3> QED
      BY <3>1, SMT
  <2>3. ASSUME NEW k \in Node \ {m}, Live(m), seen'[k]
        PROVE  lastChange'[k] >= lastOK[m]
    <3>1. CASE k = n
      BY <1>1, <2>1, <2>2, <2>3, <3>1, Zenon DEF HolderInv
    <3>2. CASE k # n
      BY <1>1, <2>1, <2>3, <3>2, Zenon DEF HolderInv
    <3> QED
      BY <3>1, <3>2, Zenon
  <2> QED
    BY <1>1, <1>2, <1>3, <1>5, <2>1, <2>3, Zenon DEF HolderInv, Half
<1>8. ASSUME NEW m \in Node PROVE LingerInv(m)'
  <2>1. LingerInv(m)
    BY Zenon DEF HandoverInv
  <2>2. ASSUME NEW k \in Node, now < until[m], ~Mine(k), seen'[k]
        PROVE  until[m] <= lastChange'[k] + Wait(k)
    <3>1. CASE k = n
      BY <1>1, <2>1, <2>2, <3>1, Zenon DEF LingerInv
    <3>2. CASE k # n
      BY <1>1, <2>1, <2>2, <3>2, Zenon DEF LingerInv
    <3> QED
      BY <3>1, <3>2, Zenon
  <2> QED
    BY <1>1, <1>2, <1>3, <2>1, <2>2, Zenon DEF LingerInv
<1>9. RoleInv(n)' /\ RenewInv(n)'
  <2>1. ~Active(n)'
    BY <1>1, Zenon DEF Active
  <2>2. Active(n) /\ was[n] => Spent(n)
    <3>1. SUFFICES ASSUME Active(n), ~Spent(n) PROVE FALSE
      BY Zenon
    <3>2. Ready(n)
      BY <1>0, <1>1, <3>1, Zenon
      DEF Spent, Ready, Alive, StageInv, Active, TypeOK, Health
    <3>3. Mine(n)
      BY <1>0, <3>1, <3>2, Zenon DEF HolderInv, Live
    <3>4. now >= noAcquire[n]
      BY <1>0, <3>1, Zenon DEF StageInv, Active
    <3> QED
      BY <1>1, <3>2, <3>3, <3>4, Zenon DEF Acquires, Candidate
  <2> QED
    BY <1>0, <1>2, <1>3, <2>1, <2>2, Zenon DEF RoleInv, RenewInv
<1>10. ASSUME NEW m \in Node, m # n PROVE RoleInv(m)' /\ RenewInv(m)'
  <2>1. Untouched(m)
    BY <1>0, <1>10, OthersUntouched, Zenon DEF InstanceStep
  <2>2. Active(m)' = Active(m) /\ RenewInv(m)'
    BY <1>2, <2>1, UntouchedKeeps, Zenon DEF HandoverInv
  <2> QED
    BY <1>2, <1>3, <2>1, <2>2, Zenon DEF RoleInv, HandoverInv, Untouched
<1> QED
  BY <1>6, <1>7, <1>8, <1>9, <1>10, Zenon DEF HandoverInv

\* Calls that end a resignation.
Releases(n) == HandlerRelease(n) \/ ShutdownRelease(n)

\* A release that is written frees the record when no routes are left.
LEMMA ReleaseStep ==
  ASSUME CoreInv, HandoverInv, NEW n \in Node, Releases(n), Mine(n), storage[n]
  PROVE  HandoverInv'
<1>0. TypeOK /\ DownInv(n) /\ StageInv(n) /\ LingerInv(n) /\ RoleInv(n) /\ HolderInv(n)
  BY Zenon DEF CoreInv, HandoverInv
<1>1. file' = Written(n, Candidate(n), TRUE) /\ now' = now
  BY Zenon DEF Releases, HandlerRelease, ShutdownRelease, Release
<1>2. \A m \in Node : ~Mine(m)'
  BY <1>1, Zenon DEF Mine, Written
<1>3. ~paths[n] /\ ~syncing[n] /\ ~active[n] /\ until[n] <= now
  BY <1>0, Zenon DEF Releases, HandlerRelease, ShutdownRelease, StageInv, RoleInv
<1>4. \A m \in Node : ~Live(m)
  BY <1>3, Zenon DEF HandoverInv, HolderInv, Live, Active, Mine
<1>5. ASSUME NEW m \in Node PROVE ~(now < until[m])
  <2>1. ~(now < until[n])
    <3>1. now \in Nat /\ until[n] \in Nat
      BY <1>0, Zenon DEF TypeOK, StateType
    <3> QED
      BY <1>3, <3>1, SMT
  <2> QED
    BY <2>1, Zenon DEF HandoverInv, LingerInv, Mine
<1>6. /\ life' = life /\ active' = active /\ lastOK' = lastOK /\ ticked' = ticked
      /\ health' = health /\ hold' = hold /\ storage' = storage /\ was' = was
      /\ syncing' = syncing /\ paths' = paths /\ until' = until
      /\ handler'[n] \in {handler[n], "idle"} /\ main'[n] \in {main[n], "stop"}
      /\ main[n] = "run" => main'[n] = "run"
  BY <1>0, Zenon DEF Releases, HandlerRelease, ShutdownRelease, Release, TypeOK,
     envVars, routeVars
<1>7. \A m \in Node : /\ Alive(m)' = Alive(m) /\ Ready(m)' = Ready(m)
                      /\ Active(m)' = Active(m) /\ Live(m)' = Live(m)
                      /\ Spent(m)' = Spent(m)
  BY <1>1, <1>6, Zenon DEF Alive, Ready, Active, Live, Spent
<1>8. ASSUME NEW m \in Node
      PROVE  RecordInv(m)' /\ HolderInv(m)' /\ LingerInv(m)' /\ RenewInv(m)'
  BY <1>1, <1>2, <1>4, <1>5, <1>6, <1>7, Zenon
  DEF RecordInv, HolderInv, LingerInv, RenewInv, HandoverInv
<1>9. ASSUME NEW m \in Node PROVE RoleInv(m)'
  <2>1. RoleInv(m)
    BY Zenon DEF HandoverInv
  <2>2. CASE m = n
    <3>1. handler'[n] = "resign" => handler[n] = "resign"
      BY <1>6, Zenon
    <3>2. handler'[n] = "settle" => handler[n] = "settle"
      BY <1>6, Zenon
    <3>3. handler'[n] = "withdraw" => handler[n] = "withdraw"
      BY <1>6, Zenon
    <3>4. main'[n] = "run" => main[n] = "run"
      BY <1>6, Zenon
    <3> QED
      BY <1>2, <1>6, <1>7, <2>1, <2>2, <3>1, <3>2, <3>3, <3>4, Zenon DEF RoleInv
  <2>3. CASE m # n
    <3>1. handler'[m] = handler[m] /\ main'[m] = main[m]
      BY <1>0, <2>3, Zenon DEF Releases, HandlerRelease, ShutdownRelease, TypeOK
    <3> QED
      BY <1>2, <1>6, <1>7, <2>1, <3>1, Zenon DEF RoleInv
  <2> QED
    BY <2>2, <2>3, Zenon
<1> QED
  BY <1>8, <1>9, Zenon DEF HandoverInv

\* A tick without storage and a release that is not written are quiet.
LEMMA IdleHere ==
  ASSUME CoreInv, NEW n \in Node, RecordInv(n), HolderInv(n), LingerInv(n),
         RoleInv(n), RenewInv(n),
         \/ ElectorTick(n) /\ TickSkips(n)
         \/ Releases(n) /\ ~(Mine(n) /\ storage[n])
  PROVE  /\ Quiet /\ RecordInv(n)' /\ HolderInv(n)' /\ LingerInv(n)'
         /\ RoleInv(n)' /\ RenewInv(n)'
<1>0. TypeOK /\ StageInv(n)
  BY Zenon DEF CoreInv
<1>1. CASE ElectorTick(n) /\ TickSkips(n)
  <2>1. /\ Quiet /\ ~storage[n] /\ UNCHANGED haVars
        /\ life' = life /\ active' = active /\ lastOK' = lastOK
    BY <1>1, Zenon DEF ElectorTick, TickSkips, Quiet
  <2>2. /\ Alive(n)' = Alive(n) /\ Ready(n)' = Ready(n) /\ Active(n)' = Active(n)
        /\ Live(n)' = Live(n) /\ Spent(n)' = Spent(n) /\ Mine(n)' = Mine(n)
    BY <2>1, QuietKeeps, Zenon DEF Quiet, Alive, Ready, Active, Live, Spent, haVars,
       envVars, routeVars
  <2>3. Kept(n)
    BY <2>1, <2>2, Zenon DEF Kept, haVars, envVars, routeVars
  <2>4. RoleInv(n)' /\ RenewInv(n)'
    BY <2>1, <2>2, Zenon DEF RoleInv, RenewInv, Quiet, haVars, envVars, coreVars,
       routeVars
  <2> QED
    BY <2>1, <2>3, <2>4, KeptHere, Zenon
<1>2. CASE Releases(n) /\ ~(Mine(n) /\ storage[n])
  <2>1. /\ Quiet /\ UNCHANGED envVars /\ UNCHANGED routeVars
        /\ life' = life /\ active' = active /\ lastOK' = lastOK /\ ticked' = ticked
        /\ was' = was
    BY <1>2, Zenon DEF Releases, HandlerRelease, ShutdownRelease, Release, Quiet
  <2>2. /\ Alive(n)' = Alive(n) /\ Ready(n)' = Ready(n) /\ Active(n)' = Active(n)
        /\ Live(n)' = Live(n) /\ Spent(n)' = Spent(n) /\ Mine(n)' = Mine(n)
    BY <2>1, QuietKeeps, Zenon DEF Quiet, Alive, Ready, Active, Live, Spent, envVars,
       routeVars
  <2>3. Kept(n)
    BY <2>1, <2>2, Zenon DEF Kept, envVars, routeVars
  <2>4. RenewInv(n)'
    BY <2>1, <2>2, Zenon DEF RenewInv, Quiet, envVars
  <2>5. RoleInv(n)'
    <3>1. CASE HandlerRelease(n)
      BY <1>0, <2>1, <2>2, <3>1, Zenon DEF HandlerRelease, RoleInv, StageInv, Quiet,
         envVars, routeVars, TypeOK
    <3>2. CASE ShutdownRelease(n)
      BY <1>0, <2>1, <2>2, <3>2, Zenon DEF ShutdownRelease, RoleInv, StageInv, Quiet,
         envVars, routeVars, TypeOK
    <3> QED
      BY <1>2, <3>1, <3>2, Zenon DEF Releases
  <2> QED
    BY <2>1, <2>3, <2>4, <2>5, KeptHere, Zenon
<1> QED
  BY <1>1, <1>2, Zenon

\* The clock moves: everybody ticked, and who announces is within the deadline.
LEMMA ElapseStep ==
  ASSUME CoreInv, HandoverInv, Elapse
  PROVE  HandoverInv'
<1>0. TypeOK
  BY Zenon DEF CoreInv
<1>1. /\ now' = now + 1 /\ now \in Nat /\ UNCHANGED haVars
      /\ file' = file /\ starts' = starts /\ life' = life /\ active' = active
      /\ lastOK' = lastOK /\ seen' = seen /\ lastChange' = lastChange
      /\ \A n \in Node : ~ticked'[n]
  BY <1>0, Zenon DEF Elapse, TypeOK, StateType
<1>2. \A k \in Node : /\ Mine(k)' = Mine(k) /\ Wait(k)' = Wait(k)
                      /\ Ready(k)' = Ready(k) /\ Alive(k)' = Alive(k)
                      /\ Spent(k)' = Spent(k)
                      /\ Written(k, Candidate(k), FALSE)' = Written(k, Candidate(k), FALSE)
  BY <1>1, Zenon DEF Mine, Wait, Ready, Alive, Spent, Written, Candidate, haVars,
     envVars
<1> SUFFICES ASSUME NEW n \in Node
             PROVE  /\ RecordInv(n)' /\ HolderInv(n)' /\ LingerInv(n)' /\ RoleInv(n)'
                    /\ RenewInv(n)'
  BY Zenon DEF HandoverInv
<1>3. /\ StageInv(n) /\ DownInv(n) /\ RecordInv(n) /\ HolderInv(n) /\ LingerInv(n)
      /\ RoleInv(n) /\ RenewInv(n) /\ Settled(n)
  BY Zenon DEF CoreInv, HandoverInv, Elapse
<1>4. /\ lastOK[n] \in Nat /\ until[n] \in Nat /\ Half(n) \in Nat /\ Renew[n] \in Nat
      /\ Half(n) >= 2
  BY <1>0, HalfTTL, Zenon DEF TypeOK, StateType
<1>5. Active(n)' => Active(n) /\ now' < lastOK[n] + Half(n) + Renew[n]
  <2>1. now + 1 - lastOK[n] < Half(n) =>
          now - lastOK[n] < Half(n) /\ now + 1 < lastOK[n] + Half(n) + Renew[n]
    BY <1>1, <1>4, SMT
  <2> QED
    BY <1>1, <1>4, <2>1, SMT DEF Active, Half
<1>6. Live(n)' => Live(n) /\ now' < lastOK[n] + Half(n) + Renew[n]
  BY <1>1, <1>2, <1>3, <1>5, Zenon DEF Live, Settled, Ready, haVars, routeVars
<1>7. RecordInv(n)' /\ RenewInv(n)'
  BY <1>1, <1>2, <1>3, Zenon DEF RecordInv, RenewInv, haVars, envVars
<1>8. HolderInv(n)'
  BY <1>1, <1>2, <1>3, <1>6, Zenon DEF HolderInv, Half
<1>9. LingerInv(n)'
  <2>1. \A k \in Node : Wait(k) \in Nat
    BY <1>0, WaitPositive, Zenon DEF TypeOK, StateType
  <2>2. now + 1 < until[n] => now < until[n]
    BY <1>1, <1>4, SMT
  <2>3. \A k \in Node : until[n] <= now + Wait(k) => until[n] <= now + 1 + Wait(k)
    BY <1>1, <1>4, <2>1, SMT
  <2>4. until[n] <= now + Settle => until[n] <= now + 1 + Settle
    BY <1>1, <1>4, HAAssumption, SMT
  <2> QED
    BY <1>1, <1>2, <1>3, <2>2, <2>3, <2>4, Zenon DEF LingerInv, haVars, routeVars
<1>10. RoleInv(n)'
  <2>1. until[n] <= now => until[n] <= now'
    BY <1>1, <1>4, SMT
  <2>2. ASSUME was[n], main[n] = "run", ~Active(n)' PROVE Spent(n)
    <3>1. CASE ~Active(n)
      BY <1>3, <2>2, <3>1, Zenon DEF RoleInv
    <3>2. CASE Active(n)
      <4>1. Alive(n) /\ life[n] = "running" /\ ticked[n]
        BY <1>0, <1>3, <2>2, Zenon
        DEF DownInv, StageInv, Settled, Alive, TypeOK, StateType
      <4>2. lastOK[n] # now
        <5>1. lastOK[n] = now => now + 1 - lastOK[n] < Half(n)
          BY <1>1, <1>4, SMT
        <5> QED
          BY <1>1, <1>4, <2>2, <3>2, <5>1, SMT DEF Active, Half
      <4>3. ~Ready(n) \/ ~storage[n]
        BY <1>3, <3>2, <4>1, <4>2, Zenon DEF RenewInv
      <4>4. health[n] # "new"
        BY <1>3, <2>2, Zenon DEF StageInv
      <4> QED
        BY <1>0, <4>1, <4>3, <4>4, Zenon DEF Ready, Spent, TypeOK, Health
    <3> QED
      BY <3>1, <3>2, Zenon
  <2> QED
    BY <1>1, <1>2, <1>3, <1>5, <2>1, <2>2, Zenon DEF RoleInv, haVars, envVars,
       coreVars, routeVars
<1> QED
  BY <1>7, <1>8, <1>9, <1>10, Zenon

\* Every step keeps the invariants of the hand-over while nothing came back.
LEMMA HandoverStep ==
  ASSUME HandoverFits, CoreInv, HandoverInv, [Next]_vars, ~healed'
  PROVE  HandoverInv'
<1>1. CASE Elapse
  BY <1>1, ElapseStep, Zenon
<1>2. ASSUME NEW n \in Node, InstanceStep(n) PROVE HandoverInv'
  <2>0. /\ TypeOK /\ RecordInv(n) /\ HolderInv(n) /\ LingerInv(n) /\ RoleInv(n)
        /\ RenewInv(n)
    BY Zenon DEF CoreInv, HandoverInv
  <2>1. ASSUME Quiet, RecordInv(n)', HolderInv(n)', LingerInv(n)', RoleInv(n)',
               RenewInv(n)'
        PROVE  HandoverInv'
    BY <1>2, <2>0, <2>1, OthersUntouched, QuietOthers, Zenon DEF HandoverInv
  <2>2. CASE QuietStep(n)
    <3>1. Quiet /\ Kept(n)
      BY <2>2, QuietStepKeeps, Zenon
    <3>2. RecordInv(n)' /\ HolderInv(n)' /\ LingerInv(n)'
      BY <2>0, <3>1, KeptHere, Zenon
    <3>3. RoleInv(n)' /\ RenewInv(n)'
      BY <2>0, <2>2, QuietRole, Zenon
    <3> QED
      BY <2>1, <3>1, <3>2, <3>3, Zenon
  <2>3. CASE SyncStandby(n) \/ HandlerWithdraw(n) \/ ShutdownWithdraw(n)
    BY <2>0, <2>1, <2>3, WithdrawSteps, Zenon
  <2>4. CASE Crash(n)
    BY <2>0, <2>1, <2>4, CrashHere, Zenon
  <2>5. CASE Boot(n)
    BY <2>5, BootStep, Zenon
  <2>6. CASE ElectorTick(n)
    <3>1. CASE TickSkips(n)
      BY <2>0, <2>1, <2>6, <3>1, IdleHere, Zenon
    <3>2. CASE TickWrites(n)
      BY <2>6, <3>2, WriteStep, Zenon
    <3>3. CASE TickReads(n)
      BY <2>6, <3>3, ReadStep, Zenon
    <3> QED
      BY <2>6, <3>1, <3>2, <3>3, Zenon DEF ElectorTick
  <2>7. CASE Releases(n)
    <3>1. CASE Mine(n) /\ storage[n]
      BY <2>7, <3>1, ReleaseStep, Zenon
    <3>2. CASE ~(Mine(n) /\ storage[n])
      BY <2>0, <2>1, <2>7, <3>2, IdleHere, Zenon
    <3> QED
      BY <3>1, <3>2, Zenon
  <2> QED
    BY <1>2, <2>2, <2>3, <2>4, <2>5, <2>6, <2>7, Zenon
    DEF InstanceStep, QuietStep, Releases
<1>3. CASE UNCHANGED vars
  <2>1. Quiet /\ \A m \in Node : Untouched(m)
    BY <1>3, Zenon DEF vars, leaseVars, haVars, stateVars, envVars, coreVars,
       routeVars, Quiet, Untouched
  <2> QED
    BY <2>1, QuietOthers, Zenon DEF HandoverInv
<1> QED
  BY <1>1, <1>2, <1>3, Zenon DEF Next

\* The pair starts with nobody alive and no routes.
LEMMA InitHandover == Init => HandoverInv
<1> SUFFICES ASSUME Init, NEW n \in Node
             PROVE  /\ RecordInv(n) /\ HolderInv(n) /\ LingerInv(n) /\ RoleInv(n)
                    /\ RenewInv(n)
  BY Zenon DEF HandoverInv
<1>1. /\ now = 0 /\ life[n] = "down" /\ until[n] = 0 /\ ~was[n] /\ handler[n] = "idle"
      /\ main[n] = "run"
  BY Zenon DEF Init, StateInit
<1>2. ~Alive(n) /\ ~(now < until[n])
  <2>1. ~(0 < 0)
    BY SMT
  <2> QED
    BY <1>1, <2>1, Zenon DEF Alive
<1> QED
  BY <1>1, <1>2, Zenon
  DEF RecordInv, HolderInv, LingerInv, RoleInv, RenewInv, Live, Ready, Alive

\* The inductive invariant of the pair: every step keeps it.
LEMMA InvStep == HandoverFits /\ IInv /\ [Next]_vars => IInv'
<1> SUFFICES ASSUME HandoverFits, IInv, [Next]_vars PROVE IInv'
  BY Zenon
<1>1. CoreInv'
  BY CoreStep, Zenon DEF IInv
<1>2. ASSUME ~healed' PROVE HandoverInv'
  BY <1>2, HealedStays, HandoverStep, Zenon DEF IInv
<1> QED
  BY <1>1, <1>2, Zenon DEF IInv

\* It holds in every reachable state, if wait() can count on the hold times.
THEOREM HandoverHolds == ASSUME HandoverFits PROVE Spec => []IInv
<1>1. Init => IInv
  BY InitCore, InitHandover, Zenon DEF IInv
<1>2. IInv /\ [Next]_vars => IInv'
  BY InvStep, Zenon
<1> QED
  BY <1>1, <1>2, PTL DEF Spec

\* The routers never carry the routes of two instances: over crashes,
\* shutdowns and step-downs, for any number of instances, as long as what was
\* lost stays lost.
THEOREM OneInstanceCarried == ASSUME HandoverFits PROVE Spec => []RoutersCarryOne
<1>1. IInv => RoutersCarryOne
  <2> SUFFICES ASSUME IInv, NEW m \in Node, NEW n \in Node, ~healed, Carried(m),
                      Carried(n)
               PROVE  m = n
    BY Zenon DEF RoutersCarryOne
  <2>1. ASSUME NEW k \in Node, Carried(k) PROVE file.node = k
    <3>1. HolderInv(k) /\ LingerInv(k)
      BY Zenon DEF IInv, HandoverInv
    <3>2. CASE paths[k] /\ Ready(k)
      BY <3>1, <3>2, Zenon DEF HolderInv, Live, Mine
    <3>3. CASE now < until[k]
      BY <3>1, <3>3, Zenon DEF LingerInv
    <3> QED
      BY <2>1, <3>2, <3>3, Zenon DEF Carried
  <2> QED
    BY <2>1, Zenon
<1> QED
  BY <1>1, HandoverHolds, PTL

\* An instance resigns only when its speaker has no path left and no sync is
\* about to announce one, under the same condition.
THEOREM ResignsClean == ASSUME HandoverFits PROVE Spec => ResignsWithoutRoutes
<1>1. IInv /\ [Next]_vars =>
        [\A n \in Node : ~healed /\ (HandlerResign(n) \/ ShutdownResign(n)) =>
           ~paths[n] /\ ~syncing[n]]_vars
  <2> SUFFICES ASSUME IInv, NEW n \in Node, ~healed,
                      HandlerResign(n) \/ ShutdownResign(n)
               PROVE  ~paths[n] /\ ~syncing[n]
    BY Zenon
  <2>1. RoleInv(n) /\ StageInv(n)
    BY Zenon DEF IInv, HandoverInv, CoreInv
  <2> QED
    BY <2>1, Zenon DEF HandlerResign, ShutdownResign, RoleInv, StageInv
<1> QED
  BY <1>1, HandoverHolds, PTL DEF Spec, ResignsWithoutRoutes
=============================================================================
