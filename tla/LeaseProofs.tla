---------------------------- MODULE LeaseProofs ----------------------------
(***************************************************************************)
(* Proofs about the lease elector, for any set of instances, any ttl,      *)
(* renew and hold times, any interleaving and any storage delay.           *)
(***************************************************************************)
EXTENDS Lease, TLAPS

\* Half a ttl is a natural number below the ttl: it is what Active() allows.
LEMMA HalfTTL ==
  ASSUME NEW n \in Node
  PROVE  /\ Half(n) \in Nat
         /\ Half(n) < TTL[n]
         /\ TTL[n] \in Nat
BY ConfigAssumption DEF Half

\* wait() is at least the record's ttl and this instance's own.
LEMMA WaitCoversTTL ==
  ASSUME NEW n \in Node, file \in Record
  PROVE  /\ Wait(n) \in Nat
         /\ Wait(n) >= TTL[n]
         /\ file.kind = "lease" => Wait(n) >= file.ttl
BY ConfigAssumption DEF Wait, Larger, Record

\* The initial candidacy is a candidacy.
LEMMA AnyCandidacyType == AnyCandidacy \in Candidacy
<1>1. PICK h \in Hold : TRUE
  BY ZenonT(60), ConfigAssumption
<1>2. [eligible |-> FALSE, hold |-> h] \in Candidacy
  BY <1>1, Zenon DEF Candidacy
<1>3. \E c \in Candidacy : ~c.eligible
  BY <1>2, Zenon
<1> QED
  BY <1>3, Zenon DEF AnyCandidacy

\* A write leaves a well-formed record.
LEMMA ReplaceType ==
  ASSUME TypeOK, NEW n \in Node, NEW c \in Candidacy, NEW b \in BOOLEAN,
         Replace(n, c, b)
  PROVE  file' \in Record /\ seen' \in [Node -> BOOLEAN]
<1>1. /\ c.hold \in Nat /\ DefaultRouteHold \in Nat
      /\ TTL[n] \in Nat /\ starts[n] \in Nat
  BY ZenonT(60), ConfigAssumption DEF Candidacy, TypeOK, StateType
<1> QED
  BY <1>1, Zenon DEF Replace, Written, Record

-----------------------------------------------------------------------------
\* Every step of the elector keeps the types of its state.
LEMMA TypeStep == TypeOK /\ [Next]_leaseVars => TypeOK'
<1> SUFFICES ASSUME TypeOK, [Next]_leaseVars PROVE TypeOK'
  BY Zenon
<1> USE DEF TypeOK, StateType, stateVars
<1>1. CASE Tick
  BY <1>1 DEF Tick
<1>2. ASSUME NEW n \in Node, Start(n) PROVE TypeOK'
  BY <1>2 DEF Start, StateStart
<1>3. ASSUME NEW n \in Node, Stop(n) PROVE TypeOK'
  BY <1>3, Zenon DEF Stop, StateStop
<1>4. ASSUME NEW n \in Node, Exit(n) PROVE TypeOK'
  BY <1>4, Zenon DEF Exit, StateExit
<1>5. ASSUME NEW n \in Node, NEW c \in Candidacy, TickStart(n, c)
      PROVE  TypeOK'
  BY <1>5, Zenon DEF TickStart
<1>6. ASSUME NEW n \in Node, TickFail(n) PROVE TypeOK'
  BY <1>6, Zenon DEF TickFail
<1>7. ASSUME NEW n \in Node, TickDecide(n) PROVE TypeOK'
  BY ZenonT(60), <1>7 DEF TickDecide, SetActive, ChangeAt
<1>8. ASSUME NEW n \in Node, TickRename(n) PROVE TypeOK'
  <2>1. file' \in Record /\ seen' \in [Node -> BOOLEAN]
    BY ZenonT(60), <1>8, ReplaceType DEF TickRename
  <2> QED
    BY ZenonT(60), <1>8, <2>1 DEF TickRename
<1>9. ASSUME NEW n \in Node, TickWriteFail(n) PROVE TypeOK'
  <2>1. file' \in Record /\ seen' \in [Node -> BOOLEAN]
    BY ZenonT(60), <1>9, ReplaceType DEF TickWriteFail
  <2> QED
    BY ZenonT(60), <1>9, <2>1 DEF TickWriteFail
<1>10. ASSUME NEW n \in Node, TickActivate(n) PROVE TypeOK'
  <2>1. CASE now < noAcquire[n] \/ life[n] = "stopped"
    BY ZenonT(60), <1>10, <2>1 DEF TickActivate
  <2>2. CASE ~(now < noAcquire[n] \/ life[n] = "stopped")
    BY ZenonT(60), <1>10, <2>2 DEF TickActivate, SetActive
  <2> QED
    BY <2>1, <2>2, Zenon
<1>11. ASSUME NEW n \in Node, Watchdog(n) PROVE TypeOK'
  BY <1>11, Zenon DEF Watchdog, StateWatchdog, SetActive
<1>12. ASSUME NEW n \in Node, Notify(n) PROVE TypeOK'
  BY <1>12, Zenon DEF Notify, StateNotify
<1>13. ASSUME NEW n \in Node, ResignStart(n) PROVE TypeOK'
  <2>1. now + TTL[n] \in Nat
    BY HalfTTL
  <2> QED
    BY <1>13, <2>1, Zenon DEF ResignStart, StateResign, SetActive
<1>14. ASSUME NEW n \in Node, ResignLock(n) PROVE TypeOK'
  BY <1>14, Zenon DEF ResignLock
<1>15. ASSUME NEW n \in Node, NEW c \in Candidacy, ResignRename(n, c)
       PROVE  TypeOK'
  <2>1. file' \in Record /\ seen' \in [Node -> BOOLEAN]
    BY ZenonT(60), <1>15, ReplaceType DEF ResignRename
  <2> QED
    BY ZenonT(60), <1>15, <2>1 DEF ResignRename
<1>16. ASSUME NEW n \in Node, ResignDone(n) PROVE TypeOK'
  BY <1>16, Zenon DEF ResignDone
<1>17. ASSUME NEW n \in Node, ResignFail(n) PROVE TypeOK'
  BY <1>17, Zenon DEF ResignFail
<1>18. CASE UNCHANGED leaseVars
  BY <1>18, Zenon DEF leaseVars
<1> QED
  BY ZenonT(60), <1>1, <1>2, <1>3, <1>4, <1>5, <1>6, <1>7, <1>8, <1>9, <1>10, <1>11,
     <1>12, <1>13, <1>14, <1>15, <1>16, <1>17, <1>18
  DEF Next, TickStep, ResignStep

\* The elector starts well typed.
LEMMA InitType == Init => TypeOK
<1> SUFFICES ASSUME Init PROVE TypeOK
  BY Zenon
<1>1. (CHOOSE n \in Node : TRUE) \in Node
  BY ConfigAssumption, Zenon
<1>2. file \in Record
  <2>1. PICK k \in {"none", "garbage"} :
          file = [kind |-> k, node |-> CHOOSE n \in Node : TRUE, start |-> 0,
                  released |-> FALSE, hold |-> 0, ttl |-> 0]
    BY Zenon DEF Init, StateInit
  <2> QED
    BY <1>1, <2>1, Zenon DEF Record
<1>3. cand \in [Node -> Candidacy]
  BY AnyCandidacyType, Zenon DEF Init
<1> QED
  BY <1>2, <1>3, Zenon DEF Init, StateInit, TypeOK, StateType

\* Type correctness of the elector's state, under every schedule.
THEOREM TypeCorrect == Spec => []TypeOK
BY InitType, TypeStep, PTL DEF Spec

-----------------------------------------------------------------------------
\* Every step keeps the inductive invariant, if a Resign call reaches the
\* file lock within one ttl.
LEMMA InvStep ==
  ASSUME ResignWithinTTL, IInv, [Next]_leaseVars
  PROVE  IInv'
<1>0. TypeOK'
  BY TypeStep, Zenon DEF IInv
<1> USE DEF IInv, TypeOK, StateType, stateVars, LockInv, Holding, Writing,
        Releasing, DownInv, TimeInv, HolderInv, WriteInv, RenamedInv, SeenInv, ResignInv, Active,
        Mine
<1>1. CASE Tick
  BY <1>0, <1>1, HalfTTL DEF Tick
<1>2. ASSUME NEW n \in Node, Start(n) PROVE IInv'
  <2>1. LockInv' /\ DownInv' /\ TimeInv' /\ HolderInv'
    BY <1>2 DEF Start, StateStart
  <2>2. WriteInv' /\ RenamedInv' /\ SeenInv' /\ ResignInv'
    BY <1>2 DEF Start, StateStart
  <2> QED
    BY <1>0, <2>1, <2>2, Zenon DEF IInv
<1>3. ASSUME NEW n \in Node, Stop(n) PROVE IInv'
  <2>1. LockInv' /\ DownInv' /\ TimeInv' /\ HolderInv'
    BY <1>3 DEF Stop, StateStop
  <2>2. WriteInv' /\ RenamedInv' /\ SeenInv' /\ ResignInv'
    BY <1>3 DEF Stop, StateStop
  <2> QED
    BY <1>0, <2>1, <2>2, Zenon DEF IInv
<1>4. ASSUME NEW n \in Node, Exit(n) PROVE IInv'
  <2>1. LockInv' /\ DownInv' /\ TimeInv' /\ HolderInv'
    BY <1>4 DEF Exit, StateExit
  <2>2. WriteInv' /\ RenamedInv' /\ SeenInv' /\ ResignInv'
    BY <1>4 DEF Exit, StateExit
  <2> QED
    BY <1>0, <2>1, <2>2, Zenon DEF IInv
<1>5. ASSUME NEW n \in Node, NEW c \in Candidacy, TickStart(n, c)
      PROVE  IInv'
  BY <1>0, <1>5 DEF TickStart
<1>6. ASSUME NEW n \in Node, TickFail(n) PROVE IInv'
  BY <1>0, <1>6 DEF TickFail
<1>7. ASSUME NEW n \in Node, TickDecide(n) PROVE IInv'
  <2>1. active' = active \/ active' = [active EXCEPT ![n] = FALSE]
    BY ZenonT(60), <1>7 DEF TickDecide, SetActive
  <2>2. \A p \in Node : active'[p] => active[p]
    BY <2>1
  <2>3. \A p \in Node : Active(p)' => Active(p)
    BY <1>7, <2>2, Zenon DEF TickDecide
  <2>4. LockInv' /\ DownInv' /\ TimeInv' /\ HolderInv' /\ RenamedInv'
    BY SMTT(60), <1>7, <2>2, <2>3 DEF TickDecide, LockFree
  <2>5. ResignInv'
    BY <1>7, <2>2, <2>3, Zenon DEF TickDecide, LockFree
  <2>6. WriteInv'
    <3> SUFFICES ASSUME NEW m \in Node, NEW p \in Node, m # p,
                        tick'[m] = "write", Active(p)
                 PROVE  FALSE
      BY <2>3, Zenon
    <3>1. m = n /\ Acquires(n, cand[n])
      BY <1>7 DEF TickDecide, LockFree
    <3>2. Mine(p) /\ file.ttl = TTL[p]
      BY Zenon
    <3>3. now - ChangeAt(n) >= Wait(n)
      BY <3>1, <3>2, Zenon DEF Acquires
    <3>4. Wait(n) >= TTL[p] /\ Wait(n) \in Nat
      BY <3>2, WaitCoversTTL, Zenon
    <3>5. seen[n] /\ now - lastChange[n] >= TTL[p]
      BY <3>3, <3>4, HalfTTL DEF ChangeAt
    <3>6. now - lastOK[p] >= TTL[p]
      BY <3>1, <3>5, HalfTTL
    <3> QED
      BY <3>6, HalfTTL
  <2>7. SeenInv'
    BY <1>7, <2>3 DEF TickDecide, ChangeAt
  <2> QED
    BY <1>0, <2>4, <2>5, <2>6, <2>7, Zenon
<1>8. ASSUME NEW n \in Node, TickRename(n) PROVE IInv'
  BY <1>0, <1>8 DEF TickRename, Replace, Written
<1>9. ASSUME NEW n \in Node, TickWriteFail(n) PROVE IInv'
  BY <1>0, <1>9, SMTT(90) DEF TickWriteFail, Replace, Written
<1>10. ASSUME NEW n \in Node, TickActivate(n) PROVE IInv'
  <2>1. /\ active' = active \/ active' = [active EXCEPT ![n] = TRUE]
        /\ lastOK' = lastOK \/ lastOK' = [lastOK EXCEPT ![n] = start[n]]
        /\ now < noAcquire[n] => active' = active
    BY ZenonT(60), <1>10 DEF TickActivate, SetActive
  <2>2. LockInv' /\ DownInv' /\ TimeInv'
    BY <1>10, <2>1 DEF TickActivate
  <2>6. RenamedInv' /\ ResignInv'
    BY <1>10, <2>1 DEF TickActivate
  <2>3. \A m \in Node \ {n} : ~Active(m) /\ ~Active(m)'
    BY <1>10, <2>1 DEF TickActivate
  <2>4. HolderInv' /\ WriteInv'
    BY <1>10, <2>3 DEF TickActivate
  <2>5. SeenInv'
    BY <1>10, <2>3 DEF TickActivate
  <2> QED
    BY <1>0, <2>2, <2>4, <2>5, <2>6, Zenon
<1>11. ASSUME NEW n \in Node, Watchdog(n) PROVE IInv'
  <2>1. LockInv' /\ DownInv' /\ TimeInv' /\ HolderInv'
    BY <1>11, SMTT(60) DEF Watchdog, StateWatchdog, SetActive
  <2>2. WriteInv' /\ RenamedInv' /\ SeenInv' /\ ResignInv'
    BY <1>11, SMTT(60) DEF Watchdog, StateWatchdog, SetActive
  <2> QED
    BY <1>0, <2>1, <2>2, Zenon DEF IInv
<1>12. ASSUME NEW n \in Node, Notify(n) PROVE IInv'
  BY <1>0, <1>12 DEF Notify, StateNotify
<1>13. ASSUME NEW n \in Node, ResignStart(n) PROVE IInv'
  <2>1. LockInv' /\ DownInv' /\ TimeInv' /\ HolderInv'
    BY <1>13, HalfTTL, SMTT(60) DEF ResignStart, StateResign, SetActive
  <2>2. WriteInv' /\ RenamedInv' /\ SeenInv' /\ ResignInv'
    BY <1>13, HalfTTL, SMTT(90) DEF ResignStart, StateResign, SetActive
  <2> QED
    BY <1>0, <2>1, <2>2, Zenon DEF IInv
<1>14. ASSUME NEW n \in Node, ResignLock(n) PROVE IInv'
  <2>1. LockInv' /\ DownInv' /\ TimeInv' /\ HolderInv'
    BY <1>14, SMTT(60) DEF ResignLock, LockFree
  <2>2. WriteInv' /\ RenamedInv' /\ SeenInv' /\ ResignInv'
    BY <1>14, SMTT(60) DEF ResignLock, LockFree
  <2> QED
    BY <1>0, <2>1, <2>2, Zenon DEF IInv
<1>15. ASSUME NEW n \in Node, NEW c \in Candidacy, ResignRename(n, c)
      PROVE  IInv'
  <2>1. LockInv' /\ DownInv' /\ TimeInv' /\ HolderInv'
    BY <1>15, SMTT(90) DEF ResignRename, Replace, Written
  <2>2. WriteInv' /\ RenamedInv' /\ SeenInv' /\ ResignInv'
    BY <1>15, SMTT(90) DEF ResignRename, Replace, Written
  <2> QED
    BY <1>0, <2>1, <2>2, Zenon DEF IInv
<1>16. ASSUME NEW n \in Node, ResignDone(n) PROVE IInv'
  <2>1. LockInv' /\ DownInv' /\ TimeInv' /\ HolderInv'
    BY <1>16, SMTT(90) DEF ResignDone
  <2>2. WriteInv' /\ RenamedInv' /\ SeenInv' /\ ResignInv'
    BY <1>16, SMTT(60) DEF ResignDone
  <2> QED
    BY <1>0, <2>1, <2>2, Zenon DEF IInv
<1>17. ASSUME NEW n \in Node, ResignFail(n) PROVE IInv'
  <2>1. LockInv' /\ DownInv' /\ TimeInv' /\ HolderInv'
    BY <1>17, SMTT(60) DEF ResignFail
  <2>2. WriteInv' /\ RenamedInv' /\ SeenInv' /\ ResignInv'
    BY <1>17, SMTT(60) DEF ResignFail
  <2> QED
    BY <1>0, <2>1, <2>2, Zenon DEF IInv
<1>18. CASE UNCHANGED leaseVars
  BY <1>0, <1>18, ZenonT(60) DEF leaseVars
<1> QED
  BY ZenonT(60), <1>1, <1>2, <1>3, <1>4, <1>5, <1>6, <1>7, <1>8, <1>9,
     <1>10, <1>11, <1>12, <1>13, <1>14, <1>15, <1>16, <1>17, <1>18
     DEF Next, TickStep, ResignStep

\* The inductive invariant holds in every state of every behaviour.
LEMMA Invariance ==
  ASSUME ResignWithinTTL
  PROVE  Spec => []IInv
<1>1. Init => IInv
  <2> SUFFICES ASSUME Init PROVE IInv
    BY Zenon
  <2>1. TypeOK
    BY InitType, Zenon
  <2>2. \A n \in Node : ~active[n] /\ tick[n] = "idle" /\ resign[n] = "idle"
    BY ZenonT(60) DEF Init, StateInit
  <2>3. \A n \in Node : lastOK[n] <= now /\ start[n] <= now
    <3>1. now = 0 /\ \A n \in Node : lastOK[n] = 0 /\ start[n] = 0
      BY ZenonT(60) DEF Init, StateInit
    <3> QED
      BY <3>1
  <2>4. file.kind # "lease"
    <3>1. PICK k \in {"none", "garbage"} :
            file = [kind |-> k, node |-> CHOOSE n \in Node : TRUE, start |-> 0,
                    released |-> FALSE, hold |-> 0, ttl |-> 0]
      BY ZenonT(60) DEF Init, StateInit
    <3> QED
      BY <3>1, Zenon
  <2>5. LockInv
    BY <2>2, Zenon DEF LockInv, Holding, Writing, Releasing
  <2>6. DownInv
    BY <2>2, Zenon DEF DownInv
  <2>7. TimeInv
    BY <2>3, <2>4, Zenon DEF TimeInv
  <2>8. HolderInv /\ SeenInv
    BY <2>2, Zenon DEF HolderInv, SeenInv, Active
  <2>9. WriteInv /\ RenamedInv /\ ResignInv
    BY <2>2, Zenon DEF WriteInv, RenamedInv, ResignInv
  <2> QED
    BY <2>1, <2>5, <2>6, <2>7, <2>8, <2>9, Zenon DEF IInv
<1>2. IInv /\ [Next]_leaseVars => IInv'
  BY InvStep, Zenon
<1> QED
  BY <1>1, <1>2, PTL DEF Spec

\* At most one instance is active at any time, for any number of instances,
\* any ttls, any stall of the storage, any crash and restart: Active() turns
\* false in one instance before it can turn true in another.
THEOREM MutualExclusion ==
  ASSUME ResignWithinTTL
  PROVE  Spec => []AtMostOneActive
<1>1. IInv => AtMostOneActive
  BY Zenon DEF IInv, HolderInv, Mine, AtMostOneActive
<1> QED
  BY <1>1, Invariance, PTL

\* Active() turns true in an instance only when it is true in none: the step
\* is the end of a renewal, whose writer holds the record.
LEMMA RoleBegins ==
  ASSUME IInv, [Next]_leaseVars,
         NEW p \in Node, ~Active(p), Active(p)'
  PROVE  \A m \in Node : ~Active(m)
<1> USE DEF IInv, TypeOK, StateType, stateVars, Active
<1>1. CASE Tick
  BY <1>1, HalfTTL DEF Tick
<1>2. ASSUME NEW n \in Node, Start(n)
      PROVE  \A m \in Node : ~Active(m)
  BY <1>2, Zenon DEF Start, StateStart
<1>3. ASSUME NEW n \in Node, Stop(n)
      PROVE  \A m \in Node : ~Active(m)
  BY <1>3, Zenon DEF Stop, StateStop
<1>4. ASSUME NEW n \in Node, Exit(n)
      PROVE  \A m \in Node : ~Active(m)
  BY <1>4, Zenon DEF Exit, StateExit
<1>5. ASSUME NEW n \in Node, NEW c \in Candidacy, TickStart(n, c)
      PROVE  \A m \in Node : ~Active(m)
  BY <1>5, Zenon DEF TickStart
<1>6. ASSUME NEW n \in Node, TickFail(n)
      PROVE  \A m \in Node : ~Active(m)
  BY <1>6, Zenon DEF TickFail
<1>7. ASSUME NEW n \in Node, TickDecide(n)
      PROVE  \A m \in Node : ~Active(m)
  <2>1. active' = active \/ active' = [active EXCEPT ![n] = FALSE]
    BY ZenonT(60), <1>7 DEF TickDecide, SetActive
  <2> QED
    BY <1>7, <2>1, Zenon DEF TickDecide
<1>8. ASSUME NEW n \in Node, TickRename(n)
      PROVE  \A m \in Node : ~Active(m)
  BY <1>8, Zenon DEF TickRename
<1>9. ASSUME NEW n \in Node, TickWriteFail(n)
      PROVE  \A m \in Node : ~Active(m)
  BY <1>9, Zenon DEF TickWriteFail
<1>10. ASSUME NEW n \in Node, TickActivate(n)
      PROVE  \A m \in Node : ~Active(m)
  <2>1. p = n
    BY ZenonT(60), <1>10 DEF TickActivate, SetActive
  <2> QED
    BY <1>10, <2>1, Zenon DEF TickActivate, RenamedInv, HolderInv, Mine
<1>11. ASSUME NEW n \in Node, Watchdog(n)
      PROVE  \A m \in Node : ~Active(m)
  BY <1>11, Zenon DEF Watchdog, StateWatchdog, SetActive
<1>12. ASSUME NEW n \in Node, Notify(n)
      PROVE  \A m \in Node : ~Active(m)
  BY <1>12, Zenon DEF Notify, StateNotify
<1>13. ASSUME NEW n \in Node, ResignStart(n)
      PROVE  \A m \in Node : ~Active(m)
  BY <1>13, Zenon DEF ResignStart, StateResign, SetActive
<1>14. ASSUME NEW n \in Node, ResignLock(n)
      PROVE  \A m \in Node : ~Active(m)
  BY <1>14, Zenon DEF ResignLock
<1>15. ASSUME NEW n \in Node, NEW c \in Candidacy, ResignRename(n, c)
      PROVE  \A m \in Node : ~Active(m)
  BY <1>15, Zenon DEF ResignRename
<1>16. ASSUME NEW n \in Node, ResignDone(n)
      PROVE  \A m \in Node : ~Active(m)
  BY <1>16, Zenon DEF ResignDone
<1>17. ASSUME NEW n \in Node, ResignFail(n)
      PROVE  \A m \in Node : ~Active(m)
  BY <1>17, Zenon DEF ResignFail
<1>18. CASE UNCHANGED leaseVars
  BY <1>18, Zenon DEF leaseVars
<1> QED
  BY ZenonT(60), <1>1, <1>2, <1>3, <1>4, <1>5, <1>6, <1>7, <1>8, <1>9, <1>10, <1>11,
     <1>12, <1>13, <1>14, <1>15, <1>16, <1>17, <1>18
  DEF Next, TickStep, ResignStep

\* The elector implements Leadership: every step changes nobody's role, ends
\* one role or begins one when there is none.
THEOREM Refinement ==
  ASSUME ResignWithinTTL
  PROVE  Spec => OneLeaderAtATime
<1> DEFINE Leaders == {n \in Node : Active(n)}
<1>1. Init => Leaders = {}
  BY Zenon DEF Init, StateInit, Active
<1>2. ASSUME IInv, IInv', [Next]_leaseVars
      PROVE  [Elector!Next]_Leaders
  <2>0. \A m, n \in Node : Active(m) /\ Active(n) => m = n
    BY <1>2, Zenon DEF IInv, HolderInv, Mine
  <2>1. \A m, n \in Node : Active(m)' /\ Active(n)' => m = n
    BY <1>2, Zenon DEF IInv, HolderInv, Mine
  <2>2. CASE \E p \in Node : ~Active(p) /\ Active(p)'
    <3>1. PICK p \in Node : ~Active(p) /\ Active(p)'
      BY <2>2, Zenon
    <3>2. Leaders = {} /\ Leaders' = {p}
      BY <1>2, <2>1, <3>1, RoleBegins, Zenon
    <3> QED
      BY <3>2, Zenon DEF Elector!Next, Elector!TurnActive
  <2>3. CASE \A p \in Node : Active(p)' => Active(p)
    <3>1. CASE Leaders' = Leaders
      BY <3>1, Zenon
    <3>2. CASE Leaders' # Leaders
      <4>1. PICK p \in Node : Active(p) /\ ~Active(p)'
        BY <2>3, <3>2, Zenon
      <4>2. \A q \in Node : Active(q) => q = p
        BY <2>0, <4>1, Zenon
      <4>3. Leaders = {p}
        BY <4>1, <4>2, Zenon
      <4>4. Leaders' = {}
        BY <2>3, <4>1, <4>2, Zenon
      <4> QED
        BY <4>3, <4>4, Zenon DEF Elector!Next, Elector!TurnStandby
    <3> QED
      BY <3>1, <3>2, Zenon
  <2> QED
    BY <2>2, <2>3, Zenon
<1> QED
  BY <1>1, <1>2, Invariance, PTL DEF OneLeaderAtATime, Elector!Spec,
     Elector!Init, Spec
=============================================================================
