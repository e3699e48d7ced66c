----------------------------- MODULE WireProofs -----------------------------
(***************************************************************************)
(* The properties of Wire for every set of prefixes and every cap.         *)
(*                                                                         *)
(* Recedes(o) is what all the ways to withdraw have in common: nothing is  *)
(* added to any table, and only what belongs to o is taken away.           *)
(***************************************************************************)
EXTENDS Wire, FiniteSetTheorems, TLAPS

\* speaker, paths and active keep their types.
WireType ==
  /\ speaker \in [Prefix -> Owner \cup {"none"}]
  /\ paths \in [Owner -> SUBSET Prefix]
  /\ active \in [Owner -> SUBSET Prefix]

Recedes(o) ==
  /\ WireType'
  /\ OnePathPerPrefix => OnePathPerPrefix'
  /\ \A q \in Owner : paths'[q] \subseteq paths[q] /\ active'[q] \subseteq active[q]
  /\ \A q \in Owner : q # o => paths'[q] = paths[q] /\ active'[q] = active[q]

\* Deleting paths of o's own table leaves every other announcer's alone.
LEMMA DeleteFacts ==
  ASSUME WireType, NEW o \in Owner, NEW ps \in SUBSET Prefix, Delete(o, ps)
  PROVE  /\ speaker' \in [Prefix -> Owner \cup {"none"}]
         /\ paths' \in [Owner -> SUBSET Prefix]
         /\ paths'[o] = paths[o] \ ps
         /\ \A q \in Owner : q # o => paths'[q] = paths[q]
         /\ ps \subseteq paths[o] /\ OnePathPerPrefix => OnePathPerPrefix'
<1>1. speaker' \in [Prefix -> Owner \cup {"none"}]
  BY Zenon DEF WireType, Delete
<1>2. /\ paths' \in [Owner -> SUBSET Prefix] /\ paths'[o] = paths[o] \ ps
      /\ \A q \in Owner : q # o => paths'[q] = paths[q]
  BY Zenon DEF WireType, Delete
<1>3. ASSUME ps \subseteq paths[o], OnePathPerPrefix PROVE OnePathPerPrefix'
  <2>1. \A p \in Prefix : speaker'[p] = IF p \in ps THEN "none" ELSE speaker[p]
    BY <1>3, Zenon DEF Delete, OnePathPerPrefix
  <2>2. \A q \in Owner : q # "none"
    BY Zenon DEF Owner
  <2>3. SUFFICES ASSUME NEW p \in Prefix, NEW q \in Owner
                 PROVE  p \in paths'[q] <=> speaker'[p] = q
    BY Zenon DEF OnePathPerPrefix
  <2>4. CASE p \in ps
    BY <1>2, <1>3, <2>1, <2>2, <2>4 DEF OnePathPerPrefix
  <2>5. CASE p \notin ps
    BY <1>2, <1>3, <2>1, <2>5 DEF OnePathPerPrefix
  <2> QED BY <2>4, <2>5, Zenon
<1> QED BY <1>1, <1>2, <1>3, Zenon

\* A path for a prefix that no other announcer has a path for.
LEMMA PublishFacts ==
  ASSUME WireType, NEW o \in Owner, NEW p \in Prefix, Publish(o, p)
  PROVE  /\ speaker' \in [Prefix -> Owner \cup {"none"}]
         /\ paths' \in [Owner -> SUBSET Prefix]
         /\ paths'[o] = paths[o] \cup {p}
         /\ \A q \in Owner : q # o => paths'[q] = paths[q]
         /\ (\A q \in Owner : q # o => p \notin paths[q]) /\ OnePathPerPrefix
              => OnePathPerPrefix'
<1>1. speaker' \in [Prefix -> Owner \cup {"none"}]
  BY Zenon DEF WireType, Publish
<1>2. /\ paths' \in [Owner -> SUBSET Prefix] /\ paths'[o] = paths[o] \cup {p}
      /\ \A q \in Owner : q # o => paths'[q] = paths[q]
  BY Zenon DEF WireType, Publish
<1>3. ASSUME \A q \in Owner : q # o => p \notin paths[q], OnePathPerPrefix
      PROVE  OnePathPerPrefix'
  <2>1. \A r \in Prefix : speaker'[r] = IF r = p THEN o ELSE speaker[r]
    BY Zenon DEF Publish, WireType
  <2> QED BY <1>2, <1>3, <2>1 DEF OnePathPerPrefix
<1> QED BY <1>1, <1>2, <1>3, Zenon

LEMMA WithdrawRecedes ==
  ASSUME WireType, NEW o \in Owner, NEW p \in Prefix, Withdraw(o, p)
  PROVE  Recedes(o) /\ (paths[o] \subseteq active[o] => paths'[o] \subseteq active'[o])
<1>1. CASE Delete(o, {p} \cap paths[o]) /\ active' = [active EXCEPT ![o] = @ \ {p}]
  <2>1. {p} \cap paths[o] \in SUBSET Prefix
    BY Zenon
  <2>2. /\ active' \in [Owner -> SUBSET Prefix] /\ active'[o] = active[o] \ {p}
        /\ \A q \in Owner : q # o => active'[q] = active[q]
    BY <1>1, Zenon DEF WireType
  <2> QED BY <1>1, <2>1, <2>2, DeleteFacts DEF Recedes, WireType
<1>2. CASE UNCHANGED <<wire, active>>
  BY <1>2, Zenon DEF Recedes, WireType, wire, OnePathPerPrefix
<1> QED BY <1>1, <1>2, Zenon DEF Withdraw

LEMMA WithdrawAllRecedes ==
  ASSUME WireType, NEW o \in Owner, NEW failed \in SUBSET Prefix, WithdrawAll(o, failed)
  PROVE  /\ Recedes(o)
         /\ paths[o] \subseteq active[o] => paths'[o] \subseteq active'[o]
         /\ failed = {} => active'[o] = {}
<1>1. CASE o # "out" /\ active[o] = {}
  BY <1>1, Zenon DEF Recedes, WireType, wire, OnePathPerPrefix, WithdrawAll
<1>2. CASE ~(o # "out" /\ active[o] = {})
  <2>1. /\ failed \subseteq paths[o] /\ Delete(o, paths[o] \ failed)
        /\ active' = IF failed = {} THEN [active EXCEPT ![o] = {}] ELSE active
    BY <1>2, Zenon DEF WithdrawAll
  <2>2. paths[o] \ failed \in SUBSET Prefix
    BY Zenon DEF WireType
  <2>3. /\ active' \in [Owner -> SUBSET Prefix]
        /\ active'[o] = IF failed = {} THEN {} ELSE active[o]
        /\ \A q \in Owner : q # o => active'[q] = active[q]
    BY <2>1, Zenon DEF WireType
  <2>4. /\ speaker' \in [Prefix -> Owner \cup {"none"}]
        /\ paths' \in [Owner -> SUBSET Prefix]
        /\ paths'[o] = paths[o] \ (paths[o] \ failed)
        /\ \A q \in Owner : q # o => paths'[q] = paths[q]
        /\ OnePathPerPrefix => OnePathPerPrefix'
    BY <2>1, <2>2, DeleteFacts
  <2> QED BY <2>1, <2>3, <2>4, Zenon DEF Recedes, WireType
<1> QED BY <1>1, <1>2, Zenon

-----------------------------------------------------------------------------
(* Types. *)

LEMMA LoopTypes ==
  ASSUME TypeOK
  PROVE  /\ WireType
         /\ loop.todo \subseteq Prefix /\ loop.want \subseteq Prefix /\ loop.call \subseteq Prefix
         /\ loop.drop \subseteq Prefix /\ loop.up \subseteq Prefix /\ loop.gone \subseteq Prefix
         /\ loop.plan \subseteq Prefix /\ watch.p \in Prefix
         /\ \A o \in Owner : IsFiniteSet(active[o]) /\ Cardinality(active[o]) \in Nat
<1>1. \A o \in Owner : active[o] \subseteq Prefix
  BY Zenon DEF TypeOK
<1>2. \A o \in Owner : IsFiniteSet(active[o]) /\ Cardinality(active[o]) \in Nat
  BY <1>1, FS_Subset, FS_CardinalityType, WireAssumption, Zenon
<1> QED BY <1>2, Zenon DEF TypeOK, WireType, LoopType

\* The fields of loop after its updates.
LEMMA AfterCall ==
  ASSUME TypeOK, NEW p, loop' = [loop EXCEPT !.call = {}, !.todo = @ \ {p}]
  PROVE  /\ loop' \in LoopType /\ loop'.at = loop.at /\ loop'.call = {}
         /\ loop'.todo = loop.todo \ {p} /\ loop'.up = loop.up /\ loop'.gone = loop.gone
  BY Zenon DEF TypeOK, LoopType

LEMMA AfterUp ==
  ASSUME TypeOK, NEW p \in Prefix,
         loop' = [loop EXCEPT !.call = {}, !.todo = @ \ {p}, !.up = @ \cup {p}]
  PROVE  /\ loop' \in LoopType /\ loop'.at = loop.at /\ loop'.call = {}
         /\ loop'.up = loop.up \cup {p} /\ loop'.gone = loop.gone
  BY Zenon DEF TypeOK, LoopType

LEMMA AfterDecide ==
  ASSUME TypeOK, NEW p \in Prefix, loop' = [loop EXCEPT !.call = {p}]
  PROVE  /\ loop' \in LoopType /\ loop'.at = loop.at /\ loop'.call = {p}
         /\ loop'.todo = loop.todo /\ loop'.up = loop.up /\ loop'.gone = loop.gone
  BY Zenon DEF TypeOK, LoopType

\* A withdraw of mitigation's Sync that succeeds, or fails.
LEMMA AfterWithdraw ==
  ASSUME TypeOK, NEW p \in Prefix, MitWithdraw(p)
  PROVE  /\ loop.at = "ops" /\ UNCHANGED <<active, onWire>>
         /\ loop' \in LoopType /\ loop'.at = "ops" /\ loop'.call = loop.call /\ loop'.up = loop.up
         /\ \/ UNCHANGED wire /\ loop'.gone = loop.gone
            \/ Delete("mit", {p} \cap paths["mit"]) /\ loop'.gone = loop.gone \cup {p}
<1>1. loop.at = "ops" /\ UNCHANGED <<active, onWire>>
  BY Zenon DEF MitWithdraw
<1>2. CASE /\ Delete("mit", {p} \cap paths["mit"])
           /\ loop' = [loop EXCEPT !.drop = @ \ {p}, !.gone = @ \cup {p}]
  <2>1. /\ loop' \in LoopType /\ loop'.at = loop.at /\ loop'.call = loop.call /\ loop'.up = loop.up
        /\ loop'.gone = loop.gone \cup {p}
    BY <1>2, Zenon DEF TypeOK, LoopType
  <2> QED BY <1>1, <1>2, <2>1, Zenon
<1>3. CASE UNCHANGED wire /\ loop' = [loop EXCEPT !.drop = @ \ {p}]
  <2>1. /\ loop' \in LoopType /\ loop'.at = loop.at /\ loop'.call = loop.call /\ loop'.up = loop.up
        /\ loop'.gone = loop.gone
    BY <1>3, Zenon DEF TypeOK, LoopType
  <2> QED BY <1>1, <1>3, <2>1, Zenon
<1> QED BY <1>2, <1>3, Zenon DEF MitWithdraw

\* The end of mitigation's Sync.
LEMMA AfterCommit ==
  ASSUME TypeOK, MitCommit
  PROVE  /\ loop.at = "ops" /\ UNCHANGED wire /\ Store("mit")
         /\ active'["mit"] = (active["mit"] \ loop.gone) \cup loop.up
         /\ \A q \in Owner : q # "mit" => active'[q] = active[q]
         /\ active' \in [Owner -> SUBSET Prefix]
         /\ loop' \in LoopType /\ loop'.at = "out" /\ loop'.call = {} /\ loop'.up = {}
         /\ loop'.gone = {}
<1>1. /\ loop.at = "ops" /\ UNCHANGED wire /\ Store("mit") /\ loop' = At("out")
      /\ active' = [active EXCEPT !["mit"] = (@ \ loop.gone) \cup loop.up]
  BY Zenon DEF MitCommit
<1>2. loop.up \subseteq Prefix /\ active \in [Owner -> SUBSET Prefix] /\ "mit" \in Owner
  BY LoopTypes, Zenon DEF TypeOK, Owner
<1>3. /\ loop' \in LoopType /\ loop'.at = "out" /\ loop'.call = {} /\ loop'.up = {}
      /\ loop'.gone = {}
  BY <1>1, Zenon DEF At, LoopType
<1> QED BY <1>1, <1>2, <1>3, Zenon

\* The count that ends an operation is a number.
LEMMA StoreType ==
  ASSUME TypeOK, WireType', NEW o \in Owner, Store(o)
  PROVE  /\ onWire' \in [Owner -> Nat] /\ onWire'[o] = Cardinality(active'[o])
         /\ \A q \in Owner : q # o => onWire'[q] = onWire[q]
<1>1. active'[o] \subseteq Prefix
  BY Zenon DEF WireType
<1>2. Cardinality(active'[o]) \in Nat
  BY <1>1, FS_Subset, FS_CardinalityType, WireAssumption, Zenon
<1> QED BY <1>2, Zenon DEF Store, TypeOK

\* What the steps that only take routes away, or none, have in common.
RecedingStep(o) ==
  \/ /\ o = "out"
     /\ \/ OutGate \/ SetRouters \/ WithdrawPrefix
        \/ \E p \in Prefix : Leave(p) \/ ImproveRefuse(p)
  \/ o = "in" /\ (InGate \/ \E p \in Prefix : SteerRefuse(p))
  \/ o = "mit" /\ MitGate
  \/ WithdrawRoutes(o) \/ LeaveInject(o)

LEMMA Still ==
  ASSUME WireType, UNCHANGED <<wire, active>>, NEW o \in Owner
  PROVE  Recedes(o) /\ (paths[o] \subseteq active[o] => paths'[o] \subseteq active'[o])
  BY Zenon DEF Recedes, WireType, wire, OnePathPerPrefix

LEMMA RecedingRoutes ==
  ASSUME TypeOK, NEW o \in Owner, RecedingStep(o)
  PROVE  /\ Recedes(o)
         /\ \/ SetRouters /\ SwapMayFail
            \/ paths[o] \subseteq active[o] => paths'[o] \subseteq active'[o]
<1> WireType
  BY LoopTypes, Zenon
<1>1. CASE o = "out" /\ (OutGate \/ \E p \in Prefix : Leave(p) \/ ImproveRefuse(p))
  BY <1>1, Still, WithdrawRecedes, WithdrawAllRecedes, Zenon DEF OutGate, Leave, ImproveRefuse
<1>2. CASE o = "out" /\ SetRouters
  <2>1. PICK rest \in SUBSET paths["out"] :
          (rest # {} => SwapMayFail) /\ Delete("out", paths["out"] \ rest)
    BY <1>2, Zenon DEF SetRouters
  <2>2. paths["out"] \ rest \in SUBSET Prefix /\ paths["out"] \ rest \subseteq paths["out"]
    BY <1>2, Zenon DEF WireType
  <2>3. /\ active' \in [Owner -> SUBSET Prefix] /\ active'["out"] = {}
        /\ \A q \in Owner : q # o => active'[q] = active[q]
    BY <1>2, Zenon DEF SetRouters, WireType
  <2>4. /\ speaker' \in [Prefix -> Owner \cup {"none"}]
        /\ paths' \in [Owner -> SUBSET Prefix]
        /\ paths'["out"] = paths["out"] \ (paths["out"] \ rest)
        /\ \A q \in Owner : q # "out" => paths'[q] = paths[q]
        /\ OnePathPerPrefix => OnePathPerPrefix'
    BY <1>2, <2>1, <2>2, DeleteFacts
  <2>5. Recedes(o)
    BY <1>2, <2>3, <2>4, Zenon DEF Recedes, WireType
  <2> QED BY <1>2, <2>1, <2>4, <2>5, Zenon
<1>3. CASE o = "out" /\ WithdrawPrefix
  <2>1. watch.p \in Prefix
    BY LoopTypes, Zenon
  <2> QED BY <1>3, <2>1, Still, WithdrawRecedes, Zenon DEF WithdrawPrefix
<1>4. CASE o = "in" /\ (InGate \/ \E p \in Prefix : SteerRefuse(p))
  BY <1>4, Still, WithdrawRecedes, WithdrawAllRecedes, Zenon DEF InGate, SteerRefuse
<1>5. CASE o = "mit" /\ MitGate
  BY <1>5, Still, WithdrawAllRecedes, Zenon DEF MitGate
<1>6. CASE WithdrawRoutes(o) \/ LeaveInject(o)
  BY <1>6, WithdrawAllRecedes, Zenon DEF WithdrawRoutes, LeaveInject
<1> QED BY <1>1, <1>2, <1>3, <1>4, <1>5, <1>6, Zenon DEF RecedingStep

\* A Sync that is announcing is not disturbed: the lock of the controller that
\* recedes is free, or it is that Sync itself, between two announcements.
LoopCalm(o) ==
  /\ loop' \in LoopType
  /\ loop'.call = {} \/ (loop' = loop /\ Free(o))
  /\ loop'.up = loop.up /\ loop'.gone = loop.gone
  /\ \A q \in Owner : Free(q)' <=> Free(q)
  /\ loop'.at = "steer" => loop.at = "steer" /\ loop'.todo \subseteq loop.todo

LEMMA RecedingLoop ==
  ASSUME TypeOK, LoopInv, NEW o \in Owner, RecedingStep(o)
  PROVE  LoopCalm(o)
<1> USE DEF LoopCalm, LoopType, Owner, Free, At
<1> loop \in LoopType
  BY Zenon DEF TypeOK
<1>1. CASE o = "out" /\ (OutGate \/ \E p \in Prefix : Leave(p))
  BY <1>1 DEF OutGate, Leave, LoopInv
<1>2. CASE o = "out" /\ \E p \in Prefix : ImproveRefuse(p)
  BY <1>2 DEF ImproveRefuse, Visit, Visited
<1>3. CASE o = "out" /\ (SetRouters \/ WithdrawPrefix)
  BY <1>3, Zenon DEF SetRouters, WithdrawPrefix
<1>4. CASE o = "in" /\ InGate
  BY <1>4, Zenon DEF InGate, LoopInv
<1>5. CASE o = "in" /\ \E p \in Prefix : SteerRefuse(p)
  BY <1>5 DEF SteerRefuse, Visit, Visited
<1>6. CASE o = "mit" /\ MitGate
  BY <1>6, Zenon DEF MitGate, LoopInv
<1>7. CASE WithdrawRoutes(o) \/ LeaveInject(o)
  BY <1>7, Zenon DEF WithdrawRoutes, LeaveInject
<1> QED BY <1>1, <1>2, <1>3, <1>4, <1>5, <1>6, <1>7, Zenon DEF RecedingStep

\* The published count of o changes with its slots, and is right when o's lock
\* is free.
LEMMA RecedingCount ==
  ASSUME TypeOK, NEW o \in Owner, RecedingStep(o)
  PROVE  /\ onWire' \in [Owner -> Nat]
         /\ \A q \in Owner : q # o => onWire'[q] = onWire[q]
         /\ Free(o) => onWire'[o] = Cardinality(active'[o])
<1>1. WireType'
  BY RecedingRoutes, Zenon DEF Recedes
<1>2. CASE Store(o)
  BY <1>1, <1>2, StoreType, Zenon
<1>3. CASE UNCHANGED onWire /\ ~Free(o)
  BY <1>3, Zenon DEF TypeOK
<1>4. Store(o) \/ (UNCHANGED onWire /\ ~Free(o))
  BY Zenon DEF RecedingStep, OutGate, SetRouters, WithdrawPrefix, Leave, ImproveRefuse, InGate,
         SteerRefuse, MitGate, WithdrawRoutes, LeaveInject, Visit, Free
<1> QED BY <1>2, <1>3, <1>4, Zenon

\* The steps that leave the routes and the slots as they are.
StillStep ==
  \/ \E want \in SUBSET Prefix : OutStart(want)
  \/ LeaveDone \/ ImproveDone \/ InStart \/ SteerDone \/ MitPlan
  \/ Dismiss \/ Hold \/ Recheck
  \/ \E p \in Prefix : \/ ImproveKeep(p) \/ SteerKeep(p) \/ Sighting(p)
                       \/ AddRule(p) \/ RemoveRule(p) \/ Clear(p)
  \/ \E o \in Owner : EnterInject(o)

\* The loop starts and ends announcing with nothing decided, and a Sync that
\* starts is one of a controller in inject.
LEMMA StillLoop ==
  ASSUME TypeOK, LoopInv, StillStep
  PROVE  /\ UNCHANGED <<wire, active>>
         /\ loop' \in LoopType /\ LoopInv'
         /\ loop'.call = {} \/ loop' = loop
         /\ loop'.up = loop.up /\ loop'.gone = loop.gone
         /\ \A q \in Owner : Pending(q)' \subseteq Pending(q)
         /\ \A q \in Owner : ~inject'[q] => ~inject[q] /\ (Free(q) => Free(q)')
<1> loop \in LoopType /\ Inbound \subseteq Prefix
  BY WireAssumption, Zenon DEF TypeOK
<1>1. CASE \E want \in SUBSET Prefix : OutStart(want)
  <2>1. PICK want \in SUBSET Prefix : OutStart(want)
    BY <1>1, Zenon
  <2>2. active["out"] \ want \in SUBSET Prefix
    BY Zenon DEF TypeOK, Owner
  <2> QED BY <2>1, <2>2, Zenon DEF OutStart, LoopType, LoopInv, At, Free, Pending, Owner
<1>2. CASE LeaveDone
  BY <1>2, Zenon DEF LeaveDone, LoopType, LoopInv, Free, Pending, Owner
<1>3. CASE ImproveDone \/ SteerDone
  BY <1>3, SMTT(30) DEF ImproveDone, SteerDone, LoopType, LoopInv, At, Free, Pending, Owner
<1>4. CASE InStart
  BY <1>4, Zenon DEF InStart, LoopType, LoopInv, At, Free, Pending, Owner
<1>5. CASE MitPlan
  <2>1. PICK kept \in SUBSET rules :
          /\ rules' = kept
          /\ \E left \in SUBSET (kept \cap active["mit"]),
                changed \in SUBSET (kept \cap active["mit"]),
                learned \in SUBSET (kept \ active["mit"]) :
               /\ left \cap changed = {}
               /\ loop' = [At("ops") EXCEPT
                    !.drop = (active["mit"] \ kept) \cup left,
                    !.todo = changed \cup learned, !.plan = changed \cup learned]
               /\ inflight' = inflight \cup changed \cup learned
    BY <1>5, Zenon DEF MitPlan
  <2>2. PICK d \in SUBSET Prefix, t \in SUBSET Prefix :
          loop' = [At("ops") EXCEPT !.drop = d, !.todo = t, !.plan = t]
    <3>1. rules \subseteq Prefix /\ active["mit"] \subseteq Prefix
      BY Zenon DEF TypeOK, Owner
    <3>2. PICK left \in SUBSET (kept \cap active["mit"]),
               changed \in SUBSET (kept \cap active["mit"]),
               learned \in SUBSET (kept \ active["mit"]) :
            loop' = [At("ops") EXCEPT
                 !.drop = (active["mit"] \ kept) \cup left,
                 !.todo = changed \cup learned, !.plan = changed \cup learned]
      BY <2>1, Zenon
    <3>3. (active["mit"] \ kept) \cup left \in SUBSET Prefix /\ changed \cup learned \in SUBSET Prefix
      BY <3>1, <3>2, Zenon
    <3> QED BY <3>2, <3>3, Zenon
  <2>3. /\ loop' = [at |-> "ops", todo |-> t, want |-> {}, call |-> {}, drop |-> d,
                    up |-> {}, gone |-> {}, plan |-> t]
        /\ loop.at = "mit" /\ inject["mit"] /\ UNCHANGED <<wire, active, inject>>
    BY <1>5, <2>2, Zenon DEF MitPlan, At
  <2> QED BY <2>3, Zenon DEF LoopType, LoopInv, Free, Pending, Owner
<1>6. CASE \E p \in Prefix : ImproveKeep(p) \/ SteerKeep(p)
  BY <1>6 DEF ImproveKeep, SteerKeep, Visit, Visited, LoopType, LoopInv, Free, Pending, Owner
<1>7. CASE \/ Dismiss \/ Hold \/ Recheck
           \/ \E p \in Prefix : Sighting(p) \/ AddRule(p) \/ RemoveRule(p) \/ Clear(p)
  BY <1>7, Zenon DEF Dismiss, Hold, Recheck, Sighting, AddRule, RemoveRule, Clear, LoopInv, Free, Pending
<1>8. CASE \E o \in Owner : EnterInject(o)
  BY <1>8, Zenon DEF EnterInject, LoopInv, Free, Pending, TypeOK
<1> QED BY <1>1, <1>2, <1>3, <1>4, <1>5, <1>6, <1>7, <1>8, Zenon DEF StillStep

LEMMA StillCount ==
  ASSUME TypeOK, StillStep
  PROVE  /\ onWire' \in [Owner -> Nat]
         /\ \A q \in Owner : Free(q)' =>
              \/ Free(q) /\ onWire'[q] = onWire[q]
              \/ onWire'[q] = Cardinality(active'[q])
<1>1. UNCHANGED active /\ WireType'
  BY LoopTypes, Zenon DEF StillStep, OutStart, LeaveDone, ImproveDone, InStart, SteerDone, MitPlan, Dismiss,
     Hold, Recheck, ImproveKeep, SteerKeep, Sighting, AddRule, RemoveRule, Clear, EnterInject,
     WireType, wire
<1>2. CASE ImproveDone
  <2>1. \A q \in Owner : q # "out" => Free(q)
    BY <1>2, Zenon DEF ImproveDone, Free, Owner
  <2>2. "out" \in Owner /\ Store("out")
    BY <1>2, Zenon DEF ImproveDone, Owner
  <2> QED BY <1>1, <2>1, <2>2, StoreType, Zenon
<1>3. CASE SteerDone
  <2>1. \A q \in Owner : q # "in" => Free(q)
    BY <1>3, Zenon DEF SteerDone, Free, Owner
  <2>2. "in" \in Owner /\ Store("in")
    BY <1>3, Zenon DEF SteerDone, Owner
  <2> QED BY <1>1, <2>1, <2>2, StoreType, Zenon
<1>4. CASE ~ImproveDone /\ ~SteerDone
  <2>1. UNCHANGED onWire
    BY <1>4, Zenon DEF StillStep, OutStart, LeaveDone, InStart, MitPlan, Dismiss, Hold, Recheck,
       ImproveKeep, SteerKeep, Sighting, AddRule, RemoveRule, Clear, EnterInject
  <2>2. \A q \in Owner : Free(q)' => Free(q)
    BY <1>4, Zenon DEF StillStep, OutStart, LeaveDone, InStart, MitPlan, Dismiss, Hold, Recheck,
       ImproveKeep, SteerKeep, Sighting, AddRule, RemoveRule, Clear, EnterInject, Visit, Visited,
       At, Free, Owner, TypeOK, LoopType
  <2> QED BY <2>1, <2>2, Zenon DEF TypeOK
<1> QED BY <1>2, <1>3, <1>4, Zenon

\* The steps that decide on an announcement, make it or count it.
AnnouncingStep ==
  \/ Announce("improve", "out") \/ Announce("steer", "in") \/ MitAnnounce \/ MitCommit
  \/ \E p \in Prefix : ImproveDecide(p) \/ SteerDecide(p) \/ MitWithdraw(p) \/ MitCheck(p)

LEMMA NextKinds ==
  ASSUME Next
  PROVE  StillStep \/ AnnouncingStep \/ \E o \in Owner : RecedingStep(o)
<1>1. "out" \in Owner /\ "in" \in Owner /\ "mit" \in Owner
  BY Zenon DEF Owner
<1>2. CASE OutboundSync
  BY <1>1, <1>2, Zenon DEF OutboundSync, StillStep, AnnouncingStep, RecedingStep
<1>3. CASE InboundSync
  BY <1>1, <1>3, Zenon DEF InboundSync, StillStep, AnnouncingStep, RecedingStep
<1>4. CASE MitigationSync
  BY <1>1, <1>4, Zenon DEF MitigationSync, StillStep, AnnouncingStep, RecedingStep
<1>5. CASE LeakWatch
  BY <1>1, <1>5, Zenon DEF LeakWatch, StillStep, RecedingStep
<1>6. CASE Operator
  BY <1>1, <1>6, Zenon DEF Operator, StillStep, RecedingStep
<1> QED BY <1>2, <1>3, <1>4, <1>5, <1>6, Zenon DEF Next

LEMMA StillTypes ==
  ASSUME TypeOK, LoopInv, StillStep
  PROVE  TypeOK' /\ LoopInv'
<1>1. /\ loop' \in LoopType /\ LoopInv' /\ onWire' \in [Owner -> Nat]
      /\ speaker' = speaker /\ paths' = paths /\ active' = active
  BY StillLoop, StillCount, Zenon DEF wire
<1>2. inject' \in [Owner -> BOOLEAN]
  BY Zenon DEF TypeOK, StillStep, OutStart, LeaveDone, ImproveDone, InStart, SteerDone, MitPlan, Dismiss,
     Hold, Recheck, ImproveKeep, SteerKeep, Sighting, AddRule, RemoveRule, Clear, EnterInject
<1>3. rules' \subseteq Prefix /\ inflight' \subseteq Prefix
  <2>1. CASE MitPlan
    <3>1. \E k \in SUBSET rules : rules' = k
      BY <2>1, Zenon DEF MitPlan
    <3>2. inflight' \subseteq inflight \cup rules
      BY <2>1, Zenon DEF MitPlan
    <3> QED BY <3>1, <3>2, Zenon DEF TypeOK
  <2>2. CASE ~MitPlan
    BY <2>2, Zenon DEF TypeOK, StillStep, OutStart, LeaveDone, ImproveDone, InStart, SteerDone, Dismiss,
       Hold, Recheck, ImproveKeep, SteerKeep, Sighting, AddRule, RemoveRule, Clear, EnterInject
  <2> QED BY <2>1, <2>2, Zenon
<1>4. /\ held' \in [Prefix -> {"no", "held", "withdrawn", "withdraw_failed"}]
      /\ watch' \in [at : {"idle", "seen", "recheck", "withdraw"}, p : Prefix, on : BOOLEAN]
  <2>1. Idle \in [at : {"idle", "seen", "recheck", "withdraw"}, p : Prefix, on : BOOLEAN]
    BY WireAssumption, Zenon DEF Idle
  <2>2. CASE Dismiss \/ Hold \/ Recheck
    BY <2>1, <2>2 DEF TypeOK, Dismiss, Hold, Recheck
  <2>3. CASE \E p \in Prefix : Sighting(p) \/ Clear(p)
    <3>1. ASSUME NEW p \in Prefix, Sighting(p)
          PROVE  watch' \in [at : {"idle", "seen", "recheck", "withdraw"}, p : Prefix, on : BOOLEAN]
      <4> DEFINE on == p \in active["out"]
      <4>1. on \in BOOLEAN /\ watch' = [at |-> "seen", p |-> p, on |-> on]
        BY <3>1 DEF Sighting
      <4> QED BY <4>1, Zenon
    <3> QED BY <2>3, <3>1 DEF TypeOK, Sighting, Clear
  <2>4. CASE UNCHANGED <<held, watch>>
    BY <2>4, Zenon DEF TypeOK
  <2> QED BY <2>2, <2>3, <2>4, Zenon DEF StillStep, OutStart, LeaveDone, ImproveDone, InStart, SteerDone,
     MitPlan, ImproveKeep, SteerKeep, AddRule, RemoveRule, EnterInject
<1> QED BY <1>1, <1>2, <1>3, <1>4, Zenon DEF TypeOK

LEMMA RecedingTypes ==
  ASSUME TypeOK, LoopInv, NEW o \in Owner, RecedingStep(o)
  PROVE  TypeOK' /\ LoopInv'
<1>1. loop' \in LoopType /\ onWire' \in [Owner -> Nat] /\ WireType'
  BY RecedingLoop, RecedingCount, RecedingRoutes, Zenon DEF Recedes, LoopCalm
<1>2. LoopInv'
  <2>1. LoopCalm(o)
    BY RecedingLoop, Zenon
  <2>2. loop'.at = "ops" <=> loop.at = "ops"
    BY <2>1, Zenon DEF LoopCalm, Free, Owner
  <2> QED BY <2>1, <2>2, Zenon DEF LoopCalm, LoopInv
<1>3. inject' \in [Owner -> BOOLEAN] /\ rules' \subseteq Prefix /\ inflight' \subseteq Prefix
  BY Zenon DEF TypeOK, RecedingStep, OutGate, SetRouters, WithdrawPrefix, Leave, ImproveRefuse, InGate,
     SteerRefuse, MitGate, WithdrawRoutes, LeaveInject
<1>4. /\ held' \in [Prefix -> {"no", "held", "withdrawn", "withdraw_failed"}]
      /\ watch' \in [at : {"idle", "seen", "recheck", "withdraw"}, p : Prefix, on : BOOLEAN]
  <2>1. Idle \in [at : {"idle", "seen", "recheck", "withdraw"}, p : Prefix, on : BOOLEAN]
    BY WireAssumption, Zenon DEF Idle
  <2> QED BY <2>1, Zenon DEF TypeOK, RecedingStep, OutGate, SetRouters, WithdrawPrefix, Leave, ImproveRefuse,
     InGate, SteerRefuse, MitGate, WithdrawRoutes, LeaveInject, Noted
<1> QED BY <1>1, <1>2, <1>3, <1>4, Zenon DEF TypeOK, WireType

\* Either Sync's announcement: the path and the slot, or neither; a failed
\* move of outbound can lose the path.
LEMMA AnnounceFacts ==
  ASSUME TypeOK, NEW o \in {"out", "in"}, NEW stage, Announce(stage, o)
  PROVE  /\ WireType' /\ loop.at = stage /\ UNCHANGED <<onWire, inject, held, watch>>
         /\ \E p \in loop.call :
              /\ loop' = [loop EXCEPT !.call = {}, !.todo = @ \ {p}]
              /\ \/ /\ Publish(o, p) /\ active'[o] = active[o] \cup {p}
                    /\ \A q \in Owner : q # o => active'[q] = active[q]
                 \/ Recedes(o) /\ active' = active /\ paths'[o] \subseteq paths[o]
<1> WireType /\ o \in Owner
  BY LoopTypes, Zenon DEF Owner
<1>1. PICK p \in loop.call :
        /\ \/ Publish(o, p) /\ active' = [active EXCEPT ![o] = @ \cup {p}]
           \/ AnnounceFails(o, p) /\ UNCHANGED active
        /\ loop' = [loop EXCEPT !.call = {}, !.todo = @ \ {p}]
  BY Zenon DEF Announce
<1>2. p \in Prefix
  BY LoopTypes, Zenon
<1>3. CASE Publish(o, p) /\ active' = [active EXCEPT ![o] = @ \cup {p}]
  <2>1. /\ active' \in [Owner -> SUBSET Prefix] /\ active'[o] = active[o] \cup {p}
        /\ \A q \in Owner : q # o => active'[q] = active[q]
    BY <1>2, <1>3, Zenon DEF WireType
  <2>2. WireType'
    BY <1>2, <1>3, <2>1, PublishFacts, Zenon DEF WireType
  <2> QED BY <1>1, <1>3, <2>1, <2>2, Zenon DEF Announce
<1>4. CASE AnnounceFails(o, p) /\ UNCHANGED active
  <2>1. Recedes(o)
    <3>1. CASE UNCHANGED wire
      BY <1>4, <3>1, Still, Zenon
    <3>2. CASE p \in paths[o] /\ Delete(o, {p})
      <4>1. {p} \in SUBSET Prefix /\ {p} \subseteq paths[o]
        BY <1>2, <3>2, Zenon
      <4> QED BY <1>4, <3>2, <4>1, DeleteFacts, Zenon DEF Recedes, WireType
    <3> QED BY <1>4, <3>1, <3>2, Zenon DEF AnnounceFails
  <2> QED BY <1>1, <1>4, <2>1, Zenon DEF Announce, Recedes
<1> QED BY <1>1, <1>3, <1>4, Zenon

LEMMA MitAnnounceFacts ==
  ASSUME TypeOK, MitAnnounce
  PROVE  /\ WireType' /\ loop.at = "ops" /\ UNCHANGED <<active, onWire, inject, held, watch>>
         /\ \E p \in loop.call :
              \/ /\ Publish("mit", p)
                 /\ loop' = [loop EXCEPT !.call = {}, !.todo = @ \ {p}, !.up = @ \cup {p}]
              \/ /\ UNCHANGED wire
                 /\ loop' = [loop EXCEPT !.call = {}, !.todo = @ \ {p}]
<1> WireType /\ "mit" \in Owner
  BY LoopTypes, Zenon DEF Owner
<1>1. PICK p \in loop.call :
              \/ /\ Publish("mit", p)
                 /\ loop' = [loop EXCEPT !.call = {}, !.todo = @ \ {p}, !.up = @ \cup {p}]
              \/ /\ UNCHANGED wire
                 /\ loop' = [loop EXCEPT !.call = {}, !.todo = @ \ {p}]
  BY Zenon DEF MitAnnounce, AnnounceFails
<1>2. p \in Prefix
  BY LoopTypes, Zenon
<1>3. CASE Publish("mit", p)
  BY <1>1, <1>2, <1>3, PublishFacts, Zenon DEF MitAnnounce, WireType
<1>4. CASE UNCHANGED wire
  BY <1>1, <1>4, Zenon DEF MitAnnounce, WireType, wire
<1> QED BY <1>1, <1>3, <1>4, Zenon

LEMMA AnnouncingTypes ==
  ASSUME TypeOK, LoopInv, AnnouncingStep
  PROVE  TypeOK' /\ LoopInv'
<1> loop \in LoopType /\ WireType
  BY LoopTypes, Zenon DEF TypeOK
<1>0. UNCHANGED inject /\ UNCHANGED rules /\ UNCHANGED held /\ UNCHANGED watch
  BY Zenon DEF AnnouncingStep, Announce, MitAnnounce, MitCommit, ImproveDecide, SteerDecide, MitWithdraw,
     MitCheck
<1>1. inflight' \subseteq Prefix
  BY Zenon DEF TypeOK, AnnouncingStep, Announce, MitAnnounce, MitCommit, ImproveDecide, SteerDecide,
     MitWithdraw, MitCheck
<1>2. CASE Announce("improve", "out") \/ Announce("steer", "in")
  <2>1. /\ WireType' /\ loop.at \in {"improve", "steer"} /\ UNCHANGED onWire
        /\ \E p \in loop.call : loop' = [loop EXCEPT !.call = {}, !.todo = @ \ {p}]
    BY <1>2, AnnounceFacts, Zenon
  <2>2. PICK p \in loop.call : loop' = [loop EXCEPT !.call = {}, !.todo = @ \ {p}]
    BY <2>1, Zenon
  <2>3. /\ loop' \in LoopType /\ loop'.at = loop.at /\ loop'.call = {}
        /\ loop'.todo = loop.todo \ {p} /\ loop'.up = loop.up /\ loop'.gone = loop.gone
    BY <2>2, AfterCall, Zenon
  <2>5. LoopInv'
    BY <2>1, <2>3, Zenon DEF LoopInv
  <2> QED BY <1>0, <1>1, <2>1, <2>3, <2>5, Zenon DEF TypeOK, WireType
<1>3. CASE MitAnnounce
  <2>1. /\ WireType' /\ loop.at = "ops" /\ UNCHANGED onWire
        /\ \E p \in loop.call :
             \/ loop' = [loop EXCEPT !.call = {}, !.todo = @ \ {p}, !.up = @ \cup {p}]
             \/ loop' = [loop EXCEPT !.call = {}, !.todo = @ \ {p}]
    BY <1>3, MitAnnounceFacts, Zenon
  <2>2. loop' \in LoopType /\ loop'.at = "ops"
    BY <2>1, AfterCall, AfterUp, LoopTypes, Zenon
  <2>3. LoopInv'
    BY <2>2, Zenon DEF LoopInv
  <2> QED BY <1>0, <1>1, <2>1, <2>2, <2>3, Zenon DEF TypeOK, WireType
<1>4. CASE MitCommit
  <2>1. "mit" \in Owner /\ WireType' /\ Store("mit")
    BY <1>4, AfterCommit, Zenon DEF WireType, wire, Owner
  <2>2. loop' \in LoopType /\ LoopInv'
    BY <1>4, AfterCommit, Zenon DEF LoopInv
  <2> QED BY <1>0, <1>1, <2>1, <2>2, StoreType, Zenon DEF TypeOK, WireType
<1>5. CASE \E p \in Prefix : ImproveDecide(p) \/ SteerDecide(p) \/ MitCheck(p)
  <2>1. UNCHANGED wire /\ UNCHANGED active /\ UNCHANGED onWire
    BY <1>5, Zenon DEF ImproveDecide, SteerDecide, MitCheck
  <2>2. loop' \in LoopType /\ LoopInv'
    BY <1>5 DEF ImproveDecide, SteerDecide, MitCheck, Visit, Visited, LoopType, LoopInv
  <2> QED BY <1>0, <1>1, <2>1, <2>2, Zenon DEF TypeOK, WireType, wire
<1>6. CASE \E p \in Prefix : MitWithdraw(p)
  <2>1. PICK p \in Prefix : MitWithdraw(p)
    BY <1>6, Zenon
  <2>2. "mit" \in Owner /\ {p} \cap paths["mit"] \in SUBSET Prefix
    BY Zenon DEF Owner
  <2>3. WireType' /\ UNCHANGED onWire
    BY <2>1, <2>2, AfterWithdraw, DeleteFacts, Zenon DEF WireType, wire
  <2>4. loop' \in LoopType /\ LoopInv'
    BY <2>1, AfterWithdraw, Zenon DEF LoopInv
  <2> QED BY <1>0, <1>1, <2>3, <2>4, Zenon DEF TypeOK, WireType
<1> QED BY <1>2, <1>3, <1>4, <1>5, <1>6, Zenon DEF AnnouncingStep

\* Types, and the stages in which the loop announces.
THEOREM TypeCorrect == Spec => [](TypeOK /\ LoopInv)
<1>1. Init => TypeOK /\ LoopInv
  <2>1. Idle \in [at : {"idle", "seen", "recheck", "withdraw"}, p : Prefix, on : BOOLEAN]
    BY WireAssumption, Zenon DEF Idle
  <2> QED BY <2>1 DEF Init, TypeOK, LoopInv, LoopType, At, Owner
<1>2. TypeOK /\ LoopInv /\ [Next]_vars => TypeOK' /\ LoopInv'
  <2> SUFFICES ASSUME TypeOK, LoopInv, [Next]_vars PROVE TypeOK' /\ LoopInv'
    BY Zenon
  <2>1. CASE Next
    BY <2>1, NextKinds, StillTypes, RecedingTypes, AnnouncingTypes, Zenon
  <2>2. CASE UNCHANGED vars
    BY <2>2, Zenon DEF vars, TypeOK, LoopInv
  <2> QED BY <2>1, <2>2, Zenon
<1> QED BY <1>1, <1>2, PTL DEF Spec

-----------------------------------------------------------------------------
(* The shared cap. *)

LEMMA FewerSlots ==
  ASSUME TypeOK, NEW o \in Owner, Recedes(o)
  PROVE  \A q \in Owner : /\ Cardinality(active'[q]) \in Nat
                          /\ Cardinality(active'[q]) <= Cardinality(active[q])
<1> SUFFICES ASSUME NEW q \in Owner
             PROVE  /\ Cardinality(active'[q]) \in Nat
                    /\ Cardinality(active'[q]) <= Cardinality(active[q])
  BY Zenon
<1>1. IsFiniteSet(active[q]) /\ active'[q] \in SUBSET active[q]
  BY LoopTypes, Zenon DEF Recedes
<1> QED BY <1>1, FS_Subset, FS_CardinalityType, Zenon

LEMMA StillCap ==
  ASSUME TypeOK, LoopInv, CapInv, StillStep
  PROVE  CapInv'
<1>1. active' = active /\ (loop'.call = {} \/ loop' = loop)
  BY StillLoop, Zenon
<1>2. \A q \in Owner : Free(q)' => onWire'[q] = Cardinality(active'[q])
  BY <1>1, StillCount, Zenon DEF CapInv
<1>3. SharedCap'
  BY <1>1, Zenon DEF CapInv, SharedCap
<1>4. CASE loop'.call = {}
  BY <1>2, <1>3, <1>4, Zenon DEF CapInv
<1>5. CASE loop' = loop
  BY <1>1, <1>2, <1>3, <1>5, Zenon DEF CapInv
<1> QED BY <1>1, <1>4, <1>5, Zenon

LEMMA RecedingCap ==
  ASSUME TypeOK, LoopInv, CapInv, NEW o \in Owner, RecedingStep(o)
  PROVE  CapInv'
<1>1. Recedes(o) /\ LoopCalm(o)
  BY RecedingRoutes, RecedingLoop, Zenon
<1>2. \A q \in Owner : Free(q)' => onWire'[q] = Cardinality(active'[q])
  BY <1>1, RecedingCount, Zenon DEF CapInv, LoopCalm, Recedes
<1>3. \A q \in Owner : /\ Cardinality(active[q]) \in Nat /\ Cardinality(active'[q]) \in Nat
                       /\ Cardinality(active'[q]) <= Cardinality(active[q])
  BY <1>1, FewerSlots, LoopTypes, Zenon
<1>4. "out" \in Owner /\ "in" \in Owner /\ MaxImprovements \in Nat
  BY WireAssumption, Zenon DEF Owner
<1>5. SharedCap'
  BY <1>3, <1>4 DEF CapInv, SharedCap
<1>6. CASE loop'.call = {}
  BY <1>2, <1>5, <1>6, Zenon DEF CapInv
<1>7. CASE loop' = loop /\ Free(o)
  <2>1. /\ loop.at = "improve" => active'["out"] = active["out"]
        /\ loop.at = "steer" => active'["in"] = active["in"]
    BY <1>1, <1>4, <1>7, Zenon DEF Recedes, Free
  <2>2. ASSUME NEW p \in loop'.call,
               \/ loop'.at = "improve" /\ p \notin active'["out"]
               \/ loop'.at = "steer" /\ p \notin active'["in"]
        PROVE  Cardinality(active'["out"]) + Cardinality(active'["in"]) < MaxImprovements
    <3>1. Cardinality(active["out"]) + Cardinality(active["in"]) < MaxImprovements
      BY <1>7, <2>1, <2>2, Zenon DEF CapInv
    <3> QED BY <1>3, <1>4, <3>1
  <2> QED BY <1>2, <1>5, <2>2, Zenon DEF CapInv
<1> QED BY <1>1, <1>6, <1>7, Zenon DEF LoopCalm

\* A slot more is one more at most.
LEMMA OneMoreSlot ==
  ASSUME TypeOK, NEW o \in Owner, NEW p
  PROVE  /\ Cardinality(active[o] \cup {p}) \in Nat
         /\ Cardinality(active[o] \cup {p}) =
              IF p \in active[o] THEN Cardinality(active[o]) ELSE Cardinality(active[o]) + 1
<1>1. IsFiniteSet(active[o]) /\ Cardinality(active[o]) \in Nat
  BY LoopTypes, Zenon
<1>2. Cardinality(active[o] \cup {p}) =
        IF p \in active[o] THEN Cardinality(active[o]) ELSE Cardinality(active[o]) + 1
  BY <1>1, FS_AddElement, Zenon
<1> QED BY <1>1, <1>2

LEMMA AnnouncingCap ==
  ASSUME TypeOK, LoopInv, CapInv, AnnouncingStep
  PROVE  CapInv'
<1>1. "out" \in Owner /\ "in" \in Owner /\ "mit" \in Owner /\ MaxImprovements \in Nat
  BY WireAssumption, Zenon DEF Owner
<1>2. \A q \in Owner : Cardinality(active[q]) \in Nat
  BY LoopTypes, Zenon
<1>3. ASSUME NEW o \in {"out", "in"}, NEW stage,
             stage = IF o = "out" THEN "improve" ELSE "steer", Announce(stage, o)
      PROVE  CapInv'
  <2>1. PICK p \in loop.call :
              /\ loop' = [loop EXCEPT !.call = {}, !.todo = @ \ {p}]
              /\ \/ /\ active'[o] = active[o] \cup {p}
                    /\ \A q \in Owner : q # o => active'[q] = active[q]
                 \/ active' = active
    BY <1>3, AnnounceFacts, Zenon
  <2>2. loop'.at = stage /\ loop.at = stage /\ loop'.call = {} /\ UNCHANGED onWire
    BY <1>3, <2>1, AnnounceFacts, ZenonT(60) DEF TypeOK, LoopType
  <2>3. \A q \in Owner : Free(q)' => Free(q) /\ q # o
    BY <1>3, <2>2, Zenon DEF Free, Owner
  <2>4. \A q \in Owner : Free(q)' => onWire'[q] = Cardinality(active'[q])
    BY <2>1, <2>2, <2>3, Zenon DEF CapInv
  <2>5. SharedCap'
    <3>1. CASE active' = active
      BY <3>1, Zenon DEF CapInv, SharedCap
    <3>2. CASE active' # active
      <4>1. /\ Cardinality(active'[o]) = IF p \in active[o] THEN Cardinality(active[o])
                                         ELSE Cardinality(active[o]) + 1
            /\ \A q \in Owner : q # o => Cardinality(active'[q]) = Cardinality(active[q])
        BY <1>1, <1>3, <2>1, <3>2, OneMoreSlot, Zenon
      <4>2. p \notin active[o] => Cardinality(active["out"]) + Cardinality(active["in"]) < MaxImprovements
        BY <1>3, <2>1, <2>2, Zenon DEF CapInv
      <4> QED BY <1>1, <1>2, <1>3, <4>1, <4>2 DEF CapInv, SharedCap
    <3> QED BY <3>1, <3>2, Zenon
  <2> QED BY <2>2, <2>4, <2>5, Zenon DEF CapInv
<1>4. CASE MitAnnounce \/ \E p \in Prefix : MitWithdraw(p)
  <2>1. UNCHANGED <<active, onWire>>
    BY <1>4, Zenon DEF MitAnnounce, MitWithdraw
  <2>2. loop.at = "ops" /\ loop'.at = "ops"
    BY <1>4, Zenon DEF MitAnnounce, MitWithdraw, TypeOK, LoopType
  <2> QED BY <2>1, <2>2, Zenon DEF CapInv, SharedCap, Free
<1>5. CASE MitCommit
  <2>1. /\ active'["out"] = active["out"] /\ active'["in"] = active["in"]
        /\ loop'.call = {} /\ Store("mit") /\ loop.at = "ops"
    BY <1>1, <1>5, AfterCommit, Zenon
  <2>2. WireType'
    BY <1>5, AnnouncingTypes, Zenon DEF AnnouncingStep, TypeOK, WireType
  <2>3. \A q \in Owner : q # "mit" => onWire'[q] = onWire[q] /\ Free(q) /\ active'[q] = active[q]
    BY <1>1, <2>1, <2>2, StoreType, Zenon DEF Free, Owner
  <2>4. onWire'["mit"] = Cardinality(active'["mit"])
    BY <1>1, <2>1, <2>2, StoreType, Zenon
  <2> QED BY <2>1, <2>3, <2>4, Zenon DEF CapInv, SharedCap
<1>6. CASE \E p \in Prefix : MitCheck(p)
  <2>1. UNCHANGED <<active, onWire>> /\ loop.at = "ops" /\ loop'.at = "ops"
    BY <1>6, Zenon DEF MitCheck, Visit, Visited, TypeOK, LoopType
  <2> QED BY <2>1, Zenon DEF CapInv, SharedCap, Free
<1>7. CASE \E p \in Prefix : ImproveDecide(p)
  <2>1. PICK p \in Prefix : ImproveDecide(p)
    BY <1>7, Zenon
  <2>2. /\ UNCHANGED <<active, onWire>> /\ loop.at = "improve" /\ loop'.at = "improve"
        /\ loop'.call = {p}
        /\ p \in active["out"] \/ Cardinality(active["out"]) + onWire["in"] < MaxImprovements
    BY <2>1, Zenon DEF ImproveDecide, Visit, TypeOK, LoopType
  <2>3. onWire["in"] = Cardinality(active["in"])
    BY <1>1, <2>2, Zenon DEF CapInv, Free
  <2> QED BY <2>2, <2>3, Zenon DEF CapInv, SharedCap, Free
<1>8. CASE \E p \in Prefix : SteerDecide(p)
  <2>1. PICK p \in Prefix : SteerDecide(p)
    BY <1>8, Zenon
  <2>2. /\ UNCHANGED <<active, onWire>> /\ loop.at = "steer" /\ loop'.at = "steer"
        /\ loop'.call = {p}
        /\ p \in active["in"] \/ Cardinality(active["in"]) + onWire["out"] < MaxImprovements
    BY <2>1, Zenon DEF SteerDecide, Visit, TypeOK, LoopType
  <2>3. onWire["out"] = Cardinality(active["out"])
    BY <1>1, <2>2, Zenon DEF CapInv, Free
  <2>4. p \notin active["in"] =>
          Cardinality(active["out"]) + Cardinality(active["in"]) < MaxImprovements
    BY <1>1, <1>2, <2>2, <2>3
  <2> QED BY <2>2, <2>4, Zenon DEF CapInv, SharedCap, Free
<1>9. CASE Announce("improve", "out")
  <2>1. "out" \in {"out", "in"} /\ "improve" = IF "out" = "out" THEN "improve" ELSE "steer"
    BY Zenon
  <2> QED BY <1>3, <1>9, <2>1, Zenon
<1>10. CASE Announce("steer", "in")
  <2>1. "in" \in {"out", "in"} /\ "steer" = IF "in" = "out" THEN "improve" ELSE "steer"
    BY Zenon
  <2> QED BY <1>3, <1>10, <2>1, Zenon
<1> QED BY <1>9, <1>10, <1>4, <1>5, <1>6, <1>7, <1>8, Zenon DEF AnnouncingStep

\* Outbound and inbound stay within max_improvements together, for every cap
\* and every number of prefixes, although each Sync reads a count the other
\* published earlier, and whether or not SetRouters can fail half-way.
THEOREM SharedCapHolds == Spec => []SharedCap
<1>1. Init => CapInv
  <2> SUFFICES ASSUME Init PROVE CapInv
    BY Zenon
  <2>1. \A o \in Owner : onWire[o] = 0 /\ active[o] = {}
    BY Zenon DEF Init
  <2>2. "out" \in Owner /\ "in" \in Owner /\ MaxImprovements \in Nat /\ loop.call = {}
    BY WireAssumption, Zenon DEF Owner, Init, At
  <2>3. \A o \in Owner : Cardinality(active[o]) = 0
    BY <2>1, FS_EmptySet, Zenon
  <2> QED BY <2>1, <2>2, <2>3 DEF CapInv, SharedCap
<1>2. TypeOK /\ LoopInv /\ CapInv /\ [Next]_vars => CapInv'
  <2> SUFFICES ASSUME TypeOK, LoopInv, CapInv, [Next]_vars PROVE CapInv'
    BY Zenon
  <2>1. CASE Next
    BY <2>1, NextKinds, StillCap, RecedingCap, AnnouncingCap, Zenon
  <2>2. CASE UNCHANGED vars
    BY <2>2, Zenon DEF vars, CapInv, SharedCap, Free
  <2> QED BY <2>1, <2>2, Zenon
<1>3. CapInv => SharedCap
  BY Zenon DEF CapInv
<1> QED BY <1>1, <1>2, <1>3, TypeCorrect, PTL DEF Spec

-----------------------------------------------------------------------------
(* Who claims what. *)

\* Only o claims more, and only what the others do not claim.
LEMMA ClaimsStep ==
  ASSUME ClaimInv, NEW o \in Owner, NEW P,
         \A q \in Owner : Claim(q)' \subseteq Claim(q) \cup (IF q = o THEN P ELSE {}),
         \A q \in Owner : q # o => P \cap Claim(q) = {},
         o = "in" => P \subseteq Inbound,
         o = "out" => P \cap Inbound = {},
         \A q \in Owner : ~inject'[q] => Claim(q)' = {} /\ Free(q)'
  PROVE  ClaimInv'
<1> HIDE DEF Claim, Free
<1>0. "out" \in Owner /\ "in" \in Owner
  BY Zenon DEF Owner
<1>1. \A r, q \in Owner : r # q => Claim(r)' \cap Claim(q)' = {}
  BY DEF ClaimInv
<1>2. Claim("in")' \subseteq Inbound /\ Claim("out")' \cap Inbound = {}
  BY <1>0, Zenon DEF ClaimInv
<1> QED BY <1>1, <1>2, Zenon DEF ClaimInv

\* The same when nobody claims more.
LEMMA ClaimsShrink ==
  ASSUME ClaimInv, \A q \in Owner : Claim(q)' \subseteq Claim(q),
         \A q \in Owner : ~inject'[q] => Free(q)' /\ (~inject[q] \/ Claim(q)' = {})
  PROVE  ClaimInv'
<1>0. "out" \in Owner /\ "in" \in Owner
  BY Zenon DEF Owner
<1>1. \A q \in Owner : ~inject'[q] => Claim(q)' = {} /\ Free(q)'
  BY Zenon DEF ClaimInv
<1> HIDE DEF Claim, Free
<1>2. \A r, q \in Owner : r # q => Claim(r)' \cap Claim(q)' = {}
  BY Zenon DEF ClaimInv
<1>3. Claim("in")' \subseteq Inbound /\ Claim("out")' \cap Inbound = {}
  BY <1>0, Zenon DEF ClaimInv
<1> QED BY <1>1, <1>2, <1>3, Zenon DEF ClaimInv

\* The same in a step that leaves the modes and the locks alone.
LEMMA ClaimsKeep ==
  ASSUME ClaimInv, UNCHANGED inject, \A q \in Owner : Free(q) => Free(q)',
         \A q \in Owner : Claim(q)' \subseteq Claim(q)
  PROVE  ClaimInv'
<1> HIDE DEF Claim, Free
<1>1. \A q \in Owner : ~inject'[q] => Free(q)' /\ (~inject[q] \/ Claim(q)' = {})
  BY Zenon DEF ClaimInv
<1> QED BY <1>1, ClaimsShrink, Zenon

LEMMA SmallerClaim ==
  ASSUME NEW q, active'[q] \subseteq Claim(q), paths'[q] \subseteq Claim(q),
         Pending(q)' \subseteq Claim(q)
  PROVE  Claim(q)' \subseteq Claim(q)
<1> HIDE DEF Pending
<1>1. Claim(q)' = active'[q] \cup paths'[q] \cup Pending(q)'
  BY Zenon DEF Claim
<1> HIDE DEF Claim
<1> QED BY <1>1, Zenon

LEMMA ClaimParts ==
  ASSUME NEW q
  PROVE  active[q] \subseteq Claim(q) /\ paths[q] \subseteq Claim(q) /\ Pending(q) \subseteq Claim(q)
<1> HIDE DEF Pending
<1> QED BY Zenon DEF Claim

LEMMA StillClaims ==
  ASSUME TypeOK, LoopInv, OnePathPerPrefix, ClaimInv, SlotInv, StillStep
  PROVE  OnePathPerPrefix' /\ ClaimInv' /\ SlotInv'
<1>1. /\ speaker' = speaker /\ paths' = paths /\ active' = active
      /\ loop'.up = loop.up /\ loop'.gone = loop.gone
      /\ \A q \in Owner : Pending(q)' \subseteq Pending(q)
      /\ \A q \in Owner : ~inject'[q] => ~inject[q] /\ (Free(q) => Free(q)')
  BY StillLoop, Zenon DEF wire
<1>2. \A q \in Owner : Claim(q)' \subseteq Claim(q)
  BY <1>1, Zenon DEF Claim
<1>3. \A q \in Owner : ~inject'[q] => Free(q)' /\ ~inject[q]
  BY <1>1, Zenon DEF ClaimInv
<1>4. ClaimInv'
  BY <1>2, <1>3, ClaimsShrink, Zenon
<1> QED BY <1>1, <1>4, Zenon DEF OnePathPerPrefix, SlotInv

LEMMA RecedingClaims ==
  ASSUME TypeOK, LoopInv, OnePathPerPrefix, ClaimInv, SlotInv, ~SwapMayFail,
         NEW o \in Owner, RecedingStep(o)
  PROVE  OnePathPerPrefix' /\ ClaimInv' /\ SlotInv'
<1>1. /\ Recedes(o) /\ LoopCalm(o)
      /\ paths[o] \subseteq active[o] => paths'[o] \subseteq active'[o]
  BY RecedingRoutes, RecedingLoop, Zenon
<1>2. o = "mit" => loop.at # "ops" /\ loop.up = {} /\ loop.gone = {}
  BY Zenon DEF RecedingStep, MitGate, WithdrawRoutes, LeaveInject, Free, LoopInv
<1>3. paths'[o] \subseteq active'[o]
  BY <1>1, <1>2, Zenon DEF SlotInv, Owner
<1>4. SlotInv'
  BY <1>1, <1>2, <1>3, Zenon DEF SlotInv, Owner, Recedes, LoopCalm
<1>5. \A q \in Owner : Pending(q)' \subseteq Pending(q)
  BY <1>1, Zenon DEF LoopCalm, Pending
<1>6. \A q \in Owner : Claim(q)' \subseteq Claim(q)
  BY <1>1, <1>5, Zenon DEF Recedes, Claim
<1>7. \A q \in Owner : ~inject'[q] => Free(q)' /\ (~inject[q] \/ Claim(q)' = {})
  <2>1. CASE LeaveInject(o)
    <3>1. PICK failed \in SUBSET Prefix :
            WithdrawAll(o, failed) /\ inject' = [inject EXCEPT ![o] = failed # {}]
      BY <2>1, Zenon DEF LeaveInject
    <3>2. \A q \in Owner : q # o => inject'[q] = inject[q]
      BY <3>1, Zenon DEF TypeOK
    <3>3. Free(o) /\ Free(o)' /\ Pending(o)' = {}
      BY <1>1, <2>1, Zenon DEF LeaveInject, LoopCalm, Pending
    <3>4. ~inject'[o] => failed = {}
      BY <3>1, Zenon DEF TypeOK
    <3>5. ~inject'[o] => active'[o] = {}
      BY <3>1, <3>4, WithdrawAllRecedes, LoopTypes, Zenon
    <3>6. ~inject'[o] => Claim(o)' = {}
      BY <1>3, <3>3, <3>5, Zenon DEF Claim
    <3> QED BY <1>1, <3>2, <3>3, <3>6, Zenon DEF ClaimInv, LoopCalm
  <2>2. CASE ~LeaveInject(o)
    <3>1. UNCHANGED inject
      BY <2>2, Zenon DEF RecedingStep, OutGate, SetRouters, WithdrawPrefix, Leave, ImproveRefuse, InGate,
         SteerRefuse, MitGate, WithdrawRoutes
    <3> QED BY <1>1, <3>1, Zenon DEF ClaimInv, LoopCalm
  <2> QED BY <2>1, <2>2, Zenon
<1> QED BY <1>1, <1>4, <1>6, <1>7, ClaimsShrink, Zenon DEF Recedes

\* In o's Sync the others' locks are free and o is in inject.
LEMMA Alone ==
  ASSUME LoopInv, ClaimInv, SlotInv, NEW o \in Owner, ~Free(o)
  PROVE  /\ inject[o]
         /\ \A q \in Owner : q # o => Free(q) /\ Pending(q) = {} /\ Claim(q) = active[q] \cup paths[q]
         /\ \A q \in Owner : q # o => paths[q] \subseteq active[q]
         /\ o # "mit" => loop.up = {}
<1>1. inject[o]
  BY Zenon DEF ClaimInv
<1>2. \A q \in Owner : q # o => Free(q)
  BY Zenon DEF Free, Owner
<1>3. o # "mit" => loop.up = {} /\ loop.gone = {}
  BY Zenon DEF LoopInv, Free, Owner
<1>4. \A q \in Owner : q # o => paths[q] \subseteq active[q]
  BY <1>3, Zenon DEF SlotInv, Owner
<1> QED BY <1>1, <1>2, <1>3, <1>4, Zenon DEF Pending, Claim

\* A decision adds p to what o claims, and changes nothing else.
LEMMA DecideClaims ==
  ASSUME TypeOK, LoopInv, OnePathPerPrefix, ClaimInv, SlotInv,
         NEW o \in Owner, ~Free(o), NEW p \in Prefix,
         UNCHANGED <<wire, active, inject>>, loop' = [loop EXCEPT !.call = {p}], loop.call = {},
         \A q \in Owner : q # o => p \notin Claim(q),
         o = "in" => p \in Inbound,
         o = "out" => p \notin Inbound
  PROVE  OnePathPerPrefix' /\ ClaimInv' /\ SlotInv'
<1>1. /\ loop'.at = loop.at /\ loop'.call = {p} /\ loop'.up = loop.up /\ loop'.gone = loop.gone
      /\ speaker' = speaker /\ paths' = paths /\ active' = active
  BY Zenon DEF TypeOK, LoopType, wire
<1>2. \A q \in Owner : Free(q)' <=> Free(q)
  BY <1>1, Zenon DEF Free
<1>3. \A q \in Owner : Claim(q)' \subseteq Claim(q) \cup (IF q = o THEN {p} ELSE {})
  <2>1. Claim(o)' \subseteq Claim(o) \cup {p}
    BY <1>1, <1>2, Zenon DEF Claim, Pending
  <2>2. \A q \in Owner : q # o => Claim(q)' = Claim(q)
    BY <1>1, <1>2, Alone, Zenon DEF Claim, Pending
  <2> QED BY <2>1, <2>2, Zenon
<1>4. \A q \in Owner : q # o => {p} \cap Claim(q) = {}
  BY Zenon
<1>5. \A q \in Owner : ~inject'[q] => Claim(q)' = {} /\ Free(q)'
  BY <1>2, <1>3, Alone DEF ClaimInv
<1>6. (o = "in" => {p} \subseteq Inbound) /\ (o = "out" => {p} \cap Inbound = {})
  BY Zenon
<1>7. ClaimInv'
  BY <1>3, <1>4, <1>5, <1>6, ClaimsStep, Zenon
<1> QED BY <1>1, <1>7, Zenon DEF OnePathPerPrefix, SlotInv

\* What neither Holds nor is Inbound, and what is Inbound and not excluded, is
\* claimed by nobody else; mitigation looks at both counts itself.
LEMMA DecidingClaims ==
  ASSUME TypeOK, LoopInv, OnePathPerPrefix, ClaimInv, SlotInv, NEW p \in Prefix,
         ImproveDecide(p) \/ SteerDecide(p) \/ MitCheck(p)
  PROVE  OnePathPerPrefix' /\ ClaimInv' /\ SlotInv'
<1>0. "out" \in Owner /\ "in" \in Owner /\ "mit" \in Owner
  BY Zenon DEF Owner
<1>1. ASSUME ~Free("out") \/ ~Free("in"), ~Holds(p)
      PROVE  p \notin Claim("mit")
  <2>1. Claim("mit") = active["mit"] \cup paths["mit"] /\ paths["mit"] \subseteq active["mit"]
    BY <1>0, <1>1, Alone, Zenon
  <2>2. CASE inject["mit"]
    BY <1>1, <2>1, <2>2, Zenon DEF Holds
  <2>3. CASE ~inject["mit"]
    BY <1>0, <2>3, Zenon DEF ClaimInv
  <2> QED BY <2>2, <2>3, Zenon
<1>2. CASE ImproveDecide(p)
  <2>1. /\ loop.at = "improve" /\ loop.call = {} /\ ~Reserved(p)
        /\ loop' = [loop EXCEPT !.call = {p}] /\ UNCHANGED <<wire, active, inject>>
    BY <1>2, Zenon DEF ImproveDecide, Visit
  <2>2. ~Free("out") /\ ~Holds(p) /\ p \notin Inbound
    BY <2>1, Zenon DEF Free, Reserved
  <2>3. \A q \in Owner : q # "out" => p \notin Claim(q)
    BY <1>1, <2>2, Zenon DEF ClaimInv, Owner
  <2> QED BY <1>0, <2>1, <2>2, <2>3, DecideClaims, Zenon
<1>3. CASE SteerDecide(p)
  <2>1. /\ loop.at = "steer" /\ loop.call = {} /\ ~Excluded(p) /\ p \in loop.todo
        /\ loop' = [loop EXCEPT !.call = {p}] /\ UNCHANGED <<wire, active, inject>>
    BY <1>3, Zenon DEF SteerDecide, Visit
  <2>2. ~Free("in") /\ ~Holds(p) /\ p \in Inbound
    BY <2>1, Zenon DEF Free, Excluded, LoopInv
  <2>3. \A q \in Owner : q # "in" => p \notin Claim(q)
    BY <1>1, <2>2, Zenon DEF ClaimInv, Owner
  <2> QED BY <1>0, <2>1, <2>2, <2>3, DecideClaims, Zenon
<1>4. CASE MitCheck(p)
  <2>1. loop.at = "ops" /\ loop.call = {} /\ UNCHANGED <<wire, active, inject>> /\ ~Free("mit")
    BY <1>4, Zenon DEF MitCheck, Visit, Free
  <2>2. CASE p \notin active["mit"] /\ p \in active["out"] \cup active["in"]
    <3>1. /\ loop'.at = loop.at /\ loop'.call = loop.call /\ loop'.up = loop.up
          /\ loop'.gone = loop.gone /\ speaker' = speaker /\ paths' = paths /\ active' = active
      BY <1>4, <2>1, <2>2, Zenon DEF MitCheck, Visited, TypeOK, LoopType, wire
    <3>2. \A q \in Owner : (Free(q)' <=> Free(q)) /\ Claim(q)' = Claim(q)
      BY <3>1, Zenon DEF Free, Claim, Pending
    <3>3. ClaimInv'
      BY <2>1, <3>2, ClaimsKeep, Zenon
    <3> QED BY <3>1, <3>3, Zenon DEF OnePathPerPrefix, SlotInv
  <2>3. CASE ~(p \notin active["mit"] /\ p \in active["out"] \cup active["in"])
    <3>1. loop' = [loop EXCEPT !.call = {p}]
      BY <1>4, <2>3, Zenon DEF MitCheck
    <3>2. CASE p \in active["mit"]
      <4>1. p \in Claim("mit")
        BY <3>2, Zenon DEF Claim
      <4>2. \A q \in Owner : q # "mit" => p \notin Claim(q)
        BY <1>0, <4>1, Zenon DEF ClaimInv
      <4> QED BY <1>0, <2>1, <3>1, <4>2, DecideClaims, Zenon
    <3>3. CASE p \notin active["out"] \cup active["in"]
      <4>1. \A q \in Owner : q # "mit" => Claim(q) = active[q] \cup paths[q] /\ paths[q] \subseteq active[q]
        BY <1>0, <2>1, Alone, Zenon
      <4>2. \A q \in Owner : q # "mit" => p \notin active[q]
        BY <3>3, Zenon DEF Owner
      <4>3. \A q \in Owner : q # "mit" => p \notin Claim(q)
        BY <4>1, <4>2, Zenon
      <4> QED BY <1>0, <2>1, <3>1, <4>3, DecideClaims, Zenon
    <3> QED BY <2>3, <3>2, <3>3, Zenon
  <2> QED BY <2>2, <2>3, Zenon
<1> QED BY <1>2, <1>3, <1>4, Zenon

LEMMA AnnounceClaims ==
  ASSUME TypeOK, LoopInv, OnePathPerPrefix, ClaimInv, SlotInv,
         NEW o \in {"out", "in"}, NEW stage, Announce(stage, o), ~Free(o)
  PROVE  OnePathPerPrefix' /\ ClaimInv' /\ SlotInv'
<1> o \in Owner /\ o # "mit" /\ WireType
  BY LoopTypes, Zenon DEF Owner
<1>1. UNCHANGED inject
  BY AnnounceFacts, Zenon
<1>2. PICK p \in loop.call :
         /\ loop' = [loop EXCEPT !.call = {}, !.todo = @ \ {p}]
         /\ \/ /\ Publish(o, p) /\ active'[o] = active[o] \cup {p}
               /\ \A q \in Owner : q # o => active'[q] = active[q]
            \/ Recedes(o) /\ active' = active
  BY AnnounceFacts, Zenon
<1>3. /\ loop'.at = loop.at /\ loop'.call = {} /\ loop'.up = loop.up /\ loop'.gone = loop.gone
      /\ p \in Prefix
  BY <1>2, AfterCall, LoopTypes, Zenon
<1>4. \A q \in Owner : (Free(q)' <=> Free(q)) /\ Pending(q)' \subseteq Pending(q)
  BY <1>3, Zenon DEF Free, Pending
<1>5. CASE Publish(o, p) /\ active'[o] = active[o] \cup {p}
           /\ \A q \in Owner : q # o => active'[q] = active[q]
  <2>1. p \in Pending(o) /\ p \in Claim(o)
    BY Zenon DEF Pending, Claim
  <2>2. \A q \in Owner : q # o => p \notin Claim(q)
    BY <2>1, Zenon DEF ClaimInv
  <2>3. \A q \in Owner : q # o => p \notin paths[q]
    BY <2>2, Zenon DEF Claim
  <2>4. /\ paths'[o] = paths[o] \cup {p} /\ \A q \in Owner : q # o => paths'[q] = paths[q]
        /\ OnePathPerPrefix'
    BY <1>3, <1>5, <2>3, PublishFacts, Zenon
  <2>5. \A q \in Owner : Claim(q)' \subseteq Claim(q)
    <3>1. Claim(o)' \subseteq Claim(o)
      BY <1>4, <1>5, <2>1, <2>4, ClaimParts, SmallerClaim, Zenon
    <3>2. ASSUME NEW q \in Owner, q # o PROVE Claim(q)' \subseteq Claim(q)
      BY <1>4, <1>5, <2>4, <3>2, ClaimParts, SmallerClaim, Zenon
    <3> QED BY <3>1, <3>2, Zenon
  <2>6. SlotInv'
    BY <1>3, <1>5, <2>4, Zenon DEF SlotInv, Owner
  <2> QED BY <1>1, <1>4, <2>4, <2>5, <2>6, ClaimsKeep, Zenon
<1>6. CASE Recedes(o) /\ active' = active
  <2>1. \A q \in Owner : Claim(q)' \subseteq Claim(q)
    BY <1>4, <1>6, Zenon DEF Claim, Recedes
  <2>2. SlotInv'
    BY <1>3, <1>6, Zenon DEF SlotInv, Recedes, Owner
  <2> QED BY <1>1, <1>4, <1>6, <2>1, <2>2, ClaimsKeep, Zenon DEF Recedes
<1> QED BY <1>2, <1>5, <1>6, Zenon

LEMMA OpsClaims ==
  ASSUME TypeOK, LoopInv, OnePathPerPrefix, ClaimInv, SlotInv,
         MitAnnounce \/ MitCommit \/ \E p \in Prefix : MitWithdraw(p)
  PROVE  OnePathPerPrefix' /\ ClaimInv' /\ SlotInv'
<1> "out" \in Owner /\ "in" \in Owner /\ "mit" \in Owner /\ WireType
  BY LoopTypes, Zenon DEF Owner
<1>0. loop.at = "ops" /\ ~Free("mit") /\ UNCHANGED inject /\ inject["mit"]
  BY Zenon DEF MitAnnounce, MitCommit, MitWithdraw, Free, ClaimInv
<1>1. \A q \in Owner : q # "mit" => Free(q) /\ Pending(q) = {}
  BY <1>0, Alone, Zenon
<1>2. \A q \in Owner : q # "mit" /\ ~inject[q] => Claim(q) = {}
  BY Zenon DEF ClaimInv
<1>3. CASE MitAnnounce
  <2>1. PICK p \in loop.call :
              \/ /\ Publish("mit", p)
                 /\ loop' = [loop EXCEPT !.call = {}, !.todo = @ \ {p}, !.up = @ \cup {p}]
              \/ /\ UNCHANGED wire
                 /\ loop' = [loop EXCEPT !.call = {}, !.todo = @ \ {p}]
    BY <1>3, MitAnnounceFacts, Zenon
  <2>2. /\ loop'.at = loop.at /\ loop'.call = {} /\ loop'.gone = loop.gone /\ p \in Prefix
        /\ loop'.up \subseteq loop.up \cup {p} /\ loop.up \subseteq loop'.up
        /\ UNCHANGED wire \/ (Publish("mit", p) /\ p \in loop'.up)
        /\ UNCHANGED active
    <3>1. UNCHANGED active /\ p \in Prefix
      BY <1>3, LoopTypes, Zenon DEF MitAnnounce
    <3>2. CASE /\ Publish("mit", p)
               /\ loop' = [loop EXCEPT !.call = {}, !.todo = @ \ {p}, !.up = @ \cup {p}]
      <4>1. /\ loop'.at = loop.at /\ loop'.call = {} /\ loop'.gone = loop.gone
            /\ loop'.up = loop.up \cup {p}
        BY <3>1, <3>2, AfterUp, Zenon
      <4> QED BY <3>1, <3>2, <4>1, Zenon
    <3>3. CASE UNCHANGED wire /\ loop' = [loop EXCEPT !.call = {}, !.todo = @ \ {p}]
      <4>1. /\ loop'.at = loop.at /\ loop'.call = {} /\ loop'.gone = loop.gone
            /\ loop'.up = loop.up
        BY <3>3, AfterCall, Zenon
      <4> QED BY <3>1, <3>3, <4>1, Zenon
    <3> QED BY <2>1, <3>2, <3>3, Zenon
  <2>3. \A q \in Owner : (Free(q)' <=> Free(q)) /\ Pending(q)' \subseteq Pending(q)
    BY <2>2, Zenon DEF Free, Pending
  <2>4. CASE UNCHANGED wire
    <3>0. paths' = paths /\ speaker' = speaker
      BY <2>4, Zenon DEF wire
    <3>1. ASSUME NEW q \in Owner PROVE Claim(q)' \subseteq Claim(q)
      BY <2>2, <2>3, <3>0, ClaimParts, SmallerClaim, Zenon
    <3>2. OnePathPerPrefix'
      BY <3>0, Zenon DEF OnePathPerPrefix
    <3>3. SlotInv'
      BY <2>2, <3>0, Zenon DEF SlotInv
    <3> QED BY <1>0, <2>3, <3>1, <3>2, <3>3, ClaimsKeep, Zenon
  <2>5. CASE Publish("mit", p) /\ p \in loop'.up
    <3>1. p \in Pending("mit") /\ p \in Claim("mit")
      BY <1>0, Zenon DEF Pending, Claim
    <3>2. \A q \in Owner : q # "mit" => p \notin Claim(q)
      BY <3>1, Zenon DEF ClaimInv
    <3>3. \A q \in Owner : q # "mit" => p \notin paths[q]
      BY <3>2, Zenon DEF Claim
    <3>4. /\ paths'["mit"] = paths["mit"] \cup {p}
          /\ \A q \in Owner : q # "mit" => paths'[q] = paths[q]
          /\ OnePathPerPrefix'
      BY <2>2, <2>5, <3>3, PublishFacts, Zenon
    <3>5. \A q \in Owner : Claim(q)' \subseteq Claim(q)
      <4>1. Claim("mit")' \subseteq Claim("mit")
        BY <2>2, <2>3, <3>1, <3>4, ClaimParts, SmallerClaim, Zenon
      <4>2. ASSUME NEW q \in Owner, q # "mit" PROVE Claim(q)' \subseteq Claim(q)
        BY <2>2, <2>3, <3>4, <4>2, ClaimParts, SmallerClaim, Zenon
      <4> QED BY <4>1, <4>2, Zenon
    <3>6. SlotInv'
      BY <2>2, <2>5, <3>4, Zenon DEF SlotInv, Owner
    <3> QED BY <1>0, <2>3, <3>4, <3>5, <3>6, ClaimsKeep, Zenon
  <2> QED BY <2>2, <2>4, <2>5, Zenon
<1>4. CASE MitCommit
  <2>1. /\ active'["mit"] = (active["mit"] \ loop.gone) \cup loop.up
        /\ \A q \in Owner : q # "mit" => active'[q] = active[q]
        /\ speaker' = speaker /\ paths' = paths
        /\ loop'.at = "out" /\ loop'.up = {} /\ loop'.gone = {}
    BY <1>4, AfterCommit, Zenon DEF wire
  <2>2. \A q \in Owner : Free(q)' /\ Pending(q)' = {}
    BY <2>1, Zenon DEF Free, Owner, Pending
  <2>3. \A q \in Owner : Claim(q)' \subseteq Claim(q)
    <3>1. Claim("mit")' \subseteq Claim("mit")
      BY <1>0, <2>1, <2>2, Zenon DEF Claim, Pending
    <3>2. \A q \in Owner : q # "mit" => Claim(q)' \subseteq Claim(q)
      BY <2>1, <2>2, Zenon DEF Claim
    <3> QED BY <3>1, <3>2, Zenon
  <2>4. SlotInv' /\ OnePathPerPrefix'
    BY <2>1, Zenon DEF SlotInv, OnePathPerPrefix, Owner
  <2> QED BY <1>0, <2>2, <2>3, <2>4, ClaimsShrink, Zenon
<1>5. CASE \E p \in Prefix : MitWithdraw(p)
  <2>1. PICK p \in Prefix : MitWithdraw(p)
    BY <1>5, Zenon
  <2>2. /\ loop'.at = loop.at /\ loop'.call = loop.call /\ loop'.up = loop.up
        /\ \/ UNCHANGED wire /\ loop'.gone = loop.gone
           \/ Delete("mit", {p} \cap paths["mit"]) /\ loop'.gone = loop.gone \cup {p}
        /\ UNCHANGED active
    BY <2>1, AfterWithdraw, Zenon
  <2>3. \A q \in Owner : (Free(q)' <=> Free(q)) /\ Pending(q)' = Pending(q)
    BY <2>2, Zenon DEF Free, Pending
  <2>4. /\ \A q \in Owner : paths'[q] \subseteq paths[q]
        /\ paths'["mit"] \subseteq (active["mit"] \ loop'.gone) \cup loop'.up
        /\ OnePathPerPrefix'
    <3>1. CASE UNCHANGED wire /\ loop'.gone = loop.gone
      BY <2>2, <3>1, Zenon DEF wire, OnePathPerPrefix, SlotInv
    <3>2. CASE Delete("mit", {p} \cap paths["mit"]) /\ loop'.gone = loop.gone \cup {p}
      <4>1. {p} \cap paths["mit"] \in SUBSET Prefix
        BY Zenon
      <4>2. /\ paths'["mit"] = paths["mit"] \ ({p} \cap paths["mit"])
            /\ \A q \in Owner : q # "mit" => paths'[q] = paths[q]
            /\ OnePathPerPrefix'
        BY <3>2, <4>1, DeleteFacts
      <4> QED BY <2>2, <3>2, <4>2, Zenon DEF SlotInv
    <3> QED BY <2>2, <3>1, <3>2, Zenon
  <2>5. ASSUME NEW q \in Owner PROVE Claim(q)' \subseteq Claim(q)
    BY <2>2, <2>3, <2>4, ClaimParts, SmallerClaim, Zenon
  <2>6. SlotInv'
    BY <2>2, <2>4, Zenon DEF SlotInv
  <2> QED BY <1>0, <2>3, <2>4, <2>5, <2>6, ClaimsKeep, Zenon
<1> QED BY <1>3, <1>4, <1>5, Zenon

LEMMA ClaimsKept ==
  ASSUME TypeOK, LoopInv, OnePathPerPrefix, ClaimInv, SlotInv, ~SwapMayFail, Next
  PROVE  OnePathPerPrefix' /\ ClaimInv' /\ SlotInv'
<1>1. CASE AnnouncingStep
  <2>1. CASE Announce("improve", "out")
    <3>1. "out" \in {"out", "in"} /\ ~Free("out")
      BY <2>1, Zenon DEF Announce, Free
    <3> QED BY <2>1, <3>1, AnnounceClaims, Zenon
  <2>2. CASE Announce("steer", "in")
    <3>1. "in" \in {"out", "in"} /\ ~Free("in")
      BY <2>2, Zenon DEF Announce, Free
    <3> QED BY <2>2, <3>1, AnnounceClaims, Zenon
  <2> QED BY <1>1, <2>1, <2>2, OpsClaims, DecidingClaims, Zenon DEF AnnouncingStep
<1> QED BY <1>1, NextKinds, StillClaims, RecedingClaims, Zenon

\* The claims stay disjoint, and every path keeps a slot, as long as SetRouters
\* deletes what it must.
THEOREM ClaimsHold ==
  ASSUME ~SwapMayFail
  PROVE  Spec => [](OnePathPerPrefix /\ ClaimInv /\ SlotInv)
<1>1. Init => OnePathPerPrefix /\ ClaimInv /\ SlotInv
  <2> SUFFICES ASSUME Init PROVE OnePathPerPrefix /\ ClaimInv /\ SlotInv
    BY Zenon
  <2>1. \A o \in Owner : paths[o] = {} /\ active[o] = {} /\ Free(o)
    BY Zenon DEF Init, Free, At, Owner
  <2>2. \A o \in Owner : Claim(o) = {}
    BY <2>1, Zenon DEF Claim, Pending
  <2>3. OnePathPerPrefix
    BY <2>1, Zenon DEF Init, OnePathPerPrefix, Owner
  <2>4. "out" \in Owner /\ "in" \in Owner /\ "mit" \in Owner
    BY Zenon DEF Owner
  <2> HIDE DEF Claim
  <2> QED BY <2>1, <2>2, <2>3, <2>4, Zenon DEF ClaimInv, SlotInv
<1>2. /\ TypeOK /\ LoopInv /\ OnePathPerPrefix /\ ClaimInv /\ SlotInv
      /\ [Next]_vars
      => OnePathPerPrefix' /\ ClaimInv' /\ SlotInv'
  <2> SUFFICES ASSUME TypeOK, LoopInv, OnePathPerPrefix, ClaimInv, SlotInv, [Next]_vars
               PROVE  OnePathPerPrefix' /\ ClaimInv' /\ SlotInv'
    BY Zenon
  <2>1. CASE UNCHANGED vars
    <3>1. \A q \in Owner : (Free(q)' <=> Free(q)) /\ Claim(q)' = Claim(q) /\ inject'[q] = inject[q]
      BY <2>1, Zenon DEF vars, Claim, Pending, Free
    <3>2. ClaimInv'
      BY <3>1, ClaimsShrink, Zenon DEF ClaimInv
    <3> QED BY <2>1, <3>2, Zenon DEF vars, OnePathPerPrefix, SlotInv
  <2> QED BY <2>1, ClaimsKept, Zenon
<1> QED BY <1>1, <1>2, TypeCorrect, PTL DEF Spec

\* What the claims and the slots imply for the wire.
LEMMA WireHolds ==
  ASSUME ~SwapMayFail
  PROVE  Spec => [](OnePathPerPrefix /\ NoOrphan /\ OutOfInject)
<1>1. LoopInv /\ ClaimInv /\ SlotInv => NoOrphan /\ OutOfInject
  <2> SUFFICES ASSUME LoopInv, ClaimInv, SlotInv PROVE NoOrphan /\ OutOfInject
    BY Zenon
  <2>1. Free("mit") => loop.up = {} /\ loop.gone = {}
    BY Zenon DEF LoopInv, Free
  <2>2. NoOrphan
    BY <2>1, Zenon DEF NoOrphan, SlotInv, Owner
  <2>3. OutOfInject
    BY Zenon DEF OutOfInject, ClaimInv, Claim
  <2> QED BY <2>2, <2>3, Zenon
<1> QED BY <1>1, ClaimsHold, TypeCorrect, PTL

\* An announcer's table and the speaker agree on every prefix, so no controller
\* replaces or deletes a route of another: for every set of prefixes, with
\* failing calls, reloads and role changes at any moment, as long as SetRouters
\* deletes what it must (Reserved, Excluded, Holds).
THEOREM OnePathHolds ==
  ASSUME ~SwapMayFail PROVE Spec => []OnePathPerPrefix
<1> QED BY WireHolds, PTL

\* Every path on the wire has a slot while its controller's lock is free, so
\* there is always someone who withdraws it (withdrawLocked).
THEOREM NothingOrphaned ==
  ASSUME ~SwapMayFail PROVE Spec => []NoOrphan
<1> QED BY WireHolds, PTL

\* A controller out of inject has no path, also when the reload met a Sync that
\* had decided to announce (ApplyRuntime).
THEOREM OnlyInInject ==
  ASSUME ~SwapMayFail PROVE Spec => []OutOfInject
<1> QED BY WireHolds, PTL

-----------------------------------------------------------------------------
(* The leak watch. *)

\* While outbound's claims shrink and a prefix is not newly held, or is held and
\* not claimed, nothing held comes back.
LEMMA HeldStep ==
  ASSUME HeldInv,
         \A p \in Prefix : held'[p] \in {"held", "withdrawn"} /\ ~Handling(p)' =>
           \/ p \notin Claim("out")'
           \/ /\ held[p] \in {"held", "withdrawn"} /\ ~Handling(p)
              /\ p \in Claim("out")' => p \in Claim("out")
  PROVE  HeldInv'
<1> HIDE DEF Claim, Handling
<1> QED BY Zenon DEF HeldInv

\* A hold is set with the watch still to look at the wire, and the watch lets
\* go of the prefix when it is out of outbound's table or its withdraw failed.
LEMMA WatchHeld ==
  ASSUME TypeOK, LoopInv, SlotInv, SlotInv', HeldInv,
         \/ Dismiss \/ Hold \/ Recheck \/ WithdrawPrefix
         \/ \E p \in Prefix : Sighting(p) \/ Clear(p)
  PROVE  HeldInv'
<1> "out" \in Owner /\ WireType /\ watch.p \in Prefix
  BY LoopTypes, Zenon DEF Owner
<1>0. Free("out") => loop.call \cup loop.up = {} \/ loop.at \in {"steer", "ops"}
  BY Zenon DEF LoopInv, Free
<1>1. CASE WithdrawPrefix
  <2>1. /\ Recedes("out") /\ Free("out") /\ Free("out")' /\ watch' = Idle
        /\ watch.at = "withdraw"
    BY <1>1, RecedingRoutes, Zenon DEF RecedingStep, WithdrawPrefix, Free
  <2>2. Claim("out")' \subseteq Claim("out")
    BY <2>1, Zenon DEF Recedes, Claim, Pending
  <2>3. \A p \in Prefix : ~Handling(p)' /\ (p # watch.p => ~Handling(p) /\ held'[p] = held[p])
    <3>1. \A p \in Prefix : ~Handling(p)'
      BY <2>1, Zenon DEF Handling, Idle
    <3>2. \A p \in Prefix : p # watch.p => ~Handling(p)
      BY Zenon DEF Handling
    <3>3. \E a : held' = [held EXCEPT ![watch.p] = a]
      BY <1>1, Zenon DEF WithdrawPrefix, Noted
    <3>4. \A p \in Prefix : p # watch.p => held'[p] = held[p]
      BY <3>3, Zenon DEF TypeOK
    <3> QED BY <3>1, <3>2, <3>4, Zenon
  <2>4. held'[watch.p] \in {"held", "withdrawn"} => watch.p \notin active'["out"]
    BY <1>1, Zenon DEF WithdrawPrefix, Noted, Held, TypeOK
  <2>5. watch.p \notin active'["out"] => watch.p \notin Claim("out")'
    BY <2>1, Zenon DEF SlotInv, Claim, Pending
  <2> HIDE DEF Claim, Handling
  <2> QED BY <2>2, <2>3, <2>4, <2>5, HeldStep, Zenon
<1>2. CASE \/ Dismiss \/ Hold \/ Recheck \/ \E p \in Prefix : Sighting(p) \/ Clear(p)
  <2>1. UNCHANGED <<wire, active, loop>>
    BY <1>2, Zenon DEF Dismiss, Hold, Recheck, Sighting, Clear
  <2>2. Claim("out")' = Claim("out")
    BY <2>1, Zenon DEF Claim, Pending, Free, wire
  <2>3. CASE Recheck
    <3>1. watch.p \notin active["out"] => watch.p \notin Claim("out")
      BY <2>3, Zenon DEF Recheck, SlotInv, Claim, Pending
    <3>2. \A p \in Prefix : p # watch.p => ~Handling(p)
      BY Zenon DEF Handling
    <3>3. watch.p \in active["out"] => \A p \in Prefix : p = watch.p => Handling(p)'
      BY <2>3, Zenon DEF Recheck, Handling, TypeOK
    <3>4. UNCHANGED held
      BY <2>3, Zenon DEF Recheck
    <3> HIDE DEF Claim, Handling
    <3>5. \A p \in Prefix : held'[p] \in {"held", "withdrawn"} /\ ~Handling(p)' =>
            \/ p \notin Claim("out")'
            \/ held[p] \in {"held", "withdrawn"} /\ ~Handling(p)
      BY <2>2, <3>1, <3>2, <3>3, <3>4, Zenon
    <3> QED BY <2>2, <3>5, HeldStep, Zenon
  <2>4. CASE Hold
    <3>1. \A p \in Prefix : p = watch.p => Handling(p)'
      BY <2>4, Zenon DEF Hold, Handling, TypeOK
    <3>2. \A p \in Prefix : p # watch.p => ~Handling(p) /\ held'[p] = held[p]
      BY <2>4, Zenon DEF Hold, Handling, TypeOK
    <3> HIDE DEF Claim, Handling
    <3> QED BY <2>2, <3>1, <3>2, HeldStep, Zenon
  <2>5. CASE Dismiss \/ \E p \in Prefix : Sighting(p) \/ Clear(p)
    <3>1. CASE UNCHANGED held /\ watch.at \in {"idle", "seen"}
      <4>1. \A p \in Prefix : ~Handling(p)
        BY <3>1, Zenon DEF Handling
      <4> HIDE DEF Claim, Handling
      <4> QED BY <2>2, <3>1, <4>1, HeldStep, Zenon
    <3>2. ASSUME NEW p \in Prefix, Clear(p) PROVE HeldInv'
      <4>1. UNCHANGED watch /\ held' = [held EXCEPT ![p] = "no"]
        BY <3>2, Zenon DEF Clear
      <4>2. \A q \in Prefix : held'[q] \in {"held", "withdrawn"} => held'[q] = held[q]
        BY <4>1, Zenon DEF TypeOK
      <4>3. \A q \in Prefix : Handling(q)' <=> Handling(q)
        BY <4>1, Zenon DEF Handling
      <4> HIDE DEF Claim, Handling
      <4> QED BY <2>2, <4>2, <4>3, HeldStep, Zenon
    <3> QED BY <2>5, <3>1, <3>2, Zenon DEF Dismiss, Sighting
  <2> QED BY <1>2, <2>3, <2>4, <2>5, Zenon
<1> QED BY <1>1, <1>2, Zenon

\* Outbound claims a prefix only after it found it not held.
LEMMA LoopHeld ==
  ASSUME TypeOK, LoopInv, HeldInv, UNCHANGED <<held, watch>>,
         StillStep \/ AnnouncingStep \/ \E o \in Owner : RecedingStep(o)
  PROVE  HeldInv'
<1> "out" \in Owner /\ "mit" # "out" /\ "in" # "out" /\ WireType
  BY LoopTypes, Zenon DEF Owner
<1>1. ASSUME Claim("out")' \subseteq Claim("out") PROVE HeldInv'
  <2>1. \A p \in Prefix : Handling(p)' <=> Handling(p)
    BY Zenon DEF Handling
  <2> HIDE DEF Claim, Handling
  <2> QED BY <1>1, <2>1, HeldStep, Zenon
<1>2. CASE StillStep
  BY <1>1, <1>2, StillLoop, Zenon DEF Claim, wire
<1>3. ASSUME NEW o \in Owner, RecedingStep(o) PROVE HeldInv'
  <2>1. Recedes(o) /\ LoopCalm(o)
    BY <1>3, RecedingRoutes, RecedingLoop, Zenon
  <2>2. Claim("out")' \subseteq Claim("out")
    BY <2>1, Zenon DEF Recedes, LoopCalm, Claim, Pending
  <2> QED BY <1>1, <2>2, Zenon
<1>4. CASE \E p \in Prefix : ImproveDecide(p)
  <2>1. PICK p \in Prefix : ImproveDecide(p)
    BY <1>4, Zenon
  <2>2. /\ loop'.at = loop.at /\ loop'.call = {p} /\ loop'.up = loop.up /\ held[p] = "no"
        /\ paths' = paths /\ active' = active
    <3>1. /\ loop' = [loop EXCEPT !.call = {p}] /\ ~Held(p) /\ UNCHANGED <<wire, active>>
      BY <2>1, Zenon DEF ImproveDecide
    <3> QED BY <3>1, AfterDecide, Zenon DEF Held, wire
  <2>3. Claim("out")' \subseteq Claim("out") \cup {p}
    BY <2>2, Zenon DEF Claim, Pending, Free
  <2>4. \A q \in Prefix : Handling(q)' <=> Handling(q)
    BY Zenon DEF Handling
  <2> HIDE DEF Claim, Handling
  <2> QED BY <2>2, <2>3, <2>4, HeldStep, Zenon
<1>5. CASE Announce("improve", "out")
  <2>1. loop.at = "improve" /\ "out" \in {"out", "in"}
    BY <1>5, Zenon DEF Announce
  <2>2. PICK p \in loop.call :
         /\ loop' = [loop EXCEPT !.call = {}, !.todo = @ \ {p}]
         /\ \/ /\ Publish("out", p) /\ active'["out"] = active["out"] \cup {p}
            \/ Recedes("out") /\ active' = active
    BY <1>5, <2>1, AnnounceFacts, Zenon
  <2>3. p \in Prefix /\ loop'.at = "improve" /\ loop'.call = {} /\ loop'.up = loop.up
    BY <2>1, <2>2, AfterCall, LoopTypes, Zenon
  <2>4. paths'["out"] \subseteq paths["out"] \cup {p} /\ active'["out"] \subseteq active["out"] \cup {p}
    BY <2>2, <2>3, PublishFacts, Zenon DEF Recedes
  <2>5. Claim("out")' \subseteq Claim("out")
    BY <2>1, <2>3, <2>4, Zenon DEF Claim, Pending, Free
  <2> QED BY <1>1, <2>5, Zenon
<1>6. CASE Announce("steer", "in")
  <2>1. loop.at = "steer" /\ "in" \in {"out", "in"} /\ "in" \in Owner
    BY <1>6, Zenon DEF Announce, Owner
  <2>2. PICK p \in loop.call :
         /\ loop' = [loop EXCEPT !.call = {}, !.todo = @ \ {p}]
         /\ \/ /\ Publish("in", p) /\ \A q \in Owner : q # "in" => active'[q] = active[q]
            \/ Recedes("in") /\ active' = active
    BY <1>6, <2>1, AnnounceFacts, Zenon
  <2>3. p \in Prefix /\ loop'.at = "steer"
    BY <2>1, <2>2, AfterCall, LoopTypes, Zenon
  <2>4. paths'["out"] = paths["out"] /\ active'["out"] = active["out"]
    BY <2>1, <2>2, <2>3, PublishFacts, Zenon DEF Recedes
  <2>5. Claim("out")' \subseteq Claim("out")
    BY <2>3, <2>4, Zenon DEF Claim, Pending, Free
  <2> QED BY <1>1, <2>5, Zenon
<1>7. CASE \/ MitAnnounce \/ MitCommit
           \/ \E p \in Prefix : SteerDecide(p) \/ MitWithdraw(p) \/ MitCheck(p)
  <2>1. loop'.at \in {"steer", "ops", "out"} /\ active'["out"] = active["out"]
    <3>1. CASE MitCommit
      BY <3>1, AfterCommit, Zenon
    <3>2. CASE MitAnnounce
      BY <3>2, Zenon DEF MitAnnounce, TypeOK, LoopType
    <3>3. ASSUME NEW p \in Prefix, MitWithdraw(p)
          PROVE  loop'.at = "ops" /\ active'["out"] = active["out"]
      BY <3>3, AfterWithdraw, Zenon
    <3>4. CASE \E p \in Prefix : SteerDecide(p) \/ MitCheck(p)
      BY <3>4, ZenonT(60) DEF SteerDecide, MitCheck, Visit, Visited, TypeOK, LoopType
    <3> QED BY <1>7, <3>1, <3>2, <3>3, <3>4, Zenon
  <2>2. paths'["out"] = paths["out"]
    BY <1>7, Zenon DEF MitAnnounce, MitCommit, SteerDecide, MitWithdraw, MitCheck, Publish, Delete,
       AnnounceFails, wire, WireType
  <2>3. Claim("out")' \subseteq Claim("out")
    BY <2>1, <2>2, Zenon DEF Claim, Pending, Free
  <2> QED BY <1>1, <2>3, Zenon
<1> QED BY <1>2, <1>3, <1>4, <1>5, <1>6, <1>7, Zenon DEF AnnouncingStep

LEMMA HeldKept ==
  ASSUME TypeOK, LoopInv, SlotInv, SlotInv', HeldInv, [Next]_vars
  PROVE  HeldInv'
<1>1. CASE UNCHANGED vars
  <2>1. Claim("out")' = Claim("out") /\ held' = held /\ \A p \in Prefix : Handling(p)' <=> Handling(p)
    BY <1>1, Zenon DEF vars, Claim, Pending, Free, Handling
  <2> HIDE DEF Claim, Handling
  <2> QED BY <2>1, HeldStep, Zenon
<1>2. CASE Next
  <2>1. CASE \/ Dismiss \/ Hold \/ Recheck \/ WithdrawPrefix
             \/ \E p \in Prefix : Sighting(p) \/ Clear(p)
    BY <2>1, WatchHeld, Zenon
  <2>2. CASE ~(\/ Dismiss \/ Hold \/ Recheck \/ WithdrawPrefix
               \/ \E p \in Prefix : Sighting(p) \/ Clear(p))
    <3>1. StillStep \/ AnnouncingStep \/ \E o \in Owner : RecedingStep(o)
      BY <1>2, NextKinds, Zenon
    <3>2. CASE StillStep
      BY <2>2, <3>2, LoopHeld, Zenon DEF StillStep, OutStart, LeaveDone, ImproveDone, InStart, SteerDone,
         MitPlan, ImproveKeep, SteerKeep, AddRule, RemoveRule, EnterInject
    <3>3. CASE AnnouncingStep
      BY <3>3, LoopHeld, Zenon DEF AnnouncingStep, Announce, MitAnnounce, MitCommit, ImproveDecide,
         SteerDecide, MitWithdraw, MitCheck
    <3>4. CASE \E o \in Owner : RecedingStep(o)
      BY <2>2, <3>4, LoopHeld, Zenon DEF RecedingStep, OutGate, SetRouters, Leave, ImproveRefuse, InGate,
         SteerRefuse, MitGate, WithdrawRoutes, LeaveInject
    <3> QED BY <3>1, <3>2, <3>3, <3>4, Zenon
  <2> QED BY <2>1, <2>2, Zenon
<1> QED BY <1>1, <1>2, Zenon

\* A leaked prefix stays out of outbound's table from the end of the watch's
\* handling until its hold is cleared, unless the withdraw failed: also when a
\* Sync had decided to announce it before the hold was set.
THEOREM HeldHolds ==
  ASSUME ~SwapMayFail
  PROVE  Spec => []HeldStaysOut
<1>1. Init => HeldInv
  BY Zenon DEF Init, HeldInv
<1>2. TypeOK /\ LoopInv /\ SlotInv /\ SlotInv' /\ HeldInv /\ [Next]_vars => HeldInv'
  BY HeldKept, Zenon
<1>3. HeldInv => HeldStaysOut
  BY Zenon DEF HeldInv, HeldStaysOut, Handling, Claim
<1> QED BY <1>1, <1>2, <1>3, ClaimsHold, TypeCorrect, PTL DEF Spec
=============================================================================
