-------------------------------- MODULE Wire --------------------------------
(***************************************************************************)
(* Who may publish a prefix.  Three controllers share one BGP speaker: the *)
(* outbound improvements (internal/announce), the inbound steers           *)
(* (internal/inbound) and the RTBH and redirect rules of mitigation        *)
(* (internal/mitigation).  The speaker holds one local path for a prefix:  *)
(* an announcement replaces whatever is there, and the inbound and         *)
(* mitigation announcers delete whatever is there.  So the controllers     *)
(* have to keep out of each other's way, with the leak watch               *)
(* (internal/leakwatch) holding prefixes out as well.                      *)
(*                                                                         *)
(* One goroutine, the decision loop, runs the three Syncs of a round in    *)
(* turn.  The leak watch, the HA control and the shutdown (WithdrawAll), a *)
(* config reload (ApplyRuntime, SetRouters) and the API (rules, clearing a *)
(* hold) run beside it.  A controller's lock is held throughout its Sync;  *)
(* every other operation under that lock is one step.                      *)
(*                                                                         *)
(* The learned RIB, the sessions, the HA role, the allowlist and the clock *)
(* change under another lock at any time, so what a Sync reads of them is  *)
(* a free choice at the moment it reads.  Any announcer call may fail.     *)
(***************************************************************************)
EXTENDS Integers, FiniteSets

CONSTANTS
  Prefix,          \* the prefixes
  Inbound,         \* inbound.prefixes
  MaxImprovements, \* max_improvements, shared by outbound and inbound
  InboundMax,      \* inbound.max_improvements
  MaxRules,        \* mitigation.max_rules
  MaxHeld,         \* the leak watch's bound on prefixes that are not injected
  SwapMayFail      \* SetRouters may fail to delete a path

ASSUME WireAssumption ==
  /\ Prefix # {} /\ IsFiniteSet(Prefix) /\ Inbound \subseteq Prefix
  /\ MaxImprovements \in Nat /\ InboundMax \in 1..MaxImprovements
  /\ MaxRules \in Nat /\ MaxHeld \in Nat
  /\ SwapMayFail \in BOOLEAN

Owner == {"out", "in", "mit"}

VARIABLES
  speaker,  \* speaker[p]: whose path the speaker has for p, or "none"
  paths,    \* paths[o]: the paths table of o's announcer
  active,   \* active[o]: what o's controller counts as on the wire
  onWire,   \* onWire[o]: the count o publishes for the others
  inject,   \* inject[o]: o's mode is inject
  rules,    \* the prefixes with a mitigation rule
  inflight, \* the prefixes a mitigation Sync is announcing
  held,     \* held[p]: the leak watch's action for p, "no" when not held
  loop,     \* where the decision loop is
  watch     \* where the leak watch's handler is

vars == <<speaker, paths, active, onWire, inject, rules, inflight, held,
          loop, watch>>

wire == <<speaker, paths>>

\* The loop: the stage it is in, the prefixes this stage still has to visit,
\* the outbound improvements of the round, the prefix whose announcement was
\* decided, and what mitigation planned and achieved.
LoopType ==
  [at   : {"out", "leave", "improve", "in", "steer", "mit", "ops"},
   todo : SUBSET Prefix, want : SUBSET Prefix, call : SUBSET Prefix,
   drop : SUBSET Prefix, up : SUBSET Prefix, gone : SUBSET Prefix,
   plan : SUBSET Prefix]

TypeOK ==
  /\ speaker \in [Prefix -> Owner \cup {"none"}]
  /\ paths \in [Owner -> SUBSET Prefix]
  /\ active \in [Owner -> SUBSET Prefix]
  /\ onWire \in [Owner -> Nat]
  /\ inject \in [Owner -> BOOLEAN]
  /\ rules \subseteq Prefix
  /\ inflight \subseteq Prefix
  /\ held \in [Prefix -> {"no", "held", "withdrawn", "withdraw_failed"}]
  /\ loop \in LoopType
  /\ watch \in [at : {"idle", "seen", "recheck", "withdraw"},
                p : Prefix, on : BOOLEAN]

\* The lock of o's controller (for mitigation, wireMu) is not held by a Sync.
Free(o) ==
  loop.at \notin CASE o = "out" -> {"leave", "improve"}
                   [] o = "in"  -> {"steer"}
                   [] o = "mit" -> {"ops"}

\* A variant that forgets the route of a removed rule.
HoldsByRule(p) == inject["mit"] /\ p \in rules

Holds(p) == inject["mit"] /\ p \in rules \cup active["mit"] \cup inflight

Held(p) == held[p] # "no"

Reserved(p) == p \in Inbound \/ Holds(p)

Excluded(p) == Holds(p) \/ Held(p)

At(stage) ==
  [at |-> stage, todo |-> {}, want |-> {}, call |-> {}, drop |-> {},
   up |-> {}, gone |-> {}, plan |-> {}]

(***************************************************************************)
(* The announcers and the speaker.                                         *)
(***************************************************************************)

Publish(o, p) ==
  /\ speaker' = [speaker EXCEPT ![p] = o]
  /\ paths' = [paths EXCEPT ![o] = @ \cup {p}]

\* DeletePath for the paths ps of o.  Outbound deletes by UUID, the other two
\* delete whatever path the prefix has.
Delete(o, ps) ==
  /\ speaker' = [p \in Prefix |->
       IF p \in ps /\ (o # "out" \/ speaker[p] = o) THEN "none" ELSE speaker[p]]
  /\ paths' = [paths EXCEPT ![o] = @ \ ps]

\* Announce fails.  A move onto a next hop that a router blocks deletes the
\* old path first, and that path is lost.
AnnounceFails(o, p) ==
  \/ UNCHANGED wire
  \/ o = "out" /\ p \in paths[o] /\ Delete(o, {p})

\* A variant that drops the slot of a route it could not withdraw.
WithdrawForgets(o, p) ==
  /\ \/ Delete(o, {p} \cap paths[o])
     \/ p \in paths[o] /\ UNCHANGED wire
  /\ active' = [active EXCEPT ![o] = @ \ {p}]

\* withdrawLocked of outbound and inbound.
Withdraw(o, p) ==
  \/ /\ Delete(o, {p} \cap paths[o])
     /\ active' = [active EXCEPT ![o] = @ \ {p}]
  \/ /\ p \in paths[o]
     /\ UNCHANGED <<wire, active>>

\* withdrawAllLocked and withdrawAllWire.  A delete that fails keeps its path,
\* and then the controller keeps all it counted.
WithdrawAll(o, failed) ==
  IF o # "out" /\ active[o] = {}
  THEN failed = {} /\ UNCHANGED <<wire, active>>
  ELSE /\ failed \subseteq paths[o]
       /\ Delete(o, paths[o] \ failed)
       /\ active' = IF failed = {} THEN [active EXCEPT ![o] = {}] ELSE active

\* store, storeActive and settleLocked, which end every operation.
Store(o) == onWire' = [onWire EXCEPT ![o] = Cardinality(active'[o])]

(***************************************************************************)
(* Outbound Sync.                                                          *)
(***************************************************************************)

\* Outside inject nothing; on standby or without a session, withdraw all.
OutGate ==
  /\ loop.at = "out"
  /\ \/ UNCHANGED <<wire, active>> /\ (inject["out"] => active["out"] = {})
     \/ /\ inject["out"]
        /\ \E failed \in SUBSET Prefix : WithdrawAll("out", failed)
  /\ Store("out")
  /\ loop' = At("in")
  /\ UNCHANGED <<inject, rules, inflight, held, watch>>

OutStart(want) ==
  /\ loop.at = "out" /\ inject["out"]
  /\ loop' = [At("leave") EXCEPT !.want = want, !.todo = active["out"] \ want]
  /\ UNCHANGED <<wire, active, onWire, inject, rules, inflight, held, watch>>

Leave(p) ==
  /\ loop.at = "leave" /\ p \in loop.todo
  /\ Withdraw("out", p)
  /\ loop' = [loop EXCEPT !.todo = @ \ {p}]
  /\ UNCHANGED <<onWire, inject, rules, inflight, held, watch>>

LeaveDone ==
  /\ loop.at = "leave" /\ loop.todo = {}
  /\ loop' = [loop EXCEPT !.at = "improve", !.todo = loop.want]
  /\ UNCHANGED <<wire, active, onWire, inject, rules, inflight, held, watch>>

Visit(stage, p) == loop.at = stage /\ loop.call = {} /\ p \in loop.todo

Visited(p) == loop' = [loop EXCEPT !.todo = @ \ {p}]

\* Held, reserved or not allowlisted: withdrawn when it is on.
ImproveRefuse(p) ==
  /\ Visit("improve", p)
  /\ IF p \in active["out"] THEN Withdraw("out", p) ELSE UNCHANGED <<wire, active>>
  /\ Visited(p)
  /\ UNCHANGED <<onWire, inject, rules, inflight, held, watch>>

\* Unchanged on the wire, not in the RIB, no next hop, or no room.
ImproveKeep(p) ==
  /\ Visit("improve", p)
  /\ ~Held(p) /\ ~Reserved(p)
  /\ Visited(p)
  /\ UNCHANGED <<wire, active, onWire, inject, rules, inflight, held, watch>>

\* To be moved, or new and within the cap.
ImproveDecide(p) ==
  /\ Visit("improve", p)
  /\ ~Held(p) /\ ~Reserved(p)
  /\ \/ p \in active["out"]
     \/ Cardinality(active["out"]) + onWire["in"] < MaxImprovements
  /\ loop' = [loop EXCEPT !.call = {p}]
  /\ UNCHANGED <<wire, active, onWire, inject, rules, inflight, held, watch>>

\* The announcer call of either Sync, and the slot after it.
Announce(stage, o) ==
  /\ loop.at = stage
  /\ \E p \in loop.call :
       /\ \/ Publish(o, p) /\ active' = [active EXCEPT ![o] = @ \cup {p}]
          \/ AnnounceFails(o, p) /\ UNCHANGED active
       /\ loop' = [loop EXCEPT !.call = {}, !.todo = @ \ {p}]
  /\ UNCHANGED <<onWire, inject, rules, inflight, held, watch>>

ImproveDone ==
  /\ loop.at = "improve" /\ loop.todo = {}
  /\ UNCHANGED <<wire, active, inject, rules, inflight, held, watch>>
  /\ Store("out")
  /\ loop' = At("in")

(***************************************************************************)
(* Inbound Sync.                                                           *)
(***************************************************************************)

\* Outside inject nothing; on standby, without a session or with no provider
\* to steer away from, withdraw all.
InGate ==
  /\ loop.at = "in"
  /\ \/ ~inject["in"] /\ UNCHANGED <<wire, active>>
     \/ inject["in"] /\ \E failed \in SUBSET Prefix : WithdrawAll("in", failed)
  /\ Store("in")
  /\ loop' = At("mit")
  /\ UNCHANGED <<inject, rules, inflight, held, watch>>

InStart ==
  /\ loop.at = "in" /\ inject["in"]
  /\ loop' = [At("steer") EXCEPT !.todo = Inbound]
  /\ UNCHANGED <<wire, active, onWire, inject, rules, inflight, held, watch>>

SteerRefuse(p) ==
  /\ Visit("steer", p)
  /\ IF p \in active["in"] THEN Withdraw("in", p) ELSE UNCHANGED <<wire, active>>
  /\ Visited(p)
  /\ UNCHANGED <<onWire, inject, rules, inflight, held, watch>>

SteerKeep(p) ==
  /\ Visit("steer", p)
  /\ ~Excluded(p)
  /\ Visited(p)
  /\ UNCHANGED <<wire, active, onWire, inject, rules, inflight, held, watch>>

\* A variant that checks only its own cap.
SteerDecideAlone(p) ==
  /\ Visit("steer", p)
  /\ ~Excluded(p)
  /\ p \in active["in"] \/ Cardinality(active["in"]) < InboundMax
  /\ loop' = [loop EXCEPT !.call = {p}]
  /\ UNCHANGED <<wire, active, onWire, inject, rules, inflight, held, watch>>

SteerDecide(p) ==
  /\ Visit("steer", p)
  /\ ~Excluded(p)
  /\ \/ p \in active["in"]
     \/ /\ Cardinality(active["in"]) < InboundMax
        /\ Cardinality(active["in"]) + onWire["out"] < MaxImprovements
  /\ loop' = [loop EXCEPT !.call = {p}]
  /\ UNCHANGED <<wire, active, onWire, inject, rules, inflight, held, watch>>

SteerDone ==
  /\ loop.at = "steer" /\ loop.todo = {}
  /\ UNCHANGED <<wire, active, inject, rules, inflight, held, watch>>
  /\ Store("in")
  /\ loop' = At("mit")

(***************************************************************************)
(* Mitigation: the API's rules and Sync.                                   *)
(***************************************************************************)

AddRule(p) ==
  /\ p \notin rules /\ Cardinality(rules) < MaxRules
  /\ rules' = rules \cup {p}
  /\ UNCHANGED <<wire, active, onWire, inject, inflight, held, loop, watch>>

RemoveRule(p) ==
  /\ p \in rules
  /\ rules' = rules \ {p}
  /\ UNCHANGED <<wire, active, onWire, inject, inflight, held, loop, watch>>

\* Rules expire; outside inject no more; on standby or without a session,
\* withdraw all.
MitGate ==
  /\ loop.at = "mit"
  /\ \E kept \in SUBSET rules : rules' = kept
  /\ \/ ~inject["mit"] /\ UNCHANGED <<wire, active>>
     \/ inject["mit"] /\ \E failed \in SUBSET Prefix : WithdrawAll("mit", failed)
  /\ Store("mit")
  /\ loop' = At("out")
  /\ UNCHANGED <<inject, inflight, held, watch>>

\* planUnicastLocked: left are routes whose prefix stayed out of the RIB for
\* hide_window, changed those with a new action, learned the new rules whose
\* prefix is in the RIB.
MitPlan ==
  /\ loop.at = "mit" /\ inject["mit"]
  /\ \E kept \in SUBSET rules :
       /\ rules' = kept
       /\ \E left \in SUBSET (kept \cap active["mit"]),
             changed \in SUBSET (kept \cap active["mit"]),
             learned \in SUBSET (kept \ active["mit"]) :
            /\ left \cap changed = {}
            /\ loop' = [At("ops") EXCEPT
                 !.drop = (active["mit"] \ kept) \cup left,
                 !.todo = changed \cup learned, !.plan = changed \cup learned]
            /\ inflight' = inflight \cup changed \cup learned
  /\ UNCHANGED <<wire, active, onWire, inject, held, watch>>

MitWithdraw(p) ==
  /\ loop.at = "ops" /\ p \in loop.drop
  /\ \/ /\ Delete("mit", {p} \cap paths["mit"])
        /\ loop' = [loop EXCEPT !.drop = @ \ {p}, !.gone = @ \cup {p}]
     \/ /\ p \in paths["mit"]
        /\ UNCHANGED wire
        /\ loop' = [loop EXCEPT !.drop = @ \ {p}]
  /\ UNCHANGED <<active, onWire, inject, rules, inflight, held, watch>>

\* A new route waits while outbound or inbound has the prefix.
MitCheck(p) ==
  /\ Visit("ops", p)
  /\ IF p \notin active["mit"] /\ p \in active["out"] \cup active["in"]
     THEN Visited(p)
     ELSE loop' = [loop EXCEPT !.call = {p}]
  /\ UNCHANGED <<wire, active, onWire, inject, rules, inflight, held, watch>>

MitAnnounce ==
  /\ loop.at = "ops"
  /\ \E p \in loop.call :
       \/ /\ Publish("mit", p)
          /\ loop' = [loop EXCEPT !.call = {}, !.todo = @ \ {p}, !.up = @ \cup {p}]
       \/ /\ AnnounceFails("mit", p)
          /\ loop' = [loop EXCEPT !.call = {}, !.todo = @ \ {p}]
  /\ UNCHANGED <<active, onWire, inject, rules, inflight, held, watch>>

MitCommit ==
  /\ loop.at = "ops" /\ loop.todo = {} /\ loop.drop = {}
  /\ active' = [active EXCEPT !["mit"] = (@ \ loop.gone) \cup loop.up]
  /\ Store("mit")
  /\ inflight' = inflight \ loop.plan
  /\ loop' = At("out")
  /\ UNCHANGED <<wire, inject, rules, held, watch>>

(***************************************************************************)
(* The HA control and the shutdown; config reloads.                        *)
(***************************************************************************)

WithdrawRoutes(o) ==
  /\ Free(o) /\ inject[o]
  /\ \E failed \in SUBSET Prefix : WithdrawAll(o, failed)
  /\ Store(o)
  /\ UNCHANGED <<inject, rules, inflight, held, loop, watch>>

\* A variant that changes the mode although a withdraw failed.
LeaveInjectAnyway(o) ==
  /\ Free(o) /\ inject[o]
  /\ \E failed \in SUBSET Prefix : WithdrawAll(o, failed)
  /\ inject' = [inject EXCEPT ![o] = FALSE]
  /\ Store(o)
  /\ UNCHANGED <<rules, inflight, held, loop, watch>>

\* ApplyRuntime out of inject: the mode changes only after every route went.
LeaveInject(o) ==
  /\ Free(o) /\ inject[o]
  /\ \E failed \in SUBSET Prefix :
       /\ WithdrawAll(o, failed)
       /\ inject' = [inject EXCEPT ![o] = failed # {}]
  /\ Store(o)
  /\ UNCHANGED <<rules, inflight, held, loop, watch>>

\* ApplyRuntime into inject: mitigation drops the rules of its dry run.
EnterInject(o) ==
  /\ Free(o) /\ ~inject[o]
  /\ inject' = [inject EXCEPT ![o] = TRUE]
  /\ rules' = IF o = "mit" THEN {} ELSE rules
  /\ UNCHANGED <<wire, active, onWire, inflight, held, loop, watch>>

\* SetRouters deletes the paths before the table is swapped and stops at the
\* first that fails; the slots are cleared whatever the outcome.
SetRouters ==
  /\ Free("out") /\ inject["out"]
  /\ \E rest \in SUBSET paths["out"] :
       /\ rest # {} => SwapMayFail
       /\ Delete("out", paths["out"] \ rest)
  /\ active' = [active EXCEPT !["out"] = {}]
  /\ Store("out")
  /\ UNCHANGED <<inject, rules, inflight, held, loop, watch>>

(***************************************************************************)
(* The leak watch.                                                         *)
(***************************************************************************)

Idle == [at |-> "idle", p |-> CHOOSE p \in Prefix : TRUE, on |-> FALSE]

\* A sighting is taken from the queue; Injected asks the outbound controller.
Sighting(p) ==
  /\ watch.at = "idle" /\ Free("out")
  /\ watch' = [at |-> "seen", p |-> p, on |-> p \in active["out"]]
  /\ UNCHANGED <<wire, active, onWire, inject, rules, inflight, held, loop>>

\* Already held, not confirmed, or no room for one that is not on the wire.
Dismiss ==
  /\ watch.at = "seen"
  /\ watch' = Idle
  /\ UNCHANGED <<wire, active, onWire, inject, rules, inflight, held, loop>>

\* A variant that trusts the look before the hold.
HoldWithoutRecheck ==
  /\ watch.at = "seen" /\ ~Held(watch.p)
  /\ watch.on \/ Cardinality({p \in Prefix : Held(p)}) < MaxHeld
  /\ held' = [held EXCEPT ![watch.p] = "held"]
  /\ watch' = IF watch.on THEN [watch EXCEPT !.at = "withdraw"] ELSE Idle
  /\ UNCHANGED <<wire, active, onWire, inject, rules, inflight, loop>>

Hold ==
  /\ watch.at = "seen" /\ ~Held(watch.p)
  /\ watch.on \/ Cardinality({p \in Prefix : Held(p)}) < MaxHeld
  /\ held' = [held EXCEPT ![watch.p] = "held"]
  /\ watch' = [watch EXCEPT !.at = IF watch.on THEN "withdraw" ELSE "recheck"]
  /\ UNCHANGED <<wire, active, onWire, inject, rules, inflight, loop>>

\* A Sync between the first look and the hold may have announced it.
Recheck ==
  /\ watch.at = "recheck" /\ Free("out")
  /\ watch' = IF watch.p \in active["out"] THEN [watch EXCEPT !.at = "withdraw"]
                                           ELSE Idle
  /\ UNCHANGED <<wire, active, onWire, inject, rules, inflight, held, loop>>

Noted(p, action) ==
  held' = [held EXCEPT ![p] = IF Held(p) THEN action ELSE @]

\* WithdrawPrefix, and the action noted on the hold if it still exists.
WithdrawPrefix ==
  /\ watch.at = "withdraw" /\ Free("out")
  /\ \/ /\ watch.p \in active["out"]
        /\ Withdraw("out", watch.p)
        /\ Noted(watch.p, IF watch.p \in active'["out"] THEN "withdraw_failed"
                                                       ELSE "withdrawn")
     \/ /\ watch.p \notin active["out"]
        /\ UNCHANGED <<wire, active>>
        /\ Noted(watch.p, "withdrawn")
  /\ Store("out")
  /\ watch' = Idle
  /\ UNCHANGED <<inject, rules, inflight, loop>>

Clear(p) ==
  /\ Held(p)
  /\ held' = [held EXCEPT ![p] = "no"]
  /\ UNCHANGED <<wire, active, onWire, inject, rules, inflight, loop, watch>>

-----------------------------------------------------------------------------

Init ==
  /\ speaker = [p \in Prefix |-> "none"]
  /\ paths = [o \in Owner |-> {}]
  /\ active = [o \in Owner |-> {}]
  /\ onWire = [o \in Owner |-> 0]
  /\ inject \in [Owner -> BOOLEAN]
  /\ rules = {}
  /\ inflight = {}
  /\ held = [p \in Prefix |-> "no"]
  /\ loop = At("out")
  /\ watch = Idle

OutboundSync ==
  \/ OutGate \/ (\E want \in SUBSET Prefix : OutStart(want))
  \/ LeaveDone \/ Announce("improve", "out") \/ ImproveDone
  \/ \E p \in Prefix :
       Leave(p) \/ ImproveRefuse(p) \/ ImproveKeep(p) \/ ImproveDecide(p)

InboundSync ==
  \/ InGate \/ InStart \/ Announce("steer", "in") \/ SteerDone
  \/ \E p \in Prefix : SteerRefuse(p) \/ SteerKeep(p) \/ SteerDecide(p)

MitigationSync ==
  \/ MitGate \/ MitPlan \/ MitAnnounce \/ MitCommit
  \/ \E p \in Prefix : MitWithdraw(p) \/ MitCheck(p)

LeakWatch ==
  \/ Dismiss \/ Hold \/ Recheck \/ WithdrawPrefix
  \/ \E p \in Prefix : Sighting(p)

Operator ==
  \/ SetRouters
  \/ \E p \in Prefix : AddRule(p) \/ RemoveRule(p) \/ Clear(p)
  \/ \E o \in Owner : WithdrawRoutes(o) \/ LeaveInject(o) \/ EnterInject(o)

Next == OutboundSync \/ InboundSync \/ MitigationSync \/ LeakWatch \/ Operator

Spec == Init /\ [][Next]_vars

-----------------------------------------------------------------------------

\* One prefix never carries two Packeteer paths: what an announcer has in its
\* table is what the speaker has for the prefix, so no controller ever
\* replaces or deletes a route of another (SetOutbound, SetInbound and Holds
\* of mitigation.go; Reserved and Excluded of the other two).
OnePathPerPrefix ==
  \A p \in Prefix, o \in Owner : (p \in paths[o]) <=> (speaker[p] = o)

\* Nothing is on the wire that its controller does not count, so every route
\* has someone who withdraws it: an announcer's path has a slot whenever the
\* controller's lock is free (withdrawLocked keeps the slot of a route it
\* failed to withdraw, withdrawAllLocked all of them).
NoOrphan ==
  \A o \in Owner : Free(o) => paths[o] \subseteq active[o]

\* A controller out of inject has nothing on the wire, also when a Sync was
\* running as the reload came (ApplyRuntime of each controller).
OutOfInject == \A o \in Owner : ~inject[o] => paths[o] = {}

\* Outbound and inbound together stay within max_improvements, although each
\* reads only the count that the other published last (Active, Others).
SharedCap == Cardinality(active["out"]) + Cardinality(active["in"]) <= MaxImprovements

\* A leaked prefix stays out: once the watch is done with a sighting it held,
\* and its withdraw did not fail, outbound does not announce the prefix until
\* the hold is cleared, even if a Sync had passed its Held check before the
\* hold was set (handle of leakwatch.go).
HeldStaysOut ==
  \A p \in Prefix :
    /\ held[p] \in {"held", "withdrawn"}
    /\ watch.at \in {"recheck", "withdraw"} => watch.p # p
    => p \notin paths["out"]

-----------------------------------------------------------------------------
(***************************************************************************)
(* Why they hold: what the proofs in WireProofs are about.                 *)
(***************************************************************************)

\* What o's Sync is about to announce or has announced and not yet counted.
Pending(o) == IF Free(o) THEN {} ELSE loop.call \cup loop.up

Claim(o) == active[o] \cup paths[o] \cup Pending(o)

\* The loop announces and notes results only in the stages that do.
LoopInv ==
  /\ loop.at \notin {"improve", "steer", "ops"} => loop.call = {}
  /\ loop.at # "ops" => loop.up = {} /\ loop.gone = {}
  /\ loop.at = "steer" => loop.todo \subseteq Inbound

\* The claims of the three controllers are disjoint, a controller out of
\* inject has none.
ClaimInv ==
  /\ \A o, q \in Owner : o # q => Claim(o) \cap Claim(q) = {}
  /\ Claim("in") \subseteq Inbound
  /\ Claim("out") \cap Inbound = {}
  /\ \A o \in Owner : ~inject[o] => Claim(o) = {} /\ Free(o)

\* A path has a slot, or gets one when mitigation's Sync commits.
SlotInv ==
  /\ paths["out"] \subseteq active["out"]
  /\ paths["in"] \subseteq active["in"]
  /\ paths["mit"] \subseteq (active["mit"] \ loop.gone) \cup loop.up

\* A count is right while its controller's lock is free, and a slot that was
\* granted is still there when the announcement is made.
CapInv ==
  /\ \A o \in Owner : Free(o) => onWire[o] = Cardinality(active[o])
  /\ SharedCap
  /\ \A p \in loop.call :
       \/ loop.at = "improve" /\ p \notin active["out"]
       \/ loop.at = "steer" /\ p \notin active["in"]
       => Cardinality(active["out"]) + Cardinality(active["in"]) < MaxImprovements

\* The watch is between setting its hold on p and the last look at the wire.
Handling(p) == watch.at \in {"recheck", "withdraw"} /\ watch.p = p

\* A held prefix is out, or the watch is about to look for it, or knows that
\* its withdraw failed.
HeldInv ==
  \A p \in Prefix :
    held[p] \in {"held", "withdrawn"} /\ ~Handling(p) => p \notin Claim("out")
=============================================================================
