-------------------------- MODULE ControllerProofs --------------------------
(***************************************************************************)
(* The controller's reload and its probe engine.                           *)
(*                                                                         *)
(* The reload, for every set of files, plugins and routers.  The invariant *)
(* IInv says which config each part follows at each step.                  *)
(*                                                                         *)
(* The probe engine, for any number of prefixes, providers, sources and    *)
(* workers, any lists, intervals and deadlines, and any number of calls    *)
(* from outside.  RoundInv says which probes can run where Run is, LateInv *)
(* which of them were late, ResultInv what is stored of them, Timed that   *)
(* intervals and ages are numbers.                                         *)
(***************************************************************************)
EXTENDS Reload, Probe, FiniteSetTheorems, WellFoundedInduction, TLAPS

-----------------------------------------------------------------------------
(* The reload. *)

\* A router in the table has the list of its config; without a table nobody
\* has one.
LEMMA TableLists ==
  ASSUME NEW c \in Files, NEW r \in Present(c)
  PROVE  (IF r \in DOMAIN Table(c) THEN Table(c)[r] ELSE 0) = c.nbr[r].list
BY Zenon DEF Table, Egress, Present

\* The table tells which routers are egress routers.
LEMMA SameEgress ==
  ASSUME NEW a \in Files, NEW b \in Files, Table(a) = Table(b)
  PROVE  Egress(a) = Egress(b)
<1>1. ASSUME NEW c \in Files
      PROVE  /\ DOMAIN Table(c) = IF Egress(c) = {} THEN {} ELSE Present(c)
             /\ Egress(c) = {r \in DOMAIN Table(c) : Table(c)[r] # 0}
  BY Zenon DEF Table, Egress
<1> QED BY <1>1, Zenon

\* A controller that has no step already runs what the new config asks.
LEMMA NoStep ==
  ASSUME NEW a \in Files, NEW b \in Files, ~restartKeys(a, b)
  PROVE  /\ "out" \notin RuntimeSteps(a, b) => OutOf(a) = OutOf(b)
         /\ "mit" \notin RuntimeSteps(a, b) => MitOf(a) = MitOf(b)
         /\ "in" \notin RuntimeSteps(a, b) => a.inb = b.inb /\ (b.inb # "none" => InOf(a) = InOf(b))
         /\ a.inb # "none" => a.cap = b.cap
BY ReloadAssumption, Zenon DEF restartKeys, blockKeys, RuntimeSteps, runtimeOut, inboundRuntime,
   mitigationRuntime, OutOf, MitOf, InOf, Owner, Config

\* The same config needs no step and no refusal.
LEMMA NoChange ==
  ASSUME NEW c \in Files
  PROVE  RuntimeSteps(c, c) = {} /\ ~Refused(c, c)
BY ReloadAssumption, Zenon DEF RuntimeSteps, runtimeOut, inboundRuntime, mitigationRuntime, Refused,
   restartKeys, blockKeys

\* The steps see the modes that a config asks for.
LEMMA Modes ==
  ASSUME NEW c \in Files, NEW o \in Owner
  PROVE  /\ OutOf(c).mode = c.mode /\ MitOf(c).mode = c.mit /\ InOf(c).mode = c.inb
         /\ Wants(c, "out") = c.mode /\ Wants(c, "in") = c.inb /\ Wants(c, "mit") = c.mit
         /\ Wants(c, o) = "inject" => c.mode = "inject" /\ Present(c) # {}
BY ReloadAssumption, Zenon DEF OutOf, MitOf, InOf, Wants, Owner, Config, Valid, Present

-----------------------------------------------------------------------------
(* The invariant implies the properties. *)

\* SteeringUnderInject follows from the order of the steps.
LEMMA Steering ==
  ASSUME IInv PROVE SteeringUnderInject
<1> USE DEF IInv, PlanInv, OrderInv, ControlInv, Followed
<1>1. CASE "in" \in rl.todo /\ in.mode = "inject"
  <2>1. cur.mode = "inject" BY <1>1, ReloadAssumption, Zenon DEF Config, Valid
  <2>2. "out" \notin rl.todo => next.mode = "inject"
    BY <1>1, <2>1, ReloadAssumption, Zenon DEF RuntimeSteps, runtimeOut, Before, Owner, Config
  <2> QED BY <2>1, <2>2, Zenon DEF SteeringUnderInject, OutOf
<1>2. CASE "in" \notin rl.todo /\ in.mode = "inject"
  <2>1. next.mode = "inject" BY <1>2, ReloadAssumption, Zenon DEF Config, Valid
  <2>2. "out" \in rl.todo => cur.mode = "inject"
    <3> SUFFICES ASSUME "out" \in rl.todo, cur.mode # "inject" PROVE FALSE
      BY Zenon
    <3>1. "in" \in RuntimeSteps(cur, next)
      BY <1>2, <2>1, Zenon DEF RuntimeSteps, inboundRuntime, Owner
    <3> QED BY <1>2, <2>1, <3>1, Zenon DEF Before
  <2> QED BY <2>1, <2>2, Zenon DEF SteeringUnderInject, OutOf
<1>3. CASE "mit" \in rl.todo /\ mit.mode = "inject"
  <2>1. cur.mode = "inject" BY <1>3, ReloadAssumption, Zenon DEF Config, Valid, MitOf
  <2>2. "out" \notin rl.todo => next.mode = "inject"
    BY <1>3, <2>1, ReloadAssumption, Zenon DEF RuntimeSteps, runtimeOut, Before, Owner, Config
  <2> QED BY <2>1, <2>2, Zenon DEF SteeringUnderInject, OutOf
<1>4. CASE "mit" \notin rl.todo /\ mit.mode = "inject"
  <2>1. next.mode = "inject" BY <1>4, ReloadAssumption, Zenon DEF Config, Valid, MitOf
  <2>2. "out" \in rl.todo => cur.mode = "inject"
    <3> SUFFICES ASSUME "out" \in rl.todo, cur.mode # "inject" PROVE FALSE
      BY Zenon
    <3>1. "mit" \in RuntimeSteps(cur, next)
      BY <1>4, <2>1, ReloadAssumption, Zenon
      DEF RuntimeSteps, mitigationRuntime, Owner, MitOf, Config, Valid
    <3> QED BY <1>4, <2>1, <3>1, Zenon DEF Before
  <2> QED BY <2>1, <2>2, Zenon DEF SteeringUnderInject, OutOf
<1> QED BY <1>1, <1>2, <1>3, <1>4, Zenon DEF SteeringUnderInject

\* The installed table is the one of a config that has the router.
LEMMA Follow ==
  ASSUME IInv, TableInInject PROVE RoutersFollowTable
<1> SUFFICES ASSUME "out" \in wire, NEW r \in Router, sessions[r] # 0
             PROVE  Ruled(r) \in {c.nbr[r].list : c \in {d \in {cur, next} : d.nbr[r].set # 0}}
  BY Zenon DEF RoutersFollowTable
<1>1. export = Table(Tabled) BY Zenon DEF IInv, ExportInv, SessionInv
<1>2. Tabled \in {cur, next} /\ Tabled \in Files BY Zenon DEF Tabled, IInv, PlanInv
<1>3. r \in Present(Tabled) BY Zenon DEF IInv, SessionInv
<1>4. Ruled(r) = Tabled.nbr[r].list BY <1>1, <1>2, <1>3, TableLists, Zenon DEF Ruled
<1> QED BY <1>2, <1>3, <1>4, Zenon DEF Present

LEMMA Implied ==
  ASSUME IInv
  PROVE  RunsItsConfig /\ SteeringUnderInject /\ RefusedNeverAnnounces
<1>1. RunsItsConfig
  <2> SUFFICES ASSUME At("idle") PROVE RunsItsConfig!2
    BY Zenon DEF RunsItsConfig
  <2> QED BY Zenon DEF At, IInv, PlanInv, ControlInv, PluginInv, SessionInv, Followed, Installed, Tabled
<1>2. RefusedNeverAnnounces
  BY Zenon DEF RefusedNeverAnnounces, At, IInv, PlanInv, ControlInv
<1> QED BY <1>1, <1>2, Steering, Zenon

-----------------------------------------------------------------------------
(* The invariant holds at the start and is preserved. *)

LEMMA Initial ==
  ASSUME Init PROVE IInv
<1> PICK c \in Files : (Present(c) # {} => speaker) /\ Started(c)
  BY Zenon DEF Init
<1>1. RuntimeSteps(c, c) = {} /\ ~Refused(c, c)
  BY NoChange, Zenon
<1>2. PlanInv
  BY <1>1, Zenon DEF Init, Started, PlanInv, Idle, Step
<1>3. OrderInv
  BY <1>1, Zenon DEF Started, OrderInv, Idle
<1>4. ControlInv
  BY Modes, Zenon DEF Started, ControlInv, Followed, Idle, Owner
<1>5. PluginInv
  BY Zenon DEF Started, PluginInv, Installed, Idle
<1>6. SessionInv
  BY Zenon DEF Started, SessionInv, Tabled, Idle, Sessions, Present
<1>7. ExportInv
  BY Zenon DEF Started, ExportInv, Idle, OutOf
<1> QED BY <1>2, <1>3, <1>4, <1>5, <1>6, <1>7, Zenon DEF IInv

\* Reading a file plans the steps; no part follows the new config yet.
LEMMA ReadStep ==
  ASSUME IInv, NEW c \in Files, Read(c) PROVE IInv'
<1> USE DEF Read, At, IInv
<1>1. cur \in Files /\ rl.todo = {} /\ cur = next /\ rl.at = "idle"
  BY Zenon DEF PlanInv
<1>2. ~restartKeys(cur, c) BY Zenon DEF Refused
<1>3. PlanInv'
  BY <1>1, Zenon DEF PlanInv, Step, Refused, RuntimeSteps
<1>4. OrderInv'
  BY <1>1, Zenon DEF OrderInv, RuntimeSteps, runtimeOut, inboundRuntime, mitigationRuntime, Owner
<1>5. ControlInv'
  BY <1>1, <1>2, NoStep, Zenon DEF ControlInv, Followed, ctlVars, PlanInv
<1>6. PluginInv'
  BY <1>1, Zenon DEF PluginInv, Installed, plugVars, restVars
<1>7. SessionInv'
  BY <1>1, Zenon DEF SessionInv, Tabled, viewVars, ctlVars
<1>8. ExportInv'
  BY <1>1, Zenon DEF ExportInv, ctlVars
<1> QED BY <1>3, <1>4, <1>5, <1>6, <1>7, <1>8, Zenon

\* A new config with routers has a speaker.
LEMMA Speaker ==
  ASSUME PlanInv, Present(next) # {} PROVE speaker
BY Zenon DEF PlanInv, Refused, Present

\* A refused config leaves the running one and nothing to do.
LEMMA BackToCur ==
  ASSUME IInv, Refuse, ~rl.done, rl.at \in {"prepare", "swap", "apply"},
         UNCHANGED <<proc, speaker, cur, out, in, mit, table, wire, early, sessions, egress>>,
         TableInInject /\ bound' => export' = table, out.mode = "inject" => bound'
  PROVE  PlanInv' /\ OrderInv' /\ ControlInv' /\ SessionInv' /\ ExportInv'
<1> USE DEF Refuse, Idle, IInv
<1>1. cur \in Files /\ next \in Files /\ ~restartKeys(cur, next)
  BY Zenon DEF PlanInv, Refused
<1>2. RuntimeSteps(cur, cur) = {} /\ ~Refused(cur, cur)
  BY <1>1, NoChange, Zenon
<1>3. PlanInv'
  BY <1>1, <1>2, Zenon DEF PlanInv, Step, Refused
<1>4. OrderInv'
  BY <1>2, Zenon DEF OrderInv
<1>5. ControlInv'
  BY <1>1, NoStep, Zenon DEF ControlInv, Followed, OrderInv
<1>6. SessionInv'
  BY Zenon DEF SessionInv, Tabled
<1>7. ExportInv'
  <2>1. table = Table(cur) BY Zenon DEF SessionInv, Tabled
  <2> QED BY <2>1, Zenon DEF ExportInv
<1> QED BY <1>3, <1>4, <1>5, <1>6, <1>7, Zenon

LEMMA PrepareStep ==
  ASSUME IInv, Prepare PROVE IInv'
<1> USE DEF IInv, At, Prepare
<1>1. PlanInv' BY Zenon DEF PlanInv, Step, Refused
<1>2. OrderInv' BY DEF OrderInv
<1>3. ControlInv' BY DEF ControlInv, Followed
<1>4. PluginInv' BY DEF PluginInv, Installed, plugVars, restVars, toStop, toStart
<1>5. SessionInv' BY DEF SessionInv, Tabled, viewVars
<1>6. ExportInv'
  <2>1. "out" \in rl.todo /\ next.mode = "inject" => speaker
    BY Zenon DEF Wants
  <2> QED BY <2>1 DEF ExportInv, BindOut
<1> QED BY <1>1, <1>2, <1>3, <1>4, <1>5, <1>6, Zenon

LEMMA PrepareFailsStep ==
  ASSUME IInv, PrepareFails PROVE IInv'
<1> USE DEF IInv, At, PrepareFails
<1>1. (TableInInject /\ bound' => export' = table) /\ (out.mode = "inject" => bound')
  BY DEF ExportInv, BindOut
<1>2. ~rl.done /\ rl.at = "prepare" BY Zenon DEF PlanInv
<1>3. PlanInv' /\ OrderInv' /\ ControlInv' /\ SessionInv' /\ ExportInv'
  BY <1>1, <1>2, BackToCur, Zenon DEF viewVars
<1>4. PluginInv'
  BY Zenon DEF PluginInv, Installed, plugVars, restVars, Refuse, Idle
<1> QED BY <1>3, <1>4, Zenon

LEMMA SwapStep ==
  ASSUME IInv, Swap PROVE IInv'
<1> USE DEF IInv, At, Swap
<1>1. PlanInv' BY Zenon DEF PlanInv, Step, Refused
<1>2. OrderInv' BY DEF OrderInv
<1>3. ControlInv' BY DEF ControlInv, Followed, ctlVars
<1>4. PluginInv' BY DEF PluginInv, Installed, restVars, toStop, toStart
<1>5. SessionInv' BY DEF SessionInv, Tabled, viewVars, ctlVars
<1>6. ExportInv' BY DEF ExportInv, ctlVars
<1> QED BY <1>1, <1>2, <1>3, <1>4, <1>5, <1>6, Zenon

\* The old plugins that start again are the ones of the list that run.
LEMMA PutBackRuns ==
  ASSUME IInv, proc = "run", rl.at \in {"swap", "apply"}, NEW back \in SUBSET toStop, PutBack(back)
  PROVE  list' = list /\ lost' \subseteq list /\ running' = list \ lost'
<1>1. /\ running \ (toStart \cup toStop) = (list \ lost) \ toStop
      /\ lost \subseteq list /\ toStop \subseteq list
  BY Zenon DEF IInv, PluginInv, toStart, toStop
<1> QED BY <1>1, Zenon DEF PutBack

LEMMA SwapFailsStep ==
  ASSUME IInv, SwapFails PROVE IInv'
<1> USE DEF IInv, At, SwapFails
<1>1. ~rl.done /\ rl.at = "swap" BY Zenon DEF PlanInv
<1>2. PlanInv' /\ OrderInv' /\ ControlInv' /\ SessionInv' /\ ExportInv'
  BY <1>1, BackToCur, Zenon DEF viewVars, ctlVars, ExportInv
<1>3. PluginInv'
  <2>1. PICK back \in SUBSET toStop : PutBack(back) BY Zenon
  <2>2. list' = list /\ lost' \subseteq list /\ running' = list \ lost'
    BY <2>1, PutBackRuns, Zenon
  <2> QED BY <2>2, Zenon DEF PluginInv, Installed, restVars, Refuse, Idle
<1> QED BY <1>2, <1>3, Zenon

LEMMA ApplyStep ==
  ASSUME IInv, NEW o \in Owner, ApplyRuntime(o) PROVE IInv'
<1> USE DEF IInv, At, ApplyRuntime
<1>1. cur \in Files /\ next \in Files /\ ~restartKeys(cur, next) /\ rl.todo \subseteq Owner
  BY Zenon DEF PlanInv, Refused
<1>2. PlanInv' BY Zenon DEF PlanInv, Step, Refused
<1>3. OrderInv' BY DEF OrderInv, Turn
<1>4. ControlInv'
  <2>1. o = "in" => in.cap = next.cap
    BY <1>1, NoStep, ReloadAssumption, SMTT(60)
    DEF Turn, ControlInv, Followed, OrderInv, RuntimeSteps, inboundRuntime, restartKeys, blockKeys, InOf, Config
  <2>2. in' = IF o = "in" THEN InOf(next) ELSE in
    BY <2>1 DEF InOf
  <2> QED BY <2>2, Zenon DEF ControlInv, Followed, InOf, Turn, Owner
<1>5. PluginInv' BY Zenon DEF PluginInv, Installed, plugVars, restVars, toStop, toStart
<1>6. SessionInv' BY Zenon DEF SessionInv, Tabled, viewVars
<1>7. ExportInv'
  <2>1. CASE o = "out"
    BY <2>1, Zenon DEF ExportInv, Turn, Leaves, ModeOf, Wants, OutOf
  <2>2. CASE o # "out"
    BY <2>2, Zenon DEF ExportInv
  <2> QED BY <2>1, <2>2, Zenon
<1> QED BY <1>2, <1>3, <1>4, <1>5, <1>6, <1>7, Zenon

\* A fatal step leaves the plan, and the plugins no longer matter.
LEMMA ApplyFailsStep ==
  ASSUME IInv, NEW o \in Owner, ApplyFails(o) PROVE IInv'
<1> USE DEF IInv, At, ApplyFails
<1>1. speaker
  <2>1. Wants(cur, o) = "inject" /\ cur \in Files
    BY Zenon DEF Turn, Leaves, ModeOf, Wants, ControlInv, Followed, OutOf, MitOf, Owner, PlanInv
  <2> QED BY <2>1, Modes, Zenon DEF PlanInv
<1>2. CASE rl.done
  <2>1. proc' = "stopping" /\ UNCHANGED <<next, rl, out, in, mit>>
    BY <1>1, <1>2, Zenon DEF FailedStep, Fatal
  <2>2. PlanInv' /\ OrderInv'
    BY <2>1, Zenon DEF PlanInv, OrderInv, Refused
  <2>3. ControlInv' /\ PluginInv'
    BY <2>1, Zenon DEF ControlInv, PluginInv, Followed
  <2>4. SessionInv' /\ ExportInv'
    BY <2>1, Zenon DEF SessionInv, Tabled, viewVars, ExportInv
  <2> QED BY <2>2, <2>3, <2>4, Zenon
<1>3. CASE ~rl.done
  <2>1. Refuse /\ UNCHANGED <<proc, out, in, mit>>
    BY <1>3, Zenon DEF FailedStep
  <2>2. PlanInv' /\ OrderInv' /\ ControlInv' /\ SessionInv' /\ ExportInv'
    BY <1>3, <2>1, BackToCur, Zenon DEF viewVars, ExportInv
  <2>3. PICK back \in SUBSET toStop : PutBack(back) BY Zenon
  <2>4. list' = list /\ lost' \subseteq list /\ running' = list \ lost'
    BY <2>3, PutBackRuns, Zenon
  <2>5. PluginInv'
    BY <2>1, <2>4, Zenon DEF PluginInv, Installed, restVars, Refuse, Idle
  <2> QED BY <2>2, <2>5, Zenon
<1> QED BY <1>2, <1>3, Zenon

\* Without a session or a table to change, the view already is as asked.
LEMMA SameView ==
  ASSUME IInv, rl.at = "install", proc = "run",
         ~(speaker /\ (Closes \cup Opens # {} \/ NewTable))
  PROVE  sessions = Sessions(next) /\ table = Table(next) /\ egress = Egress(next)
<1> USE DEF IInv
<1>1. sessions = Sessions(cur) /\ table = Table(cur) /\ egress = Egress(cur)
  BY Zenon DEF SessionInv, Tabled
<1>2. cur \in Files /\ next \in Files BY Zenon DEF PlanInv
<1>3. CASE cur.nbr = next.nbr
  BY <1>1, <1>3, Zenon DEF Sessions, Table, Egress, Present
<1>4. CASE cur.nbr # next.nbr
  <2>1. speaker /\ Present(next) # {} BY <1>4, Zenon DEF PlanInv, Refused
  <2>2. Table(cur) = Table(next) BY <1>1, <2>1, Zenon DEF NewTable
  <2>3. \A r \in Router : cur.nbr[r].set = next.nbr[r].set
    BY <2>1, Zenon DEF Closes, Opens, Present
  <2>4. Sessions(cur) = Sessions(next) BY <2>3, Zenon DEF Sessions
  <2> QED BY <1>1, <1>2, <2>2, <2>4, SameEgress, Zenon
<1> QED BY <1>3, <1>4, Zenon

LEMMA InstallStep ==
  ASSUME IInv, Install PROVE IInv'
<1> USE DEF IInv, At, Install
<1>1. rl.todo = {} BY Zenon DEF OrderInv
<1>2. PlanInv'
  <2>1. Closes \cup Opens # {} \/ NewTable => Present(next) # {}
    BY Zenon DEF PlanInv, Refused, Closes, Opens, NewTable, Present
  <2> QED BY <2>1, Zenon DEF PlanInv, Step, Refused
<1>3. OrderInv' BY <1>1 DEF OrderInv
<1>4. ControlInv' BY DEF ControlInv, Followed, ctlVars
<1>5. PluginInv'
  <2>1. running = ((list \ lost) \ toStop) \cup toStart /\ lost \subseteq list
    BY Zenon DEF PluginInv
  <2>2. running' = list' \ lost' /\ lost' \subseteq list'
    BY <2>1, Zenon DEF toStart, toStop
  <2> QED BY <2>2, Zenon DEF PluginInv, Installed, PlanInv
<1>6. SessionInv'
  <2>1. CASE speaker /\ (Closes \cup Opens # {} \/ NewTable)
    BY <2>1, Zenon DEF SessionInv, Tabled, viewVars, ctlVars, PlanInv
  <2>2. CASE ~(speaker /\ (Closes \cup Opens # {} \/ NewTable))
    BY <2>2, SameView, Zenon DEF SessionInv, Tabled, viewVars, ctlVars, PlanInv, Sessions, Present
  <2> QED BY <2>1, <2>2, Zenon
<1>7. ExportInv' BY Zenon DEF ExportInv, ctlVars, PlanInv
<1> QED BY <1>2, <1>3, <1>4, <1>5, <1>6, <1>7, Zenon

\* What the session steps leave alone.
LEMMA SessionStep ==
  ASSUME IInv, UNCHANGED <<speaker, cur, next, out, in, mit, early, restVars, plugVars>>,
         rl.at \in {"remove", "table", "add", "egress"},
         \/ proc' = "stopping" /\ rl' = rl
         \/ proc' = proc /\ \E s \in {"table", "add", "egress", "commit"} : rl' = [rl EXCEPT !.at = s]
  PROVE  PlanInv' /\ OrderInv' /\ ControlInv' /\ PluginInv'
<1> USE DEF IInv
<1>1. PlanInv' BY Zenon DEF PlanInv, Step, Refused
<1>2. OrderInv' BY Zenon DEF OrderInv, PlanInv
<1>3. ControlInv' BY Zenon DEF ControlInv, Followed, PlanInv
<1>4. PluginInv' BY Zenon DEF PluginInv, Installed, PlanInv, restVars, plugVars
<1> QED BY <1>1, <1>2, <1>3, <1>4, Zenon

LEMMA RemoveStep ==
  ASSUME IInv, RemoveNeighbors PROVE IInv'
<1> USE DEF IInv, At, RemoveNeighbors
<1>1. PICK gone \in SUBSET Closes :
        /\ sessions' = [r \in Router |-> IF r \in gone THEN 0 ELSE sessions[r]]
        /\ IF gone = Closes THEN Go("table") ELSE Fatal
  BY Zenon
<1>2. PlanInv' /\ OrderInv' /\ ControlInv' /\ PluginInv'
  BY <1>1, SessionStep, Zenon DEF Go, Fatal, ctlVars
<1>3. SessionInv'
  <2>1. \A r \in Router : sessions'[r] # 0 => sessions[r] # 0 BY <1>1, Zenon
  <2>2. CASE gone = Closes
    <3>1. sessions' = [r \in Router |-> IF r \in Closes THEN 0 ELSE cur.nbr[r].set]
      BY <1>1, <2>2, Zenon DEF SessionInv, Sessions
    <3> QED BY <1>1, <2>1, <2>2, <3>1, SMTT(60) DEF SessionInv, Tabled, Go, ctlVars, Closes, PlanInv
  <2>3. CASE gone # Closes
    BY <1>1, <2>1, <2>3, Zenon DEF SessionInv, Tabled, Fatal, ctlVars
  <2> QED BY <2>2, <2>3, Zenon
<1>4. ExportInv' BY <1>1, Zenon DEF ExportInv, Go, Fatal, ctlVars, PlanInv
<1> QED BY <1>2, <1>3, <1>4, Zenon

LEMMA TableStep ==
  ASSUME IInv, SetRouters PROVE IInv'
<1> USE DEF IInv, At, SetRouters
<1>1. PlanInv' /\ OrderInv' /\ ControlInv' /\ PluginInv'
  BY SessionStep, Zenon DEF Go, Fatal
<1>2. \A r \in Router : sessions[r] # 0 => r \in Present(next)
  BY Zenon DEF SessionInv, Closes, Present
<1>3. speaker /\ Present(next) # {} /\ rl.todo = {}
  BY Zenon DEF PlanInv, OrderInv
<1>4. SessionInv'
  <2>1. CASE Go("add")
    <3>1. table' = Table(next) BY <1>3, <2>1, Zenon DEF NewTable, Go, Fatal
    <3> QED BY <1>2, <2>1, <3>1, Zenon DEF SessionInv, Tabled, Go, viewVars, Closes, PlanInv
  <2>2. CASE Fatal /\ UNCHANGED <<table, export, wire>>
    BY <2>2, Zenon DEF SessionInv, Tabled, Fatal, viewVars
  <2> QED BY <2>1, <2>2, Zenon
<1>5. ExportInv'
  <2>1. out.mode = next.mode BY <1>3, Zenon DEF ControlInv, Followed, OutOf
  <2> QED BY <2>1, Zenon DEF ExportInv, Go, Fatal, PlanInv, NewTable
<1> QED BY <1>1, <1>4, <1>5, Zenon

LEMMA AddStep ==
  ASSUME IInv, AddNeighbors PROVE IInv'
<1> USE DEF IInv, At, AddNeighbors
<1>1. PICK new \in SUBSET Opens :
        /\ sessions' = [r \in Router |-> IF r \in new THEN next.nbr[r].set ELSE sessions[r]]
        /\ IF new = Opens THEN Go("egress") ELSE Fatal
  BY Zenon
<1>2. PlanInv' /\ OrderInv' /\ ControlInv' /\ PluginInv'
  BY <1>1, SessionStep, Zenon DEF Go, Fatal, ctlVars
<1>3. SessionInv'
  <2>1. \A r \in Router : sessions'[r] # 0 => r \in Present(next)
    BY <1>1, Zenon DEF SessionInv, Tabled, Opens
  <2>2. CASE new = Opens
    <3>1. sessions' = Sessions(next)
      <4>1. sessions = [r \in Router |-> IF r \in Closes THEN 0 ELSE cur.nbr[r].set]
        BY Zenon DEF SessionInv
      <4>2. \A r \in Router : r \in Opens \/ sessions[r] = next.nbr[r].set
        BY <4>1, Zenon DEF Closes, Opens, Present
      <4>3. sessions' = [r \in Router |-> IF r \in Opens THEN next.nbr[r].set ELSE sessions[r]]
        BY <1>1, <2>2, Zenon
      <4> HIDE DEF IInv, AddNeighbors
      <4> QED BY <4>2, <4>3, Zenon DEF Sessions
    <3> QED BY <1>1, <2>1, <2>2, <3>1, Zenon DEF SessionInv, Tabled, Go, ctlVars, PlanInv
  <2>3. CASE new # Opens
    BY <1>1, <2>1, <2>3, Zenon DEF SessionInv, Tabled, Fatal, ctlVars
  <2> QED BY <2>2, <2>3, Zenon
<1>4. ExportInv' BY <1>1, Zenon DEF ExportInv, Go, Fatal, ctlVars, PlanInv
<1> QED BY <1>2, <1>3, <1>4, Zenon

LEMMA EgressStep ==
  ASSUME IInv, SetEgress PROVE IInv'
<1> USE DEF IInv, At, SetEgress
<1>1. PlanInv' /\ OrderInv' /\ ControlInv' /\ PluginInv'
  BY SessionStep, Zenon DEF Go, Fatal, ctlVars
<1>2. SessionInv'
  BY Zenon DEF SessionInv, Tabled, Go, Fatal, ctlVars, PlanInv
<1>3. ExportInv' BY Zenon DEF ExportInv, Go, Fatal, ctlVars, PlanInv
<1> QED BY <1>1, <1>2, <1>3, Zenon

LEMMA CommitStep ==
  ASSUME IInv, Commit PROVE IInv'
<1> USE DEF IInv, At, Commit, Idle
<1>1. next \in Files /\ RuntimeSteps(next, next) = {} /\ ~Refused(next, next)
  BY NoChange, Zenon DEF PlanInv
<1>2. PlanInv' BY <1>1, Speaker, Zenon DEF PlanInv, Step, Refused, Present
<1>3. OrderInv' BY <1>1, Zenon DEF OrderInv
<1>4. ControlInv' BY Zenon DEF ControlInv, Followed, ctlVars, OrderInv
<1>5. PluginInv' BY Zenon DEF PluginInv, Installed, restVars, plugVars
<1>6. SessionInv' BY Zenon DEF SessionInv, Tabled, viewVars, ctlVars
<1>7. ExportInv'
  BY Zenon DEF ExportInv, SessionInv, Tabled, ctlVars
<1> QED BY <1>2, <1>3, <1>4, <1>5, <1>6, <1>7, Zenon

\* Until a step of the reload is done every controller has the mode of cur.
LEMMA SyncStep ==
  ASSUME IInv, NEW o \in Owner, Sync(o) PROVE IInv'
<1> USE DEF IInv, Sync
<1>1. PlanInv' BY Zenon DEF PlanInv, Refused
<1>2. OrderInv' BY Zenon DEF OrderInv
<1>3. ControlInv'
  <2>1. ASSUME ~rl.done PROVE Wants(cur, o) = "inject"
    <3>1. cur \in Files /\ next \in Files /\ ~restartKeys(cur, next)
      BY Zenon DEF PlanInv, Refused
    <3>2. rl.todo = RuntimeSteps(cur, next) BY <2>1, Zenon DEF OrderInv
    <3> QED BY <3>1, <3>2, NoStep, Zenon
        DEF ControlInv, Followed, ModeOf, Wants, OutOf, MitOf, Owner
  <2> QED BY <2>1, Zenon DEF ControlInv, Followed, ctlVars
<1>4. PluginInv' BY Zenon DEF PluginInv, Installed, restVars, plugVars, toStop, toStart
<1>5. SessionInv' BY Zenon DEF SessionInv, Tabled, viewVars, ctlVars, Closes
<1>6. ExportInv' BY Zenon DEF ExportInv, ctlVars, ModeOf
<1> QED BY <1>1, <1>2, <1>3, <1>4, <1>5, <1>6, Zenon

LEMMA ShutdownStep ==
  ASSUME IInv, Shutdown PROVE IInv'
<1> USE DEF IInv, Shutdown
<1>1. PlanInv' BY Zenon DEF PlanInv, Refused
<1>2. OrderInv' BY Zenon DEF OrderInv
<1>3. ControlInv' BY Zenon DEF ControlInv, Followed, ctlVars
<1>4. PluginInv' BY Zenon DEF PluginInv
<1>5. SessionInv' BY Zenon DEF SessionInv, Tabled, ctlVars
<1>6. ExportInv' BY Zenon DEF ExportInv, ctlVars
<1> QED BY <1>1, <1>2, <1>3, <1>4, <1>5, <1>6, Zenon

LEMMA RestartStep ==
  ASSUME IInv, Restart PROVE IInv'
<1> USE DEF IInv, Restart, Idle
<1>1. next \in Files /\ RuntimeSteps(next, next) = {} /\ ~Refused(next, next)
  BY NoChange, Zenon DEF PlanInv
<1>2. PlanInv' BY <1>1, Speaker, Zenon DEF PlanInv, Step, Refused, Present
<1>3. OrderInv' BY <1>1, Zenon DEF OrderInv
<1>4. ControlInv' BY <1>1, Modes, Zenon DEF ControlInv, Followed, Owner
<1>5. PluginInv' BY Zenon DEF PluginInv, Installed
<1>6. SessionInv' BY Zenon DEF SessionInv, Tabled, Sessions, Present
<1>7. ExportInv' BY Zenon DEF ExportInv, OutOf
<1> QED BY <1>2, <1>3, <1>4, <1>5, <1>6, <1>7, Zenon

\* Every step of the reload, the decision loop and the supervisor preserves
\* the invariant.
LEMMA Preserved ==
  ASSUME IInv, [Next]_vars PROVE IInv'
<1>1. ASSUME UNCHANGED vars PROVE IInv'
  <2> USE <1>1 DEF IInv, vars
  <2>1. PlanInv' /\ OrderInv' BY Zenon DEF PlanInv, OrderInv, Refused
  <2>2. ControlInv' BY Zenon DEF ControlInv, Followed
  <2>3. PluginInv' BY Zenon DEF PluginInv, Installed, toStop, toStart
  <2>4. SessionInv' /\ ExportInv' BY Zenon DEF SessionInv, Tabled, Closes, ExportInv
  <2> QED BY <2>1, <2>2, <2>3, <2>4, Zenon
<1>2. ASSUME NEW c \in Files, Read(c) PROVE IInv' BY <1>2, ReadStep, Zenon
<1>3. CASE Prepare \/ PrepareFails BY <1>3, PrepareStep, PrepareFailsStep, Zenon
<1>4. CASE Swap \/ SwapFails BY <1>4, SwapStep, SwapFailsStep, Zenon
<1>5. ASSUME NEW o \in Owner, ApplyRuntime(o) \/ ApplyFails(o) PROVE IInv'
  BY <1>5, ApplyStep, ApplyFailsStep, Zenon
<1>6. CASE Install BY <1>6, InstallStep, Zenon
<1>7. CASE RemoveNeighbors \/ SetRouters BY <1>7, RemoveStep, TableStep, Zenon
<1>8. CASE AddNeighbors \/ SetEgress BY <1>8, AddStep, EgressStep, Zenon
<1>9. CASE Commit BY <1>9, CommitStep, Zenon
<1>10. ASSUME NEW o \in Owner, Sync(o) PROVE IInv' BY <1>10, SyncStep, Zenon
<1>11. CASE Shutdown \/ Restart BY <1>11, ShutdownStep, RestartStep, Zenon
<1> QED
  BY <1>1, <1>2, <1>3, <1>4, <1>5, <1>6, <1>7, <1>8, <1>9, <1>10, <1>11, Zenon DEF Next

-----------------------------------------------------------------------------
(* The theorems. *)

\* In every state of every run the parts follow the config that the step of
\* the reload says (applyOnline and the session steps of reload).
THEOREM Invariance ==
  Spec => []IInv
<1>1. Init => IInv BY Initial, Zenon
<1>2. IInv /\ [Next]_vars => IInv' BY Preserved, Zenon
<1> QED BY <1>1, <1>2, PTL DEF Spec

\* A reload that fails at any step, with the process running on, leaves every
\* part on the running config; one that ends well leaves none behind.
THEOREM AllOrNothing ==
  Spec => []RunsItsConfig
<1>1. IInv => RunsItsConfig BY Implied, Zenon
<1> QED BY <1>1, Invariance, PTL

\* The reversed order of applyRuntime keeps inbound and mitigation inside
\* outbound's inject between any two steps.
THEOREM SteeringStaysUnder ==
  Spec => []SteeringUnderInject
<1>1. IInv => SteeringUnderInject BY Implied, Zenon
<1> QED BY <1>1, Invariance, PTL

\* A decision round between two steps announces nothing that a refusal then
\* leaves behind.
THEOREM RefusedIsSilent ==
  Spec => []RefusedNeverAnnounces
<1>1. IInv => RefusedNeverAnnounces BY Implied, Zenon
<1> QED BY <1>1, Invariance, PTL

\* Removing sessions, swapping the table and adding sessions in this order
\* gives no router another rule than its old or its new one, as long as a
\* bound announcer's table changes only into inject (see SetRouters, BindOut).
THEOREM TableBeforeSessions ==
  ASSUME TableInInject PROVE Spec => []RoutersFollowTable
<1>1. IInv => RoutersFollowTable BY Follow, Zenon
<1> QED BY <1>1, Invariance, PTL

-----------------------------------------------------------------------------
(* Maps, minima and Run's local variables. *)

LEMMA RestrictFacts ==
  ASSUME NEW f, NEW S
  PROVE  DOMAIN Restrict(f, S) = S /\ \A x \in S : Restrict(f, S)[x] = f[x]
  BY Zenon DEF Restrict

LEMMA NothingFacts == DOMAIN Nothing = {} /\ IsList(Nothing)
  BY Zenon DEF Nothing, IsList

\* A set of numbers has a least one.
LEMMA MinFacts ==
  ASSUME NEW S \in SUBSET Nat, S # {}
  PROVE  Min(S) \in S /\ \A y \in S : Min(S) <= y
<1>1. PICK x \in S : \A y \in S : <<y, x>> \notin OpToRel(<, Nat)
  BY NatLessThanWellFounded, WFMin, Zenon
<1>2. \A y \in S : y < x => <<y, x>> \in OpToRel(<, Nat)
  BY Zenon DEF OpToRel
<1>3. \A y \in S : ~(y < x)
  BY <1>1, <1>2, Zenon
<1>4. \E m \in S : \A y \in S : m <= y
  BY <1>3
<1> QED BY <1>4, Zenon DEF Min

\* Left is the difference, or 0.
LEMMA LeftFacts ==
  ASSUME NEW age \in Nat, NEW i \in Nat
  PROVE  Left(age, i) = IF age < i THEN i - age ELSE 0
<1> DEFINE S == {0, i - age}
<1>1. \E x \in S : \A y \in S : x >= y
  OBVIOUS
<1>2. Max(S) \in S /\ \A y \in S : Max(S) >= y
  BY <1>1, Zenon DEF Max
<1>3. Max(S) = IF age < i THEN i - age ELSE 0
  <2> HIDE DEF S
  <2>1. S = {0, i - age}
    BY Zenon DEF S
  <2> QED BY <1>2, <2>1
<1> QED BY <1>3, Zenon DEF Left

\* The steps of Run: where it goes, and what becomes of the targets it has
\* gathered and of the time it sleeps.
LEMMA EngineFacts ==
  ASSUME DOMAIN eng = EngineFields
  PROVE  /\ Begin => /\ DOMAIN eng' = EngineFields /\ eng'.wait = eng.wait
                     /\ \/ busy /\ eng'.pc = "rest" /\ eng'.out = eng.out
                        \/ ~busy /\ eng'.pc = "gather" /\ eng'.out = Nothing
         /\ SourceLate \/ SourceGivesUp =>
              /\ DOMAIN eng' = EngineFields /\ eng'.wait = eng.wait
              /\ eng'.pc = "rest" /\ eng'.out = eng.out
         /\ Wakeup => /\ DOMAIN eng' = EngineFields /\ eng'.wait = 0
                      /\ eng'.pc = "ready" /\ eng'.out = eng.out
         /\ Expire => /\ DOMAIN eng' = EngineFields /\ eng'.wait = eng.wait
                      /\ eng'.pc = eng.pc /\ eng'.src = eng.src /\ eng'.out = eng.out /\ eng'.done = eng.done
         /\ Tick => /\ DOMAIN eng' = EngineFields /\ eng'.wait = Pass(eng.wait)
                    /\ eng'.pc = eng.pc /\ eng'.src = eng.src /\ eng'.out = eng.out /\ eng'.done = eng.done
                    /\ eng'.hurry = eng.hurry
         /\ Rest => /\ DOMAIN eng' = EngineFields
                    /\ eng'.wait = IF eng.done THEN wakeAfter(last') ELSE base
                    /\ eng'.pc = "sleep" /\ eng'.out = eng.out /\ eng'.done = eng.done
                    /\ eng'.hurry = urgent
         /\ EndRound => /\ DOMAIN eng' = EngineFields /\ eng'.wait = eng.wait
                        /\ eng'.pc = "rest" /\ eng'.out = eng.out
<1>1. ASSUME Begin
      PROVE  /\ DOMAIN eng' = EngineFields /\ eng'.wait = eng.wait
             /\ \/ busy /\ eng'.pc = "rest" /\ eng'.out = eng.out
                \/ ~busy /\ eng'.pc = "gather" /\ eng'.out = Nothing
  BY <1>1, Zenon DEF Begin, EngineFields
<1>2. ASSUME SourceLate \/ SourceGivesUp
      PROVE  /\ DOMAIN eng' = EngineFields /\ eng'.wait = eng.wait
             /\ eng'.pc = "rest" /\ eng'.out = eng.out
  BY <1>2, Zenon DEF SourceLate, SourceGivesUp, EngineFields
<1>3. ASSUME Wakeup
      PROVE  /\ DOMAIN eng' = EngineFields /\ eng'.wait = 0
             /\ eng'.pc = "ready" /\ eng'.out = eng.out
  BY <1>3, Zenon DEF Wakeup, EngineFields
<1>4. ASSUME Expire
      PROVE  /\ DOMAIN eng' = EngineFields /\ eng'.wait = eng.wait
             /\ eng'.pc = eng.pc /\ eng'.src = eng.src /\ eng'.out = eng.out /\ eng'.done = eng.done
  BY <1>4, Zenon DEF Expire, EngineFields
<1>5. ASSUME Tick
      PROVE  /\ DOMAIN eng' = EngineFields /\ eng'.wait = Pass(eng.wait)
             /\ eng'.pc = eng.pc /\ eng'.src = eng.src /\ eng'.out = eng.out /\ eng'.done = eng.done
             /\ eng'.hurry = eng.hurry
  <2>1. eng' = [eng EXCEPT !.left = Pass(@), !.wait = Pass(@)]
    BY <1>5, Zenon DEF Tick
  <2> QED BY <2>1, Zenon DEF EngineFields
<1>6. ASSUME Rest
      PROVE  /\ DOMAIN eng' = EngineFields
             /\ eng'.wait = IF eng.done THEN wakeAfter(last') ELSE base
             /\ eng'.pc = "sleep" /\ eng'.out = eng.out /\ eng'.done = eng.done
             /\ eng'.hurry = urgent
  <2> DEFINE w == IF eng.done THEN wakeAfter(last') ELSE base
  <2> HIDE DEF w
  <2>1. eng' = [eng EXCEPT !.pc = "sleep", !.wait = w, !.hurry = urgent]
    BY <1>6, Zenon DEF Rest, w
  <2>2. /\ DOMAIN eng' = EngineFields /\ eng'.wait = w
        /\ eng'.pc = "sleep" /\ eng'.out = eng.out /\ eng'.done = eng.done
        /\ eng'.hurry = urgent
    BY <2>1, Zenon DEF EngineFields
  <2> QED BY <2>2, Zenon DEF w
<1>7. ASSUME EndRound
      PROVE  /\ DOMAIN eng' = EngineFields /\ eng'.wait = eng.wait
             /\ eng'.pc = "rest" /\ eng'.out = eng.out
  <2>1. \E d : eng' = [eng EXCEPT !.pc = "rest", !.left = 0, !.due = {}, !.done = d]
    BY <1>7, Zenon DEF EndRound
  <2> QED BY <2>1, Zenon DEF EngineFields
<1> QED BY <1>1, <1>2, <1>3, <1>4, <1>5, <1>6, <1>7, Zenon

\* The reading of the sources: one more of them, or the end of the round.
LEMMA GatherFacts ==
  ASSUME DOMAIN eng = EngineFields, GatherStep
  PROVE  /\ DOMAIN eng' = EngineFields /\ eng'.wait = eng.wait /\ eng.pc = "gather"
         /\ eng'.pc \in {"gather", "source", "rest"}
         /\ eng'.pc = "source" => eng'.src \in Source
         /\ \/ eng'.out = eng.out
            \/ eng.src \in DOMAIN cache /\ eng'.out = Merged(eng.out, cache[eng.src].ts)
<1>1. eng.pc = "gather" /\ eng.src \in Source
  BY Zenon DEF GatherStep
<1>2. CASE /\ Cached(eng.src)
           /\ eng' = [eng EXCEPT !.src = @ + 1, !.out = Merged(@, cache[eng.src].ts)]
  <2>1. eng.src \in DOMAIN cache
    BY <1>2, Zenon DEF Cached
  <2>2. /\ DOMAIN eng' = EngineFields /\ eng'.wait = eng.wait /\ eng'.pc = eng.pc
        /\ eng'.out = Merged(eng.out, cache[eng.src].ts)
    BY <1>2, Zenon DEF EngineFields
  <2> QED BY <1>1, <2>1, <2>2, Zenon
<1>3. CASE eng' = [eng EXCEPT !.pc = "rest", !.done = FALSE]
  BY <1>1, <1>3, Zenon DEF EngineFields
<1>4. CASE eng' = [eng EXCEPT !.pc = "source"]
  BY <1>1, <1>4, Zenon DEF EngineFields
<1> QED BY <1>2, <1>3, <1>4, Zenon DEF GatherStep

LEMMA AnswerFacts ==
  ASSUME DOMAIN eng = EngineFields, NEW failed \in BOOLEAN, SourceAnswers(failed)
  PROVE  /\ DOMAIN eng' = EngineFields /\ eng'.wait = eng.wait /\ eng.pc = "source"
         /\ eng'.pc = "gather"
         /\ \E ts \in {Nothing, lists[eng.src]} :
              /\ eng'.out = Merged(eng.out, ts)
              /\ cache' = Put(cache, eng.src, [age |-> 0, ts |-> ts, fast |-> Fast(ts)])
<1>1. eng.pc = "source"
  BY Zenon DEF SourceAnswers
<1>2. PICK ts \in {Nothing, lists[eng.src]} :
        /\ cache' = Put(cache, eng.src, [age |-> 0, ts |-> ts, fast |-> Fast(ts)])
        /\ eng' = [eng EXCEPT !.pc = "gather", !.src = @ + 1, !.out = Merged(@, ts)]
  BY Zenon DEF SourceAnswers
<1>3. /\ DOMAIN eng' = EngineFields /\ eng'.wait = eng.wait /\ eng'.pc = "gather"
      /\ eng'.out = Merged(eng.out, ts)
  BY <1>2, Zenon DEF EngineFields
<1> QED BY <1>1, <1>2, <1>3, Zenon

\* A plan with nothing due ends the round; otherwise every job waits once.
LEMMA PlanFacts ==
  ASSUME DOMAIN eng = EngineFields, Plan
  PROVE  /\ DOMAIN eng' = EngineFields /\ eng'.wait = eng.wait /\ eng.pc = "gather"
         /\ eng'.out = Nothing
         /\ \/ /\ eng'.pc = "rest" /\ UNCHANGED roundVars
               /\ \E ps : results' = Kept(results, ps)
            \/ /\ eng'.pc = "probe" /\ run' = Nothing /\ fresh' = Nothing /\ UNCHANGED results
               /\ \A q \in queue' : q.job \in jobs'
               /\ \A q, r \in queue' : q.job = r.job => q = r
<1>1. eng.pc = "gather"
  BY Zenon DEF Plan
<1> DEFINE ts == Targets(eng.out)
           due == {p \in DOMAIN ts : targetDue(p, ts[p])}
           js == {j \in Reach : j[2] \in due}
<1>2. \/ /\ results' = Kept(results, DOMAIN ts)
         /\ eng' = [eng EXCEPT !.pc = "rest", !.out = Nothing, !.done = TRUE]
         /\ UNCHANGED roundVars
      \/ /\ jobs' = js
         /\ queue' = {[job |-> j, rank |-> jobRank(ts[j[2]])] : j \in js}
         /\ run' = Nothing /\ fresh' = Nothing
         /\ eng' = [eng EXCEPT !.pc = "probe", !.out = Nothing, !.due = due]
         /\ UNCHANGED results
  BY Zenon DEF Plan
<1> HIDE DEF ts, due, js
<1>3. CASE /\ results' = Kept(results, DOMAIN ts)
           /\ eng' = [eng EXCEPT !.pc = "rest", !.out = Nothing, !.done = TRUE]
           /\ UNCHANGED roundVars
  <2>1. DOMAIN eng' = EngineFields /\ eng'.wait = eng.wait /\ eng'.out = Nothing /\ eng'.pc = "rest"
    BY <1>3, Zenon DEF EngineFields
  <2> QED BY <1>1, <1>3, <2>1, Zenon
<1>4. CASE /\ jobs' = js
           /\ queue' = {[job |-> j, rank |-> jobRank(ts[j[2]])] : j \in js}
           /\ run' = Nothing /\ fresh' = Nothing
           /\ eng' = [eng EXCEPT !.pc = "probe", !.out = Nothing, !.due = due]
           /\ UNCHANGED results
  <2>1. DOMAIN eng' = EngineFields /\ eng'.wait = eng.wait /\ eng'.out = Nothing /\ eng'.pc = "probe"
    BY <1>4, Zenon DEF EngineFields
  <2>2. \A q \in queue' : q.job \in jobs' /\ q = [job |-> q.job, rank |-> jobRank(ts[q.job[2]])]
    BY <1>4
  <2>3. \A q, r \in queue' : q.job = r.job => q = r
    BY <2>2, Zenon
  <2> QED BY <1>1, <1>4, <2>1, <2>2, <2>3, Zenon
<1> QED BY <1>2, <1>3, <1>4, Zenon

-----------------------------------------------------------------------------
(* Which probes run. *)

\* Run goes on to its next stage, or stays, and no probe starts or ends.
LEMMA RoundStill ==
  ASSUME RoundInv, UNCHANGED <<roundVars, busy, stray>>,
         \/ eng'.pc = eng.pc
         \/ eng.pc \in {"gather", "source"} /\ eng'.pc \in {"gather", "source", "rest"}
         \/ eng.pc \in {"rest", "sleep"} /\ eng'.pc \in {"sleep", "ready"}
  PROVE  RoundInv'
  BY Zenon DEF RoundInv, roundVars

\* Fewer probes run.
LEMMA FewerProbes ==
  ASSUME RoundInv, DOMAIN run' \subseteq DOMAIN run
  PROVE  IsFiniteSet(DOMAIN run') /\ Cardinality(DOMAIN run') <= Workers
<1>1. IsFiniteSet(DOMAIN run) /\ Cardinality(DOMAIN run) <= Workers
  BY Zenon DEF RoundInv
<1>2. IsFiniteSet(DOMAIN run') /\ Cardinality(DOMAIN run') <= Cardinality(DOMAIN run)
  BY <1>1, FS_Subset, Zenon
<1> QED BY <1>1, <1>2, FS_CardinalityType, ProbeAssumption

LEMMA NoProbes ==
  ASSUME DOMAIN run' = {}
  PROVE  IsFiniteSet(DOMAIN run') /\ Cardinality(DOMAIN run') = 0 /\ 0 <= Workers
  BY FS_EmptySet, ProbeAssumption

\* A worker that returns keeps its place in the round, or gives its job up.
LEMMA WorkerKeeps ==
  ASSUME RoundInv, UNCHANGED <<eng, jobs, queue, busy, stray>>, DOMAIN run' \subseteq DOMAIN run,
         \/ fresh' = fresh
         \/ \E j \in DOMAIN run \ DOMAIN run' : DOMAIN fresh' = DOMAIN fresh \cup {j}
  PROVE  RoundInv'
<1>1. IsFiniteSet(DOMAIN run') /\ Cardinality(DOMAIN run') <= Workers
  BY FewerProbes, Zenon
<1>2. DOMAIN fresh' \subseteq DOMAIN fresh \cup (DOMAIN run \ DOMAIN run')
  BY Zenon
<1>3. CASE eng.pc = "probe"
  <2>1. DOMAIN run' \subseteq jobs \ DOMAIN fresh'
    BY <1>2, <1>3, Zenon DEF RoundInv
  <2>2. \A q \in queue : q.job \in jobs \ (DOMAIN run' \cup DOMAIN fresh')
    BY <1>2, <1>3, Zenon DEF RoundInv
  <2> QED BY <1>1, <1>3, <2>1, <2>2, Zenon DEF RoundInv
<1>4. CASE eng.pc # "probe"
  BY <1>1, <1>4, Zenon DEF RoundInv
<1> QED BY <1>3, <1>4, Zenon

LEMMA RoundStep ==
  ASSUME Timed, RoundInv, ProbeNext
  PROVE  RoundInv'
<1>0. DOMAIN eng = EngineFields
  BY Zenon DEF Timed
<1>1. CASE Begin
  <2>1. eng.pc = "ready"
    BY <1>1, Zenon DEF Begin
  <2>2. CASE busy
    <3>1. UNCHANGED <<roundVars, busy, stray>> /\ eng'.pc = "rest"
      BY <1>0, <1>1, <2>2, EngineFacts, Zenon DEF Begin, roundVars
    <3> QED BY <2>1, <2>2, <3>1, Zenon DEF RoundInv, roundVars
  <2>3. CASE ~busy
    <3>1. /\ eng'.pc = "gather" /\ UNCHANGED busy /\ run' = Nothing
          /\ stray' = stray + Cardinality(DOMAIN run)
      BY <1>0, <1>1, <2>3, EngineFacts, Zenon DEF Begin
    <3>2. DOMAIN run = {} /\ stray = 0 /\ DOMAIN run' = {}
      BY <2>1, <2>3, <3>1, NothingFacts, Zenon DEF RoundInv
    <3>3. stray' = 0
      BY <3>1, <3>2, FS_EmptySet
    <3> QED BY <2>3, <3>1, <3>2, <3>3, NoProbes, Zenon DEF RoundInv
  <2> QED BY <2>2, <2>3, Zenon
<1>2. CASE GatherStep \/ SourceLate \/ SourceGivesUp \/ \E failed \in BOOLEAN : SourceAnswers(failed)
  <2>1. UNCHANGED <<roundVars, busy, stray>>
    BY <1>2, Zenon DEF GatherStep, SourceLate, SourceGivesUp, SourceAnswers
  <2>2. eng.pc \in {"gather", "source"} /\ eng'.pc \in {"gather", "source", "rest"}
    BY <1>0, <1>2, GatherFacts, AnswerFacts, EngineFacts, Zenon DEF SourceLate, SourceGivesUp
  <2> QED BY <2>1, <2>2, RoundStill, Zenon
<1>3. CASE Plan
  <2>1. UNCHANGED <<busy, stray>> /\ eng.pc = "gather"
    BY <1>3, Zenon DEF Plan
  <2>2. CASE eng'.pc = "rest" /\ UNCHANGED roundVars
    BY <2>1, <2>2, RoundStill, Zenon
  <2>3. CASE /\ eng'.pc = "probe" /\ run' = Nothing /\ fresh' = Nothing
             /\ \A q \in queue' : q.job \in jobs'
             /\ \A q, r \in queue' : q.job = r.job => q = r
    <3>1. DOMAIN run' = {} /\ DOMAIN fresh' = {} /\ ~busy' /\ stray' = 0
      BY <2>1, <2>3, NothingFacts, Zenon DEF RoundInv
    <3> QED BY <2>3, <3>1, NoProbes, Zenon DEF RoundInv
  <2> QED BY <1>0, <1>3, <2>2, <2>3, PlanFacts, Zenon
<1>4. CASE NextJob
  <2>1. PICK q \in Pick :
          /\ queue' = queue \ {q}
          /\ run' = Put(run, q.job, [st |-> "probing", slow |-> FALSE, down |-> FALSE, end |-> "full"])
    BY <1>4, Zenon DEF NextJob
  <2>2. q \in queue
    BY Zenon DEF Pick, First, Queued
  <2>3. /\ eng.pc = "probe" /\ Cardinality(DOMAIN run) < Workers
        /\ UNCHANGED <<eng, jobs, fresh, busy, stray>>
    BY <1>4, Zenon DEF NextJob, CanStart
  <2>4. DOMAIN run' = DOMAIN run \cup {q.job}
    BY <2>1, Zenon DEF Put
  <2>5. IsFiniteSet(DOMAIN run') /\ Cardinality(DOMAIN run') <= Workers
    <3>1. /\ IsFiniteSet(DOMAIN run) /\ Cardinality(DOMAIN run) \in Nat
          /\ q.job \notin DOMAIN run
      BY <2>2, <2>3, FS_CardinalityType, Zenon DEF RoundInv
    <3>2. IsFiniteSet(DOMAIN run') /\ Cardinality(DOMAIN run') = Cardinality(DOMAIN run) + 1
      BY <2>4, <3>1, FS_AddElement
    <3> QED BY <2>3, <3>1, <3>2, ProbeAssumption
  <2>6. /\ DOMAIN run' \subseteq jobs \ DOMAIN fresh
        /\ \A r \in queue' : r.job \in jobs \ (DOMAIN run' \cup DOMAIN fresh)
        /\ \A r, t \in queue' : r.job = t.job => r = t
    BY <2>1, <2>2, <2>3, <2>4 DEF RoundInv
  <2> QED BY <2>3, <2>5, <2>6, Zenon DEF RoundInv
<1>5. CASE EndRound
  <2>1. /\ eng.pc = "probe" /\ eng'.pc = "rest" /\ UNCHANGED <<run, stray>>
        /\ busy' \in IF DOMAIN fresh = jobs THEN {busy} ELSE IF run # Nothing THEN {TRUE} ELSE BOOLEAN
    BY <1>0, <1>5, EngineFacts, Zenon DEF EndRound
  <2>2. DOMAIN fresh = jobs => DOMAIN run = {}
    BY <2>1, Zenon DEF RoundInv
  <2>3. DOMAIN run' = {} \/ busy'
    BY <2>1, <2>2, NothingFacts, Zenon
  <2> QED BY <2>1, <2>3, Zenon DEF RoundInv
<1>6. CASE Rest \/ Wakeup
  <2>1. UNCHANGED <<roundVars, busy, stray>>
    BY <1>6, Zenon DEF Rest, Wakeup
  <2>2. eng.pc \in {"rest", "sleep"} /\ eng'.pc \in {"sleep", "ready"}
    BY <1>0, <1>6, EngineFacts, Zenon DEF Rest, Wakeup
  <2> QED BY <2>1, <2>2, RoundStill, Zenon
<1>7. CASE BusyClear
  <2>1. UNCHANGED <<eng, roundVars, stray>> /\ DOMAIN run = {} /\ busy /\ ~busy'
    BY <1>7, NothingFacts, Zenon DEF BusyClear
  <2> QED BY <2>1, Zenon DEF RoundInv, roundVars
<1>8. CASE Tick \/ Expire \/ Calls \/ \E r \in Source : SourceReturns(r)
  <2>1. UNCHANGED <<roundVars, busy, stray>>
    BY <1>8, Zenon DEF Tick, Expire, Calls, SourceReturns, SetUrgent, SetRetained, QueueManual, SetTiming,
       SetPathMismatch, Relist
  <2>2. eng'.pc = eng.pc
    <3>1. CASE Tick \/ Expire
      BY <1>0, <3>1, EngineFacts, Zenon
    <3>2. CASE Calls \/ \E r \in Source : SourceReturns(r)
      BY <3>2, Zenon DEF Calls, SourceReturns, SetUrgent, SetRetained, QueueManual, SetTiming,
         SetPathMismatch, Relist
    <3> QED BY <1>8, <3>1, <3>2, Zenon
  <2> QED BY <2>1, <2>2, RoundStill, Zenon
<1>9. ASSUME NEW j \in Job, Slow(j) PROVE RoundInv'
  <2>1. UNCHANGED <<eng, jobs, queue, busy, stray, fresh>> /\ DOMAIN run' = DOMAIN run
    BY <1>9, Zenon DEF Slow
  <2> QED BY <2>1, WorkerKeeps, Zenon
<1>10. ASSUME NEW j \in Job, NEW down \in BOOLEAN, Return(j, down) PROVE RoundInv'
  <2>1. UNCHANGED <<eng, jobs, queue, busy, stray, fresh>>
    BY <1>10, Zenon DEF Return
  <2>2. DOMAIN run' = DOMAIN run
    BY <1>10, Zenon DEF Return
  <2> QED BY <2>1, <2>2, WorkerKeeps, Zenon
<1>11. ASSUME NEW j \in Job, Deliver(j) PROVE RoundInv'
  <2>1. UNCHANGED <<eng, jobs, queue, busy, stray>> /\ j \in DOMAIN run
    BY <1>11, Zenon DEF Deliver
  <2>2. DOMAIN run' = DOMAIN run \ {j}
    BY <1>11, RestrictFacts, Zenon DEF Deliver
  <2>3. fresh' = fresh \/ \E v : fresh' = Put(fresh, j, v)
    BY <1>11, Zenon DEF Deliver
  <2>4. fresh' = fresh \/ DOMAIN fresh' = DOMAIN fresh \cup {j}
    BY <2>3, Zenon DEF Put
  <2> QED BY <2>1, <2>2, <2>4, WorkerKeeps, Zenon
<1>12. ASSUME NEW j \in Job, CheckDeadline(j) PROVE RoundInv'
  <2>1. UNCHANGED <<eng, jobs, queue, busy, stray, fresh>>
    BY <1>12, Zenon DEF CheckDeadline
  <2>2. DOMAIN run' \subseteq DOMAIN run
    BY <1>12, RestrictFacts, Zenon DEF CheckDeadline
  <2> QED BY <2>1, <2>2, WorkerKeeps, Zenon
<1> QED BY <1>1, <1>2, <1>3, <1>4, <1>5, <1>6, <1>7, <1>8, <1>9, <1>10, <1>11, <1>12, Zenon
  DEF ProbeNext, EngineStep

-----------------------------------------------------------------------------
(* What is stored. *)

\* Only a new round sets a deadline, and by then nothing runs; so a result that
\* was late stays late until it is dropped.
LEMMA LateStep ==
  ASSUME Timed, RoundInv, LateInv, ResultInv, ProbeNext
  PROVE  LateInv'
<1>0. DOMAIN eng = EngineFields
  BY Zenon DEF Timed
<1>1. CASE run' = run /\ (eng.left = 0 => eng'.left = 0)
  BY <1>1, Zenon DEF LateInv
<1>2. CASE DOMAIN run' = {}
  BY <1>2, Zenon DEF LateInv
<1>3. CASE Begin
  <2>1. busy => UNCHANGED run /\ eng' = [eng EXCEPT !.pc = "rest", !.done = FALSE]
    BY <1>3, Zenon DEF Begin
  <2>2. busy => eng'.left = eng.left
    BY <1>0, <2>1, Zenon DEF EngineFields
  <2>3. ~busy => DOMAIN run' = {}
    BY <1>3, NothingFacts, Zenon DEF Begin
  <2> QED BY <1>1, <1>2, <2>1, <2>2, <2>3, Zenon
<1>4. CASE GatherStep \/ SourceLate \/ SourceGivesUp \/ Plan \/ \E failed \in BOOLEAN : SourceAnswers(failed)
  <2>1. eng.pc \in {"gather", "source"} /\ (run' = run \/ run' = Nothing)
    BY <1>4, Zenon DEF GatherStep, SourceLate, SourceGivesUp, Plan, SourceAnswers, roundVars
  <2>2. DOMAIN run' = {}
    BY <2>1, NothingFacts, Zenon DEF RoundInv
  <2> QED BY <1>2, <2>2, Zenon
<1>5. CASE Rest \/ Wakeup
  <2>1. run' = run
    BY <1>5, Zenon DEF Rest, Wakeup, roundVars
  <2>2. CASE Wakeup
    BY <1>0, <1>1, <2>1, <2>2, Zenon DEF Wakeup, EngineFields
  <2>3. CASE Rest
    <3> DEFINE w == IF eng.done THEN wakeAfter(last') ELSE base
    <3> HIDE DEF w
    <3>1. eng' = [eng EXCEPT !.pc = "sleep", !.wait = w, !.hurry = urgent]
      BY <2>3, Zenon DEF Rest, w
    <3>2. eng'.left = eng.left
      BY <1>0, <3>1, Zenon DEF EngineFields
    <3> QED BY <1>1, <2>1, <3>2, Zenon
  <2> QED BY <1>5, <2>2, <2>3, Zenon
<1>6. CASE EndRound
  <2>1. run' = run /\ \E d : eng' = [eng EXCEPT !.pc = "rest", !.left = 0, !.due = {}, !.done = d]
    BY <1>6, Zenon DEF EndRound
  <2>2. eng'.left = 0
    BY <1>0, <2>1, Zenon DEF EngineFields
  <2> QED BY <1>1, <2>1, <2>2, Zenon
<1>7. CASE Expire
  <2>1. run' = run /\ eng' = [eng EXCEPT !.left = 0]
    BY <1>7, Zenon DEF Expire, roundVars
  <2>2. eng'.left = 0
    BY <1>0, <2>1, Zenon DEF EngineFields
  <2> QED BY <1>1, <2>1, <2>2, Zenon
<1>8. CASE Tick
  <2>1. run' = run /\ eng' = [eng EXCEPT !.left = Pass(@), !.wait = Pass(@)]
    BY <1>8, Zenon DEF Tick, roundVars
  <2>2. eng'.left = Pass(eng.left)
    BY <1>0, <2>1, Zenon DEF EngineFields
  <2>3. eng.left = 0 => eng'.left = 0
    BY <2>2 DEF Pass
  <2> QED BY <1>1, <2>1, <2>3, Zenon
<1>9. CASE BusyClear \/ Calls \/ \E r \in Source : SourceReturns(r)
  <2>1. UNCHANGED <<run, eng>>
    BY <1>9, Zenon DEF BusyClear, Calls, SourceReturns, SetUrgent, SetRetained, QueueManual, SetTiming,
       SetPathMismatch, Relist, roundVars
  <2> QED BY <1>1, <2>1, Zenon
<1>10. CASE NextJob
  <2> DEFINE v == [st |-> "probing", slow |-> FALSE, down |-> FALSE, end |-> "full"]
  <2>1. PICK q : run' = Put(run, q.job, v)
    BY <1>10, Zenon DEF NextJob
  <2>2. v.end # "late"
    BY Zenon
  <2>3. UNCHANGED eng
    BY <1>10, Zenon DEF NextJob
  <2> HIDE DEF v
  <2>4. \A j \in DOMAIN run' : run'[j] = v \/ (j \in DOMAIN run /\ run'[j] = run[j])
    BY <2>1, Zenon DEF Put
  <2> QED BY <2>2, <2>3, <2>4, Zenon DEF LateInv
<1>11. ASSUME NEW j \in Job, NEW v, UNCHANGED eng, run' = [run EXCEPT ![j] = v],
              v.end = "late" => v.st = "returned" /\ eng.left = 0
       PROVE  LateInv'
  <2>1. \A k \in DOMAIN run' : run'[k] = v \/ (k \in DOMAIN run /\ run'[k] = run[k])
    BY <1>11, Zenon
  <2> QED BY <1>11, <2>1, Zenon DEF LateInv
<1>12. ASSUME NEW j \in Job, run' = Restrict(run, DOMAIN run \ {j}), UNCHANGED eng
       PROVE  LateInv'
  <2>1. \A k \in DOMAIN run' : k \in DOMAIN run /\ run'[k] = run[k]
    BY <1>12, RestrictFacts
  <2> QED BY <1>12, <2>1, Zenon DEF LateInv
<1>13. ASSUME NEW j \in Job, NEW down \in BOOLEAN, Return(j, down) PROVE LateInv'
  <2>1. UNCHANGED eng
    BY <1>13, Zenon DEF Return
  <2>2. PICK e \in Ends(j, down) :
          run' = [run EXCEPT ![j] = [st |-> "returned", slow |-> FALSE, down |-> down, end |-> e]]
    BY <1>13, Zenon DEF Return
  <2>3. e = "late" => eng.left = 0
    BY <2>2, Zenon DEF Ends
  <2> DEFINE v == [st |-> "returned", slow |-> FALSE, down |-> down, end |-> e]
  <2>4. v.st = "returned" /\ v.end = e
    BY Zenon
  <2>5. run' = [run EXCEPT ![j] = v]
    BY <2>2, Zenon
  <2> HIDE DEF v
  <2> QED BY <1>11, <2>1, <2>3, <2>4, <2>5, Zenon
<1>14. ASSUME NEW j \in Job, CheckDeadline(j) PROVE LateInv'
  <2>1. j \in DOMAIN run /\ UNCHANGED eng
    BY <1>14, Zenon DEF CheckDeadline
  <2>2. CASE eng.left = 0
    BY <1>12, <1>14, <2>1, <2>2, Zenon DEF CheckDeadline
  <2>3. CASE eng.left # 0
    <3> DEFINE v == [run[j] EXCEPT !.st = "sending"]
    <3>1. run' = [run EXCEPT ![j] = v]
      BY <1>14, <2>3, Zenon DEF CheckDeadline
    <3>2. v.end = run[j].end
      BY <2>1, Zenon DEF ResultInv, Worker
    <3>3. v.end # "late"
      BY <2>1, <2>3, <3>2, Zenon DEF LateInv
    <3> HIDE DEF v
    <3> QED BY <1>11, <2>1, <3>1, <3>3, Zenon
  <2> QED BY <2>2, <2>3, Zenon
<1>15. ASSUME NEW j \in Job, Slow(j) PROVE LateInv'
  <2>1. j \in DOMAIN run /\ run[j].st = "probing" /\ UNCHANGED eng
    BY <1>15, Zenon DEF Slow
  <2> DEFINE v == [run[j] EXCEPT !.slow = TRUE]
  <2>2. run' = [run EXCEPT ![j] = v]
    BY <1>15, Zenon DEF Slow
  <2>3. v.end = run[j].end
    BY <2>1, Zenon DEF ResultInv, Worker
  <2>4. v.end # "late"
    BY <2>1, <2>3, Zenon DEF LateInv
  <2> HIDE DEF v
  <2> QED BY <1>11, <2>1, <2>2, <2>4, Zenon
<1>16. ASSUME NEW j \in Job, Deliver(j) PROVE LateInv'
  <2>1. run' = Restrict(run, DOMAIN run \ {j}) /\ UNCHANGED eng
    BY <1>16, Zenon DEF Deliver
  <2> QED BY <1>12, <2>1, Zenon
<1> QED BY <1>3, <1>4, <1>5, <1>6, <1>7, <1>8, <1>9, <1>10, <1>13, <1>14, <1>15, <1>16, Zenon
  DEF ProbeNext, EngineStep

LEMMA ResultStep ==
  ASSUME Timed, RoundInv, LateInv, ResultInv, ProbeNext
  PROVE  ResultInv'
<1>0. DOMAIN eng = EngineFields
  BY Zenon DEF Timed
<1>1. CASE /\ UNCHANGED <<run, fresh, results, srcDown, pathDown, up>>
  BY <1>1, Zenon DEF ResultInv
<1>2. CASE Begin
  <2>1. UNCHANGED <<fresh, results, srcDown, pathDown, up>> /\ (run' = run \/ DOMAIN run' = {})
    BY <1>2, NothingFacts, Zenon DEF Begin, storeVars
  <2> QED BY <2>1, Zenon DEF ResultInv
<1>3. CASE Plan
  <2>1. UNCHANGED <<srcDown, pathDown, up>>
    BY <1>3, Zenon DEF Plan
  <2>2. CASE UNCHANGED roundVars /\ \E ps : results' = Kept(results, ps)
    <3>1. PICK ps : results' = Kept(results, ps)
      BY <2>2, Zenon
    <3>2. /\ DOMAIN results' \subseteq DOMAIN results
          /\ \A j \in DOMAIN results' : results'[j] = results[j]
      BY <3>1, RestrictFacts DEF Kept
    <3> QED BY <2>1, <2>2, <3>2, Zenon DEF ResultInv, roundVars
  <2>3. CASE run' = Nothing /\ fresh' = Nothing /\ UNCHANGED results
    <3>1. DOMAIN run' = {} /\ DOMAIN fresh' = {}
      BY <2>3, NothingFacts, Zenon
    <3> QED BY <2>1, <2>3, <3>1, Zenon DEF ResultInv
  <2> QED BY <1>0, <1>3, <2>2, <2>3, PlanFacts, Zenon
<1>4. CASE NextJob
  <2> DEFINE v == [st |-> "probing", slow |-> FALSE, down |-> FALSE, end |-> "full"]
  <2>1. v \in Worker
    BY Zenon DEF Worker
  <2>2. PICK q : run' = Put(run, q.job, v)
    BY <1>4, Zenon DEF NextJob
  <2> HIDE DEF v
  <2>3. \A j \in DOMAIN run' : run'[j] = v \/ (j \in DOMAIN run /\ run'[j] = run[j])
    BY <2>2, Zenon DEF Put
  <2>4. UNCHANGED <<fresh, results, srcDown, pathDown, up>>
    BY <1>4, Zenon DEF NextJob, storeVars
  <2> QED BY <2>1, <2>3, <2>4, Zenon DEF ResultInv
<1>5. ASSUME NEW j \in Job, Slow(j) PROVE ResultInv'
  <2>1. /\ run' = [run EXCEPT ![j].slow = TRUE] /\ j \in DOMAIN run
        /\ UNCHANGED <<fresh, results, srcDown, pathDown, up>>
    BY <1>5, Zenon DEF Slow, storeVars
  <2>2. \A k \in DOMAIN run' : run'[k] \in Worker
    BY <2>1, ZenonT(60) DEF ResultInv, Worker
  <2> QED BY <2>1, <2>2, Zenon DEF ResultInv
<1>6. ASSUME NEW j \in Job, NEW down \in BOOLEAN, Return(j, down) PROVE ResultInv'
  <2>1. UNCHANGED <<fresh, results, srcDown, pathDown, up>>
    BY <1>6, Zenon DEF Return, storeVars
  <2>2. PICK e \in {"full", "reads", "late"} :
          run' = [run EXCEPT ![j] = [st |-> "returned", slow |-> FALSE, down |-> down, end |-> e]]
    BY <1>6, Zenon DEF Return, Ends
  <2>3. [st |-> "returned", slow |-> FALSE, down |-> down, end |-> e] \in Worker
    BY Zenon DEF Worker
  <2>4. \A k \in DOMAIN run' : run'[k] \in Worker
    BY <2>2, <2>3, Zenon DEF ResultInv
  <2> QED BY <2>1, <2>4, Zenon DEF ResultInv
<1>11. ASSUME NEW j \in Job, CheckDeadline(j) PROVE ResultInv'
  <2>1. UNCHANGED <<fresh, results, srcDown, pathDown, up>> /\ j \in DOMAIN run
    BY <1>11, Zenon DEF CheckDeadline, storeVars
  <2>2. \A k \in DOMAIN run' : run'[k] \in Worker
    <3>1. CASE run' = Restrict(run, DOMAIN run \ {j})
      BY <3>1, RestrictFacts DEF ResultInv
    <3>2. CASE run' = [run EXCEPT ![j].st = "sending"]
      BY <2>1, <3>2, ZenonT(60) DEF ResultInv, Worker
    <3> QED BY <1>11, <3>1, <3>2, Zenon DEF CheckDeadline
  <2> QED BY <2>1, <2>2, Zenon DEF ResultInv
<1>7. ASSUME NEW j \in Job, Deliver(j) PROVE ResultInv'
  <2>1. /\ UNCHANGED <<results, srcDown, pathDown, up>> /\ j \in DOMAIN run
        /\ run' = Restrict(run, DOMAIN run \ {j}) /\ run[j].st = "sending"
    BY <1>7, Zenon DEF Deliver, storeVars
  <2>2. \A k \in DOMAIN run' : run'[k] \in Worker
    BY <2>1, RestrictFacts DEF ResultInv
  <2> DEFINE v == [down |-> run[j].down, end |-> run[j].end]
  <2>3. v \in [down : BOOLEAN, end : {"full", "reads"}]
    <3>1. run[j] \in Worker /\ run[j].end # "late"
      BY <2>1, Zenon DEF ResultInv, LateInv
    <3>2. run[j].down \in BOOLEAN /\ run[j].end \in {"full", "reads"}
      BY <3>1, Zenon DEF Worker
    <3> QED BY <3>2, Zenon
  <2>4. fresh' = fresh \/ fresh' = Put(fresh, j, v)
    BY <1>7, Zenon DEF Deliver
  <2> HIDE DEF v
  <2>5. \A k \in DOMAIN fresh' : fresh'[k] = v \/ (k \in DOMAIN fresh /\ fresh'[k] = fresh[k])
    BY <2>4 DEF Put
  <2> QED BY <2>1, <2>2, <2>3, <2>5, Zenon DEF ResultInv
<1>8. CASE EndRound
  <2>1. run' = run /\ fresh' = Nothing /\ DOMAIN fresh' = {} /\ UNCHANGED pathDown
    BY <1>8, NothingFacts, Zenon DEF EndRound
  <2>2. CASE UNCHANGED storeVars
    BY <2>1, <2>2, Zenon DEF ResultInv, storeVars
  <2>3. CASE Store(fresh) /\ applyStatus(fresh)
    <3> DEFINE old == [j \in DOMAIN results |->
                        [results[j] EXCEPT !.new = @ /\ \A k \in DOMAIN fresh : k[1] # j[1]]]
               new == [j \in DOMAIN fresh |->
                        [down |-> fresh[j].down, end |-> fresh[j].end, new |-> TRUE]]
               R == [down : BOOLEAN, end : {"full", "reads"}, new : BOOLEAN]
    <3>1. \A j \in DOMAIN fresh : new[j] \in R /\ new[j].down = fresh[j].down
      BY Zenon DEF ResultInv
    <3>2. \A j \in DOMAIN results :
            /\ old[j] \in R /\ old[j].down = results[j].down
            /\ old[j].new => results[j].new /\ \A k \in DOMAIN fresh : k[1] # j[1]
      BY Zenon DEF ResultInv
    <3>3. results' = Kept(Over(new, old), DOMAIN cadence)
      BY <2>3, Zenon DEF Store
    <3>4. DOMAIN new = DOMAIN fresh /\ DOMAIN old = DOMAIN results
      BY Zenon
    <3>5. /\ srcDown' = {v \in srcDown : \A j \in DOMAIN fresh : j[1] # v}
                          \cup {j[1] : j \in {k \in DOMAIN fresh : fresh[k].down}}
          /\ up' = Provider \ (srcDown' \cup pathDown)
      BY <2>3, Zenon DEF applyStatus
    <3> HIDE DEF old, new
    <3>6. /\ DOMAIN results' \subseteq DOMAIN fresh \cup DOMAIN results
          /\ \A j \in DOMAIN results' :
               results'[j] = IF j \in DOMAIN fresh THEN new[j] ELSE old[j]
      BY <3>3, <3>4, Zenon DEF Kept, Over, Restrict
    <3>7. ASSUME NEW j \in DOMAIN results'
          PROVE  results'[j] \in R /\ (results'[j].new /\ results'[j].down => j[1] \in srcDown')
      <4> HIDE DEF R
      <4>1. CASE j \in DOMAIN fresh
        BY <3>1, <3>5, <3>6, <4>1, Zenon
      <4>2. CASE j \in DOMAIN results \ DOMAIN fresh
        <5>1. results'[j] = old[j]
          BY <3>6, <4>2, Zenon
        <5>2. results[j].new /\ results[j].down => j[1] \in srcDown
          BY <4>2, Zenon DEF ResultInv
        <5> QED BY <3>2, <3>5, <4>2, <5>1, <5>2, Zenon
      <4> QED BY <3>6, <4>1, <4>2, Zenon
    <3> QED BY <2>1, <3>5, <3>7, Zenon DEF ResultInv
  <2> QED BY <1>8, <2>2, <2>3, Zenon DEF EndRound
<1>9. CASE \E v \in Provider, m \in BOOLEAN : SetPathMismatch(v, m)
  <2>1. UNCHANGED <<run, fresh, results, srcDown>> /\ up' = Provider \ (srcDown' \cup pathDown')
    BY <1>9, Zenon DEF SetPathMismatch, roundVars
  <2> QED BY <2>1, Zenon DEF ResultInv
<1>10. CASE \/ GatherStep \/ SourceLate \/ SourceGivesUp \/ Rest \/ Wakeup \/ BusyClear \/ Tick \/ Expire
            \/ \E failed \in BOOLEAN : SourceAnswers(failed)
            \/ \E r \in Source : SourceReturns(r)
            \/ \E ps \in SUBSET Prefix : SetUrgent(ps) \/ SetRetained(ps)
            \/ \E p \in Prefix : QueueManual(p)
            \/ \E i \in Intervals : SetTiming(i)
            \/ \E r \in Source, ts \in Lists : Relist(r, ts)
  <2>1. UNCHANGED <<roundVars, storeVars, pathDown>>
    BY <1>10, Zenon DEF GatherStep, SourceLate, SourceGivesUp, Rest, Wakeup, BusyClear, Tick, Expire, SourceAnswers,
       SourceReturns, SetUrgent, SetRetained, QueueManual, SetTiming, Relist
  <2> QED BY <1>1, <2>1, Zenon DEF roundVars, storeVars
<1> QED BY <1>2, <1>3, <1>4, <1>5, <1>6, <1>7, <1>8, <1>9, <1>10, <1>11, Zenon
  DEF ProbeNext, EngineStep, Calls

-----------------------------------------------------------------------------
(* When the engine wakes. *)

LEMMA GapFacts ==
  ASSUME NEW i \in Nat
  PROVE  confirmProbeGap(i) \in Nat /\ confirmProbeGap(i) <= i
  BY DEF confirmProbeGap

LEMMA MergedList ==
  ASSUME NEW a, NEW b, IsList(a), IsList(b)
  PROVE  IsList(Merged(a, b))
<1> SUFFICES ASSUME NEW p \in DOMAIN a \cup DOMAIN b
             PROVE  Merged(a, b)[p] \in [every : Nat, urgent : BOOLEAN]
  BY Zenon DEF IsList, Merged
<1>1. CASE p \notin DOMAIN b
  BY <1>1, Zenon DEF IsList, Merged
<1>2. CASE p \in DOMAIN b /\ p \notin DOMAIN a
  BY <1>2, Zenon DEF IsList, Merged
<1>3. CASE p \in DOMAIN a \cap DOMAIN b
  <2>1. Merged(a, b)[p] = [every |-> shortenInterval(a[p].every, b[p].every),
                           urgent |-> a[p].urgent \/ b[p].urgent]
    BY <1>3, Zenon DEF Merged
  <2>2. shortenInterval(a[p].every, b[p].every) \in Nat
    BY <1>3, Zenon DEF IsList, shortenInterval
  <2> QED BY <2>1, <2>2
<1> QED BY <1>1, <1>2, <1>3, Zenon

\* What a round aims at: each stage keeps the intervals or adds some.
LEMMA TargetsList ==
  ASSUME NEW got, IsList(got), \A p \in DOMAIN memory : memory[p] \in Nat
  PROVE  IsList(Targets(got)) /\ \A p \in DOMAIN Remembered(got) : Remembered(got)[p] \in Nat
<1> DEFINE a == keepImproved(got)
           b == applyUrgent(a)
           c == applyManual(b, Unexpired)
<1>1. IsList(a)
  BY Zenon DEF IsList, keepImproved, Over
<1>2. IsList(b)
  <2> HIDE DEF a
  <2> QED BY <1>1, Zenon DEF IsList, applyUrgent
<1>3. IsList(c)
  <2> HIDE DEF b
  <2> DEFINE asked == {p \in DOMAIN Unexpired : ~Unexpired[p].probed}
             f == [p \in DOMAIN b |-> [b[p] EXCEPT !.urgent = @ \/ p \in asked]]
             g == [p \in DOMAIN Unexpired |-> [every |-> 0, urgent |-> p \in asked]]
  <2>1. \A p \in DOMAIN f : f[p] \in [every : Nat, urgent : BOOLEAN]
    BY <1>2, Zenon DEF IsList
  <2>2. \A p \in DOMAIN g : g[p] \in [every : Nat, urgent : BOOLEAN]
    OBVIOUS
  <2>3. c = Over(f, g)
    BY Zenon DEF applyManual
  <2> HIDE DEF c, f, g
  <2> QED BY <2>1, <2>2, <2>3, Zenon DEF IsList, Over
<1>4. IsList(Targets(got))
  <2>1. Targets(got) = Restrict(c, DOMAIN c \ Barred)
    BY Zenon DEF Targets
  <2> HIDE DEF c
  <2> QED BY <1>3, <2>1, Zenon DEF IsList, Restrict
<1>5. \A p \in DOMAIN Remembered(got) : Remembered(got)[p] \in Nat
  BY Zenon DEF Remembered, IsList
<1> QED BY <1>4, <1>5, Zenon

LEMMA PaceFacts ==
  ASSUME cadence \in [DOMAIN cadence -> Nat], NEW p \in DOMAIN cadence, NEW U
  PROVE  Pace(p, U) \in Nat
  BY GapFacts DEF Pace

\* wakeAfter is no later than any prefix is due, of those that are urgent at its
\* call after the gap.
LEMMA WakeFacts ==
  ASSUME NEW seen, \A p \in DOMAIN seen : seen[p] \in Nat, base \in Nat,
         cadence \in [DOMAIN cadence -> Nat]
  PROVE  /\ wakeAfter(seen) \in Nat
         /\ \A p \in DOMAIN cadence :
              wakeAfter(seen) <= IF p \in DOMAIN seen THEN Left(seen[p], Pace(p, urgent)) ELSE 0
<1> DEFINE wait(p) == IF p \in DOMAIN seen THEN Left(seen[p], Pace(p, urgent)) ELSE 0
           S == {wait(p) : p \in DOMAIN cadence}
<1>1. \A p \in DOMAIN cadence : wait(p) \in Nat
  <2> SUFFICES ASSUME NEW p \in DOMAIN cadence PROVE wait(p) \in Nat
    BY Zenon
  <2>1. Pace(p, urgent) \in Nat
    BY PaceFacts, Zenon
  <2>2. CASE p \in DOMAIN seen
    <3>1. seen[p] \in Nat /\ wait(p) = Left(seen[p], Pace(p, urgent))
      BY <2>2, Zenon
    <3>2. Left(seen[p], Pace(p, urgent))
            = IF seen[p] < Pace(p, urgent) THEN Pace(p, urgent) - seen[p] ELSE 0
      BY <2>1, <3>1, LeftFacts, Zenon
    <3> HIDE DEF wait
    <3> QED BY <2>1, <3>1, <3>2
  <2>3. CASE p \notin DOMAIN seen
    BY <2>3
  <2> QED BY <2>2, <2>3, Zenon
<1>2. CASE cadence = Nothing
  BY <1>2, NothingFacts, Zenon DEF wakeAfter
<1>3. CASE cadence # Nothing
  <2>1. wakeAfter(seen) = Min(S)
    BY <1>3, Zenon DEF wakeAfter
  <2>2. \A p \in DOMAIN cadence : wait(p) \in S
    BY Zenon
  <2> HIDE DEF wait
  <2>3. S \in SUBSET Nat
    BY <1>1, Zenon
  <2> HIDE DEF S
  <2>4. CASE S # {}
    <3>1. Min(S) \in Nat /\ \A y \in S : Min(S) <= y
      BY <2>3, <2>4, MinFacts, Zenon
    <3>2. \A p \in DOMAIN cadence : Min(S) <= wait(p)
      BY <2>2, <3>1, Zenon
    <3> QED BY <2>1, <3>1, <3>2, Zenon DEF wait
  <2>5. CASE S = {}
    <3>1. DOMAIN cadence = {}
      BY <2>2, <2>5, Zenon
    <3>2. cadence = Nothing
      BY <3>1, Zenon DEF Nothing
    <3> QED BY <1>3, <3>2, Zenon
  <2> QED BY <2>4, <2>5, Zenon
<1> QED BY <1>2, <1>3, Zenon

\* A step that leaves all of it alone but eng, which stays as typed.
LEMMA TimedStill ==
  ASSUME Timed, UNCHANGED <<lists, cache, base, memory, cadence, last>>,
         DOMAIN eng' = EngineFields, eng'.wait \in Nat, IsList(eng'.out),
         eng'.pc = "source" => eng'.src \in Source
  PROVE  Timed'
  BY Zenon DEF Timed

LEMMA TimedStep ==
  ASSUME Timed, ProbeNext
  PROVE  Timed'
<1>0. DOMAIN eng = EngineFields /\ eng.wait \in Nat /\ IsList(eng.out)
  BY Zenon DEF Timed
<1>1. CASE Begin \/ SourceLate \/ SourceGivesUp \/ Wakeup \/ Expire
  <2>1. UNCHANGED <<lists, cache, base, memory, cadence, last>>
    BY <1>1, Zenon DEF Begin, SourceLate, SourceGivesUp, Wakeup, Expire, askVars, srcVars
  <2>2. /\ DOMAIN eng' = EngineFields /\ eng'.wait \in Nat /\ IsList(eng'.out)
        /\ eng'.pc = "source" => eng'.src \in Source
    BY <1>0, <1>1, EngineFacts, NothingFacts DEF Expire
  <2> QED BY <2>1, <2>2, TimedStill, Zenon
<1>2. CASE EndRound
  <2>1. DOMAIN eng' = EngineFields /\ eng'.wait \in Nat /\ IsList(eng'.out) /\ eng'.pc = "rest"
    BY <1>0, <1>2, EngineFacts, Zenon
  <2>2. UNCHANGED <<srcVars, base, memory, cadence>>
    BY <1>2, Zenon DEF EndRound
  <2>3. \A p \in DOMAIN last' : last'[p] \in Nat
    BY <1>2 DEF EndRound, rememberProbes, Timed
  <2> QED BY <2>1, <2>2, <2>3, Zenon DEF Timed, srcVars
<1>3. CASE GatherStep
  <2>1. UNCHANGED <<lists, cache, base, memory, cadence, last>>
    BY <1>3, Zenon DEF GatherStep, askVars
  <2>2. /\ DOMAIN eng' = EngineFields /\ eng'.wait \in Nat
        /\ eng'.pc = "source" => eng'.src \in Source
        /\ \/ eng'.out = eng.out
           \/ eng.src \in DOMAIN cache /\ eng'.out = Merged(eng.out, cache[eng.src].ts)
    BY <1>0, <1>3, GatherFacts, Zenon
  <2>3. IsList(eng'.out)
    BY <1>0, <2>2, MergedList, Zenon DEF Timed
  <2> QED BY <2>1, <2>2, <2>3, Zenon DEF Timed
<1>4. ASSUME NEW failed \in BOOLEAN, SourceAnswers(failed) PROVE Timed'
  <2>1. UNCHANGED <<lists, base, memory, cadence, last>> /\ DOMAIN eng' = EngineFields
        /\ eng'.wait \in Nat /\ eng'.pc = "gather" /\ eng.pc = "source"
    BY <1>0, <1>4, AnswerFacts, Zenon DEF SourceAnswers, askVars
  <2>2. PICK ts \in {Nothing, lists[eng.src]} :
          /\ eng'.out = Merged(eng.out, ts)
          /\ cache' = Put(cache, eng.src, [age |-> 0, ts |-> ts, fast |-> Fast(ts)])
    BY <1>0, <1>4, AnswerFacts, Zenon
  <2>3. IsList(ts)
    BY <2>1, NothingFacts, Zenon DEF Timed
  <2>4. IsList(eng'.out)
    BY <1>0, <2>2, <2>3, MergedList, Zenon
  <2> DEFINE v == [age |-> 0, ts |-> ts, fast |-> Fast(ts)]
  <2>5. DOMAIN v = {"age", "ts", "fast"} /\ v.ts = ts
    BY Zenon
  <2>6. cache' = Put(cache, eng.src, v)
    BY <2>2, Zenon
  <2> HIDE DEF v
  <2>7. \A r \in DOMAIN cache' : DOMAIN cache'[r] = {"age", "ts", "fast"} /\ IsList(cache'[r].ts)
    <3>1. \A r \in DOMAIN cache' : cache'[r] = v \/ (r \in DOMAIN cache /\ cache'[r] = cache[r])
      BY <2>6, Zenon DEF Put
    <3> HIDE DEF IsList
    <3> QED BY <2>3, <2>5, <3>1, Zenon DEF Timed
  <2> QED BY <2>1, <2>4, <2>7, Zenon DEF Timed
<1>5. CASE Plan
  <2>1. /\ UNCHANGED <<srcVars, base, last>> /\ DOMAIN eng' = EngineFields
        /\ eng'.wait \in Nat /\ IsList(eng'.out) /\ eng'.pc # "source"
    BY <1>0, <1>5, PlanFacts, NothingFacts, Zenon DEF Plan
  <2>2. /\ cadence' = [p \in DOMAIN Targets(eng.out) |-> Every(Targets(eng.out)[p].every)]
        /\ memory' = Remembered(eng.out)
    BY <1>5, Zenon DEF Plan
  <2>3. IsList(Targets(eng.out)) /\ \A p \in DOMAIN memory' : memory'[p] \in Nat
    BY <1>0, <2>2, TargetsList, Zenon DEF Timed
  <2>4. \A p \in DOMAIN Targets(eng.out) : Every(Targets(eng.out)[p].every) \in Nat
    BY <2>3, Zenon DEF Timed, IsList, Every
  <2>5. cadence' \in [DOMAIN cadence' -> Nat]
    BY <2>2, <2>4, Zenon
  <2> QED BY <2>1, <2>3, <2>5, Zenon DEF Timed, srcVars
<1>6. CASE Rest
  <2>1. /\ UNCHANGED <<srcVars, base, memory, cadence>> /\ DOMAIN eng' = EngineFields
        /\ eng'.wait = (IF eng.done THEN wakeAfter(last') ELSE base)
        /\ IsList(eng'.out) /\ eng'.pc = "sleep"
    BY <1>0, <1>6, EngineFacts, Zenon DEF Rest, askVars
  <2>2. \A p \in DOMAIN last' : last'[p] \in Nat
    BY <1>6, Zenon DEF Rest, Restrict, Timed
  <2>3. wakeAfter(last') \in Nat
    BY <2>2, WakeFacts, Zenon DEF Timed
  <2> QED BY <2>1, <2>2, <2>3, Zenon DEF Timed, srcVars
<1>7. CASE Tick
  <2>1. /\ UNCHANGED <<lists, base, memory, cadence>> /\ DOMAIN eng' = EngineFields
        /\ eng'.wait = Pass(eng.wait) /\ IsList(eng'.out)
        /\ eng'.pc = eng.pc /\ eng'.src = eng.src
        /\ last' = [p \in DOMAIN last |-> Older(last[p])]
        /\ cache' = [r \in DOMAIN cache |-> [cache[r] EXCEPT !.age = Older(@)]]
    BY <1>0, <1>7, EngineFacts, Zenon DEF Tick
  <2>2. eng'.wait \in Nat /\ \A p \in DOMAIN last' : last'[p] \in Nat
    BY <1>0, <2>1 DEF Pass, Older, Timed
  <2>3. \A r \in DOMAIN cache' : DOMAIN cache'[r] = {"age", "ts", "fast"} /\ IsList(cache'[r].ts)
    <3>1. ASSUME NEW r \in DOMAIN cache'
          PROVE  DOMAIN cache'[r] = DOMAIN cache[r] /\ cache'[r].ts = cache[r].ts
      BY <2>1, <3>1, Zenon DEF Timed
    <3> HIDE DEF IsList
    <3> QED BY <2>1, <3>1, Zenon DEF Timed
  <2> QED BY <2>1, <2>2, <2>3, Zenon DEF Timed
<1>8. CASE \/ NextJob \/ BusyClear
           \/ \E r \in Source : SourceReturns(r)
           \/ \E j \in Job : Slow(j) \/ CheckDeadline(j) \/ Deliver(j) \/ \E down \in BOOLEAN : Return(j, down)
           \/ \E ps \in SUBSET Prefix : SetUrgent(ps) \/ SetRetained(ps)
           \/ \E p \in Prefix : QueueManual(p)
           \/ \E v \in Provider, m \in BOOLEAN : SetPathMismatch(v, m)
  <2>1. UNCHANGED <<lists, cache, eng, base, memory, cadence, last>>
    BY <1>8, Zenon DEF NextJob, BusyClear, SourceReturns, Slow, CheckDeadline, Deliver, Return, SetUrgent, SetRetained,
       QueueManual, SetPathMismatch, srcVars, askVars
  <2> QED BY <2>1, Zenon DEF Timed
<1>9. ASSUME NEW i \in Intervals, SetTiming(i) PROVE Timed'
  <2>1. UNCHANGED <<lists, cache, eng, memory, cadence, last>> /\ base' \in Nat
    BY <1>9, ProbeAssumption, Zenon DEF SetTiming, srcVars, askVars
  <2> QED BY <2>1, Zenon DEF Timed
<1>10. ASSUME NEW r \in Source, NEW ts \in Lists, Relist(r, ts) PROVE Timed'
  <2>1. UNCHANGED <<cache, eng, base, memory, cadence, last>> /\ lists' = [lists EXCEPT ![r] = ts]
    BY <1>10, Zenon DEF Relist, askVars
  <2>2. IsList(ts)
    BY ProbeAssumption, Zenon
  <2>3. DOMAIN lists' = Source /\ \A t \in Source : lists'[t] = ts \/ lists'[t] = lists[t]
    BY <2>1, Zenon DEF Timed
  <2> HIDE DEF IsList
  <2> QED BY <2>1, <2>2, <2>3, Zenon DEF Timed
<1> QED BY <1>1, <1>2, <1>3, <1>4, <1>5, <1>6, <1>7, <1>8, <1>9, <1>10, Zenon
  DEF ProbeNext, EngineStep, Calls

\* While the engine sleeps its wait and the time until a prefix is due run
\* down together.
LEMMA SleepStep ==
  ASSUME Timed, Timed', NotOverslept, ProbeNext
  PROVE  NotOverslept'
<1>0. DOMAIN eng = EngineFields /\ eng.wait \in Nat
  BY Zenon DEF Timed
<1>1. CASE eng'.pc # "sleep"
  BY <1>1, Zenon DEF NotOverslept, Asleep
<1>2. CASE UNCHANGED <<eng, last, cadence>> /\ (wake => wake')
  BY <1>2, Zenon DEF NotOverslept, Asleep, UntilDue, Pace
<1>3. CASE Rest
  <2>1. /\ UNCHANGED <<base, cadence, urgent>> /\ eng'.hurry = urgent
        /\ eng'.done = eng.done /\ eng'.wait = IF eng.done THEN wakeAfter(last') ELSE base
    BY <1>0, <1>3, EngineFacts, Zenon DEF Rest
  <2>2. \A p \in DOMAIN cadence :
          wakeAfter(last') <= IF p \in DOMAIN last' THEN Left(last'[p], Pace(p, urgent)) ELSE 0
    BY WakeFacts, Zenon DEF Timed
  <2>3. \A p : Pace(p, eng.hurry)' = Pace(p, urgent)
    BY <2>1, Zenon DEF Pace
  <2> QED BY <2>1, <2>2, <2>3, Zenon DEF NotOverslept, Asleep, UntilDue
<1>4. CASE Tick
  <2>1. /\ UNCHANGED <<cadence, wake>> /\ eng'.pc = eng.pc /\ eng'.done = eng.done
        /\ eng'.hurry = eng.hurry
        /\ eng'.wait = Pass(eng.wait) /\ last' = [p \in DOMAIN last |-> Older(last[p])]
    BY <1>0, <1>4, EngineFacts, Zenon DEF Tick
  <2>9. \A p : Pace(p, eng.hurry)' = Pace(p, eng.hurry)
    BY <2>1, Zenon DEF Pace
  <2> SUFFICES ASSUME eng.pc = "sleep", eng.done, ~wake, NEW p \in DOMAIN cadence
               PROVE  eng'.wait <= IF p \in DOMAIN last' THEN Left(last'[p], Pace(p, eng.hurry)) ELSE 0
    BY <2>1, <2>9, Zenon DEF NotOverslept, Asleep, UntilDue
  <2> DEFINE i == Pace(p, eng.hurry)
  <2>2. eng.wait > 0
    BY <1>4, Zenon DEF Tick
  <2>3. eng.wait <= IF p \in DOMAIN last THEN Left(last[p], i) ELSE 0
    BY Zenon DEF NotOverslept, Asleep, UntilDue
  <2>4. p \in DOMAIN last /\ eng.wait <= Left(last[p], i)
    BY <1>0, <2>2, <2>3
  <2>5. last[p] \in Nat /\ i \in Nat /\ last'[p] = Older(last[p]) /\ p \in DOMAIN last'
    BY <2>1, <2>4, PaceFacts, Zenon DEF Timed
  <2> HIDE DEF i
  <2>6. last'[p] \in Nat /\ last'[p] <= last[p] + 1 /\ eng'.wait = eng.wait - 1
    BY <1>0, <2>1, <2>2, <2>5 DEF Older, Pass
  <2>7. /\ Left(last[p], i) = IF last[p] < i THEN i - last[p] ELSE 0
        /\ Left(last'[p], i) = IF last'[p] < i THEN i - last'[p] ELSE 0
    BY <2>5, <2>6, LeftFacts, Zenon
  <2>8. eng'.wait <= Left(last'[p], i)
    <3> HIDE DEF Left
    <3> QED BY <1>0, <2>2, <2>4, <2>5, <2>6, <2>7
  <2> QED BY <2>5, <2>8, Zenon DEF i
<1>5. CASE Expire
  <2>1. eng'.pc # "sleep"
    BY <1>0, <1>5, EngineFacts, Zenon DEF Expire
  <2> QED BY <1>1, <2>1, Zenon
<1>6. CASE Begin \/ SourceLate \/ SourceGivesUp \/ Wakeup \/ EndRound
  <2>1. eng'.pc # "sleep"
    BY <1>0, <1>6, EngineFacts, Zenon
  <2> QED BY <1>1, <2>1, Zenon
<1>7. CASE GatherStep \/ Plan \/ \E failed \in BOOLEAN : SourceAnswers(failed)
  <2>1. eng'.pc # "sleep"
    BY <1>0, <1>7, GatherFacts, PlanFacts, AnswerFacts, Zenon
  <2> QED BY <1>1, <2>1, Zenon
<1>8. CASE \/ NextJob \/ BusyClear
           \/ \E r \in Source : SourceReturns(r)
           \/ \E j \in Job : Slow(j) \/ CheckDeadline(j) \/ Deliver(j) \/ \E down \in BOOLEAN : Return(j, down)
           \/ Calls
  <2>1. UNCHANGED <<eng, last, cadence>>
    BY <1>8, Zenon DEF NextJob, BusyClear, SourceReturns, Slow, CheckDeadline, Deliver, Return, Calls, SetUrgent,
       SetRetained, QueueManual, SetPathMismatch, SetTiming, Relist
  <2>2. wake => wake'
    <3>1. ASSUME NEW ps \in SUBSET Prefix, SetUrgent(ps) PROVE wake => wake'
      BY <3>1, Zenon DEF SetUrgent
    <3>2. ASSUME NEW q \in Prefix, QueueManual(q) PROVE wake => wake'
      BY <3>2, Zenon DEF QueueManual
    <3> QED BY <1>8, <3>1, <3>2, Zenon DEF NextJob, BusyClear, SourceReturns, Slow, CheckDeadline, Deliver, Return,
       Calls, SetRetained, SetPathMismatch, SetTiming, Relist
  <2> QED BY <1>2, <2>1, <2>2, Zenon
<1> QED BY <1>3, <1>4, <1>5, <1>6, <1>7, <1>8, Zenon DEF ProbeNext, EngineStep

-----------------------------------------------------------------------------

LEMMA ProbeStart == ProbeInit => Timed /\ RoundInv /\ LateInv /\ ResultInv /\ NotOverslept
<1> SUFFICES ASSUME ProbeInit PROVE Timed /\ RoundInv /\ LateInv /\ ResultInv /\ NotOverslept
  BY Zenon
<1>1. /\ eng.pc = "ready" /\ DOMAIN eng = EngineFields /\ eng.out = Nothing /\ eng.wait = 0
      /\ run = Nothing /\ fresh = Nothing /\ results = Nothing /\ stray = 0
      /\ cache = Nothing /\ memory = Nothing /\ cadence = Nothing /\ last = Nothing
      /\ srcDown = {} /\ pathDown = {} /\ up = Provider
  BY DEF ProbeInit, EngineFields
<1>2. base \in Nat /\ DOMAIN lists = Source /\ \A i \in Source : IsList(lists[i])
  BY ProbeAssumption, Zenon DEF ProbeInit
<1>3. Nothing \in [DOMAIN Nothing -> Nat]
  BY Zenon DEF Nothing
<1>4. Timed
  BY <1>1, <1>2, <1>3, NothingFacts DEF Timed
<1>5. RoundInv
  BY <1>1, NothingFacts, FS_EmptySet, ProbeAssumption DEF RoundInv
<1>6. LateInv /\ ResultInv
  BY <1>1, NothingFacts, Zenon DEF LateInv, ResultInv
<1>7. NotOverslept
  BY <1>1, Zenon DEF NotOverslept, Asleep
<1> QED BY <1>4, <1>5, <1>6, <1>7, Zenon

\* The inductive invariant of the engine.
THEOREM ProbeInvariant ==
  ProbeSpec => [](Timed /\ RoundInv /\ LateInv /\ ResultInv /\ NotOverslept)
<1> DEFINE Inv == Timed /\ RoundInv /\ LateInv /\ ResultInv /\ NotOverslept
<1>1. Inv /\ [ProbeNext]_probeVars => Inv'
  <2> SUFFICES ASSUME Inv, [ProbeNext]_probeVars PROVE Inv'
    BY Zenon
  <2>1. CASE ProbeNext
    BY <2>1, TimedStep, RoundStep, LateStep, ResultStep, SleepStep, Zenon
  <2>2. CASE UNCHANGED probeVars
    <3>1. UNCHANGED <<lists, cache, eng, base, jobs, queue, run, fresh, results, srcDown, up, pathDown,
                      cadence, last, memory, wake, busy, stray>>
      BY <2>2, Zenon DEF probeVars, srcVars, roundVars, storeVars, askVars
    <3>2. Timed'
      BY <3>1, Zenon DEF Timed
    <3>3. RoundInv'
      BY <3>1, Zenon DEF RoundInv
    <3>4. LateInv' /\ ResultInv'
      BY <3>1, Zenon DEF LateInv, ResultInv
    <3>5. NotOverslept'
      BY <3>1, Zenon DEF NotOverslept, Asleep, UntilDue, Pace
    <3> QED BY <3>2, <3>3, <3>4, <3>5, Zenon
  <2> QED BY <2>1, <2>2, Zenon
<1> QED BY <1>1, ProbeStart, PTL DEF ProbeSpec

\* However many rounds time out, no more probes run at once than there are
\* workers (runRound and leaveProbes of engine.go).
THEOREM ProbesBounded == ProbeSpec => []BoundedProbes
<1>1. RoundInv => BoundedProbes
  BY FS_CardinalityType DEF RoundInv, BoundedProbes
<1> QED BY <1>1, ProbeInvariant, PTL

\* No stored result comes from a probe that returned after its round's deadline,
\* although such probes do return, and the collector still takes results then:
\* the worker's look at the context, and a deadline that only a new round moves,
\* keep them out (runRound, storeResults).
THEOREM NoLateProbeStored == ProbeSpec => []NoLateStored
<1>1. ResultInv => NoLateStored
  BY Zenon DEF ResultInv, NoLateStored
<1> QED BY <1>1, ProbeInvariant, PTL

\* A provider whose last measurements have one without a usable source, or whose
\* path check fails, is excluded (applyStatusLocked, SetPathMismatch).
THEOREM FailsClosed == ProbeSpec => []FailClosed
<1>1. ResultInv => FailClosed
  BY Zenon DEF ResultInv, FailClosed
<1> QED BY <1>1, ProbeInvariant, PTL

\* After a round the engine never sleeps past the time when one of its
\* prefixes is due, for a prefix that was being confirmed when the sleep began a
\* quarter of its interval (wakeAfter), whatever is called while it sleeps.
THEOREM WakesInTime == ProbeSpec => []NotOverslept
  BY ProbeInvariant, PTL
=============================================================================
