------------------------------- MODULE Reload -------------------------------
(***************************************************************************)
(* Online reconfiguration of cmd/controller/reload.go: SIGHUP, PUT         *)
(* /api/config and a federation push read the file again, one at a time    *)
(* (reloader.mu), and change what runs: plugins, the three controllers,    *)
(* the probe engine, the decider, the iBGP sessions and the per-router     *)
(* table.  The decision loop goes on meanwhile and syncs each controller   *)
(* between any two steps.  A reload ends applied, refused (the running     *)
(* config stays) or fatal (the process stops, which withdraws).            *)
(*                                                                         *)
(* A config is a record: the three modes, "inject" or not ("none": the     *)
(* block is absent), and the value of every group of keys that is treated  *)
(* alike: allow, cap (max_improvements), hold (thresholds, hold_time,      *)
(* improvement_ttl), timing (probe.interval ...), plug (version of each    *)
(* source and policy, 0 for none), nbr (session settings and provider      *)
(* lists of each neighbor, 0 for none) and fixed (restart-only keys).      *)
(***************************************************************************)
EXTENDS Integers

CONSTANTS
  Plugin,         \* names of sources and policies
  Router,         \* addresses of bgp.neighbors
  Files,          \* what the config file may hold: valid configs
  MaxReloads,     \* bound on reloads
  TableInInject   \* a bound announcer's table only changes into inject

\* validate.go: a steering controller injects only where outbound does, and
\* inject needs a session (the external_policy deployment is not modelled).
Config ==
  [mode : {"off", "inject"}, inb : {"none", "off", "inject"},
   mit : {"none", "off", "inject"}, allow : Nat, cap : Nat, hold : Nat,
   timing : Nat, plug : [Plugin -> Nat],
   nbr : [Router -> [set : Nat, list : Nat]], fixed : Nat]
Valid(c) ==
  /\ c.mode = "off" => c.inb # "inject" /\ c.mit # "inject"
  /\ c.mode = "inject" => \E r \in Router : c.nbr[r].set # 0

ASSUME ReloadAssumption ==
  /\ Files \subseteq Config /\ \A c \in Files : Valid(c)
  /\ MaxReloads \in Nat /\ TableInInject \in BOOLEAN

VARIABLES
  proc,      \* "run", "stopping" after a fatal reload, "down"
  speaker,   \* bgp is on: the RIB view and its speaker exist
  cur, next, \* reloader.cur (and liveConfig), the config being applied
  rl,        \* the step of the reload, and what applyOnline still has to do
  out, in, mit,   \* the runtime values of the three controllers
  list,      \* pluginhost.Set: the sources and policies in use
  running,   \* the plugins that are started
  lost,      \* ghost: those of the list that did not start again
  engine,    \* the probe timing
  decider,   \* the config of the policy engine
  told,      \* the mode the collector, watch, history and federation report
  bound,     \* the announcer is bound to the speaker
  table,     \* announce.Controller's per-router table
  export,    \* the table installed in the speaker's export policy
  sessions, egress, \* the view's neighbors and egress routers
  wire,      \* the controllers with routes on the wire
  early,     \* ghost: announced before the config that says so is installed
  reloads

ctlVars == <<out, in, mit, bound, table, export>>
restVars == <<engine, decider, told>>
plugVars == <<list, running, lost>>
viewVars == <<sessions, egress>>
vars == <<proc, speaker, cur, next, rl, out, in, mit, list, running, lost, engine,
          decider, told, bound, table, export, sessions, egress, wire, early, reloads>>

Owner == {"out", "in", "mit"}

-----------------------------------------------------------------------------
(* What a config asks of each part. *)

OutOf(c) == [mode |-> c.mode, allow |-> c.allow, cap |-> c.cap]
InOf(c) == [mode |-> c.inb, allow |-> c.allow, hold |-> c.hold, cap |-> c.cap]
MitOf(c) == [mode |-> c.mit]

\* policyConfig
DeciderOf(c) == [mode |-> c.mode, allow |-> c.allow, cap |-> c.cap, hold |-> c.hold]

Instances(c) == {<<n, c.plug[n]>> : n \in {m \in Plugin : c.plug[m] # 0}}
Present(c) == {r \in Router : c.nbr[r].set # 0}

\* ribNeighbors
Sessions(c) == [r \in Router |-> c.nbr[r].set]
Egress(c) == {r \in Present(c) : c.nbr[r].list # 0}

\* routerExports: no table at all when no neighbor lists providers.
Table(c) ==
  IF Egress(c) = {} THEN [r \in {} |-> 0] ELSE [r \in Present(c) |-> c.nbr[r].list]

ModeOf(o) == CASE o = "out" -> out.mode [] o = "in" -> in.mode [] o = "mit" -> mit.mode
Wants(c, o) == CASE o = "out" -> c.mode [] o = "in" -> c.inb [] o = "mit" -> c.mit

-----------------------------------------------------------------------------
(* Which keys apply online, and the plan. *)

\* modeKeys: a block that appears or disappears is a restart.
blockKeys(a, b) ==
  \/ a.fixed # b.fixed
  \/ (a.inb = "none") # (b.inb = "none") \/ (a.mit = "none") # (b.mit = "none")

\* classify: the cap is restart-only with inbound, which read it at start.
restartKeys(a, b) ==
  \/ blockKeys(a, b)
  \/ a.cap # b.cap /\ (a.inb # "none" \/ b.inb # "none")

\* planReload and, without a speaker, the checks of reload
Refused(a, b) ==
  \/ restartKeys(a, b)
  \/ a.nbr # b.nbr /\ (~speaker \/ Present(a) = {} \/ Present(b) = {})

\* neighborPlan
Closes == {r \in Present(cur) : next.nbr[r].set # cur.nbr[r].set}
Opens == {r \in Present(next) : next.nbr[r].set # cur.nbr[r].set}
NewTable == speaker /\ Present(next) # {} /\ Table(next) # table

\* reconcileSources, reconcilePolicies: an instance is kept with its spec.
toStart == Instances(next) \ list
toStop == list \ Instances(next)

\* The steps of applyRuntime between config a and config b.
runtimeOut(a, b) == a.mode # b.mode \/ a.allow # b.allow \/ a.cap # b.cap
inboundRuntime(a, b) ==
  /\ b.inb # "none"
  /\ a.mode # b.mode \/ a.allow # b.allow \/ a.hold # b.hold \/ a.inb # b.inb
mitigationRuntime(a, b) == b.mit # "none" /\ a.mit # b.mit
RuntimeSteps(a, b) ==
  {o \in Owner : \/ o = "out" /\ runtimeOut(a, b)
                 \/ o = "in" /\ inboundRuntime(a, b)
                 \/ o = "mit" /\ mitigationRuntime(a, b)}

Idle == [at |-> "idle", todo |-> {}, done |-> FALSE]
At(step) == proc = "run" /\ rl.at = step

-----------------------------------------------------------------------------
(* reload, up to the first change. *)

Started(c) ==
  /\ cur = c /\ next = c /\ rl = Idle
  /\ out = OutOf(c) /\ in = InOf(c) /\ mit = MitOf(c)
  /\ list = Instances(c) /\ running = Instances(c) /\ lost = {}
  /\ engine = c.timing /\ decider = DeciderOf(c) /\ told = c.mode
  /\ bound = (c.mode = "inject") /\ table = Table(c)
  /\ export = IF c.mode = "inject" THEN Table(c) ELSE [r \in {} |-> 0]
  /\ sessions = Sessions(c) /\ egress = Egress(c)
  /\ wire = {} /\ early = {}

\* Without neighbors the view may still exist, over BMP.
Init ==
  /\ proc = "run" /\ reloads = 0
  /\ speaker \in BOOLEAN
  /\ \E c \in Files : (Present(c) # {} => speaker) /\ Started(c)

Refuse == rl' = Idle /\ next' = cur

\* The file is read and compared.  An unreadable or invalid file, a restart
\* key or an impossible neighbor change is refused, and a file without a
\* change replaces cur by its equal: neither is a step.
Read(c) ==
  /\ At("idle") /\ reloads < MaxReloads
  /\ ~Refused(cur, c) /\ c # cur
  /\ TableInInject => Table(c) = table \/ c.mode = "inject" \/ ~bound
  /\ next' = c
  /\ rl' = [at |-> "prepare", todo |-> RuntimeSteps(cur, c), done |-> FALSE]
  /\ reloads' = reloads + 1
  /\ UNCHANGED <<proc, speaker, cur, wire, early, ctlVars, restVars, viewVars, plugVars>>

\* Something is built or checked for inject, and that can fail.
CanRefuse ==
  \/ toStart # {} \/ cur.timing # next.timing
  \/ "out" \in rl.todo /\ next.mode = "inject" /\ out.mode # "inject"
  \/ "in" \in rl.todo /\ next.inb = "inject"
  \/ "mit" \in rl.todo /\ next.mit = "inject"

\* PrepareRuntime binds the announcer with the controller's table.
BindOut ==
  IF "out" \in rl.todo /\ next.mode = "inject" /\ ~bound /\ speaker
    THEN bound' = TRUE /\ export' = table
    ELSE UNCHANGED <<bound, export>>

\* preparePlugins, PrepareRuntime and prepareSteering change no mode.  A
\* binding is not undone when a later check refuses.
Prepare ==
  /\ At("prepare")
  /\ speaker \/ \A o \in rl.todo : Wants(next, o) # "inject"
  /\ BindOut
  /\ rl' = [rl EXCEPT !.at = "swap"]
  /\ UNCHANGED <<proc, speaker, cur, next, out, in, mit, table, wire, early,
                 reloads, plugVars, restVars, viewVars>>

PrepareFails ==
  /\ At("prepare")
  /\ CanRefuse
  /\ BindOut \/ UNCHANGED <<bound, export>>
  /\ Refuse
  /\ UNCHANGED <<proc, speaker, cur, out, in, mit, table, wire, early, reloads,
                 plugVars, restVars, viewVars>>

-----------------------------------------------------------------------------
(* applyOnline. *)

\* swapPlugins: the new ones start beside the old; when one does not, the old
\* ones are stopped and the rest is tried once more.
Swap ==
  /\ At("swap")
  /\ running' = (running \ toStop) \cup toStart /\ UNCHANGED <<list, lost>>
  /\ rl' = [rl EXCEPT !.at = IF rl.todo = {} THEN "install" ELSE "apply"]
  /\ UNCHANGED <<proc, speaker, cur, next, wire, early, reloads, ctlVars, restVars, viewVars>>

\* stopStarted, restartStopped: the new ones stop, the old ones start again;
\* back are those that did.
PutBack(back) ==
  /\ running' = (running \ (toStart \cup toStop)) \cup back
  /\ lost' = (lost \ back) \cup (toStop \ back)
  /\ UNCHANGED list

\* A new plugin does not start the second time either.
SwapFails ==
  /\ At("swap") /\ toStart # {}
  /\ \E back \in SUBSET toStop : PutBack(back)
  /\ Refuse
  /\ UNCHANGED <<proc, speaker, cur, wire, early, reloads, ctlVars, restVars, viewVars>>

\* Entering inject goes outbound first, leaving it goes outbound last.
Before(o, p) == (o = "out" /\ p # "out") \/ (o = "in" /\ p = "mit")

\* A variant that never reverses the steps.
TurnForward(o) == o \in rl.todo /\ \A p \in rl.todo \ {o} : Before(o, p)

Turn(o) ==
  /\ o \in rl.todo
  /\ \A p \in rl.todo \ {o} :
       IF next.mode = "inject" THEN Before(o, p) ELSE Before(p, o)

Leaves(o) == ModeOf(o) = "inject" /\ Wants(next, o) # "inject"

\* ApplyRuntime of one controller.  Leaving inject withdraws first, under the
\* lock of its Sync; entering repeats checks that Prepare made.
ApplyRuntime(o) ==
  /\ At("apply") /\ Turn(o)
  /\ out' = IF o = "out" THEN OutOf(next) ELSE out
  /\ in' = IF o = "in" THEN [InOf(next) EXCEPT !.cap = in.cap] ELSE in
  /\ mit' = IF o = "mit" THEN MitOf(next) ELSE mit
  /\ wire' = IF Leaves(o) THEN wire \ {o} ELSE wire
  /\ rl' = [at |-> IF rl.todo = {o} THEN "install" ELSE "apply",
            todo |-> rl.todo \ {o}, done |-> TRUE]
  /\ UNCHANGED <<proc, speaker, cur, next, bound, table, export, early,
                 reloads, plugVars, restVars, viewVars>>

Fatal == proc' = "stopping" /\ UNCHANGED <<next, rl>>

\* A variant that reports a reload applied in part as refused.
FailedStepRefused == Refuse /\ UNCHANGED <<proc, out, in, mit>>

\* A variant that sets the controllers back instead of stopping.
FailedStepUndone ==
  /\ Refuse /\ UNCHANGED proc
  /\ out' = OutOf(cur) /\ mit' = MitOf(cur)
  /\ in' = [InOf(cur) EXCEPT !.cap = in.cap]

\* runSteps: a withdraw that fails after an earlier step changed its
\* controller is errPartialApply, which is fatal where a speaker exists.
FailedStep ==
  /\ IF rl.done /\ speaker THEN Fatal ELSE Refuse /\ UNCHANGED proc
  /\ UNCHANGED <<out, in, mit>>

ApplyFails(o) ==
  /\ At("apply") /\ Turn(o) /\ Leaves(o) /\ o \in wire
  /\ \E back \in SUBSET toStop : PutBack(back)
  /\ FailedStep
  /\ UNCHANGED <<speaker, cur, wire, early, reloads, bound, table, export, restVars, viewVars>>

\* The rest of applyOnline cannot fail: the lists, the timing, the decider,
\* and everyone who reports the mode.
Install ==
  /\ At("install")
  /\ list' = Instances(next) /\ running' = running \ toStop /\ lost' = lost \ toStop
  /\ engine' = next.timing
  /\ decider' = DeciderOf(next)
  /\ told' = next.mode
  /\ rl' = [rl EXCEPT !.at = IF speaker /\ (Closes \cup Opens # {} \/ NewTable)
                               THEN "remove" ELSE "commit"]
  /\ UNCHANGED <<proc, speaker, cur, next, wire, early, reloads, ctlVars, viewVars>>

-----------------------------------------------------------------------------
(* The sessions.  Any failure here is fatal. *)

Go(step) == rl' = [rl EXCEPT !.at = step] /\ UNCHANGED <<proc, next>>

\* A variant that opens the new sessions before the table is swapped.
RemoveAndAdd ==
  /\ At("remove")
  /\ sessions' = [r \in Router |-> IF r \in Closes \cup Opens THEN next.nbr[r].set
                                  ELSE sessions[r]]
  /\ Go("table")
  /\ UNCHANGED <<speaker, cur, wire, early, reloads, egress, ctlVars, restVars, plugVars>>

RemoveNeighbors ==
  /\ At("remove")
  /\ \E gone \in SUBSET Closes :
       /\ sessions' = [r \in Router |-> IF r \in gone THEN 0 ELSE sessions[r]]
       /\ IF gone = Closes THEN Go("table") ELSE Fatal
  /\ UNCHANGED <<speaker, cur, wire, early, reloads, egress, ctlVars, restVars, plugVars>>

\* The announcer withdraws every outbound route and swaps its export policy;
\* outside inject only the controller's table changes.
SetRouters ==
  /\ At("table")
  /\ \/ /\ NewTable
        /\ table' = Table(next)
        /\ IF out.mode = "inject"
             THEN export' = Table(next) /\ wire' = wire \ {"out"}
             ELSE UNCHANGED <<export, wire>>
        /\ Go("add")
     \/ ~NewTable /\ UNCHANGED <<table, export, wire>> /\ Go("add")
     \/ NewTable /\ out.mode = "inject" /\ UNCHANGED <<table, export, wire>> /\ Fatal
  /\ UNCHANGED <<speaker, cur, out, in, mit, bound, early, reloads,
                 restVars, viewVars, plugVars>>

\* AddNeighbors is refused after DropSessions.
AddNeighbors ==
  /\ At("add")
  /\ \E new \in SUBSET Opens :
       /\ sessions' = [r \in Router |-> IF r \in new THEN next.nbr[r].set ELSE sessions[r]]
       /\ IF new = Opens THEN Go("egress") ELSE Fatal
  /\ UNCHANGED <<speaker, cur, wire, early, reloads, egress, ctlVars, restVars, plugVars>>

SetEgress ==
  /\ At("egress")
  /\ IF \A r \in Egress(next) : sessions[r] # 0
       THEN egress' = Egress(next) /\ Go("commit")
       ELSE UNCHANGED egress /\ Fatal
  /\ UNCHANGED <<speaker, cur, wire, early, reloads, sessions, ctlVars, restVars, plugVars>>

\* setCur, then the decision loop is poked.
Commit ==
  /\ At("commit")
  /\ cur' = next /\ rl' = Idle /\ early' = {}
  /\ UNCHANGED <<proc, speaker, next, wire, reloads, ctlVars, restVars, viewVars, plugVars>>

-----------------------------------------------------------------------------
(* The decision loop, and the end of a process that met a fatal reload. *)

\* A Sync of a controller in inject announces or withdraws.
Sync(o) ==
  /\ proc # "down" /\ ModeOf(o) = "inject"
  /\ \/ o \notin wire /\ wire' = wire \cup {o}
        /\ early' = IF Wants(cur, o) # "inject" THEN early \cup {o} ELSE early
     \/ o \in wire /\ wire' = wire \ {o} /\ UNCHANGED early
  /\ UNCHANGED <<proc, speaker, cur, next, rl, reloads, ctlVars, restVars, viewVars, plugVars>>

\* stopDaemon: the loops end, every route is withdrawn, the sessions close.
Shutdown ==
  /\ proc = "stopping"
  /\ proc' = "down" /\ wire' = {} /\ early' = {}
  /\ sessions' = [r \in Router |-> 0]
  /\ UNCHANGED <<speaker, cur, next, rl, egress, reloads, plugVars, ctlVars, restVars>>

\* The supervisor starts it again with the new file.
Restart ==
  /\ proc = "down" /\ proc' = "run"
  /\ next' = next /\ cur' = next /\ rl' = Idle
  /\ out' = OutOf(next) /\ in' = InOf(next) /\ mit' = MitOf(next)
  /\ list' = Instances(next) /\ running' = Instances(next) /\ lost' = {}
  /\ engine' = next.timing /\ decider' = DeciderOf(next) /\ told' = next.mode
  /\ bound' = (next.mode = "inject") /\ table' = Table(next)
  /\ export' = IF next.mode = "inject" THEN Table(next) ELSE [r \in {} |-> 0]
  /\ sessions' = Sessions(next) /\ egress' = Egress(next)
  /\ wire' = {} /\ early' = {}
  /\ UNCHANGED <<speaker, reloads>>

Next ==
  \/ \E c \in Files : Read(c)
  \/ Prepare \/ PrepareFails \/ Swap \/ SwapFails
  \/ \E o \in Owner : ApplyRuntime(o) \/ ApplyFails(o)
  \/ Install
  \/ RemoveNeighbors \/ SetRouters \/ AddNeighbors \/ SetEgress
  \/ Commit
  \/ \E o \in Owner : Sync(o)
  \/ Shutdown \/ Restart

Spec == Init /\ [][Next]_vars

-----------------------------------------------------------------------------
(* Properties. *)

\* A reload is all or nothing: whenever none is in progress and the process
\* runs on, every part runs what reloader.cur says, whichever step of an
\* earlier reload failed ("the running config stays").  The one exception is
\* an old plugin that restartStopped could not start again.
RunsItsConfig ==
  At("idle") =>
    /\ out = OutOf(cur) /\ mit = MitOf(cur)
    /\ cur.inb # "none" => in = InOf(cur)
    /\ list = Instances(cur) /\ running = list \ lost
    /\ engine = cur.timing /\ decider = DeciderOf(cur) /\ told = cur.mode
    /\ table = Table(cur) /\ sessions = Sessions(cur) /\ egress = Egress(cur)

\* Inbound and mitigation inject only while outbound does, also between two
\* steps of applyRuntime and on the way to a stop: "Entering inject goes
\* outbound first; leaving goes inbound and mitigation first".
SteeringUnderInject == in.mode = "inject" \/ mit.mode = "inject" => out.mode = "inject"

\* "a refused reload never lets a decision round announce": when a reload is
\* over and the process runs on, no controller announced ahead of a config
\* that was then not installed (the order of applyOnline).
RefusedNeverAnnounces == At("idle") => early = {}

\* What the export policy does for router r: a list version, or 0 when the
\* router gets every route.
Ruled(r) == IF r \in DOMAIN export THEN export[r] ELSE 0

\* While outbound routes are out, every open session has the rules that the
\* running config, or the one being applied, gives its router: "a router
\* leaving the table never sees routes without it" and "a new router's first
\* routes already follow the new table" (the session steps of reload).
RoutersFollowTable ==
  "out" \in wire =>
    \A r \in Router : sessions[r] # 0 =>
      Ruled(r) \in {c.nbr[r].list : c \in {d \in {cur, next} : d.nbr[r].set # 0}}

-----------------------------------------------------------------------------
(* The inductive invariant behind the properties. *)

Step == {"idle", "prepare", "swap", "apply", "install", "remove", "table", "add",
         "egress", "commit"}

\* The config a controller follows: the new one once its step is done.
Followed(o) == IF o \in rl.todo THEN cur ELSE next
\* The config that the rest of applyOnline, and the table, follow.
Installed ==
  IF rl.at \in {"remove", "table", "add", "egress", "commit"} THEN next ELSE cur
Tabled == IF rl.at \in {"add", "egress", "commit"} THEN next ELSE cur

PlanInv ==
  /\ proc \in {"run", "stopping", "down"} /\ speaker \in BOOLEAN
  /\ cur \in Files /\ next \in Files
  /\ rl \in [at : Step, todo : SUBSET Owner, done : BOOLEAN]
  /\ ~Refused(cur, next)
  /\ Present(cur) # {} => speaker
  /\ rl.at = "idle" => cur = next /\ rl.todo = {}
  /\ rl.at \in {"idle", "prepare", "swap"} => ~rl.done
  /\ rl.at \in {"remove", "table", "add", "egress"} => speaker /\ Present(next) # {}

\* What is applied came before what is to do, in the order of applyRuntime.
OrderInv ==
  /\ rl.todo \subseteq RuntimeSteps(cur, next)
  /\ ~rl.done => rl.todo = RuntimeSteps(cur, next)
  /\ rl.at \notin {"prepare", "swap", "apply"} => rl.todo = {}
  /\ \A o \in RuntimeSteps(cur, next) \ rl.todo, p \in rl.todo :
       IF next.mode = "inject" THEN Before(o, p) ELSE Before(p, o)

ControlInv ==
  /\ out = OutOf(Followed("out")) /\ mit = MitOf(Followed("mit"))
  /\ in.mode = Followed("in").inb
  /\ Followed("in").inb # "none" => in = InOf(Followed("in"))
  /\ ~rl.done => early = {}

PluginInv ==
  proc = "run" =>
    /\ list = Instances(Installed) /\ lost \subseteq list
    /\ running = IF rl.at \in {"apply", "install"}
                   THEN ((list \ lost) \ toStop) \cup toStart ELSE list \ lost
    /\ engine = Installed.timing /\ decider = DeciderOf(Installed)
    /\ told = Installed.mode

SessionInv ==
  /\ table = Table(Tabled)
  /\ \A r \in Router : sessions[r] # 0 => r \in Present(Tabled)
  /\ proc = "run" =>
       /\ sessions = IF rl.at \in {"table", "add"}
                       THEN [r \in Router |-> IF r \in Closes THEN 0 ELSE cur.nbr[r].set]
                       ELSE IF rl.at \in {"egress", "commit"} THEN Sessions(next)
                                                              ELSE Sessions(cur)
       /\ egress = IF rl.at = "commit" THEN Egress(next) ELSE Egress(cur)

\* What is on the wire went out under the controller's own table.
ExportInv ==
  /\ "out" \in wire => out.mode = "inject"
  /\ out.mode = "inject" => bound
  /\ rl.at \in {"swap", "apply"} /\ "out" \in rl.todo /\ next.mode = "inject" => bound
  /\ TableInInject /\ bound => export = table
  /\ TableInInject /\ bound /\ Table(next) # table => next.mode = "inject"

IInv == PlanInv /\ OrderInv /\ ControlInv /\ PluginInv /\ SessionInv /\ ExportInv
=============================================================================
