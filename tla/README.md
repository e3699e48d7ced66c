# Packeteer in TLA+

Packeteer is a BGP path performance controller. It measures the paths to
destination prefixes through several providers, decides which provider each
prefix should use and announces the decision to the edge routers. This
directory holds a formal model of its control: TLA+ modules translated from the
Go source, TLC configurations that check them on small instances, and proofs
that TLAPS checks for instances of every size.

The reference is always the code. Every definition that models code names its
lines in `PROJECT.json` under `map`; `hazards` lists the places where the code
can go wrong in ways a test hardly reaches, and the properties that watch them.

## 1. The system

| Part | State | Operations | Hard behaviour |
| --- | --- | --- | --- |
| Lease elector (`internal/plugins/elector/lease`) | a lease record on shared storage; per process `active`, `lastOK`, what it last read, back-off | `Start`, `Stop`, `tick` (lock, read, `decide`, write, activate), watchdog, notifier, `Active`, `Resign` | storage that stalls or fails half-way, crash and restart, Resign beside a running tick, deadlines on separate clocks |
| HA control (`cmd/controller/ha.go`, shutdown in `main.go`) | `was`, where the handler and the shutdown are | role change: withdraw with retries, drop sessions, settle, resign; shutdown | routers keep routes for the hold time; the role changes during a sleep; withdraws fail |
| Outbound controller (`internal/announce`) | a slot per announced prefix, mode, runtime settings | `Sync`, `WithdrawAll`, `WithdrawPrefix`, `ApplyRuntime`, `SetRouters` | announcer calls fail one by one; learned more-specifics and synthesized ones share slots and the cap |
| Inbound controller (`internal/inbound`) | active steers, damping, runtime settings | `Sync`, `WithdrawAll`, `ApplyRuntime` | shares the cap and the speaker with outbound |
| Mitigation (`internal/mitigation`) | rules, routes on the wire, prefixes in flight, FlowSpec rules | add, remove, expire, `Sync` (plan, call, commit), `WithdrawAll`, `ApplyRuntime` | calls the announcer without its lock, must keep out of the other two controllers' way |
| GoBGP announcers (`internal/plugins/announcer/gobgp`) | one `paths` table per controller over one speaker | announce, withdraw, `SetRouters`, `DropSessions` | a new local path replaces another owner's, a delete by prefix removes another owner's |
| Leak watch (`internal/leakwatch`) | held prefixes | sighting, withdraw, clear | a Sync that decided before the hold announces after it |
| Decision loop and engine (`cmd/controller/decision.go`, `internal/policy`) | improvements, cooldown, quarantine, confirm counts | `Decide` each round | state carried from round to round under a cap |
| RIB (`internal/rib`) | learned paths per session, readiness | session up and down, update, end-of-RIB | stale paths, a view that is not ready |
| Probing (`internal/probe`, probers) | target set, results, budget | rounds, manual probes | late and lost results |
| External policy feed (`internal/extpolicy`, `cmd/policy`) | the routes on the wire with a revision and an expiry; the consumer's copy | publish, touch, close, poll, stream | a consumer that loses the feed must stop using it in time |
| Upgrade (`internal/upgrade`, `cmd/controller/upgrade.go`) | `state.json`, staged files, the running process | launch, apply, rollback, confirm, abort, revert | crashes between the save, the stop and the exec |
| Steer verification (`internal/verify`) | claims, strikes, backoff | begin, observe, judge | counters that never move |
| Notification, export (`internal/notify`, `internal/export`) | bounded queues | emit, deliver, close | full queues, shutdown with a deadline |
| RTR client (`internal/plugins/rpki/rtr`) | the cache of validated payloads with its session and serial, the response in flight | dial, query, receive, refresh | a notify or a lost connection between the records of a response, a server that starts a new session |
| Agent prober and agents (`internal/plugins/prober/agent`, `internal/agent`) | a queue and the tasks in flight per agent, long polls, slots | `Probe`, poll, take, results, reap, revoke, stop | an agent that dies, hangs up or answers late; outcomes sent under a lock |
| Plugin supervisor (`internal/plugins/grpcplugin`) | the process in service, those to stop, the next try | `Start`, `Stop`, health check, restart, reap, calls | a process that fails late, a Stop that times out, a wake-up that races a timer |
| Federation, herd, anomaly, threat feeds, IRR, registry | snapshots with an age, rules they own | poll, expire, apply | stale data |
| Online reload (`cmd/controller/reload.go`) | the running config, what each part runs of it | plan, prepare, swap plugins, apply to the controllers, install, change sessions, commit, undo | a step that fails in the middle, the decision loop announcing between two steps |
| Configuration, API, history, tools | documents and reports | load, edit, show | mostly parsing and I/O |

How the parts interact. One goroutine, the decision loop, runs the outbound,
the inbound and the mitigation Sync of a round one after the other. The leak
watch, the HA control, reloads and the API call the same controllers from
other goroutines. Every announcing path asks the elector's `Active()` first,
and all announcers publish through one GoBGP speaker. The elector and the
routers are the only link between two instances of a pair.

## 2. Modules

| Module | Models | Checked by | Proved in |
| --- | --- | --- | --- |
| `LeaseState` | the lease record, what an instance knows, the decisions of `lease.go` | through `Lease`, `HA` | |
| `Lease` | the elector with every interleaving of its four activities and of storage I/O | `MCLease` | `LeaseProofs` |
| `Leadership` | abstract: what an `Elector` promises the core | property of `Lease` | `LeaseProofs` |
| `HA` | a pair: elector, HA control, announcer gate, shutdown, sessions and routers | `MCHA` | `HAProofs` |
| `Wire` | who may publish a prefix: three controllers, leak watch, reloads, one speaker | `MCWire` | `WireProofs` |
| `Upgrade` | `state.json`, the launcher, Apply, Rollback, Confirm, Abort and exec | `MCUpgrade` | `UpgradeProofs` |
| `Feed` | the external policy feed, its mirror and server, and `packeteer-policy` | `MCFeed` | `FeedProofs` |
| `Decide` | the decision loop, the engine's state from round to round, steer verification | `MCDecide` | `DecideProofs` |
| `Snapshot` | the incremental snapshot of the learned table | through `Rib` | `ServicesProofs` |
| `Rib` | iBGP sessions, the view's event handler, reloads of neighbors, the BMP station | `MCReloadView` | `ServicesProofs` |
| `Probe` | the probe engine's rounds, sources, workers, deadlines and stored results | `MCProbe` | `ControllerProofs` |
| `Reload` | a reload of the config file, from the plan to the commit or the undo | `MCReloadView`, `MCReload` | `ControllerProofs` |
| `Rtr` | the RTR client and, from outside, the server it asks | `MCServices` | |
| `Agents` | the agent prober and the agents that poll it | `MCServices` | `ServicesProofs` |
| `Supervisor` | the supervisor of an out-of-process plugin, its host and callers | `MCServices` | `ServicesProofs` |

### LeaseState and Lease

The record's bytes matter only through `bytes.Equal(raw, lastRaw)`, and every
write carries a new sequence number, so `seen[n]` stands for that comparison.
Time is one global clock and instances compare only differences on it, as the
code does with its monotonic clock. A token is a pair of node and start count.

`tick` is split where the code waits or lets go of `mu`: `TickStart` (candidacy
and clock are read before any lock), `TickDecide` (`read` and `decide` under
`opMu` and the flock), `TickRename`, `TickActivate`; `TickFail` and
`TickWriteFail` are its error returns, the latter also after the rename took
effect. `Resign` is split in the same way. The flock is derived from the
program counters. Time passes between any two steps, so a step may take
arbitrarily long. `Exit` is a crash or the end of the process.

`ResignWithinTTL` is an assumption about the environment: a `Resign` reaches
the file lock within one ttl of its call. Nothing in the code enforces it;
section 3 says what happens without it.

### HA

Two instances with their HA control. A tick is one step here (its
interleavings are `Lease`'s subject): without storage it does nothing
(`TickSkips`), or it writes the record and activates (`TickWrites`), or it leaves
the record alone and steps down (`TickReads`). The end of a process ends its
shutdown, and the next start begins with nothing in the speaker. The environment assumptions, stated at the
head of the module, are what `wait()` budgets for: an instance whose storage
works ticks once per renew interval, an instance that lost its role withdraws or
dies within one renew interval after its deadline, a withdraw reaches the
routers within `haWithdrawSettle`, a dead peer's routes last for the hold time.
`until[n]` is how long routers may carry routes after a withdraw or a crash.
`Faults` switches four kinds of fault on: failing withdraws, failing
`DropSessions`, sessions or storage that come back, and sessions that raise the
hold time.

### Wire

`speaker[p]` is whose path the one GoBGP speaker has for `p`; `paths[o]` is
owner `o`'s announcer table, `active[o]` what its controller counts. A Sync is
cut into one step per prefix and, for an announcement, into the decision and
the announcer call, because the leak watch, reloads, the HA control and API
calls come in between. What is read under somebody else's lock (RIB, sessions,
role, allowlist, clock) is a free choice at the moment of reading. Every
announcer call may fail. Outbound deletes by UUID, the other two delete what
the prefix has: `Delete` keeps that difference.

### Upgrade

`state` is `state.json` (`on` is whether it exists), `files` what is staged and
matches its checksum, `proc` the process. `Switch*` is `switchTo` cut at its
load, its save and its lock; `Confirm*` is `Confirm` cut at its load and its
save, which exclude `Abort` and the last part of `switchTo` but not the rest of
it. One step of `LaunchRevert` is one turn of the loop in `Relaunch`. `Exec`
keeps the process but empties its memory. `starts`, `stayed` and `was` record
history for the properties and influence nothing. `Faults` switches on requests
within the first 30 seconds of a version (`early`), failing execs and saves,
lost files, and a state that is deleted or belongs to another installed binary.
A `state.json` that cannot be read and a failing `os.Remove` in `Relaunch` are
left out.

### Feed

Four activities meet: the announce controller's calls through `Mirror`, the
decision rounds that `Touch` the feed, one long poll in the server, and the
consumer's loop in `cmd/policy`. A `Mirror` call is two steps, the announcer
and then the feed, because `Touch` and the server run between them. `waitChange`
is cut into taking the change channel (`ServerArm`), the look at the revision
(`ServerCheck`) and the wait. `consumer.step` is cut where it waits: for the
answer, for the apply, for the retry. Times are relative: ages count up to
`Cap`, timers and what is left of the deadline count down, so the reachable set
is finite without a bound on time. A step that is due comes before the clock
moves; a frozen controller, a late round and an apply take time. `renewed` (the
age of the newest round any Touch published), `lag` and `healthy` record history
and influence nothing. `lag` is kept for each prefix: how long the daemon has had
a route that the feed no longer lists.

The environment: an answer arrives within `Transit` or not at all, and an apply
ends within `ApplyTime` (the code kills a reload after `reloadTimeout`). An apply
may fail at any time, with or without having changed the daemon. An announcer call
behind the mirror may fail too, after it took routes off the wire or before
(`MirrorFails`), and `Mirror` then leaves the feed as it was. Two more history
variables keep apart what such failures explain: `torn` is what a failed call
removed and no later one settled, `half` that an apply failed after it changed the
daemon and none has succeeded since. The gRPC stream, the token check and the checks of a route's fields
are left out.

### Decide

`Decision` is one round of `decideLoop`, which runs on one goroutine, in its order:
verification judges and backs out, `Decide` evaluates, the controller applies (and
may fail), the claims begin. Probe rounds, what the routers show, reloads and the
clock come between two rounds. The new moves go to `Admit` one by one, in the one order of `Queue`: lane, gain, prefix.
Scores are ranks, times are ages that stop at the largest value they are compared with.
Each start has a configuration (which prefixes are pinned, the cap, confirm
rounds, the verify window) and a budget of outside events, so that every feature
is explored without the product of all of them. A withdraw upstream wakes the loop
unless the router hid the path before; it never cancels a wake-up. `Due` is the
judgement of a claim: moved, not moved, not known yet, or one more window. `late` records
history: an announcement of the route has failed since the steer began. `Noted`
and `Winning` keep this and the rest of the history, which influences nothing.
`WithdrawIsReal` speaks of the other routes only, because after a failed
announcement the engine counts a steer that routers never saw, and takes the
visible native route's end for what it is.

### Snapshot and Rib

`Snapshot` is `snapshot.go` cut where it lets go of the lock: a refresh (one at a
time) copies the changed prefixes and starts the marks afresh, builds the table
without the view's lock, and stores it unless writers passed the dirty limit
meanwhile. `Rib` adds what writes the table. The speaker's
events are a queue that the view reads one at a time; a reload and a drop of all
sessions are cut into one step per neighbor because they run beside it; a read of
a router's add-path capability is asked in one step and answered in a later one.
A BMP connection is accepted, reads messages, and may end at any message; a
message that cannot be decoded is skipped or ends the connection as in
`decoder.undecodable`. `Settled` in `ViewSettles` leaves out a neighbor that was
added again and whose new session was not tried yet, or could not be added: until then the view
may be told of, and keep, what the deleted session taught. The speaker's calls may fail: a peer that could not be
added leaves a neighbor without one, a drop that cannot list the peers reports all
of them, and one that cannot be shut is reported. Left out: `Stop` of view and station, prefix counts,
the filter of Packeteer's own BMP session, BMP path identifiers, MED, and the
AS check of exchange peers.

### Probe

`eng` is `Engine.Run` with its local variables: it reads the sources one after
the other (`GatherStep`, `SourceAnswers`, `SourceLate`), makes the plan of the
round (`Plan`), hands jobs to free workers (`NextJob`), ends the round when all
results are in or its deadline has passed (`EndRound`), computes the sleep
(`Rest`) and is woken (`Wakeup`). A worker is the job it runs; `Return`, the
worker's look at the round's context (`CheckDeadline`) and `Deliver` are separate
because the deadline can pass between any two of them. `Ends` says what a probe
that returns has measured: all of it, a part because the deadline ended its reads
(`train.EndReads`), or something after the deadline. A source may fail, give up by a
timeout of its own, which is not cached, or not answer in time: then it keeps its call (`srcBusy`), and a round whose probes do
not return keeps the engine `busy` until `BusyClear`. `SetUrgent`,
`SetRetained`, `QueueManual`, `SetTiming` and `SetPathMismatch` are the calls of
the decision loop, an operator, a reload and the path check; they come between
any two steps. `hurry` records history: what was urgent when a sleep began. A job
is one provider toward one prefix; the hosts it tries, the
prober chain and its memory, sub-ranges, indirect traces, statistics, the marks
of silent providers and `SetSources` are left out.

### Reload

`cur` is the running config, `next` the one being applied and `rl` the place in
`reload`: `Read` (plan, or refuse), `Prepare` (bindings that can fail), `Swap`
(plugins stop and start), `ApplyRuntime` (the three controllers, in the order that
`applyRuntime` chooses), `Install` (engine, decider, reported mode), then the
sessions and the per-router table (`RemoveNeighbors`, `SetRouters`, `AddNeighbors`, `SetEgress`) and
`Commit`. Each has a failing form, which puts back what ran before or makes the
reload fatal, as in the code. The decision loop's `Sync` runs between any two
steps and decides what is on the wire. A config is a record with one value for
each group of keys that is treated alike. `lost` and `early` record history: a
plugin that did not start again stays listed without running, and a later reload
with the same entry does not start it; and who announced before the config that
says so was installed. Left out: inject with an external policy or a BMP feed
and no session, a reload that races a shutdown, and the plugins' own stop.

### Rtr

`Dial`, `Refresh` and `Receive` are the client: one step of `Receive` is one
`handle`, which changes the response in flight and touches `cache`, `sessionID`
and `serial` only at an End of Data. What `handle` or the decoder refuses ends
the session (`Hangup`), which keeps the cache. Tables are sets of payloads: an
announcement is idempotent (`addLocked`) and a withdrawal of what is absent does
nothing (`removeLocked`). The server is external: `versions` keeps every table it
ever had, it answers a query from its current one, with changes or with a Cache
Reset, and it may notify between the records of an answer. Left out: back-off,
`updated` as a time and with it staleness, and several sources.

### Agents

A task is one `Probe` call, from `reserve` to its outcome. `servePoll` is cut at
its select: `PollStart` declares the agent, `Take` moves tasks from the queue to
flight, `Woken`, `PollWaitOver`, `HungUp` and `PollStopped` are the cases, and
`Respond` hands the tasks to the agent if it still listens. A poll that the agent
gave up may live on in the controller beside a newer one. `Post`, `PostReturns`
and `ServeResults` are separate because an answer can be late or lost. Time is
left out, so an agent may age, a deadline may pass and `reap` may come at any
moment. Some consequences of the code are visible in the model: a hang-up noticed
on an old poll makes an agent stale although a newer poll is held, a poll nobody
listens to can take tasks with it, and `reap` skips an agent that is no longer
`up` although it has called since; in each case the task ends at its caller's
deadline, and `OneAnswer` holds. Left out: the rate limiter's amounts and the
order of candidates, the order of a queue, and the checks of a request's fields.

### Supervisor

`host` is the plugin host in `Start` or `Stop`, `loop` the supervisor's goroutine,
cut where it lets go of `mu`: `Top` to `Reaped` is `reap`, `Wait` the select,
`Check` and `Health` are `check`, `Restart` to `RestartFails` are `restart`,
`ReapAll` and `Ended` its end. `CallUnavailable` is a call that takes its process
out of service, perhaps long after that was replaced. A process hangs or exits
at any moment. `Stop` may return before the loop has ended; `Start` is then
refused until it has. `due` is whether `nextTry` has passed.

## 3. Runs

| Run | Question | Result |
| --- | --- | --- |
| `lease` | can two instances be active, or the role pass directly, with stuck or failing I/O, crashes, restarts, stops and resignations | never |
| `ha` | do routers ever carry both instances' routes; is Resign called with routes out; can an instance lose its role and keep routes with no withdraw coming | never; the first two as long as nothing lost comes back and no drop of sessions fails |
| `wire` | two paths on one prefix, orphaned routes, routes out of inject, the shared cap, held prefixes | all hold |
| `decide` | are moves confirmed, flapping prefixes quarantined, the cap kept by every evaluation, back-outs respected, and is a steer given up only for a real withdraw | yes |
| `upgrade` | is a bad version dropped in time, and does the controller always come up again | yes |
| `upgrade_faults` | do state, process and disk agree when saves and execs fail and the state is deleted | yes |
| `feed` | are routes off the daemon within the expiry, and at once after a withdraw; does a healthy feed keep them; does the feed list what neither is on the wire nor was torn off it by a failed call; does a stop leave routes it knows of | all hold |
| `feed_stop` | does a stop leave any routes, also those of an apply that failed after it changed the daemon | it does (finding) |
| `probe` | do stuck probes pile up, is the result of a probe that returns after the deadline ever stored, does a provider without a usable source stay excluded, does the engine sleep past what was due when the sleep began, is every prefix measured again and again | all hold; two stronger claims of the documentation do not, see below |
| `reload_view` | does a reload that is applied, refused or undone leave every part on one config; does steering inject only under outbound; does a refused reload announce; do routers get routes under the old table; and does the learned view settle on what live sessions say, do dropped sessions stay down, is a stored snapshot current | all hold |
| `reload_table` | do routers get routes under the old table when it changes outside inject while the announcer is bound | routes go out under the old table (finding) |
| `services` | is the RTR cache always one whole version of the server's table; does every Probe call get one answer; is a plugin process ever lost; do the cache and a failed plugin come back | all hold |

Assumptions of the passing runs are switches of the models, or conditions of the
properties. In `ha`, `RoutersCarryOne` and `ResignsWithoutRoutes` speak of
behaviours in which nothing that was lost has come back and no drop of the
sessions has failed (`healed`): when storage or sessions come back, the role can come back during the settle sleep of a step-down, the loop announces
again, and the Resign that follows is called with routes out. The fault `hold` is
off: with it a session negotiated after the last renewal
has a longer hold time than the record says, and a standby takes over while
routers still carry the old routes. `SwapMayFail` is
off in `wire`: a router-table swap whose withdraw fails ends the process, and
until it has ended `OnePathPerPrefix` does not hold. `early` is not among the
faults of `upgrade` and `upgrade_faults`: a switch in a version's first 30
seconds makes an unproven version the fallback, and `DroppedAfterTwo` fails.
`TableInInject` is on in `reload_view` and off in `reload_table`.

Seven more places where the code and its own documentation differ can be seen by
changing one line of a configuration:

- `ResignWithinTTL = FALSE` in `MCLease.cfg`: `AtMostOneActive` is violated. A
  `Resign` that waits for the lock for a ttl releases the lease that its own
  process has reacquired meanwhile (`lease.go`, `Resign`).
- `"early"` among the `Faults` of `MCUpgradeFaults.cfg`: `RunsWhatIsRecorded` is
  violated. `Confirm` saves what it loaded before a switch was recorded, and so
  takes the switch back (`manager.go`, `Confirm`).
- `FailureIsRetried` as an invariant of `MCFeed.cfg`: a reload that fails after the
  daemon took the routes is not repeated when the set it should have replaced is
  wanted again (`consumer.go`, `put`; `external-policy.md` says it is retried).
- `FeedExact` as an invariant of `MCFeed.cfg`: an announcer call that fails after it
  removed routes leaves them in the feed, which `mirror.go` says "lists exactly what
  is on the wire". `FeedOnWire` says that nothing else is listed wrongly.
- `NoCutStored` as an invariant of `MCProbe.cfg`: a prober ends its reads at the
  round's deadline by the socket's timer. When that fires before the context's, the
  worker finds no error and a context that has not ended, and a run that the
  deadline cut short replaces the stored result, which the comment in `runRound`
  (`engine.go:1254`) rules out.
- `ConfirmProbed` as an invariant of `MCProbe.cfg`: `SetUrgent` during a sleep does
  not shorten it unless the quarter has passed already, so a prefix that is being confirmed can
  wait for a full interval where `CONFIG.md` says a quarter of it.
- in `MCDecide`, a config among `DConfigs` whose `allow` leaves the prefix out, or
  whose `confirm` is 1, and a start with `confirm` 2, three probe rounds and two
  operator events: `ConfirmedMoves` is violated. Under such a config `Decide` leaves the
  streak alone, which so survives a round that its provider lost, while `CONFIG.md`
  says that such a round resets it. The attempt to prove the property led here.

Bounds. `MCLease` has two instances with ttl 4 and renew 1 (the smallest the
configuration check allows) and no effective bound on time or restarts: the view
keeps only differences of times, each capped at the largest value an action
compares it with, so the reachable set is finite and complete. `MCHA` uses the
same kind of view, without the instances' names, and bounds restarts and the
number of fault events; two events and one restart per instance cover every
hand-over followed by a second fault during it. The hold time is 2, longer than
the settle time of 1. `Scope` leaves out what follows a crash, a shutdown or a
restart after something lost came back or a drop failed, and then also a second
loss unless the instance is alone: `RoutersCarryOne` and `ResignsWithoutRoutes`
claim nothing there, and `WithdrawComes` is about one instance. `MCWire` has one inbound and one ordinary prefix, a cap of one
and one rule: two controllers compete for the cap, and all three for a prefix.
`MCDecide` has two prefixes and three providers, the native one among them: two
prefixes compete for a cap of one, and a flap needs two alternatives. `MCView`
has two neighbors, two add-path identifiers and one monitored router, in scopes
that enable sessions, reloads, drops, BMP and table readers together where they
interact; `MCReloadView` runs a reload or the view in a behaviour, since the two
models share no state. Symmetry is used in `MCLease`, where the two instances are interchangeable. Deadlock is not
checked for `Lease` and `HA`, where both processes may have ended for good,
nor for `Decide`, `Reload` and `Rib`, whose budgets of outside events end. `MCUpgrade` has three releases, so that an
active version, a rollback target and one more can differ, and seven events:
enough for two switches with crashes in both and a rollback. Its view caps start
counts just above `MaxAttempts`, the only value they are compared with. A
version that stays up may run on without a further event, so deadlock is not
checked there. `MCFeed` has one lifetime of 6, three intervals of 2, which is the
least `validateExternalPolicy` accepts, and transit, apply and retry of one unit
each; three events cover a change, a fault and a fault while the first is being
handled. Its view leaves out a timer, a target or a revision where no action reads
it any more, and `lag` once the feed is no longer healthy. `HealthyKeeps` needs the slack of the long poll to exceed the transit
time, as five seconds do. The bound of `DropsOnTime` is the lifetime plus one
transit and two applies: the consumer counts the lifetime from the arrival of
the answer, and an apply begun just before the deadline is followed by the one
that empties the set. `MCProbe` has two providers, two ordinary prefixes and a
barred one, two workers with one probe per provider, and a source of each kind,
cached and not; each start has a budget for one or two kinds of outside events,
chosen so that the kinds that meet in the code are together. `MCReload` has two
plugins, two routers and seventeen files that differ in several groups of keys
at once; four reloads, the last three of which start from a config that was
applied or undone, reach every combination of an undo and the reload after it.
`MCServices` runs three components that share no state side by side, one in each
behaviour. The RTR server makes two changes of three payloads, with a limit of
two payloads and one fault: a notify for the second change meets the response for
the first. One agent with one slot, two tasks and two polls have a held poll
beside a given-up one and a task that waits for the slot; three troubles are a
lost poll, a crash and an aged agent in any order. Three processes and two
callers let both calls hold on to old processes while a third is in service, with
three mishaps. Deadlock is not checked there: Probe calls end.

Fairness. `Recovers`, in `upgrade`, assumes that the supervisor starts the
process again (systemd and the container restart policies of the documentation),
that goroutines of a running process get to run, that timers fire, and that a
version that is bad does end. `KeepsProbing`, in `probe`, assumes that the
engine's goroutines run, that its timers fire and that a slow probe or source
returns in the end: each has a timeout of its own in the code.
`ServicesRecover`, in `services`, assumes for the RTR client that its loop redials
and reads, that the refresh timer fires and that the server answers what it is
asked (a silent one is the fault of the run, bounded); and for the supervisor
that its loop runs and that the retry time comes. Requests, crashes, signals and
faults are never fair.

The type invariants of `Lease`, `HA`, `Upgrade`, `Feed` and `Wire` are proved, so no
run repeats them; in `Reload`, `Probe`, `Decide`, `Rib`, `Agents` and `Supervisor` the
inductive invariant says what each part is. `RemembersWhatRan` and `AbortKeepsCurrent` are proved as well
and not run.


## 4. Proofs

`LeaseProofs` proves, for every set of instances and every ttl, renew interval
and hold time that satisfies `ConfigAssumption`:

- `TypeCorrect`: `Spec => []TypeOK`;
- `MutualExclusion`: at most one instance is active, if `ResignWithinTTL`;
- `Refinement`: under the same assumption the elector implements
  `Leadership`: every step leaves the set of active instances alone, adds one
  to the empty set, or removes the only one.

`AtMostOneActive` is not inductive. `IInv` (in `Lease`) adds why it holds: the
lock excludes (`LockInv`); whoever is active holds the record (`HolderInv`); what
another instance has seen of that record it saw no earlier than the start of
the renewal that keeps the holder active (`SeenInv`), so its wait of at least a
ttl outlasts the holder's deadline of half a ttl; hence whoever decides to write
finds nobody else active (`WriteInv`), and until it has activated nobody has
seen the new record (`RenamedInv`); and a Resign in progress keeps its instance
inactive (`ResignInv`), which is where `ResignWithinTTL` enters. The two facts
about numbers, `HalfTTL` and `WaitCoversTTL`, are lemmas of their own.

`UpgradeProofs` proves, for every set of releases and every bound:

- `TypeCorrect`, for all faults;
- `RollbackStaysOnDisk`, `RecordedIsRunning`, `DropsAfterMaxAttempts`,
  `SwitchRemembersWhatRan` and `AbortRestoresWhatRuns`, each under the
  assumption that the faults it does not survive do not happen (stated in the
  theorem).

The inductive invariant is in `Upgrade`, in parts, because the theorems need
different ones under different assumptions: which activities exclude each other
(`QuietInv`), what is on disk (`DiskInv`), what a Confirm under way has loaded
(`ConfirmInv`), how `state.json` and the process agree (`RecordInv`, `BaseInv`,
`EmptyInv`), that whatever is confirmed or a fallback has stayed up
(`ProvenInv`), how often an unconfirmed version was started (`CountInv`) and that
the rollback target is what ran (`RanInv`).

`FeedProofs` proves, for every set of prefixes and all times that satisfy
`FeedAssumption`:

- `TypeCorrect` and `FeedMatchesWire` (`FeedOnWire`: the feed lists only what is on
  the wire, just leaving it, or torn off it by a call that failed);
- `FailSafe` (`DropsOnTime`) and `StopLeavesNothing` (`StopDrops`), of a daemon that
  no failed apply has left in a state the consumer does not know of (`half`).

No fault is assumed away: announcer calls and applies may fail half-way at any time.

`DropsOnTime` is not inductive: `RenewInv` ties the age in the feed to the newest
round, `LeftInv` carries the remaining lifetime from the document through the
answer to the consumer (its sum with the age never exceeds lifetime plus
transit), `AppliedInv` says what the consumer believes and that a non-empty set
is only applied before the deadline, and `KeepInv` bounds the age at each place
of the loop. `CallInv` is the same for a `Mirror` call, `StoppedInv` for a stop.

It also proves, for every set of prefixes, any number of events, all faults
and all times that satisfy `FeedAssumption` and `PollsCover`:

- `HealthyNeverExpires` (`HealthyKeeps`): while nothing is lost or late, no
  applied route reaches its deadline on the consumer;
- `WithdrawsPromptly` (`WithdrawPrompt`): then a route that left the feed is off the
  daemon within two transit times.

`PollsCover` says that the slack of the long poll exceeds a transit time and that
a heartbeat and its answer end within the lifetime less one interval, the age that
a document may have when it is sent. `HeartbeatOf` and the lower limit of three intervals for a lifetime make
the second a matter of a transit time below a third of the lifetime. `HealthyInv`
adds what a healthy feed looks like: rounds in time and a loop without failures
(`SmoothInv`); whatever place the request has reached, its answer comes before the
fetch gives up and before the routes expire (`FreshInv`); equal revisions mean
equal routes, and a parked request waits for the revision that the consumer has
(`RevInv`), so a change cannot slip in between the look at the revision and the
wait; and a delisted route is at most one answer that was under way and one more
from its end (`LagInv`). The proof is why `lag` is per prefix: a clock for the
whole set would run on when a second route leaves while the first withdraw is
under way, and then two transits are not enough.

`WireProofs` proves, for any prefixes, any cap and any number of rules, with every
announcer call free to fail:

- `TypeCorrect` (the types, and the order of the stages of a round) and
  `SharedCapHolds` (`SharedCap`), without an assumption;
- `OnePathHolds` (`OnePathPerPrefix`), `NothingOrphaned` (`NoOrphan`),
  `OnlyInInject` (`OutOfInject`) and `HeldHolds` (`HeldStaysOut`), unless a change
  of the router table fails (`SwapMayFail`), which ends the process.

None is inductive, because a Sync announces some steps after it decided to. The
claim of a controller is its slots, its paths and, while it is in its Sync, what
it is about to announce. `ClaimInv` says that the claims of the three are disjoint,
that inbound stays with its own prefixes and outbound off them, and that a
controller out of inject has no claim; `SlotInv` that a path has a slot, or gets
one when mitigation commits. For the cap, `CapInv` says that a published count is
right while its controller's lock is free and that a slot once granted is still
there when the call is made: the other controller can only give slots back
meanwhile. `HeldInv` says that a held prefix is in no claim of outbound once the
watch has looked at the wire after setting the hold.

`ControllerProofs` proves about the probe engine, for any targets, providers, sources, timings, numbers of
workers and calls from outside: `ProbesBounded` (`BoundedProbes`),
`NoLateProbeStored` (`NoLateStored`), `FailsClosed` (`FailClosed`) and `WakesInTime`
(`NotOverslept`). `Timed` keeps intervals, ages and waits numbers. `RoundInv` says
that a probe runs only in the round that waits for it or while the engine is busy
with a round it gave up, and that a job of a round waits, runs or is finished, and
only one of them; hence a new round finds no old probe. `LateInv` says that a result
that came after the deadline has not passed the worker's look at the context, and
that the deadline has not moved since. `ResultInv` says that nothing stored or
collected is late, that a result without a usable source has its provider
down until it is measured again, and that the providers that are up are exactly
those with neither kind of failure. `NotOverslept` is inductive beside them: `Rest`
takes the least time any prefix is due in, a quarter of the interval for one that is
urgent, calls leave the cadences to the next
round, and the clock moves both sides alike.

About a reload it proves, for every set of plugins, routers and files and any number
of reloads:

- `AllOrNothing` (`RunsItsConfig`): between reloads every part runs the config
  that the reloader says it runs;
- `SteeringStaysUnder` (`SteeringUnderInject`) and `RefusedIsSilent`
  (`RefusedNeverAnnounces`);
- `TableBeforeSessions` (`RoutersFollowTable`), if the table of a bound announcer
  changes only in inject.

None is inductive: each says what holds between reloads or on the wire, and
nothing of a reload half done. `IInv` says for every step of a reload what each
part runs: the old config or the new one, by whether its step has been taken
(`ControlInv`, `PluginInv`, `SessionInv`); that the steps still to do come after
the ones done in the order of `applyRuntime` (`OrderInv`), which is why steering
never injects alone; what the plan promised (`PlanInv`); and that what is on the
wire went out under the controller's own table (`ExportInv`). An undo then finds
exactly the parts to put back.

`ServicesProofs` proves `EveryCallOneAnswer` (`OneAnswer`) for any agents, tasks,
polls and slots. `OneAnswer` alone is not inductive: that a call has an outcome or
a task somewhere says nothing of a task that a second agent holds, or that is both
queued and in flight and would get two outcomes. `HeldOnce` says it: what an agent
holds is held once, was given to this agent, and its call waits without an
outcome.

It proves `NoProcessLost` (`ProcessesOwned`) for any processes and
callers. `Owned` adds what the loop can count on at each of its points: that
nothing is in service while it restarts, so a new process overwrites none; that
`dead` is empty once it has ended, because without a process in service
`markDown` adds nothing; and that Start runs only beside no loop.

And it proves, for every table and any limit of the dirty set,
`SnapshotIsCurrent`: a snapshot that is taken as it is equals the published
routes. `SnapInv` adds why: the snapshot, and the table a refresh is building,
differ from the published routes only in dirty prefixes, and without a dirty set
there is no snapshot.

For any neighbors and any interleaving of the calls that change sessions with the
reports that wait in the queue, it proves `DroppedIsDown` (`DroppedStaysDown`). The
inductive invariant is `LinkInv`. `DropInv`: while a drop goes on, every peer is
shut, still on its list, or being added by a call that looks at the mark once more.
`ConfInv`: a neighbor that the view does not know, or that is being removed, has no
state. `WordInv`: of a session that was tried and is down, the last
report in the queue, or else the view, does not say up; so once the queue is empty
the view is not ready. It speaks of the last report and not of all, because a
session that flaps leaves an `up` behind it in the queue.

`HAProofs` proves, for any number of instances, all ttls, renew intervals and hold
times that the configuration accepts, and any number of crashes, shutdowns,
restarts and faults:

- `WithdrawIsComing` (`WithdrawComes`), without a further assumption;
- `OneInstanceCarried` (`RoutersCarryOne`) and `ResignsClean`
  (`ResignsWithoutRoutes`), under `HandoverFits`.

`HandoverFits` says when the wait of a standby is long enough: the hold time in the
record is the one that routers use, a hold time is no shorter than the settle time,
and half a ttl and the renew interval of one instance fit into what the other waits
beyond the hold time, as they do with equal settings. `CoreInv` is what one
instance can count on at each point of its handler and its shutdown (`StageInv`,
`DownInv`), and that a role change nobody has handled yet covers an instance that
has paths and not the role (`WakeInv`). `HandoverInv` holds while nothing lost came
back: who may announce holds the record and renewed it no longer ago than the
others have waited (`HolderInv`, `RenewInv`, `RecordInv`); routes that linger belong
to the instance in the record, and whoever waits for the record waits them out
(`LingerInv`); and an instance that gave up the role does not take it again before it
has resigned, which it does when its routes have left the routers (`RoleInv`). The
proof found that a shutdown has to end with its process: a process killed during
its shutdown would otherwise start again in the middle of it.

`DecideProofs` proves, for any prefixes and providers, all measurements, answers of
the policies, configurations and times, and any cap: `HeldOffIsNative`
(`HeldOffStaysNative`), `WithdrawalIsReal` (`WithdrawIsReal`) and `CapHolds`
(`WithinCap`). `HeldInv` adds that a hold-off is also the cooldown of the prefix: every
lane of `Decide`, pins and the planner included, asks for a cooldown of zero and no
quarantine. `SeenInv` adds for how long an improvement
can have been seen together with the native path: no longer than its route is out;
and when a router hides that path the loop looks before time passes, so the engine
never counts it as seen for `NativeConfirm` and then gone. `WithinCap` needs no
invariant beyond the types, and a count: the trim leaves at most as many steers as
the cap, whatever a reload made of it before; a move that is admitted finds room or
displaces another first (`CapStep`). The lemmas go along the code: one prefix by
itself, the trim, the queue, the verification, then the actions. Those that count
assume `SetFacts`, a list of facts about finite sets that `SetsAreSo` derives from
the library at the end of the module; the theorems assume nothing but
`DecideConstants`.

Only model-checked:

- `Recovers`, `KeepsProbing` and `ServicesRecover`: liveness under fairness is out
  of the prover's reach.
- `ServesOneVersion` of `Rtr`: what a response builds is a fold over the records of
  a delta, and what a fold computes for every sequence needs an induction that the
  installed provers cannot do.
- `ViewSettles` of `Rib`: what the view ends up with depends on all reports in the
  queue, in their order, so it needs an induction over the queue. `DroppedStaysDown`
  needs only the last one.
- `FlapBounded` of `Decide`: it counts the entries of a sequence that `SelectSeq`
  keeps, again an induction over data.
- `ConfirmedMoves` of `Decide`: it does not hold for every set of configs (section 3,
  last item of the list), only where a reload leaves the allowlist and
  `confirm_rounds` alone.
- The findings: TLC's counterexamples are the evidence.

## 5. Not modelled, and the plan

Not modelled, with the reasons in `PROJECT.json` under `components`:
measurements and socket I/O, parsing and validation of configuration, reports,
pages and one-shot tools. What they produce enters the models as free choices.

Planned, in this order:

1. `Announce`: the outbound controller alone, with learned and synthesized
   more-specifics, their share of the cap and the order of withdraws, as a
   refinement of the outbound part of `Wire`.
2. `Mitigation`: rule expiry, the hide window, FlowSpec rules and their wire
   table; `InboundDamping`.
3. The feed's gRPC stream, `Queues` (notify, export), `Federation`.
4. Proofs: the refinement of `Wire` by `Announce`.
