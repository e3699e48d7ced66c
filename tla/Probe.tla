------------------------------- MODULE Probe --------------------------------
(***************************************************************************)
(* The probe engine (internal/probe: engine.go, dispatch.go, retain.go,    *)
(* manual.go, pathcheck.go): Run's loop of rounds and sleeps, the target   *)
(* sources with their cache, the plan of a round, its workers and its      *)
(* deadline, what a round stores, and the calls the decision loop, the     *)
(* path check, a reload and an operator make beside it.                    *)
(*                                                                         *)
(* A job is one provider measured toward one prefix.  A worker is the job  *)
(* it runs; an idle worker has no state.  What a prober answers is "ok"    *)
(* (a measurement, or an error that is stored as one) or "down" (the       *)
(* source address cannot be used).  What ends a probe is kept: a prober    *)
(* that stops at the round's deadline answers with a partial measurement   *)
(* and no error.  Which hosts a job tries, the prober chain and its        *)
(* memory, sub-ranges, indirect traces and the statistics are inside the   *)
(* probe and left out; with them go the marks of silent providers, which   *)
(* only shorten a probe.  Jobs of equal rank start in any order: in the    *)
(* code it is the order in which the sources list them.                    *)
(*                                                                         *)
(* Time is relative: ages count up to MaxAge, countdowns count down.  It   *)
(* passes while the engine waits for a source, for a probe or for its      *)
(* timer.                                                                  *)
(***************************************************************************)
EXTENDS Integers, FiniteSets, FiniteSetsExt, Functions

CONSTANTS
  Prefix, Provider,
  Source,        \* target sources 1..n, in the order they are read
  FreshSource,   \* sources whose list is never cached
  Barred,        \* prefixes in probe.exclude or inside an exchange LAN
  Reach,         \* <<provider, prefix>> of one address family
  Workers,       \* concurrent probes
  Inflight,      \* probe.provider_inflight, 0 for no limit
  RoundTime,     \* the deadline of a round
  ManualTTL, MaxManual,
  Lists,         \* the target lists a source can answer with
  Intervals,     \* values of probe.interval that a reload can set
  MaxAge,        \* bound: ages stop here, above every interval
  ProbeStarts    \* per scope: the first lists, and budgets of outside events

\* A list of targets: an interval of 0 stands for the engine's.
IsList(ts) == \A p \in DOMAIN ts : ts[p] \in [every : Nat, urgent : BOOLEAN]

ASSUME ProbeAssumption ==
  /\ Workers \in Nat /\ RoundTime \in Nat /\ Intervals \subseteq Nat
  /\ \A ts \in Lists : IsList(ts)
  /\ \A s \in ProbeStarts :
       s.base \in Nat /\ DOMAIN s.lists = Source /\ \A i \in Source : IsList(s.lists[i])

VARIABLES
  lists, cache, srcBusy,          \* the sources, and what the engine has of them
  eng,                            \* Run: where it is, with its local variables
  base,                           \* probe.interval
  jobs, queue, run, fresh,        \* a round: all jobs, waiting, running, finished
  results, srcDown, pathDown, up, \* what is stored
  cadence, last,                  \* intervals and ages of the prefixes probed
  memory, retained, urgent, manual,
  wake, busy,
  stray,                          \* history: probes of rounds no longer waited for
  budget

srcVars == <<lists, cache, srcBusy>>
roundVars == <<jobs, queue, run, fresh>>
storeVars == <<results, srcDown, up>>
askVars == <<memory, manual>>
probeVars == <<srcVars, eng, base, roundVars, storeVars, pathDown, cadence, last,
               askVars, retained, urgent, wake, busy, stray, budget>>

Job == Provider \X Prefix
Nothing == [x \in {} |-> x]

\* The map m with k set to v, and the map f with what only g has.
Put(m, k, v) == [x \in DOMAIN m \cup {k} |-> IF x = k THEN v ELSE m[x]]
Over(f, g) == [x \in DOMAIN f \cup DOMAIN g |-> IF x \in DOMAIN f THEN f[x] ELSE g[x]]

Spend(kind) == budget[kind] > 0 /\ budget' = [budget EXCEPT ![kind] = @ - 1]

ProbeInit ==
  \E s \in ProbeStarts :
    /\ lists = s.lists /\ cache = Nothing /\ srcBusy = {}
    /\ eng = [pc |-> "ready", src |-> 0, out |-> Nothing, due |-> {}, left |-> 0, wait |-> 0, done |-> FALSE, hurry |-> {}]
    /\ base = s.base
    /\ jobs = {} /\ queue = {} /\ run = Nothing /\ fresh = Nothing
    /\ results = Nothing /\ srcDown = {} /\ pathDown = {} /\ up = Provider
    /\ cadence = Nothing /\ last = Nothing
    /\ memory = Nothing /\ retained = {} /\ urgent = {} /\ manual = Nothing
    /\ wake = FALSE /\ busy = FALSE /\ stray = 0
    /\ budget = s.budget

-----------------------------------------------------------------------------
(* Intervals.  A target's interval of 0 stands for the engine's. *)

Every(i) == IF i > 0 THEN i ELSE base
confirmProbeGap(i) == IF i \div 4 > 0 THEN i \div 4 ELSE i
Left(age, i) == Max({0, i - age})

\* A later source can only shorten the interval of a prefix.
shortenInterval(i, j) == IF Every(j) < Every(i) THEN j ELSE i

Merged(a, b) ==
  [p \in DOMAIN a \cup DOMAIN b |->
     IF p \notin DOMAIN b THEN a[p]
     ELSE IF p \notin DOMAIN a THEN b[p]
     ELSE [every |-> shortenInterval(a[p].every, b[p].every),
           urgent |-> a[p].urgent \/ b[p].urgent]]

-----------------------------------------------------------------------------
(* Reading the sources *)

\* Mutant: a round starts although probes of the last one still run.
BeginAlways ==
  /\ eng.pc = "ready"
  /\ eng' = [eng EXCEPT !.pc = "gather", !.src = 1, !.out = Nothing, !.left = RoundTime]
  /\ stray' = stray + Cardinality(DOMAIN run) /\ run' = Nothing
  /\ UNCHANGED <<srcVars, base, jobs, queue, fresh, storeVars, pathDown, cadence, last,
                 askVars, retained, urgent, wake, busy, budget>>

\* runRound: skipped while probes of a timed-out round are still running.
Begin ==
  /\ eng.pc = "ready"
  /\ IF busy
     THEN /\ eng' = [eng EXCEPT !.pc = "rest", !.done = FALSE]
          /\ UNCHANGED <<run, stray>>
     ELSE /\ eng' = [eng EXCEPT !.pc = "gather", !.src = 1, !.out = Nothing, !.left = RoundTime]
          /\ stray' = stray + Cardinality(DOMAIN run) /\ run' = Nothing
  /\ UNCHANGED <<srcVars, base, jobs, queue, fresh, storeVars, pathDown, cadence, last,
                 askVars, retained, urgent, wake, busy, budget>>

\* loadSource: the cached list, if it is young and asks for no short interval.
Cached(s) ==
  /\ s \notin FreshSource /\ s \in DOMAIN cache
  /\ ~cache[s].fast /\ cache[s].age < base

Fast(ts) == \E p \in DOMAIN ts : ts[p].every > 0 /\ ts[p].every < base

\* gatherTargets, one source: from the cache, or by a call; a source whose
\* last call has not returned makes the round incomplete.
GatherStep ==
  /\ eng.pc = "gather" /\ eng.src \in Source
  /\ \/ /\ Cached(eng.src)
        /\ eng' = [eng EXCEPT !.src = @ + 1, !.out = Merged(@, cache[eng.src].ts)]
        /\ UNCHANGED srcBusy
     \/ /\ ~Cached(eng.src) /\ eng.src \in srcBusy
        /\ eng' = [eng EXCEPT !.pc = "rest", !.done = FALSE]
        /\ UNCHANGED srcBusy
     \/ /\ ~Cached(eng.src) /\ eng.src \notin srcBusy
        /\ eng' = [eng EXCEPT !.pc = "source"]
        /\ srcBusy' = srcBusy \cup {eng.src}
  /\ UNCHANGED <<lists, cache, base, roundVars, storeVars, pathDown, cadence, last,
                 askVars, retained, urgent, wake, busy, stray, budget>>

\* The source answers in time; a failure is cached like a list.
SourceAnswers(failed) ==
  /\ eng.pc = "source" /\ eng.left > 0
  /\ IF failed THEN Spend("fail") ELSE UNCHANGED budget
  /\ \E ts \in {IF failed THEN Nothing ELSE lists[eng.src]} :
       /\ cache' = Put(cache, eng.src, [age |-> 0, ts |-> ts, fast |-> Fast(ts)])
       /\ eng' = [eng EXCEPT !.pc = "gather", !.src = @ + 1, !.out = Merged(@, ts)]
  /\ srcBusy' = srcBusy \ {eng.src}
  /\ UNCHANGED <<lists, base, roundVars, storeVars, pathDown, cadence, last,
                 askVars, retained, urgent, wake, busy, stray>>

\* The source gives up by a timeout of its own: the round is incomplete, and
\* the failure is not cached.
SourceGivesUp ==
  /\ eng.pc = "source" /\ eng.left > 0 /\ Spend("fail")
  /\ eng' = [eng EXCEPT !.pc = "rest", !.done = FALSE]
  /\ srcBusy' = srcBusy \ {eng.src}
  /\ UNCHANGED <<lists, cache, base, roundVars, storeVars, pathDown, cadence, last,
                 askVars, retained, urgent, wake, busy, stray>>

\* The deadline passes first: the round ends, the call goes on.
SourceLate ==
  /\ eng.pc = "source" /\ eng.left = 0
  /\ eng' = [eng EXCEPT !.pc = "rest", !.done = FALSE]
  /\ UNCHANGED <<srcVars, base, roundVars, storeVars, pathDown, cadence, last,
                 askVars, retained, urgent, wake, busy, stray, budget>>

\* Mutant: the late return of a source is not noticed.
SourceForgotten(s) ==
  /\ s \in srcBusy /\ ~(eng.pc = "source" /\ eng.src = s)
  /\ UNCHANGED probeVars

\* A call that nobody waits for returns.
SourceReturns(s) ==
  /\ s \in srcBusy /\ ~(eng.pc = "source" /\ eng.src = s)
  /\ srcBusy' = srcBusy \ {s}
  /\ UNCHANGED <<lists, cache, eng, base, roundVars, storeVars, pathDown, cadence, last,
                 askVars, retained, urgent, wake, busy, stray, budget>>

-----------------------------------------------------------------------------
(* The plan of a round *)

\* keepImproved: what a source listed last is remembered while it is listed
\* or retained, and a retained prefix stays a target.
Remembered(out) ==
  [p \in DOMAIN out \cup (DOMAIN memory \cap retained) |->
     IF p \in DOMAIN out THEN out[p].every ELSE memory[p]]

keepImproved(out) ==
  Over(out, [p \in retained |-> [every |-> IF p \in DOMAIN memory THEN memory[p] ELSE 0,
                                 urgent |-> FALSE]])

applyUrgent(out) == [p \in DOMAIN out |-> [out[p] EXCEPT !.urgent = @ \/ p \in urgent]]

Unexpired == Restrict(manual, {p \in DOMAIN manual : manual[p].ttl > 0})

applyManual(out, m) ==
  LET asked == {p \in DOMAIN m : ~m[p].probed}
  IN Over([p \in DOMAIN out |-> [out[p] EXCEPT !.urgent = @ \/ p \in asked]],
          [p \in DOMAIN m |-> [every |-> 0, urgent |-> p \in asked]])

\* The end of gatherTargets: dropExchangeLANs and dropExcluded come last.
Targets(out) ==
  LET all == applyManual(applyUrgent(keepImproved(out)), Unexpired)
  IN Restrict(all, DOMAIN all \ Barred)

targetDue(p, t) ==
  \/ t.urgent /\ p \notin urgent
  \/ p \notin DOMAIN last
  \/ last[p] >= (IF t.urgent THEN confirmProbeGap(Every(t.every)) ELSE Every(t.every))

\* Urgent first, then by interval: shorter than the engine's, equal, longer.
jobRank(t) ==
  LET e == Every(t.every)
  IN (IF t.urgent THEN 0 ELSE IF e < base THEN 1 ELSE IF e = base THEN 2 ELSE 3) * MaxAge + e

Kept(m, ps) == Restrict(m, {j \in DOMAIN m : j[2] \in ps})

\* All sources are read: the targets of the round, and the jobs of those that
\* are due.  With none due nothing is probed; results of prefixes that are no
\* longer targets are dropped all the same.
Plan ==
  /\ eng.pc = "gather" /\ eng.src \notin Source
  /\ \E ts \in {Targets(eng.out)} :
       LET due == {p \in DOMAIN ts : targetDue(p, ts[p])}
           js == {j \in Reach : j[2] \in due}
       IN /\ cadence' = [p \in DOMAIN ts |-> Every(ts[p].every)]
          /\ IF due = {} /\ ts # Nothing
             THEN /\ results' = Kept(results, DOMAIN ts)
                  /\ eng' = [eng EXCEPT !.pc = "rest", !.out = Nothing, !.done = TRUE]
                  /\ UNCHANGED roundVars
             ELSE /\ jobs' = js
                  /\ queue' = {[job |-> j, rank |-> jobRank(ts[j[2]])] : j \in js}
                  /\ run' = Nothing /\ fresh' = Nothing
                  /\ eng' = [eng EXCEPT !.pc = "probe", !.out = Nothing, !.due = due]
                  /\ UNCHANGED results
  /\ memory' = Remembered(eng.out) /\ manual' = Unexpired
  /\ UNCHANGED <<srcVars, base, srcDown, up, pathDown, last, retained, urgent,
                 wake, busy, stray, budget>>

-----------------------------------------------------------------------------
(* The workers *)

Running(v) == Cardinality({j \in DOMAIN run : run[j].st = "probing" /\ j[1] = v})
Queued(v) == {q \in queue : q.job[1] = v}
First(Q) == {q \in Q : \A r \in Q : q.rank <= r.rank}

\* dispatcher.pick: the provider with the fewest jobs in flight takes its
\* first job; on a tie the job that ranks first goes.
Pick ==
  LET V == {v \in Provider : Queued(v) # {} /\ (Inflight = 0 \/ Running(v) < Inflight)}
      W == {v \in V : \A u \in V : Running(v) <= Running(u)}
  IN First(UNION {First(Queued(v)) : v \in W})

CanStart == eng.pc = "probe" /\ eng.left > 0 /\ Cardinality(DOMAIN run) < Workers /\ Pick # {}

\* A worker takes a job.
NextJob ==
  /\ CanStart
  /\ \E q \in Pick :
       /\ queue' = queue \ {q}
       /\ run' = Put(run, q.job, [st |-> "probing", slow |-> FALSE, down |-> FALSE, end |-> "full"])
  /\ UNCHANGED <<srcVars, eng, base, jobs, fresh, storeVars, pathDown, cadence, last,
                 askVars, retained, urgent, wake, busy, stray, budget>>

\* A probe takes time; it may ignore its own deadline and the round's.
Slow(j) ==
  /\ j \in DOMAIN run /\ run[j].st = "probing" /\ ~run[j].slow /\ Spend("probe")
  /\ run' = [run EXCEPT ![j].slow = TRUE]
  /\ UNCHANGED <<srcVars, eng, base, jobs, queue, fresh, storeVars, pathDown, cadence, last,
                 askVars, retained, urgent, wake, busy, stray>>

\* What a probe that returns now has measured.  After the deadline its context
\* has ended and it is "late".  A slow probe ends its reads at the deadline, by
\* a timer of its own (EndReads), which can fire before the context's does: it
\* then has what it read so far and no error.
Ends(j, down) ==
  IF eng.left = 0 THEN {"late"}
  ELSE IF run[j].slow /\ eng.left = 1 /\ ~down THEN {"full", "reads"} ELSE {"full"}

\* The probe returns.
Return(j, down) ==
  /\ j \in DOMAIN run /\ run[j].st = "probing"
  /\ IF down THEN Spend("down") ELSE UNCHANGED budget
  /\ \E e \in Ends(j, down) :
       run' = [run EXCEPT ![j] = [st |-> "returned", slow |-> FALSE, down |-> down, end |-> e]]
  /\ UNCHANGED <<srcVars, eng, base, jobs, queue, fresh, storeVars, pathDown, cadence, last,
                 askVars, retained, urgent, wake, busy, stray>>

\* Mutant: the worker sends whatever the probe returned.
CheckNothing(j) ==
  /\ j \in DOMAIN run /\ run[j].st = "returned"
  /\ run' = [run EXCEPT ![j].st = "sending"]
  /\ UNCHANGED <<srcVars, eng, base, jobs, queue, fresh, storeVars, pathDown, cadence, last,
                 askVars, retained, urgent, wake, busy, stray, budget>>

\* The worker looks at the round's context before it sends: after the deadline
\* it drops the result.
CheckDeadline(j) ==
  /\ j \in DOMAIN run /\ run[j].st = "returned"
  /\ run' = IF eng.left = 0 THEN Restrict(run, DOMAIN run \ {j}) ELSE [run EXCEPT ![j].st = "sending"]
  /\ UNCHANGED <<srcVars, eng, base, jobs, queue, fresh, storeVars, pathDown, cadence, last,
                 askVars, retained, urgent, wake, busy, stray, budget>>

\* The collector takes the result, also one that was sent as the deadline
\* passed; a worker that cannot send by then drops it.
Deliver(j) ==
  /\ j \in DOMAIN run /\ run[j].st = "sending"
  /\ \/ /\ eng.pc = "probe"
        /\ fresh' = Put(fresh, j, [down |-> run[j].down, end |-> run[j].end])
     \/ eng.left = 0 /\ UNCHANGED fresh
  /\ run' = Restrict(run, DOMAIN run \ {j})
  /\ UNCHANGED <<srcVars, eng, base, jobs, queue, storeVars, pathDown, cadence, last,
                 askVars, retained, urgent, wake, busy, stray, budget>>

-----------------------------------------------------------------------------
(* The end of a round *)

\* Mutant: only the results of a complete round count for a source's health.
StatusLenient(R) ==
  /\ srcDown' = IF DOMAIN R = jobs
                THEN {v \in srcDown : \A j \in DOMAIN R : j[1] # v} \cup {j[1] : j \in {k \in DOMAIN R : R[k].down}}
                ELSE srcDown
  /\ up' = Provider \ (srcDown' \cup pathDown)

\* applyStatusLocked: one result without a usable source takes its provider
\* down; a provider with no result stays as it was.
applyStatus(R) ==
  /\ srcDown' = {v \in srcDown : \A j \in DOMAIN R : j[1] # v} \cup {j[1] : j \in {k \in DOMAIN R : R[k].down}}
  /\ up' = Provider \ (srcDown' \cup pathDown)

\* commit, storeResults: the finished results replace the stored ones, and
\* prefixes that are no longer targets are dropped.  `new` is history: the
\* result belongs to the last round that stored any of its provider.
Store(R) ==
  LET old == [j \in DOMAIN results |->
                [results[j] EXCEPT !.new = @ /\ \A k \in DOMAIN R : k[1] # j[1]]]
      new == [j \in DOMAIN R |-> [down |-> R[j].down, end |-> R[j].end, new |-> TRUE]]
  IN results' = Kept(Over(new, old), DOMAIN cadence)

\* rememberProbes, and Run's own record of when a prefix was probed.
rememberProbes(ps) ==
  /\ last' = [p \in DOMAIN last \cup ps |-> IF p \in ps THEN 0 ELSE last[p]]
  /\ manual' = [p \in DOMAIN manual |-> [manual[p] EXCEPT !.probed = @ \/ p \in ps]]

\* A round with every result is complete.  At the deadline the finished
\* results are stored and their prefixes count as probed; with none the round
\* leaves everything as it was.  leaveProbes: workers that have not returned
\* by then, if only by a moment, keep the engine busy.
EndRound ==
  /\ eng.pc = "probe" /\ (DOMAIN fresh = jobs \/ eng.left = 0)
  /\ IF fresh = Nothing /\ jobs # {}
     THEN /\ eng' = [eng EXCEPT !.pc = "rest", !.left = 0, !.due = {}, !.done = FALSE]
          /\ UNCHANGED <<storeVars, last, manual>>
     ELSE /\ eng' = [eng EXCEPT !.pc = "rest", !.left = 0, !.due = {}, !.done = TRUE]
          /\ Store(fresh) /\ applyStatus(fresh)
          /\ rememberProbes(IF DOMAIN fresh = jobs THEN eng.due ELSE {j[2] : j \in DOMAIN fresh})
  /\ busy' \in IF DOMAIN fresh = jobs THEN {busy}
               ELSE IF run # Nothing THEN {TRUE} ELSE BOOLEAN
  /\ jobs' = {} /\ queue' = {} /\ fresh' = Nothing
  /\ UNCHANGED <<srcVars, base, run, pathDown, cadence, memory, retained, urgent, wake, stray, budget>>

\* The last worker of a timed-out round has returned.
BusyClear ==
  /\ busy /\ run = Nothing
  /\ busy' = FALSE
  /\ UNCHANGED <<srcVars, eng, base, roundVars, storeVars, pathDown, cadence, last,
                 askVars, retained, urgent, wake, stray, budget>>

\* Mutant: the engine sleeps for the whole interval of a prefix that is urgent.
wakeAfterPlain(seen) ==
  LET wait(p) == IF p \in DOMAIN seen THEN Left(seen[p], cadence[p]) ELSE 0
  IN IF cadence = Nothing THEN base ELSE Min({wait(p) : p \in DOMAIN cadence})

\* The time between two probes of p, shorter if p is in U: being confirmed.
Pace(p, U) == IF p \in U THEN confirmProbeGap(cadence[p]) ELSE cadence[p]

\* wakeAfter: until the first prefix is due.
wakeAfter(seen) ==
  LET wait(p) == IF p \in DOMAIN seen THEN Left(seen[p], Pace(p, urgent)) ELSE 0
  IN IF cadence = Nothing THEN base ELSE Min({wait(p) : p \in DOMAIN cadence})

\* Run after a round: forget prefixes that are no longer targets, and sleep
\* until one is due; after a round that did nothing, for one interval.
\* `hurry` is history: what was urgent when the sleep began.
Rest ==
  /\ eng.pc = "rest"
  /\ last' = IF eng.done THEN Restrict(last, DOMAIN last \cap DOMAIN cadence) ELSE last
  /\ eng' = [eng EXCEPT !.pc = "sleep", !.wait = IF eng.done THEN wakeAfter(last') ELSE base,
                        !.hurry = urgent]
  /\ UNCHANGED <<srcVars, base, roundVars, storeVars, pathDown, cadence, askVars, retained,
                 urgent, wake, busy, stray, budget>>

\* The sleep ends by its timer or by a Wake; a Wake that comes with the timer
\* may stay for the next sleep.
Wakeup ==
  /\ eng.pc = "sleep" /\ (wake \/ eng.wait = 0)
  /\ eng' = [eng EXCEPT !.pc = "ready", !.wait = 0, !.hurry = {}]
  /\ wake' \in IF eng.wait = 0 THEN {FALSE, wake} ELSE {FALSE}
  /\ UNCHANGED <<srcVars, base, roundVars, storeVars, pathDown, cadence, last, askVars,
                 retained, urgent, busy, stray, budget>>

-----------------------------------------------------------------------------
(* Calls from outside *)

\* SetUrgent wakes the engine only if the gap of one prefix has passed.
SetUrgent(ps) ==
  /\ Spend("urgent")
  /\ urgent' = ps
  /\ wake' = (wake \/ \E p \in ps :
       \/ p \notin DOMAIN last
       \/ last[p] >= confirmProbeGap(IF p \in DOMAIN cadence THEN cadence[p] ELSE base))
  /\ UNCHANGED <<srcVars, eng, base, roundVars, storeVars, pathDown, cadence, last, askVars,
                 retained, busy, stray>>

SetRetained(ps) ==
  /\ Spend("retain") /\ retained' = ps
  /\ UNCHANGED <<srcVars, eng, base, roundVars, storeVars, pathDown, cadence, last, askVars,
                 urgent, wake, busy, stray>>

QueueManual(p) ==
  /\ Spend("manual")
  /\ IF p \in DOMAIN Unexpired \/ Cardinality(DOMAIN Unexpired) < MaxManual
     THEN manual' = Put(Unexpired, p, [ttl |-> ManualTTL, probed |-> FALSE]) /\ wake' = TRUE
     ELSE manual' = Unexpired /\ UNCHANGED wake
  /\ UNCHANGED <<srcVars, eng, base, roundVars, storeVars, pathDown, cadence, last, memory,
                 retained, urgent, busy, stray>>

SetTiming(i) ==
  /\ Spend("timing") /\ base' = i /\ wake' = TRUE
  /\ UNCHANGED <<srcVars, eng, roundVars, storeVars, pathDown, cadence, last, askVars,
                 retained, urgent, busy, stray>>

SetPathMismatch(v, mismatch) ==
  /\ Spend("path")
  /\ pathDown' = IF mismatch THEN pathDown \cup {v} ELSE pathDown \ {v}
  /\ up' = Provider \ (srcDown \cup pathDown')
  /\ UNCHANGED <<srcVars, eng, base, roundVars, results, srcDown, cadence, last, askVars,
                 retained, urgent, wake, busy, stray>>

\* What a source would answer changes.
Relist(s, ts) ==
  /\ Spend("list") /\ lists' = [lists EXCEPT ![s] = ts]
  /\ UNCHANGED <<cache, srcBusy, eng, base, roundVars, storeVars, pathDown, cadence, last, askVars,
                 retained, urgent, wake, busy, stray>>

-----------------------------------------------------------------------------
(* Time *)

Older(n) == IF n < MaxAge THEN n + 1 ELSE n
Pass(n) == IF n > 0 THEN n - 1 ELSE 0

\* Whoever is not slow returns, and sends its result, before time passes.
OnlySlow == \A j \in DOMAIN run : run[j].st = "probing" /\ run[j].slow

Tick ==
  /\ CASE eng.pc = "source" -> eng.left > 0
       [] eng.pc = "probe" -> eng.left > 0 /\ ~CanStart /\ DOMAIN fresh # jobs
       [] eng.pc = "sleep" -> eng.wait > 0 /\ ~wake
       [] OTHER -> FALSE
  /\ IF eng.pc = "source" THEN Spend("source") ELSE UNCHANGED budget
  /\ OnlySlow
  /\ eng' = [eng EXCEPT !.left = Pass(@), !.wait = Pass(@)]
  /\ last' = [p \in DOMAIN last |-> Older(last[p])]
  /\ cache' = [s \in DOMAIN cache |-> [cache[s] EXCEPT !.age = Older(@)]]
  /\ manual' = [p \in DOMAIN manual |-> [manual[p] EXCEPT !.ttl = Pass(@)]]
  /\ UNCHANGED <<lists, srcBusy, base, roundVars, storeVars, pathDown, cadence, memory,
                 retained, urgent, wake, busy, stray>>

\* The deadline passes in the moment in which a worker has a result.
Expire ==
  /\ eng.pc = "probe" /\ eng.left > 0
  /\ \E j \in DOMAIN run : run[j].st # "probing"
  /\ Spend("source")
  /\ eng' = [eng EXCEPT !.left = 0]
  /\ UNCHANGED <<srcVars, base, roundVars, storeVars, pathDown, cadence, last, askVars,
                 retained, urgent, wake, busy, stray>>

-----------------------------------------------------------------------------

EngineStep == Begin \/ GatherStep \/ SourceAnswers(FALSE) \/ SourceLate \/ Plan \/ NextJob
  \/ EndRound \/ Rest \/ Wakeup

Calls ==
  \/ \E ps \in SUBSET Prefix : SetUrgent(ps) \/ SetRetained(ps)
  \/ \E p \in Prefix : QueueManual(p)
  \/ \E i \in Intervals : SetTiming(i)
  \/ \E v \in Provider, m \in BOOLEAN : SetPathMismatch(v, m)
  \/ \E s \in Source, ts \in Lists : Relist(s, ts)

ProbeNext ==
  \/ EngineStep \/ BusyClear \/ SourceAnswers(TRUE) \/ SourceGivesUp \/ Tick \/ Expire \/ Calls
  \/ \E s \in Source : SourceReturns(s)
  \/ \E j \in Job : Slow(j) \/ CheckDeadline(j) \/ Deliver(j) \/ \E down \in BOOLEAN : Return(j, down)

ProbeSpec == ProbeInit /\ [][ProbeNext]_probeVars

\* The goroutines of the engine run, its timers fire, and a slow probe or source
\* returns in the end.
ProbeFair ==
  /\ WF_probeVars(EngineStep) /\ WF_probeVars(BusyClear) /\ WF_probeVars(Tick)
  /\ \A s \in Source : WF_probeVars(SourceReturns(s))
  /\ \A j \in Job : /\ WF_probeVars(Return(j, FALSE))
                    /\ WF_probeVars(CheckDeadline(j)) /\ WF_probeVars(Deliver(j))

ProbeFairSpec == ProbeSpec /\ ProbeFair

-----------------------------------------------------------------------------

\* However many rounds time out, no more probes run at once than there are
\* workers: runRound is skipped until the stuck ones have returned.
BoundedProbes == stray + Cardinality(DOMAIN run) <= Workers

\* No stored result comes from a probe that returned after the deadline of its
\* round, also while the collector still takes what workers send: such a probe
\* keeps the previous result, and with it the time that ages.
NoLateStored == \A j \in DOMAIN results : results[j].end # "late"

\* The worker's comment, "a probe that the deadline cancelled must not refresh
\* the stored result", of every probe.  It does not hold: the reads of a prober
\* can end at the deadline before the context does, and what was read by then is
\* stored as a complete run.
NoCutStored == \A j \in DOMAIN results : results[j].end = "full"

\* A provider is excluded as long as the last round that measured it, complete
\* or not, has a result without a usable source, and while its path check
\* fails, in whatever order the two end.
FailClosed ==
  \A v \in up : v \notin pathDown /\ \A j \in DOMAIN results : j[1] = v /\ results[j].new => ~results[j].down

\* In a sleep of the engine, the time left to rest, and the time until p may be
\* probed again.
Asleep == eng.pc = "sleep" /\ eng.done /\ ~wake
UntilDue(p, U) == IF p \in DOMAIN last THEN Left(last[p], Pace(p, U)) ELSE 0

\* After a round the engine does not sleep past the time when one of its
\* prefixes is due: its interval, or a quarter of it for a prefix that was being
\* confirmed when the sleep began.
NotOverslept == Asleep => \A p \in DOMAIN cadence : eng.wait <= UntilDue(p, eng.hurry)

\* The comment on Engine.urgent and CONFIG.md: a prefix that is being confirmed
\* is probed after a quarter of its interval, whenever its confirmation began.
\* It does not hold: SetUrgent leaves a sleep that has begun as it is until the
\* quarter has passed.
ConfirmProbed == Asleep => \A p \in DOMAIN cadence : eng.wait <= UntilDue(p, urgent)

\* A prefix that stays listed or retained is measured again and again, whatever
\* timed out before.
Wanted(p) ==
  p \notin Barred /\ (p \in retained \/ \E s \in Source : p \in DOMAIN lists[s])
KeepsProbing == \A p \in Prefix : <>[]Wanted(p) => []<>(p \in DOMAIN last /\ last[p] = 0)

-----------------------------------------------------------------------------
(***************************************************************************)
(* Why they hold: what the proofs in ControllerProofs are about.           *)
(***************************************************************************)

EngineFields == {"pc", "src", "out", "due", "left", "wait", "done", "hurry"}

\* Intervals, ages and waits are numbers wherever they are kept.
Timed ==
  /\ DOMAIN eng = EngineFields /\ IsList(eng.out) /\ eng.wait \in Nat
  /\ eng.pc = "source" => eng.src \in Source
  /\ base \in Nat
  /\ DOMAIN lists = Source /\ \A s \in Source : IsList(lists[s])
  /\ \A s \in DOMAIN cache : DOMAIN cache[s] = {"age", "ts", "fast"} /\ IsList(cache[s].ts)
  /\ \A p \in DOMAIN memory : memory[p] \in Nat
  /\ cadence \in [DOMAIN cadence -> Nat]
  /\ \A p \in DOMAIN last : last[p] \in Nat

\* A probe runs only in a round that is waited for, or while the engine is
\* busy; in a round a job waits, runs, is finished, or was given up.
RoundInv ==
  /\ stray = 0
  /\ IsFiniteSet(DOMAIN run) /\ Cardinality(DOMAIN run) <= Workers
  /\ eng.pc \in {"gather", "source"} => DOMAIN run = {} /\ ~busy
  /\ eng.pc \in {"rest", "sleep", "ready"} => DOMAIN run = {} \/ busy
  /\ eng.pc \in {"gather", "source", "probe", "rest", "sleep", "ready"}
  /\ eng.pc = "probe" =>
       /\ ~busy
       /\ DOMAIN run \subseteq jobs \ DOMAIN fresh
       /\ \A q \in queue : q.job \in jobs \ (DOMAIN run \cup DOMAIN fresh)
       /\ \A q, r \in queue : q.job = r.job => q = r

\* A late result is not checked yet, and there is none before the deadline.
LateInv == \A j \in DOMAIN run : run[j].end = "late" => run[j].st = "returned" /\ eng.left = 0

\* A job that a worker has.
Worker == [st : {"probing", "returned", "sending"}, slow : BOOLEAN, down : BOOLEAN,
           end : {"full", "reads", "late"}]

\* No result is late, and one without a usable source has its provider
\* down until a later round measures the provider.
ResultInv ==
  /\ \A j \in DOMAIN run : run[j] \in Worker
  /\ \A j \in DOMAIN fresh : fresh[j] \in [down : BOOLEAN, end : {"full", "reads"}]
  /\ \A j \in DOMAIN results :
       /\ results[j] \in [down : BOOLEAN, end : {"full", "reads"}, new : BOOLEAN]
       /\ results[j].new /\ results[j].down => j[1] \in srcDown
  /\ up = Provider \ (srcDown \cup pathDown)
=============================================================================
