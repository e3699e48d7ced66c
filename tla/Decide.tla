------------------------------- MODULE Decide -------------------------------
(***************************************************************************)
(* The decision engine (internal/policy) and the steer verification that   *)
(* can undo its moves (internal/verify, cmd/controller/verify.go).  One    *)
(* round of the decision loop judges the open verifications, decides       *)
(* every probed prefix, and opens verifications for what it announced.     *)
(*                                                                         *)
(* Times are relative: a result, an improvement, a streak or a flip has    *)
(* an age, a cooldown or a quarantine has what is left of it.  A path's    *)
(* loss, latency and score are one rank, lower is better, and a path beats *)
(* another when its rank is lower (the thresholds are passed).  What the   *)
(* candidate checks, the policies, the planner, the capacity limit and the *)
(* counters answer is chosen freely per round: they are plugins or data of *)
(* other parts.  Synthesized sub-ranges, cost precedence and the MED tie   *)
(* break are left out.                                                     *)
(***************************************************************************)
EXTENDS Integers, Sequences, FiniteSets, FiniteSetsExt

CONSTANTS
  Prefix,           \* prefixes, ordered as netpfx orders them
  Provider,         \* providers, ordered by name
  Native,           \* the provider of the router's own path
  Shapes,           \* the ranks a probe round can find, per provider
  HoldTime, MaxAge, TTL, NativeConfirm,   \* times of the decision config
  Window, Cooldown, MaxCooldown,          \* the flap quarantine
  VerifyWindow, Backoff, MaxBackoff,      \* the verification
  MaxStreak, MaxStrikes,                  \* bounds of counters
  Starts,           \* where behaviours begin: a config and event budgets
  Configs,          \* the configs a reload can bring
  Evals             \* what the checks and the policies say of each prefix (ans)
                    \* and of the round (r); odd when it is unusual, of prefix p

\* Prefixes and ranks are numbers, for their orders; the caps and the times
\* are not negative.
ASSUME DecideConstants ==
  /\ IsFiniteSet(Prefix) /\ Prefix \subseteq Nat /\ Native \in Provider
  /\ Shapes \subseteq [Provider -> Int]
  /\ MaxAge \in Nat /\ NativeConfirm \in Nat
  /\ \A s \in Starts : s.cfg.cap \in Nat
  /\ \A c \in Configs : c.cap \in Nat

VARIABLES
  dcfg,     \* the decision config
  eng,      \* per prefix: what State holds of it
  res,      \* per prefix and provider: the last probe result
  router,   \* per prefix: the native path, and Packeteer's route
  check,    \* per prefix: the open verification, its strikes
  kick,     \* a RIB change waits for the decision loop
  budget,   \* events from outside that are still to come
  seen      \* per prefix, history: wins measured, moves made, hold-off left

decideVars == <<dcfg, eng, res, router, check, kick, budget, seen>>

NoImp == [prov |-> 0, cause |-> "none", age |-> 0, held |-> -1]
NoConf == [prov |-> 0, n |-> 0, age |-> 0]
NoQuar == [left |-> 0, strikes |-> 0]
NoOff == [n |-> 0, age |-> 0]
NoResult == [rank |-> 0, age |-> -1]
NoClaim == [prov |-> 0, age |-> 0]

NewState == [imp |-> NoImp, cool |-> 0, conf |-> NoConf, flips |-> <<>>,
             quar |-> NoQuar, off |-> NoOff]

\* An age stops counting one past the last value that is told apart.
Older(a, last) == IF a < 0 THEN a ELSE Min({a + 1, last + 1})
Less(a) == IF a > 0 THEN a - 1 ELSE 0

DecideInit ==
  \E s \in Starts :
    /\ dcfg = s.cfg
    /\ budget = s.budget
    /\ kick = FALSE
    /\ eng = [p \in Prefix |-> NewState]
    /\ res = [p \in Prefix |-> [v \in Provider |-> NoResult]]
    /\ router = [p \in Prefix |-> [up |-> TRUE, hid |-> FALSE, wire |-> -1]]
    /\ check = [p \in Prefix |-> [open |-> NoClaim, strikes |-> 0, last |-> 0]]
    /\ seen = [p \in Prefix |-> [wins |-> [v \in Provider |-> 0],
                                 moves |-> <<>>, off |-> 0,
                                 late |-> FALSE, misread |-> FALSE]]

Spend(kind) == budget[kind] > 0 /\ budget' = [budget EXCEPT ![kind] = @ - 1]

-----------------------------------------------------------------------------
(* Measurements *)

Measured(p) == {v \in Provider : res[p][v].age >= 0}
Fresh(p) == {v \in Measured(p) : res[p][v].age <= MaxAge}
Newest(p) == Min({res[p][v].age : v \in Measured(p)})
Beats(p, a, b) == res[p][a].rank < res[p][b].rank

\* Mutant: results of different rounds are compared with each other.
PartialRoundIgnored(p) == FALSE

\* The fresh results come from different probe rounds.
PartialRound(p) == \E v, w \in Fresh(p) : res[p][v].age # res[p][w].age

\* A round newer than the one the streak counted last.
NewRound(p, c) == Fresh(p) # {} /\ ~(c.n > 0 /\ Newest(p) >= c.age)

Remeasured(p, c) == c.n = 0 \/ \A v \in Fresh(p) : res[p][v].age < c.age

ConfirmRounds == Max({dcfg.confirm, 1})

\* One fresh round won by v: is the move ready, and what the streak is then.
NotePerformance(p, c, v) ==
  LET counts == /\ NewRound(p, c) /\ ~PartialRound(p)
                /\ ~(c.prov = v /\ ~Remeasured(p, c))
      next == [prov |-> v, age |-> Newest(p),
               n |-> IF c.prov = v THEN Min({c.n + 1, MaxStreak}) ELSE 1]
  IN IF ConfirmRounds = 1
     THEN [ready |-> ~PartialRound(p), conf |-> c]
     ELSE IF counts
     THEN [ready |-> next.n >= ConfirmRounds, conf |-> next]
     ELSE [ready |-> Fresh(p) # {} /\ ~PartialRound(p) /\ c.prov = v /\ c.n >= ConfirmRounds,
           conf |-> c]

\* A fresh round that v did not win resets the streak.
FreshLoss(p, c) == IF ConfirmRounds > 1 /\ c.n > 0 /\ NewRound(p, c) THEN NoConf ELSE c

-----------------------------------------------------------------------------
(* The flap quarantine *)

Recent(flips) == SelectSeq(flips, LAMBDA a : a < Window)

\* Mutant: the window allows one move too many.
FlapNextLate(s) == dcfg.flips > 0 /\ Len(Recent(s.flips)) > dcfg.flips

FlapNext(s) == dcfg.flips > 0 /\ Len(Recent(s.flips)) + 1 > dcfg.flips

NoteFlip(s) == IF dcfg.flips > 0 THEN [s EXCEPT !.flips = Append(@, 0)] ELSE s

CoolFor(n) == Min({Cooldown * 2 ^ (n - 1), MaxCooldown})

QuarantinePrefix(s) ==
  LET n == Min({(IF s.off.age > MaxCooldown THEN 0 ELSE s.off.n) + 1, MaxStrikes})
  IN [s EXCEPT !.quar = [left |-> CoolFor(n), strikes |-> n],
               !.off = [n |-> n, age |-> 0], !.flips = <<>>]

ReleaseQuarantine(s, ago) == [s EXCEPT !.quar = NoQuar, !.off.age = IF s.off.n > 0 THEN ago ELSE 0]

ExpireFlap(s) ==
  LET over == s.quar # NoQuar /\ (dcfg.flips = 0 \/ s.quar.left <= 0)
      r == IF over THEN ReleaseQuarantine(s, IF dcfg.flips = 0 THEN 0 ELSE -s.quar.left) ELSE s
  IN [r EXCEPT !.flips = IF dcfg.flips = 0 THEN <<>> ELSE Recent(@),
               !.off = IF r.quar = NoQuar /\ (dcfg.flips = 0 \/ @.age > MaxCooldown) THEN NoOff ELSE @]

-----------------------------------------------------------------------------
(* One prefix *)

Retire(s, cooldown) ==
  [s EXCEPT !.imp = NoImp, !.conf = NoConf,
            !.cool = IF cooldown /\ HoldTime > 0 THEN HoldTime ELSE @]

Steer(s, v, cause) ==
  [s EXCEPT !.imp = [prov |-> v, cause |-> cause, age |-> 0, held |-> s.imp.held]]

NoWant == [prov |-> 0, rank |-> 0, cause |-> "none"]
Kept(s) == [s |-> s, want |-> NoWant]
Wants(s, v, rank, cause) == [s |-> s, want |-> [prov |-> v, rank |-> rank, cause |-> cause]]

Usable(p, a) == Fresh(p) \ a.bad
Alternatives(p, a, r) == Usable(p, a) \ (r.excl \cup {Native})
BestOf(p, S) == Min({v \in S : \A w \in S : ~Beats(p, w, v)})

\* What the neighbor advertises now tells whether the prefix has left.
InRIB(p) == router[p].up /\ ~router[p].hid
Left(p, s) == ~InRIB(p) /\ s.imp.held >= NativeConfirm
\* Mutant: a route that the leak watch holds back still counts as active.
NoteNativeHeld(p, s, a) == [s EXCEPT !.imp.held = IF ~InRIB(p) THEN -1 ELSE Max({@, 0})]

NoteNative(p, s, a) ==
  [s EXCEPT !.imp.held = IF ~InRIB(p) \/ a.leak THEN -1 ELSE Max({@, 0})]

\* A commit or cost steer: the planner's answers, and performance over it.
MoveAllowed(p, a, r) == a.want \in Alternatives(p, a, r) /\ a.moveOK

PlanStep(p, s, a, r) ==
  IF a.want = s.imp.prov THEN s
  ELSE IF a.want \notin {0, Native} /\ ~MoveAllowed(p, a, r) THEN s
  ELSE IF s.imp.age < HoldTime THEN s
  ELSE IF a.want \in {0, Native} THEN Retire(s, TRUE)
  ELSE Steer(s, a.want, "planned")

PlannedSteer(p, s, a, r) ==
  LET alts == Alternatives(p, a, r)
      alt == BestOf(p, alts)
      win == Native \in Usable(p, a) /\ alts # {} /\ alt # s.imp.prov /\ Beats(p, alt, Native)
      note == NotePerformance(p, s.conf, alt)
      noted == [s EXCEPT !.conf = note.conf]
  IN IF a.plan = "off" THEN Retire(s, FALSE)
     ELSE IF a.plan = "worse" THEN Retire(s, TRUE)
     ELSE IF ~win THEN PlanStep(p, IF Native \in Usable(p, a)
                                THEN [s EXCEPT !.conf = FreshLoss(p, @)] ELSE s, a, r)
     ELSE IF a.lacking THEN PlanStep(p, [s EXCEPT !.conf = NoConf], a, r)
     ELSE IF ~note.ready \/ s.imp.age < HoldTime THEN noted
     ELSE IF alt \in a.over THEN PlanStep(p, noted, a, r)
     ELSE IF FlapNext(s) THEN Retire(QuarantinePrefix(s), FALSE)
     ELSE [Steer(NoteFlip(s), alt, "performance") EXCEPT !.conf = NoConf]

\* A performance steer: flip back, or switch to a clearly better provider.
PerformanceSteer(p, s, a, r) ==
  LET held == s.imp.age < HoldTime
      alts == Alternatives(p, a, r)
      alt == BestOf(p, alts)
      back == Native \in Usable(p, a) /\ Beats(p, Native, s.imp.prov)
      win == alts # {} /\ alt # s.imp.prov /\ Beats(p, alt, s.imp.prov)
      note == NotePerformance(p, s.conf, alt)
      noted == [s EXCEPT !.conf = note.conf]
      gone == Retire(s, TRUE)
  IN IF back THEN IF held THEN [s EXCEPT !.conf = NoConf]
                  ELSE IF FlapNext(s) THEN QuarantinePrefix(gone) ELSE NoteFlip(gone)
     ELSE IF ~win THEN [s EXCEPT !.conf = FreshLoss(p, @)]
     ELSE IF a.lacking THEN [s EXCEPT !.conf = NoConf]
     ELSE IF ~note.ready \/ held \/ alt \in a.over THEN noted
     ELSE IF FlapNext(s) THEN Retire(QuarantinePrefix(s), FALSE)
     ELSE [Steer(NoteFlip(s), alt, "performance") EXCEPT !.conf = NoConf]

StaticSteer(p, s, a, r) ==
  IF a.pin = Native THEN Retire(s, FALSE)
  ELSE IF a.pin \notin Usable(p, a) \ r.excl \/ a.fault THEN Retire(s, TRUE)
  ELSE IF s.imp.prov = a.pin THEN [s EXCEPT !.imp.cause = "static"]
  ELSE IF s.imp.age < HoldTime THEN s ELSE Steer(s, a.pin, "static")

Active(p, s0, a, r) ==
  LET s == NoteNative(p, s0, a) IN
  IF a.pol = "ignore" THEN Retire(s, FALSE)
  ELSE IF Left(p, s0) THEN Retire(s, TRUE)
  ELSE IF s.imp.prov \notin Usable(p, a) THEN Retire(s, s.imp.cause = "static")
  ELSE IF s.imp.prov \in r.excl \/ p \notin dcfg.allow \/ (TTL > 0 /\ s.imp.age >= TTL)
       THEN Retire(s, FALSE)
  ELSE IF a.pin # 0 THEN StaticSteer(p, s, a, r)
  ELSE IF s.imp.cause = "static" THEN Retire(s, FALSE)
  ELSE IF s.imp.cause = "planned" THEN PlannedSteer(p, s, a, r)
  ELSE PerformanceSteer(p, s, a, r)

Idle(p, s, a, r) ==
  LET clear == [s EXCEPT !.conf = NoConf]
      alts == Alternatives(p, a, r)
      alt == BestOf(p, alts)
      note == NotePerformance(p, s.conf, alt)
      free == s.cool = 0 /\ p \in dcfg.allow
  IN IF ~InRIB(p) \/ a.pol = "ignore" \/ s.quar # NoQuar THEN Kept(clear)
     ELSE IF a.pin # 0
     THEN IF a.pin # Native /\ a.pin \in Usable(p, a) \ r.excl /\ ~a.fault /\ free
          THEN Wants(s, a.pin, 0, "static") ELSE Kept(s)
     ELSE IF Native \notin Usable(p, a) THEN Kept(s)
     ELSE IF alts = {} \/ ~Beats(p, alt, Native)
     THEN LET lost == [s EXCEPT !.conf = FreshLoss(p, @)]
          IN IF MoveAllowed(p, a, r) /\ free /\ a.plan = "ok"
             THEN Wants(lost, a.want, 3, "planned") ELSE Kept(lost)
     ELSE IF ~free THEN Kept(s)
     ELSE IF a.lacking THEN Kept(clear)
     ELSE IF note.ready
     THEN Wants([s EXCEPT !.conf = note.conf], alt, IF a.pol = "vip" THEN 1 ELSE 2, "performance")
     ELSE Kept([s EXCEPT !.conf = note.conf])

DecidePrefix(p, s, a, r) ==
  IF Measured(p) = {} THEN Kept(IF s.imp # NoImp THEN Retire(s, FALSE) ELSE [s EXCEPT !.conf = NoConf])
  ELSE IF s.imp # NoImp THEN Kept(Active(p, s, a, r)) ELSE Idle(p, s, a, r)

-----------------------------------------------------------------------------
(* All prefixes *)

Steered(S) == {p \in Prefix : S[p].imp # NoImp}

\* Planned moves go first, then performance, VIP and static ones; the
\* smallest gain first; the larger prefix first.
LaneOf(s, a) ==
  IF s.imp.cause = "planned" THEN 3 ELSE IF s.imp.cause = "static" THEN 0
  ELSE IF a.pol = "vip" THEN 1 ELSE 2

GainOf(p, s, a) ==
  IF {Native, s.imp.prov} \subseteq Usable(p, a)
  THEN res[p][Native].rank - res[p][s.imp.prov].rank ELSE 0

DropsBefore(S, ans, p, q) ==
  LET lp == LaneOf(S[p], ans[p])
      lq == LaneOf(S[q], ans[q])
      gp == GainOf(p, S[p], ans[p])
      gq == GainOf(q, S[q], ans[q])
  IN lp > lq \/ (lp = lq /\ (gp < gq \/ (gp = gq /\ p > q)))

\* Mutant: a cap that is exceeded by one is not trimmed to.
TrimToCapByOne(S, ans) ==
  LET act == Steered(S)
      n == Cardinality(act) - dcfg.cap - 1
      drop == {p \in act : Cardinality({q \in act : DropsBefore(S, ans, q, p)}) < n}
  IN [p \in Prefix |-> IF p \in drop THEN Retire(S[p], FALSE) ELSE S[p]]

TrimToCap(S, ans) ==
  LET act == Steered(S)
      n == Cardinality(act) - dcfg.cap
      drop == {p \in act : Cardinality({q \in act : DropsBefore(S, ans, q, p)}) < n}
  IN [p \in Prefix |-> IF p \in drop THEN Retire(S[p], FALSE) ELSE S[p]]

\* The interfaces in r.hot are over their capacity limit, by one steer, on a
\* sample newer than the one they shed on last.
Shed(S, ans, r) ==
  LET can == {p \in Steered(S) : /\ S[p].imp.cause = "performance"
                                 /\ S[p].imp.age >= HoldTime /\ S[p].imp.prov \in r.hot}
      first == {p \in can : \A q \in can : S[q].imp.prov = S[p].imp.prov =>
                  q = p \/ DropsBefore(S, ans, p, q)}
  IN [p \in Prefix |-> IF p \in first THEN Retire(S[p], TRUE) ELSE S[p]]

\* A planned steer gives up its slot to a performance or static move.
DisplaceCommit(S) ==
  LET plan == {p \in Steered(S) : S[p].imp.cause = "planned"}
  IN [S EXCEPT ![Min(plan)] = Retire(@, TRUE)]

Admit(S, p, w, a) ==
  LET s == S[p]
      full == Cardinality(Steered(S)) >= dcfg.cap
      room == \E q \in Steered(S) : S[q].imp.cause = "planned"
      T == IF full THEN DisplaceCommit(S) ELSE S
  IN IF w.cause = "performance" /\ w.prov \in a.over THEN S
     ELSE IF FlapNext(s) THEN [S EXCEPT ![p] = [QuarantinePrefix(s) EXCEPT !.conf = NoConf]]
     ELSE IF full /\ (w.cause = "planned" \/ dcfg.cap = 0 \/ ~room) THEN S
     ELSE [T EXCEPT ![p] = [Steer(NoteFlip(@), w.prov, w.cause) EXCEPT !.conf = NoConf]]

\* The moves go in the order of their lanes, the larger gain first.
MoveGain(w, p) == IF w.rank \in {1, 2} THEN res[p][Native].rank - res[p][w.prov].rank ELSE 0

GoesBefore(want, p, q) ==
  \/ want[p].rank < want[q].rank
  \/ /\ want[p].rank = want[q].rank
     /\ \/ MoveGain(want[p], p) > MoveGain(want[q], q)
        \/ MoveGain(want[p], p) = MoveGain(want[q], q) /\ p < q

\* The prefixes with a move, each once, sorted.
Queue(want) ==
  LET W == {p \in Prefix : want[p] # NoWant}
  IN {f \in [1 .. Cardinality(W) -> W] :
        \A i, j \in 1 .. Cardinality(W) : i < j => f[i] # f[j] /\ GoesBefore(want, f[i], f[j])}

\* Decide, in three steps: every prefix by itself; what the cap and the
\* capacity limit take back; the new moves, in the order of the queue.
Each(S, ans, r) ==
  [p \in Prefix |->
     LET begun == ExpireFlap(S[p])
     IN IF r.ready THEN DecidePrefix(p, begun, ans[p], r)
        ELSE Kept(IF begun.imp # NoImp THEN Retire(begun, FALSE) ELSE [begun EXCEPT !.conf = NoConf])]

Trimmed(one, ans, r) ==
  LET S == [p \in Prefix |-> one[p].s]
  IN IF r.ready THEN Shed(TrimToCap(S, ans), ans, r) ELSE S

Admitted(T, one, ans, q) ==
  LET run[i \in 0 .. Len(q)] ==
        IF i = 0 THEN T ELSE Admit(run[i - 1], q[i], one[q[i]].want, ans[q[i]])
  IN run[Len(q)]

-----------------------------------------------------------------------------
(* Verification *)

BackoffFor(n) == Min({Backoff * 2 ^ (n - 1), MaxBackoff})

\* judge: a claim is judged when its window has passed; one without counters
\* waits a window more.
Due(claim, r) ==
  /\ claim # NoClaim /\ claim.age >= VerifyWindow
  /\ ~(r.moved = "waiting" /\ claim.age < 2 * VerifyWindow)

\* Keep and Observe: a claim that is not on the wire is dropped, one that is
\* due is judged.
Judged(p, r) ==
  LET c == check[p]
      open == IF router[p].wire < 0 THEN NoClaim ELSE c.open
      n == IF c.last > 2 * MaxBackoff THEN 0 ELSE c.strikes
      due == Due(open, r)
      fails == due /\ r.moved = "none"
      m == Min({n + 1, MaxStrikes})
  IN [check |-> [open |-> IF due THEN NoClaim ELSE open,
                 strikes |-> IF fails THEN m ELSE IF due /\ r.moved = "all" THEN 0 ELSE n,
                 last |-> IF fails THEN 0 ELSE c.last],
      hold |-> IF fails THEN BackoffFor(m) ELSE 0]

\* Mutant: the steer goes without a hold-off.
BackoutShort(s, hold) ==
  IF hold > 0 /\ s.imp # NoImp THEN [s EXCEPT !.imp = NoImp, !.conf = NoConf] ELSE s

Backout(s, hold) ==
  IF hold > 0 /\ s.imp # NoImp THEN [s EXCEPT !.imp = NoImp, !.conf = NoConf, !.cool = hold] ELSE s

Begun(p, c, old, new, onwire) ==
  IF new.prov = old.prov THEN c
  ELSE [c EXCEPT !.open = IF new # NoImp /\ onwire THEN [prov |-> new.prov, age |-> 0] ELSE NoClaim]

-----------------------------------------------------------------------------
(* Actions *)

\* A probe round of p that the providers in S finish: the results, and the
\* providers that win it against the native path or the current one.
Results(p, S, rank) ==
  [v \in Provider |-> IF v \in S THEN [rank |-> rank[v], age |-> 0] ELSE res[p][v]]

Winning(p, S, rank) ==
  LET ref == {Native, eng[p].imp.prov} \ {0}
  IN [v \in Provider |-> IF v \in S /\ \E w \in ref \cap S : rank[v] < rank[w]
                         THEN Min({seen[p].wins[v] + 1, MaxStreak}) ELSE seen[p].wins[v]]

Measure(p) ==
  \E S \in (SUBSET dcfg.egress) \ {{}}, rank \in Shapes :
    /\ p \in dcfg.probed /\ \A v \in Provider : res[p][v].age # 0
    /\ budget["probe"] > 0 /\ (S # dcfg.egress => budget["odd"] > 0)
    /\ budget' = [budget EXCEPT !["probe"] = @ - 1, !["odd"] = IF S = dcfg.egress THEN @ ELSE @ - 1]
    /\ res' = [res EXCEPT ![p] = Results(p, S, rank)]
    /\ seen' = [seen EXCEPT ![p].wins = Winning(p, S, rank)]
    /\ UNCHANGED <<dcfg, eng, router, check, kick>>

\* Packeteer's route after the sync of the round, and what the router then
\* advertises: without a route of Packeteer's the native path is back.
Synced(p, old, new, a, ok) ==
  LET out == router[p].wire >= 0
      want == new # NoImp /\ ~a.leak
  IN IF ~ok \/ out = want THEN router[p]
     ELSE IF want THEN [router[p] EXCEPT !.wire = 0]
     ELSE [router[p] EXCEPT !.wire = -1, !.hid = FALSE]

Moved(old, new) == /\ new.prov \notin {0, old.prov}
                   /\ new.cause = "performance" \/ old = NoImp

\* The history of p after an evaluation of b, the state once the verification
\* held it off, ended with the improvement new and its route at wire.
Noted(p, a, r, b, hold, new, wire) ==
  LET h == seen[p]
      ref == {Native, eng[p].imp.prov} \ {0}
      \* a new round with all it takes to see that a provider no longer wins
      whole == /\ ref \subseteq Fresh(p) /\ ~PartialRound(p) /\ NewRound(p, eng[p].conf)
               /\ r.ready /\ a.bad = {} /\ a.pin = 0
      restart == new # eng[p].imp /\ (new = NoImp \/ Moved(eng[p].imp, new))
      freed == eng[p].quar # NoQuar /\ ExpireFlap(eng[p]).quar = NoQuar
      past == IF freed THEN <<>> ELSE Recent(h.moves)
  IN [wins |-> [v \in Provider |->
        IF whole /\ ~\E w \in ref : Beats(p, v, w) THEN 0
        ELSE IF restart THEN Min({h.wins[v], 1}) ELSE h.wins[v]],
      moves |-> IF Moved(eng[p].imp, new) THEN Append(past, 0) ELSE past,
      off |-> IF b # eng[p] THEN hold ELSE h.off,
      late |-> new # NoImp /\ (h.late \/ (p \notin r.synced /\ wire < 0)),
      misread |-> h.misread \/ (r.ready /\ b.imp # NoImp /\ Measured(p) # {} /\ a.pol # "ignore"
                                /\ Left(p, b) /\ router[p].up /\ ~h.late)]

\* The engine's new states, the sync, and the verifications begun for them.
Settle(ans, r, j, before, after) ==
  /\ eng' = after
  /\ router' = [p \in Prefix |-> Synced(p, eng[p].imp, after[p].imp, ans[p], p \in r.synced)]
  /\ check' = [p \in Prefix |->
       Begun(p, j[p].check, eng[p].imp, after[p].imp, router'[p].wire >= 0)]
  /\ seen' = [p \in Prefix |->
       Noted(p, ans[p], r, before[p], j[p].hold, after[p].imp, router'[p].wire)]
  /\ kick' = FALSE
  /\ UNCHANGED <<dcfg, res>>

\* check, runDecision and begin, in the order of the decision loop.
Round(ans, r) ==
  \E j \in {[p \in Prefix |-> Judged(p, r)]} :
  \E before \in {[p \in Prefix |-> Backout(eng[p], j[p].hold)]} :
  \E one \in {Each(before, ans, r)} : \E kept \in {Trimmed(one, ans, r)} :
  \E q \in Queue([p \in Prefix |-> one[p].want]) : \E after \in {Admitted(kept, one, ans, q)} :
    Settle(ans, r, j, before, after)

Decision ==
  \E e \in Evals :
    /\ e.p \in dcfg.probed \cup {0}
    /\ IF e.odd THEN Spend("odd") ELSE UNCHANGED budget
    /\ Round(e.ans, e.r)

\* The operator ends a quarantine.
Release(p) ==
  /\ eng[p].quar # NoQuar /\ Spend("op")
  /\ eng' = [eng EXCEPT ![p] = ReleaseQuarantine(@, 0)]
  /\ seen' = [seen EXCEPT ![p].moves = <<>>]
  /\ UNCHANGED <<dcfg, res, router, check, kick>>

\* The instance steps down: no intent survives, and the routes go.
Reset ==
  /\ Spend("op")
  /\ eng' = [p \in Prefix |-> NewState]
  /\ check' = [p \in Prefix |-> [check[p] EXCEPT !.open = NoClaim]]
  /\ router' = [p \in Prefix |-> [router[p] EXCEPT !.wire = -1, !.hid = FALSE]]
  /\ seen' = [p \in Prefix |-> [seen[p] EXCEPT !.wins = [v \in Provider |-> Min({@[v], 1})],
                                 !.moves = <<>>, !.off = 0, !.late = FALSE]]
  /\ UNCHANGED <<dcfg, res, kick>>

SetConfig(c) ==
  /\ c # dcfg /\ Spend("op") /\ dcfg' = c
  /\ seen' = [p \in Prefix |-> [seen[p] EXCEPT !.moves = <<>>]]
  /\ UNCHANGED <<eng, res, router, check, kick>>

\* The router prefers Packeteer's new route and stops sending its own.
Hide(p) ==
  /\ router[p].wire \in 0 .. NativeConfirm - 1 /\ router[p].up /\ ~router[p].hid
  /\ Spend("router")
  /\ router' = [router EXCEPT ![p].hid = TRUE] /\ kick' = TRUE
  /\ UNCHANGED <<dcfg, eng, res, check, seen>>

\* The prefix leaves, upstream.
Leave(p) ==
  /\ router[p].up /\ Spend("router")
  /\ router' = [router EXCEPT ![p].up = FALSE] /\ kick' = (kick \/ ~router[p].hid)
  /\ UNCHANGED <<dcfg, eng, res, check, seen>>

\* A time unit passes for a prefix.
Aged(s) ==
  [imp |-> IF s.imp = NoImp THEN NoImp
           ELSE [s.imp EXCEPT !.age = Older(@, Max({HoldTime, TTL})),
                              !.held = Older(@, NativeConfirm)],
   cool |-> Less(s.cool),
   conf |-> IF s.conf = NoConf THEN NoConf ELSE [s.conf EXCEPT !.age = Older(@, MaxAge + 1)],
   flips |-> [i \in DOMAIN s.flips |-> Older(s.flips[i], Window)],
   quar |-> IF s.quar = NoQuar THEN NoQuar
            ELSE [s.quar EXCEPT !.left = Max({@ - 1, -MaxCooldown - 1})],
   off |-> [s.off EXCEPT !.age = IF s.off = NoOff \/ s.quar # NoQuar THEN 0 ELSE Older(@, MaxCooldown)]]

DecideTick ==
  /\ ~kick
  /\ eng' = [p \in Prefix |-> Aged(eng[p])]
  /\ res' = [p \in Prefix |-> [v \in Provider |-> [res[p][v] EXCEPT !.age = Older(@, MaxAge)]]]
  /\ router' = [p \in Prefix |-> [router[p] EXCEPT !.wire = Older(@, NativeConfirm - 1)]]
  /\ check' = [p \in Prefix |-> [check[p] EXCEPT
       !.open.age = IF check[p].open = NoClaim THEN 0 ELSE Older(@, 2 * VerifyWindow),
       !.last = IF check[p].strikes = 0 THEN 0 ELSE Older(@, 2 * MaxBackoff)]]
  /\ seen' = [p \in Prefix |-> [seen[p] EXCEPT
       !.moves = [i \in DOMAIN @ |-> Older(@[i], Window)], !.off = Less(@)]]
  /\ UNCHANGED <<dcfg, kick, budget>>

DecideNext ==
  \/ DecideTick \/ Decision \/ Reset
  \/ \E p \in Prefix : Measure(p) \/ Release(p) \/ Hide(p) \/ Leave(p)
  \/ \E c \in Configs : SetConfig(c)

DecideSpec == DecideInit /\ [][DecideNext]_decideVars

-----------------------------------------------------------------------------
(* Properties *)

\* Every part of the engine's state keeps its shape.
DecideTypeOK ==
  /\ \A p \in Prefix :
       /\ eng[p].imp.prov \in Provider \cup {0}
       /\ eng[p].imp.cause \in {"none", "performance", "planned", "static"}
       /\ eng[p].conf.n \in 0 .. MaxStreak /\ eng[p].cool \in 0 .. Max({HoldTime, MaxBackoff})
       /\ eng[p].quar.strikes \in 0 .. MaxStrikes
       /\ (eng[p].imp = NoImp) <=> (eng[p].imp.prov = 0)
       /\ check[p].open.prov \in Provider \cup {0}
  /\ router \in [Prefix -> [up : BOOLEAN, hid : BOOLEAN, wire : -1 .. NativeConfirm]]

\* A performance move onto a provider was preceded by as many probe rounds
\* that measured this provider together with the native path or the current
\* one and that it won, the last one before the last move included, as
\* confirm_rounds asks for: no round is counted twice, whatever the order of
\* probes and evaluations, and a round still being filled in does not count
\* (notePerformance, streakNeedsRemeasure, partialRound).  This is for configs
\* with the same allowlist and confirm_rounds: a round that is lost while the
\* prefix is off the list, or one win is enough, does not end the streak.
ConfirmedMoves ==
  [][\A p \in Prefix :
       Moved(eng[p].imp, eng'[p].imp) /\ eng'[p].imp.cause = "performance"
       => seen[p].wins[eng'[p].imp.prov] >= ConfirmRounds]_decideVars

\* Between two releases from quarantine a prefix makes at most max_flips
\* moves in any flap window; the next one parks it (flapNext, noteFlip).
FlapBounded ==
  [][\A p \in Prefix :
       Moved(eng[p].imp, eng'[p].imp) /\ dcfg.flips > 0
       => Len(Recent(seen'[p].moves)) <= dcfg.flips]_decideVars

\* A prefix that is quarantined, or whose steer the verification backed out
\* less than the hold-off ago, is on its native path, whatever the policies,
\* the planner and the cap do meanwhile (Backout, decideIdle).
HeldOffStaysNative ==
  \A p \in Prefix : seen[p].off > 0 \/ eng[p].quar # NoQuar => eng[p].imp = NoImp

\* After an evaluation the steers do not outnumber max_improvements, also when
\* a reload had lowered it and when a move displaced another one (trimToCap,
\* displaceCommit, the admission), and nothing else adds a steer.
WithinCap ==
  [][\/ Cardinality(Steered(eng)') <= dcfg.cap
     \/ ~Decision /\ Steered(eng)' \subseteq Steered(eng)]_decideVars

\* A router that stops sending its native path because it prefers
\* Packeteer's route, soon after that route is announced, is not taken for
\* a neighbor that lost the prefix (nativeSeen, NativePathConfirm), as long
\* as no announcement of the route has failed.
WithdrawIsReal == \A p \in Prefix : ~seen[p].misread

-----------------------------------------------------------------------------
(* Why they hold *)

\* The parts of a prefix's state, of an improvement and of the history.
IsImp(i) == i = [prov |-> i.prov, cause |-> i.cause, age |-> i.age, held |-> i.held]
IsState(s) ==
  /\ s = [imp |-> s.imp, cool |-> s.cool, conf |-> s.conf, flips |-> s.flips,
          quar |-> s.quar, off |-> s.off]
  /\ IsImp(s.imp)
IsHistory(h) ==
  h = [wins |-> h.wins, moves |-> h.moves, off |-> h.off, late |-> h.late, misread |-> h.misread]

ShapeInv ==
  /\ eng = [p \in Prefix |-> eng[p]] /\ \A p \in Prefix : IsState(eng[p])
  /\ seen = [p \in Prefix |-> seen[p]] /\ \A p \in Prefix : IsHistory(seen[p])
  /\ router \in [Prefix -> [up : BOOLEAN, hid : BOOLEAN, wire : Int]]
  /\ res \in [Prefix -> [Provider -> [rank : Int, age : Int]]]
  /\ dcfg.cap \in Nat

\* What is held off has no improvement, and a hold-off is also a cooldown.
HeldInv(p) ==
  /\ seen[p].off > 0 => eng[p].imp = NoImp /\ eng[p].cool = seen[p].off
  /\ eng[p].quar # NoQuar => eng[p].imp = NoImp

\* An improvement was seen together with the native path no longer than its
\* route is out; and the loop looks at a router that hides its path before
\* time passes.
SeenInv(p) ==
  LET i == eng[p].imp
      w == router[p]
  IN /\ i.held \in Int /\ i.held >= -1 /\ w.wire >= -1
     /\ i = NoImp \/ seen[p].late \/ i.held <= w.wire \/ w.wire >= NativeConfirm
     /\ w.hid /\ ~seen[p].late /\ i # NoImp => i.held < NativeConfirm /\ (~kick => i.held = -1)
     /\ ~seen[p].misread

DecideInv == ShapeInv /\ \A p \in Prefix : HeldInv(p) /\ SeenInv(p)
=============================================================================
