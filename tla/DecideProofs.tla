---------------------------- MODULE DecideProofs ----------------------------
(***************************************************************************)
(* The decision engine for any prefixes, providers, measurements, answers  *)
(* of the policies, configs and times: what is held off stays native, a    *)
(* withdrawal is believed only when it is real, and the steers stay within *)
(* the cap.  The inductive invariant is DecideInv.                         *)
(*                                                                         *)
(* The lemmas go from one prefix by itself, over the trim to the cap, the  *)
(* queue of new moves and the verification, to the actions.  Those that    *)
(* count assume SetFacts, which the library's theorems show at the end.    *)
(***************************************************************************)
EXTENDS Decide, TLAPS

-----------------------------------------------------------------------------
(* What the proofs use of finite sets and of numbers. *)

OneToOne(f, S) == \A x, y \in S : f[x] = f[y] => x = y
Within(T, S) == /\ IsFiniteSet(T) /\ Cardinality(T) <= Cardinality(S)
                /\ Cardinality(S) = Cardinality(T) => S = T
With(S, x) == /\ IsFiniteSet(S \cup {x})
              /\ Cardinality(S \cup {x}) = IF x \in S THEN Cardinality(S) ELSE Cardinality(S) + 1
Without(S, x) == /\ IsFiniteSet(S \ {x})
                 /\ Cardinality(S \ {x}) = IF x \in S THEN Cardinality(S) - 1 ELSE Cardinality(S)
Spans(a, b) == IsFiniteSet(a .. b) /\ Cardinality(a .. b) = IF a > b THEN 0 ELSE b - a + 1
HasLeast(S) == \E m \in S : \A n \in S : ~(n < m)

SetFacts ==
  /\ Cardinality({}) = 0
  /\ \A S : IsFiniteSet(S) => Cardinality(S) \in Nat
  /\ \A S : IsFiniteSet(S) => \A T \in SUBSET S : Within(T, S)
  /\ \A S, x : IsFiniteSet(S) => With(S, x) /\ Without(S, x)
  /\ \A a, b \in Int : Spans(a, b)
  /\ \A S, T : IsFiniteSet(T) => \A f \in [S -> T] :
       OneToOne(f, S) => IsFiniteSet(S) /\ Cardinality(S) <= Cardinality(T)
  /\ \A S \in SUBSET Nat : S # {} => HasLeast(S)

LEMMA Counted == ASSUME SetFacts, NEW S, IsFiniteSet(S) PROVE Cardinality(S) \in Nat
  BY Zenon DEF SetFacts

LEMMA Subsets ==
  ASSUME SetFacts, NEW S, IsFiniteSet(S), NEW T \in SUBSET S
  PROVE  IsFiniteSet(T) /\ Cardinality(T) <= Cardinality(S) /\ (Cardinality(S) = Cardinality(T) => S = T)
  BY Zenon DEF SetFacts, Within

LEMMA Adding ==
  ASSUME SetFacts, NEW S, NEW x, IsFiniteSet(S)
  PROVE  /\ IsFiniteSet(S \cup {x})
         /\ Cardinality(S \cup {x}) = IF x \in S THEN Cardinality(S) ELSE Cardinality(S) + 1
  BY Zenon DEF SetFacts, With

LEMMA Removing ==
  ASSUME SetFacts, NEW S, NEW x, IsFiniteSet(S)
  PROVE  /\ IsFiniteSet(S \ {x})
         /\ Cardinality(S \ {x}) = IF x \in S THEN Cardinality(S) - 1 ELSE Cardinality(S)
  BY Zenon DEF SetFacts, Without

LEMMA Interval ==
  ASSUME SetFacts, NEW a \in Int, NEW b \in Int
  PROVE  IsFiniteSet(a .. b) /\ Cardinality(a .. b) = IF a > b THEN 0 ELSE b - a + 1
  BY Zenon DEF SetFacts, Spans

LEMMA Injected ==
  ASSUME SetFacts, NEW S, NEW T, IsFiniteSet(T), NEW f \in [S -> T], OneToOne(f, S)
  PROVE  IsFiniteSet(S) /\ Cardinality(S) <= Cardinality(T)
  BY Zenon DEF SetFacts

LEMMA Least ==
  ASSUME SetFacts, NEW S \in SUBSET Nat, S # {} PROVE \E m \in S : \A n \in S : ~(n < m)
  BY Zenon DEF SetFacts, HasLeast

-----------------------------------------------------------------------------
(* What the steps of one prefix do to its state. *)

\* A state from its parts.
StateOf(i, c, k, f, q, o) ==
  [imp |-> i, cool |-> c, conf |-> k, flips |-> f, quar |-> q, off |-> o]

\* A step that leaves the improvement, the quarantine and the cooldown alone.
Same(s, t) == IsState(t) /\ t.imp = s.imp /\ t.quar = s.quar /\ t.cool = s.cool

\* A step that ends the improvement, or leaves the quarantine and the time
\* the native path was seen alone.
Stays(s, t) == IsState(t) /\ (t.imp = NoImp \/ (t.quar = s.quar /\ t.imp.held = s.imp.held))

LEMMA SameStays == ASSUME NEW s, NEW t, Same(s, t) PROVE Stays(s, t)
  BY Zenon DEF Same, Stays

LEMMA SameThenStays == ASSUME NEW s, NEW t, NEW u, Same(s, t), Stays(t, u) PROVE Stays(s, u)
  BY Zenon DEF Same, Stays

LEMMA StateParts ==
  ASSUME NEW s, NEW i, NEW c, NEW k, NEW f, NEW q, NEW o, s = StateOf(i, c, k, f, q, o)
  PROVE  /\ s.imp = i /\ s.quar = q /\ s.cool = c /\ s.conf = k /\ s.flips = f /\ s.off = o
         /\ IsImp(i) => IsState(s)
  BY DEF IsState, StateOf

LEMMA StateIs ==
  ASSUME NEW s, IsState(s)
  PROVE  s = StateOf(s.imp, s.cool, s.conf, s.flips, s.quar, s.off) /\ IsImp(s.imp)
  BY Zenon DEF IsState, StateOf

\* One part of a state replaced by another.
LEMMA Update ==
  ASSUME NEW i, NEW c, NEW k, NEW f, NEW q, NEW o, NEW x
  PROVE  LET s == StateOf(i, c, k, f, q, o)
         IN /\ [s EXCEPT !.imp = x] = StateOf(x, c, k, f, q, o)
            /\ [s EXCEPT !.cool = x] = StateOf(i, x, k, f, q, o)
            /\ [s EXCEPT !.conf = x] = StateOf(i, c, x, f, q, o)
            /\ [s EXCEPT !.flips = x] = StateOf(i, c, k, x, q, o)
            /\ [s EXCEPT !.quar = x] = StateOf(i, c, k, f, x, o)
            /\ [s EXCEPT !.off = x] = StateOf(i, c, k, f, q, x)
  BY DEF StateOf

LEMMA NoImpIs == IsImp(NoImp) /\ NoImp.held = -1
  BY DEF IsImp, NoImp

LEMMA ConfSame == ASSUME NEW s, IsState(s), NEW k PROVE Same(s, [s EXCEPT !.conf = k])
<1>1. [s EXCEPT !.conf = k] = StateOf(s.imp, s.cool, k, s.flips, s.quar, s.off)
  BY StateIs DEF StateOf
<1> QED BY <1>1, StateIs, StateParts DEF Same

LEMMA FlipSame == ASSUME NEW s, IsState(s) PROVE Same(s, NoteFlip(s))
<1>1. ASSUME NEW f PROVE Same(s, [s EXCEPT !.flips = f])
  <2>1. [s EXCEPT !.flips = f] = StateOf(s.imp, s.cool, s.conf, f, s.quar, s.off)
    BY StateIs DEF StateOf
  <2> QED BY <2>1, StateIs, StateParts DEF Same
<1>2. NoteFlip(s) = s \/ \E f : NoteFlip(s) = [s EXCEPT !.flips = f]
  BY Zenon DEF NoteFlip
<1> QED BY <1>1, <1>2, Zenon DEF Same

LEMMA RetireIs ==
  ASSUME NEW s, IsState(s), NEW b
  PROVE  IsState(Retire(s, b)) /\ Retire(s, b).imp = NoImp /\ Retire(s, b).quar = s.quar
<1>1. PICK c : Retire(s, b) = StateOf(NoImp, c, NoConf, s.flips, s.quar, s.off)
  <2> DEFINE t == [s EXCEPT !.imp = NoImp]
             u == [t EXCEPT !.conf = NoConf]
             v == [u EXCEPT !.cool = IF b /\ HoldTime > 0 THEN HoldTime ELSE @]
  <2>0. Retire(s, b) = v
    BY DEF Retire
  <2>1. t = StateOf(NoImp, s.cool, s.conf, s.flips, s.quar, s.off)
    BY StateIs DEF StateOf
  <2> HIDE DEF t
  <2>2. u = StateOf(NoImp, s.cool, NoConf, s.flips, s.quar, s.off)
    BY <2>1 DEF StateOf
  <2> HIDE DEF u
  <2>3. v = StateOf(NoImp, IF b /\ HoldTime > 0 THEN HoldTime ELSE s.cool, NoConf, s.flips, s.quar, s.off)
    BY <2>2 DEF StateOf
  <2> QED BY <2>0, <2>3, Zenon
<1> QED BY <1>1, StateParts, NoImpIs

LEMMA SteerIs ==
  ASSUME NEW s, IsState(s), NEW v, NEW cause
  PROVE  /\ IsState(Steer(s, v, cause)) /\ Steer(s, v, cause).quar = s.quar
         /\ Steer(s, v, cause).imp.held = s.imp.held
         /\ Steer(s, v, cause).imp.prov = v
<1> DEFINE i == [prov |-> v, cause |-> cause, age |-> 0, held |-> s.imp.held]
<1>1. Steer(s, v, cause) = StateOf(i, s.cool, s.conf, s.flips, s.quar, s.off)
  BY StateIs DEF StateOf, Steer
<1>2. IsImp(i) /\ i.held = s.imp.held /\ i.prov = v
  BY DEF IsImp
<1> HIDE DEF i
<1> QED BY <1>1, <1>2, StateParts

LEMMA QuarantineIs ==
  ASSUME NEW s, IsState(s)
  PROVE  IsState(QuarantinePrefix(s)) /\ QuarantinePrefix(s).imp = s.imp
<1> DEFINE n == Min({(IF s.off.age > MaxCooldown THEN 0 ELSE s.off.n) + 1, MaxStrikes})
           x == [left |-> CoolFor(n), strikes |-> n]
           y == [n |-> n, age |-> 0]
<1> HIDE DEF n
<1> DEFINE t == [s EXCEPT !.quar = x]
           u == [t EXCEPT !.off = y]
           v == [u EXCEPT !.flips = <<>>]
<1>0. QuarantinePrefix(s) = v
  BY DEF QuarantinePrefix, n
<1> HIDE DEF x, y
<1>1. t = StateOf(s.imp, s.cool, s.conf, s.flips, x, s.off)
  BY StateIs DEF StateOf
<1> HIDE DEF t
<1>2. u = StateOf(s.imp, s.cool, s.conf, s.flips, x, y)
  BY <1>1 DEF StateOf
<1> HIDE DEF u
<1>3. v = StateOf(s.imp, s.cool, s.conf, <<>>, x, y)
  BY <1>2 DEF StateOf
<1> HIDE DEF v
<1> QED BY <1>0, <1>3, StateIs, StateParts

\* The ways an active improvement goes on.
LEMMA WaysOn ==
  ASSUME NEW s, IsState(s), NEW b, NEW v, NEW cause, NEW k
  PROVE  /\ Stays(s, s) /\ Stays(s, Retire(s, b)) /\ Stays(s, Steer(s, v, cause))
         /\ Stays(s, [s EXCEPT !.conf = k])
         /\ Stays(s, [Steer(NoteFlip(s), v, cause) EXCEPT !.conf = k])
         /\ Stays(s, Retire(QuarantinePrefix(s), b))
         /\ Stays(s, QuarantinePrefix(Retire(s, b))) /\ Stays(s, NoteFlip(Retire(s, b)))
<1>1. Stays(s, s)
  BY Zenon DEF Stays
<1>2. Stays(s, Retire(s, b))
  BY RetireIs, Zenon DEF Stays
<1>3. Stays(s, Steer(s, v, cause))
  BY SteerIs DEF Stays
<1>4. Stays(s, [s EXCEPT !.conf = k])
  <2> DEFINE t == [s EXCEPT !.conf = k]
  <2>1. Same(s, t)
    BY ConfSame
  <2> HIDE DEF t
  <2>2. Stays(s, t)
    BY <2>1, SameStays, Zenon
  <2> QED BY <2>2 DEF t
<1>5. Stays(s, [Steer(NoteFlip(s), v, cause) EXCEPT !.conf = k])
  <2>1. Same(s, NoteFlip(s))
    BY FlipSame, Zenon
  <2> DEFINE t == Steer(NoteFlip(s), v, cause)
  <2>2. IsState(t) /\ t.quar = s.quar /\ t.imp.held = s.imp.held
    BY <2>1, SteerIs DEF Same
  <2> HIDE DEF t
  <2>3. Same(t, [t EXCEPT !.conf = k])
    BY <2>2, ConfSame
  <2>4. Stays(s, [t EXCEPT !.conf = k])
    BY <2>2, <2>3 DEF Stays, Same
  <2> QED BY <2>4 DEF t
<1>6. Stays(s, Retire(QuarantinePrefix(s), b))
  BY QuarantineIs, RetireIs, ZenonT(60) DEF Stays
<1>7. Stays(s, QuarantinePrefix(Retire(s, b)))
  BY QuarantineIs, RetireIs, ZenonT(60) DEF Stays
<1>8. Stays(s, NoteFlip(Retire(s, b)))
  BY FlipSame, RetireIs, ZenonT(60) DEF Stays, Same
<1> QED BY <1>1, <1>2, <1>3, <1>4, <1>5, <1>6, <1>7, <1>8

LEMMA PlanStepStays ==
  ASSUME NEW p, NEW s, NEW a, NEW r, IsState(s) PROVE Stays(s, PlanStep(p, s, a, r))
<1>1. \/ PlanStep(p, s, a, r) = s \/ PlanStep(p, s, a, r) = Retire(s, TRUE)
      \/ PlanStep(p, s, a, r) = Steer(s, a.want, "planned")
  BY Zenon DEF PlanStep
<1>2. Stays(s, s) /\ Stays(s, Retire(s, TRUE)) /\ Stays(s, Steer(s, a.want, "planned"))
  BY WaysOn, Zenon
<1> QED BY <1>1, <1>2, Zenon

LEMMA PlannedStays ==
  ASSUME NEW p, NEW s, NEW a, NEW r, IsState(s) PROVE Stays(s, PlannedSteer(p, s, a, r))
<1> DEFINE alt == BestOf(p, Alternatives(p, a, r))
           note == NotePerformance(p, s.conf, alt)
           noted == [s EXCEPT !.conf = note.conf]
           lost == [s EXCEPT !.conf = FreshLoss(p, @)]
           none == [s EXCEPT !.conf = NoConf]
           moved == [Steer(NoteFlip(s), alt, "performance") EXCEPT !.conf = NoConf]
           done == PlannedSteer(p, s, a, r)
<1>1. \/ done = Retire(s, FALSE) \/ done = Retire(s, TRUE)
      \/ done = PlanStep(p, lost, a, r) \/ done = PlanStep(p, s, a, r)
      \/ done = PlanStep(p, none, a, r) \/ done = noted \/ done = PlanStep(p, noted, a, r)
      \/ done = Retire(QuarantinePrefix(s), FALSE) \/ done = moved
  BY Zenon DEF PlannedSteer
<1>2. \A k : Same(s, [s EXCEPT !.conf = k])
  BY ConfSame
<1>3. Same(s, lost) /\ Same(s, noted) /\ Same(s, none)
  BY <1>2
<1>4. /\ Stays(s, Retire(s, FALSE)) /\ Stays(s, Retire(s, TRUE))
      /\ Stays(s, Retire(QuarantinePrefix(s), FALSE)) /\ Stays(s, moved)
  BY WaysOn, Zenon
<1> HIDE DEF alt, note, noted, lost, none, moved, done
<1>5. ASSUME NEW t, Same(s, t) PROVE Stays(s, PlanStep(p, t, a, r))
  BY <1>5, PlanStepStays, SameThenStays, Zenon DEF Same
<1>6. Same(s, s)
  BY Zenon DEF Same
<1>7. Stays(s, done)
  BY <1>1, <1>3, <1>4, <1>5, <1>6, SameStays, Zenon
<1> QED BY <1>7 DEF done

LEMMA PerformanceStays ==
  ASSUME NEW p, NEW s, NEW a, NEW r, IsState(s) PROVE Stays(s, PerformanceSteer(p, s, a, r))
<1> DEFINE alt == BestOf(p, Alternatives(p, a, r))
           note == NotePerformance(p, s.conf, alt)
           noted == [s EXCEPT !.conf = note.conf]
           lost == [s EXCEPT !.conf = FreshLoss(p, @)]
           none == [s EXCEPT !.conf = NoConf]
           gone == Retire(s, TRUE)
           moved == [Steer(NoteFlip(s), alt, "performance") EXCEPT !.conf = NoConf]
           done == PerformanceSteer(p, s, a, r)
<1>1. \/ done = none \/ done = QuarantinePrefix(gone) \/ done = NoteFlip(gone)
      \/ done = lost \/ done = noted
      \/ done = Retire(QuarantinePrefix(s), FALSE) \/ done = moved
  BY Zenon DEF PerformanceSteer
<1>2. \A k : Same(s, [s EXCEPT !.conf = k])
  BY ConfSame
<1>3. Same(s, lost) /\ Same(s, noted) /\ Same(s, none)
  BY <1>2
<1>4. /\ Stays(s, QuarantinePrefix(gone)) /\ Stays(s, NoteFlip(gone))
      /\ Stays(s, Retire(QuarantinePrefix(s), FALSE)) /\ Stays(s, moved)
  BY WaysOn, Zenon
<1> HIDE DEF alt, note, noted, lost, none, gone, moved, done
<1>5. Stays(s, done)
  BY <1>1, <1>3, <1>4, SameStays, Zenon
<1> QED BY <1>5 DEF done

LEMMA StaticStays ==
  ASSUME NEW p, NEW s, NEW a, NEW r, IsState(s) PROVE Stays(s, StaticSteer(p, s, a, r))
<1> DEFINE kept == [s EXCEPT !.imp.cause = "static"]
           done == StaticSteer(p, s, a, r)
<1>1. \/ done = Retire(s, FALSE) \/ done = Retire(s, TRUE) \/ done = kept \/ done = s
      \/ done = Steer(s, a.pin, "static")
  BY Zenon DEF StaticSteer
<1>2. /\ Stays(s, Retire(s, FALSE)) /\ Stays(s, Retire(s, TRUE)) /\ Stays(s, s)
      /\ Stays(s, Steer(s, a.pin, "static"))
  BY WaysOn, Zenon
<1>3. Stays(s, kept)
  <2> DEFINE i == [s.imp EXCEPT !.cause = "static"]
  <2>1. IsImp(i) /\ i.held = s.imp.held
    <3>1. IsImp(s.imp)
      BY StateIs, Zenon
    <3>2. i = [prov |-> s.imp.prov, cause |-> "static", age |-> s.imp.age, held |-> s.imp.held]
      BY <3>1 DEF IsImp
    <3> HIDE DEF i
    <3> QED BY <3>2 DEF IsImp
  <2>2. kept = [s EXCEPT !.imp = i]
    OBVIOUS
  <2> HIDE DEF i, kept
  <2>3. kept = StateOf(i, s.cool, s.conf, s.flips, s.quar, s.off)
    BY <2>2, StateIs DEF StateOf
  <2> QED BY <2>1, <2>3, StateParts DEF Stays
<1> HIDE DEF kept, done
<1>4. Stays(s, done)
  BY <1>1, <1>2, <1>3, Zenon
<1> QED BY <1>4 DEF done

\* How long the native path was seen, after a round looked at it.
HeldNow(p, s, a) == IF ~InRIB(p) \/ a.leak THEN -1 ELSE Max({s.imp.held, 0})

LEMMA NoteNativeIs ==
  ASSUME NEW p, NEW s, NEW a, IsState(s)
  PROVE  LET n == NoteNative(p, s, a)
         IN IsState(n) /\ n.quar = s.quar /\ n.imp.held = HeldNow(p, s, a)
<1> DEFINE h == HeldNow(p, s, a)
           i == [s.imp EXCEPT !.held = h]
           n == NoteNative(p, s, a)
<1>0. n = [s EXCEPT !.imp.held = h]
  BY DEF NoteNative, HeldNow
<1> HIDE DEF h, n
<1>1. i = [prov |-> s.imp.prov, cause |-> s.imp.cause, age |-> s.imp.age, held |-> h]
  <2>1. IsImp(s.imp)
    BY StateIs, Zenon
  <2> QED BY <2>1 DEF IsImp
<1>2. n = [s EXCEPT !.imp = i]
  BY <1>0
<1> HIDE DEF i
<1>3. IsImp(i) /\ i.held = h
  BY <1>1 DEF IsImp
<1>4. n = StateOf(i, s.cool, s.conf, s.flips, s.quar, s.off)
  BY <1>2, StateIs DEF StateOf
<1>5. IsState(n) /\ n.quar = s.quar /\ n.imp.held = h
  BY <1>3, <1>4, StateParts
<1> QED BY <1>5 DEF n, h

\* Active: the improvement ends, or it goes on, the native path looked at.
LEMMA ActiveIs ==
  ASSUME NEW p, NEW s, NEW a, NEW r, IsState(s)
  PROVE  LET t == Active(p, s, a, r)
         IN IsState(t) /\ (t.imp = NoImp \/ (t.quar = s.quar /\ t.imp.held = HeldNow(p, s, a)))
<1> DEFINE n == NoteNative(p, s, a)
           t == Active(p, s, a, r)
<1>1. IsState(n) /\ n.quar = s.quar /\ n.imp.held = HeldNow(p, s, a)
  BY NoteNativeIs, Zenon
<1>2. \/ \E b \in {TRUE, FALSE, n.imp.cause = "static"} : t = Retire(n, b)
      \/ t = StaticSteer(p, n, a, r) \/ t = PlannedSteer(p, n, a, r)
      \/ t = PerformanceSteer(p, n, a, r)
  BY Zenon DEF Active
<1> HIDE DEF n, t
<1>3. Stays(n, t)
  <2>1. \A b : Stays(n, Retire(n, b))
    BY <1>1, WaysOn, Zenon
  <2> QED BY <1>1, <1>2, <2>1, StaticStays, PlannedStays, PerformanceStays, Zenon
<1>4. IsState(t) /\ (t.imp = NoImp \/ (t.quar = s.quar /\ t.imp.held = HeldNow(p, s, a)))
  BY <1>1, <1>3, Zenon DEF Stays
<1> QED BY <1>4, Zenon DEF t

\* Idle: nothing moves yet, and a move is asked for only outside of a
\* quarantine and a cooldown.
LEMMA IdleIs ==
  ASSUME NEW p, NEW s, NEW a, NEW r, IsState(s)
  PROVE  LET x == Idle(p, s, a, r)
         IN Same(s, x.s) /\ (x.want # NoWant => s.quar = NoQuar /\ s.cool = 0)
<1> DEFINE clear == [s EXCEPT !.conf = NoConf]
           lost == [s EXCEPT !.conf = FreshLoss(p, @)]
           alt == BestOf(p, Alternatives(p, a, r))
           note == NotePerformance(p, s.conf, alt)
           noted == [s EXCEPT !.conf = note.conf]
           rank == IF a.pol = "vip" THEN 1 ELSE 2
           x == Idle(p, s, a, r)
<1>1. \/ x = Kept(clear) \/ x = Kept(s) \/ x = Kept(lost) \/ x = Kept(noted)
      \/ /\ s.quar = NoQuar /\ s.cool = 0
         /\ \/ x = Wants(s, a.pin, 0, "static") \/ x = Wants(lost, a.want, 3, "planned")
            \/ x = Wants(noted, alt, rank, "performance")
  BY Zenon DEF Idle
<1>2. \A k : Same(s, [s EXCEPT !.conf = k])
  BY ConfSame
<1>3. Same(s, clear) /\ Same(s, lost) /\ Same(s, noted) /\ Same(s, s)
  BY <1>2 DEF Same
<1> HIDE DEF clear, lost, alt, note, noted, rank, x
<1>4. \A t : Kept(t).s = t /\ Kept(t).want = NoWant
  BY DEF Kept
<1>5. \A t, v, k, c : Wants(t, v, k, c).s = t
  BY DEF Wants
<1>6. Same(s, x.s) /\ (x.want # NoWant => s.quar = NoQuar /\ s.cool = 0)
  <2>1. PICK t : Same(s, t) /\ (x = Kept(t)
               \/ (s.quar = NoQuar /\ s.cool = 0 /\ \E v, k, c : x = Wants(t, v, k, c)))
    BY <1>1, <1>3, Zenon
  <2>2. x.s = t
    <3>1. CASE x = Kept(t)
      BY <3>1, <1>4, Zenon
    <3>2. CASE \E v, k, c : x = Wants(t, v, k, c)
      <4>1. PICK v, k, c : x = Wants(t, v, k, c)
        BY <3>2, Zenon
      <4> QED BY <4>1 DEF Wants
    <3> QED BY <2>1, <3>1, <3>2, Zenon
  <2> QED BY <2>1, <2>2, <1>4, Zenon
<1> QED BY <1>6, Zenon DEF x

LEMMA ExpireIs ==
  ASSUME NEW s, IsState(s)
  PROVE  LET t == ExpireFlap(s)
         IN IsState(t) /\ t.imp = s.imp /\ t.cool = s.cool /\ (t.quar = s.quar \/ t.quar = NoQuar)
<1> DEFINE over == s.quar # NoQuar /\ (dcfg.flips = 0 \/ s.quar.left <= 0)
           ago == IF dcfg.flips = 0 THEN 0 ELSE -s.quar.left
           r == IF over THEN ReleaseQuarantine(s, ago) ELSE s
           t == ExpireFlap(s)
<1>1. IsState(r) /\ r.imp = s.imp /\ r.cool = s.cool /\ (r.quar = s.quar \/ r.quar = NoQuar)
  <2>1. CASE ~over
    BY <2>1, Zenon
  <2>2. CASE over
    <3> DEFINE u == [s EXCEPT !.quar = NoQuar]
               v == [u EXCEPT !.off.age = IF s.off.n > 0 THEN ago ELSE 0]
               o == [u.off EXCEPT !.age = IF s.off.n > 0 THEN ago ELSE 0]
    <3>0. r = v
      BY <2>2 DEF ReleaseQuarantine
    <3>1. u = StateOf(s.imp, s.cool, s.conf, s.flips, NoQuar, s.off)
      BY StateIs DEF StateOf
    <3> HIDE DEF u
    <3>2. v = [u EXCEPT !.off = o]
      OBVIOUS
    <3> HIDE DEF v, o
    <3>3. v = StateOf(s.imp, s.cool, s.conf, s.flips, NoQuar, o)
      BY <3>1, <3>2 DEF StateOf
    <3> QED BY <3>0, <3>3, StateIs, StateParts
  <2> QED BY <2>1, <2>2, Zenon
<1>2. PICK x, y : t = [r EXCEPT !.flips = x, !.off = y]
  BY Zenon DEF ExpireFlap
<1> HIDE DEF r, t
<1> DEFINE u == [r EXCEPT !.flips = x]
           v == [u EXCEPT !.off = y]
<1>3. t = v
  BY <1>2
<1>4. u = StateOf(r.imp, r.cool, r.conf, x, r.quar, r.off)
  BY <1>1, StateIs DEF StateOf
<1> HIDE DEF u
<1>5. v = StateOf(r.imp, r.cool, r.conf, x, r.quar, y)
  BY <1>4 DEF StateOf
<1> HIDE DEF v
<1>6. IsState(t) /\ t.imp = s.imp /\ t.cool = s.cool /\ (t.quar = s.quar \/ t.quar = NoQuar)
  BY <1>1, <1>3, <1>5, StateIs, StateParts
<1> QED BY <1>6, Zenon DEF t

\* What a round makes of prefix p in state s, before the cap and the queue: an
\* idle prefix stays idle, and may ask for a move when nothing holds it off;
\* an active one stays active only when it was looked at.
Judges(p, s, a, r, x) ==
  /\ IsState(x.s)
  /\ s.imp = NoImp => /\ x.s.imp = NoImp /\ x.s.cool = s.cool
                      /\ x.want # NoWant => x.s.quar = NoQuar /\ s.cool = 0
  /\ s.imp # NoImp => /\ x.want = NoWant
                      /\ \/ x.s.imp = NoImp
                         \/ /\ r.ready /\ x.s.imp.held = HeldNow(p, s, a)
                            /\ x.s.quar \in {s.quar, NoQuar}

LEMMA DecidePrefixIs ==
  ASSUME NEW p, NEW s, NEW a, NEW r, IsState(s), r.ready
  PROVE  Judges(p, s, a, r, DecidePrefix(p, s, a, r))
<1> DEFINE clear == [s EXCEPT !.conf = NoConf]
           x == DecidePrefix(p, s, a, r)
<1>1. \A t : Kept(t).s = t /\ Kept(t).want = NoWant
  BY DEF Kept
<1>2. Same(s, clear)
  BY ConfSame
<1> HIDE DEF clear
<1>3. CASE s.imp = NoImp
  <2>1. x = Kept(clear) \/ x = Idle(p, s, a, r)
    BY <1>3, Zenon DEF DecidePrefix, clear
  <2>2. Same(s, Idle(p, s, a, r).s)
        /\ (Idle(p, s, a, r).want # NoWant => s.quar = NoQuar /\ s.cool = 0)
    BY IdleIs, Zenon
  <2> HIDE DEF x
  <2>3. Same(s, x.s) /\ (x.want # NoWant => s.quar = NoQuar /\ s.cool = 0)
    BY <2>1, <2>2, <1>1, <1>2, Zenon
  <2>4. Judges(p, s, a, r, x)
    BY <1>3, <2>3, Zenon DEF Judges, Same
  <2> QED BY <2>4, Zenon DEF x
<1>4. CASE s.imp # NoImp
  <2>1. x = Kept(Retire(s, FALSE)) \/ x = Kept(Active(p, s, a, r))
    BY <1>4, Zenon DEF DecidePrefix
  <2>2. IsState(Retire(s, FALSE)) /\ Retire(s, FALSE).imp = NoImp
    BY RetireIs, Zenon
  <2>3. LET t == Active(p, s, a, r)
        IN IsState(t) /\ (t.imp = NoImp \/ (t.quar = s.quar /\ t.imp.held = HeldNow(p, s, a)))
    BY ActiveIs, Zenon
  <2> HIDE DEF x
  <2>4. /\ IsState(x.s) /\ x.want = NoWant
        /\ x.s.imp = NoImp \/ (x.s.quar = s.quar /\ x.s.imp.held = HeldNow(p, s, a))
    BY <2>1, <2>2, <2>3, <1>1, Zenon
  <2>5. Judges(p, s, a, r, x)
    BY <1>4, <2>4, Zenon DEF Judges
  <2> QED BY <2>5, Zenon DEF x
<1> QED BY <1>3, <1>4, Zenon

LEMMA EachIs ==
  ASSUME NEW S, NEW ans, NEW r, NEW p \in Prefix, IsState(S[p])
  PROVE  Judges(p, S[p], ans[p], r, Each(S, ans, r)[p])
<1> DEFINE b == ExpireFlap(S[p])
           a == ans[p]
           x == Each(S, ans, r)[p]
           clear == [b EXCEPT !.conf = NoConf]
<1>1. /\ IsState(b) /\ b.imp = S[p].imp /\ b.cool = S[p].cool
      /\ b.quar = S[p].quar \/ b.quar = NoQuar
  BY ExpireIs, Zenon
<1>2. x = IF r.ready THEN DecidePrefix(p, b, a, r)
          ELSE Kept(IF b.imp # NoImp THEN Retire(b, FALSE) ELSE clear)
  BY Zenon DEF Each
<1>3. Judges(p, b, a, r, x) => Judges(p, S[p], a, r, x)
  <2> HIDE DEF b, x
  <2>1. HeldNow(p, b, a) = HeldNow(p, S[p], a)
    BY <1>1, Zenon DEF HeldNow
  <2> QED BY <1>1, <2>1, Zenon DEF Judges
<1>4. Judges(p, b, a, r, x)
  <2> HIDE DEF b, a, x
  <2>1. CASE r.ready
    BY <2>1, <1>1, <1>2, DecidePrefixIs, Zenon
  <2>2. CASE ~r.ready
    <3>1. \A t : Kept(t).s = t /\ Kept(t).want = NoWant
      BY DEF Kept
    <3>2. Same(b, clear)
      BY <1>1, ConfSame
    <3>3. IsState(Retire(b, FALSE)) /\ Retire(b, FALSE).imp = NoImp
      BY <1>1, RetireIs, Zenon
    <3> HIDE DEF clear
    <3>4. CASE b.imp = NoImp
      <4>1. x.s = clear /\ x.want = NoWant
        BY <1>2, <2>2, <3>1, <3>4, Zenon
      <4> QED BY <4>1, <3>2, <3>4, Zenon DEF Judges, Same
    <3>5. CASE b.imp # NoImp
      <4>1. x.s = Retire(b, FALSE) /\ x.want = NoWant
        BY <1>2, <2>2, <3>1, <3>5, Zenon
      <4> QED BY <4>1, <3>3, <3>5, Zenon DEF Judges
    <3> QED BY <3>4, <3>5, Zenon
  <2> QED BY <2>1, <2>2, Zenon
<1> QED BY <1>3, <1>4, Zenon

-----------------------------------------------------------------------------
(* What the cap, the capacity limit and the queue do to all of them. *)

\* A state is left alone, or its improvement ends.
Down(s, t) == t = s \/ (s.imp # NoImp /\ IsState(t) /\ t.imp = NoImp)

\* The states of all prefixes.
AllStates(S) == S = [p \in Prefix |-> S[p]] /\ \A p \in Prefix : IsState(S[p])

LEMMA DownIs ==
  ASSUME NEW s, NEW t, IsState(s), Down(s, t)
  PROVE  /\ IsState(t) /\ (t.imp # NoImp => t = s /\ s.imp # NoImp)
         /\ s.imp = NoImp => t = s
  BY Zenon DEF Down

LEMMA DownAgain ==
  ASSUME NEW s, NEW t, NEW u, Down(s, t), Down(t, u) PROVE Down(s, u)
  BY Zenon DEF Down

LEMMA TrimmedIs ==
  ASSUME NEW one, NEW ans, NEW r, \A p \in Prefix : IsState(one[p].s)
  PROVE  /\ AllStates(Trimmed(one, ans, r))
         /\ \A p \in Prefix : Down(one[p].s, Trimmed(one, ans, r)[p])
<1> DEFINE S == [p \in Prefix |-> one[p].s]
           T == TrimToCap(S, ans)
           U == Shed(T, ans, r)
           V == Trimmed(one, ans, r)
<1>1. ASSUME NEW R, NEW p \in Prefix, IsState(R[p])
      PROVE  Down(R[p], TrimToCap(R, ans)[p]) /\ Down(R[p], Shed(R, ans, r)[p])
  <2>1. IsState(Retire(R[p], FALSE)) /\ Retire(R[p], FALSE).imp = NoImp
        /\ IsState(Retire(R[p], TRUE)) /\ Retire(R[p], TRUE).imp = NoImp
    BY <1>1, RetireIs, Zenon
  <2>2. \/ TrimToCap(R, ans)[p] = R[p]
        \/ p \in Steered(R) /\ TrimToCap(R, ans)[p] = Retire(R[p], FALSE)
    BY Zenon DEF TrimToCap
  <2>3. Shed(R, ans, r)[p] = R[p] \/ (p \in Steered(R) /\ Shed(R, ans, r)[p] = Retire(R[p], TRUE))
    BY Zenon DEF Shed
  <2>4. p \in Steered(R) => R[p].imp # NoImp
    BY Zenon DEF Steered
  <2> QED BY <2>1, <2>2, <2>3, <2>4, Zenon DEF Down
<1>2. ASSUME NEW p \in Prefix
      PROVE  S[p] = one[p].s /\ Down(S[p], T[p]) /\ Down(S[p], U[p])
  <2>1. S[p] = one[p].s
    BY Zenon
  <2> HIDE DEF S
  <2>2. Down(S[p], T[p])
    BY <1>1, <2>1, Zenon
  <2> HIDE DEF T
  <2>3. Down(T[p], U[p])
    BY <1>1, <2>1, <2>2, DownIs, Zenon
  <2> QED BY <2>1, <2>2, <2>3, DownAgain, Zenon
<1>3. V = S \/ V = U
  BY Zenon DEF Trimmed
<1>4. S = [p \in Prefix |-> S[p]] /\ U = [p \in Prefix |-> U[p]]
  BY Zenon DEF Shed
<1>5. \A p \in Prefix : Down(S[p], S[p])
  BY Zenon DEF Down
<1> HIDE DEF S, T, U, V
<1>6. AllStates(V) /\ \A p \in Prefix : Down(one[p].s, V[p])
  BY <1>2, <1>3, <1>4, <1>5, DownIs, Zenon DEF AllStates
<1> QED BY <1>6, Zenon DEF V

LEMMA Compared ==
  ASSUME NEW a \in Int, NEW b \in Int, a # b PROVE a < b \/ b < a
  OBVIOUS

LEMMA Strictly ==
  ASSUME NEW a \in Nat, NEW b \in Nat, a <= b, a # b PROVE a < b
  OBVIOUS

\* The order in which the cap takes steers back is a strict total order.
LEMMA DropsInOrder ==
  ASSUME NEW S, NEW ans, DecideConstants, res \in [Prefix -> [Provider -> [rank : Int, age : Int]]],
         NEW p \in Prefix, NEW q \in Prefix, NEW o \in Prefix
  PROVE  /\ ~DropsBefore(S, ans, p, p)
         /\ p # q => DropsBefore(S, ans, p, q) \/ DropsBefore(S, ans, q, p)
         /\ DropsBefore(S, ans, p, q) /\ DropsBefore(S, ans, q, o) => DropsBefore(S, ans, p, o)
<1>1. \A s, a : LaneOf(s, a) \in Int
  BY DEF LaneOf
<1>2. ASSUME NEW x \in Prefix, NEW s, NEW a PROVE GainOf(x, s, a) \in Int
  <2>1. Usable(x, a) \subseteq Provider
    BY Zenon DEF Usable, Fresh, Measured
  <2>2. \A v \in Provider : res[x][v].rank \in Int
    OBVIOUS
  <2>3. CASE {Native, s.imp.prov} \subseteq Usable(x, a)
    <3>1. Native \in Provider /\ s.imp.prov \in Provider
      BY <2>1, <2>3, Zenon
    <3>2. res[x][Native].rank \in Int /\ res[x][s.imp.prov].rank \in Int
      BY <2>2, <3>1, Zenon
    <3> QED BY <2>3, <3>2 DEF GainOf
  <2>4. CASE ~({Native, s.imp.prov} \subseteq Usable(x, a))
    BY <2>4 DEF GainOf
  <2> QED BY <2>3, <2>4, Zenon
<1>3. p \in Int /\ q \in Int /\ o \in Int
  BY DEF DecideConstants
<1> DEFINE L(x) == LaneOf(S[x], ans[x])
           G(x) == GainOf(x, S[x], ans[x])
<1>4. L(p) \in Int /\ L(q) \in Int /\ L(o) \in Int
  BY <1>1, Zenon
<1>5. G(p) \in Int /\ G(q) \in Int /\ G(o) \in Int
  BY <1>2, Zenon
<1>6. \A x, y : DropsBefore(S, ans, x, y)
        <=> (L(x) > L(y) \/ (L(x) = L(y) /\ (G(x) < G(y) \/ (G(x) = G(y) /\ x > y))))
  BY Zenon DEF DropsBefore
<1> HIDE DEF L, G
<1>8. ~DropsBefore(S, ans, p, p)
  BY <1>3, <1>4, <1>5, <1>6
<1>9. p # q => DropsBefore(S, ans, p, q) \/ DropsBefore(S, ans, q, p)
  <2> DEFINE Before(x, y) ==
               L(x) > L(y) \/ (L(x) = L(y) /\ (G(x) < G(y) \/ (G(x) = G(y) /\ x > y)))
  <2>1. p # q => Before(p, q) \/ Before(q, p)
    <3>1. /\ p # q => p < q \/ q < p
          /\ L(p) # L(q) => L(p) < L(q) \/ L(q) < L(p)
          /\ G(p) # G(q) => G(p) < G(q) \/ G(q) < G(p)
      BY <1>3, <1>4, <1>5, Compared, Zenon
    <3>2. \A a, b \in Int : a > b <=> b < a
      OBVIOUS
    <3> QED BY <3>1, <3>2, <1>3, <1>4, <1>5, Zenon
  <2> QED BY <2>1, <1>6, Zenon
<1>10. DropsBefore(S, ans, p, q) /\ DropsBefore(S, ans, q, o) => DropsBefore(S, ans, p, o)
  <2> DEFINE Before(x, y) ==
               L(x) > L(y) \/ (L(x) = L(y) /\ (G(x) < G(y) \/ (G(x) = G(y) /\ x > y)))
  <2>1. Before(p, q) /\ Before(q, o) => Before(p, o)
    BY <1>3, <1>4, <1>5
  <2> QED BY <2>1, <1>6, Zenon
<1> QED BY <1>8, <1>9, <1>10, Zenon

\* The first n of a finite set, in this order, leave the rest.
LEMMA TrimFits ==
  ASSUME SetFacts, NEW S, NEW ans, DecideConstants, dcfg.cap \in Nat, AllStates(S),
         res \in [Prefix -> [Provider -> [rank : Int, age : Int]]]
  PROVE  Cardinality(Steered(TrimToCap(S, ans))) <= dcfg.cap
<1> DEFINE act == Steered(S)
           n == Cardinality(act) - dcfg.cap
           Pre(p) == {q \in act : DropsBefore(S, ans, q, p)}
           rank == [p \in act |-> Cardinality(Pre(p))]
           drop == {p \in act : Cardinality(Pre(p)) < n}
           left == Steered(TrimToCap(S, ans))
<1>1. act \subseteq Prefix /\ IsFiniteSet(act) /\ Cardinality(act) \in Nat
  <2>1. act \subseteq Prefix
    BY Zenon DEF Steered
  <2> QED BY <2>1, Subsets, Counted, Zenon DEF DecideConstants
<1>2. left \subseteq act \ drop
  <2> SUFFICES ASSUME NEW p \in left PROVE p \in act \ drop
    BY Zenon
  <2>1. p \in Prefix /\ TrimToCap(S, ans)[p].imp # NoImp
    BY Zenon DEF Steered
  <2>2. TrimToCap(S, ans)[p] = IF p \in drop THEN Retire(S[p], FALSE) ELSE S[p]
    BY <2>1, Zenon DEF TrimToCap
  <2>3. Retire(S[p], FALSE).imp = NoImp
    BY <2>1, RetireIs, Zenon DEF AllStates
  <2> HIDE DEF drop
  <2>4. p \notin drop /\ S[p].imp # NoImp
    BY <2>1, <2>2, <2>3, Zenon
  <2> QED BY <2>1, <2>4, Zenon DEF Steered
<1>3. ASSUME NEW p \in act
      PROVE  /\ IsFiniteSet(Pre(p)) /\ Cardinality(Pre(p)) \in Nat
             /\ Cardinality(Pre(p)) < Cardinality(act)
  <2>1. Pre(p) \subseteq act /\ p \notin Pre(p)
    BY <1>1, DropsInOrder, Zenon
  <2> HIDE DEF Pre, act
  <2>2. Pre(p) # act
    BY <1>3, <2>1, Zenon
  <2>3. /\ IsFiniteSet(Pre(p)) /\ Cardinality(Pre(p)) <= Cardinality(act)
        /\ Cardinality(act) # Cardinality(Pre(p))
    BY <1>1, <2>1, <2>2, Subsets, Zenon
  <2>4. Cardinality(Pre(p)) \in Nat
    BY <2>3, Counted, Zenon
  <2>5. Cardinality(act) \in Nat
    BY <1>1, Zenon
  <2> QED BY <2>3, <2>4, <2>5, Strictly
<1>4. ASSUME NEW p \in act, NEW q \in act, DropsBefore(S, ans, p, q)
      PROVE  Cardinality(Pre(p)) < Cardinality(Pre(q))
  <2>1. Pre(p) \subseteq Pre(q)
    BY <1>1, <1>4, DropsInOrder, Zenon
  <2>2. p \in Pre(q) /\ p \notin Pre(p)
    BY <1>1, <1>4, DropsInOrder, Zenon
  <2>3. IsFiniteSet(Pre(q))
    BY <1>3, Zenon
  <2>4. Cardinality(Pre(p)) \in Nat /\ Cardinality(Pre(q)) \in Nat
    BY <1>3, Zenon
  <2> HIDE DEF Pre
  <2>5. Cardinality(Pre(p)) <= Cardinality(Pre(q)) /\ Cardinality(Pre(p)) # Cardinality(Pre(q))
    BY <2>1, <2>2, <2>3, Subsets, Zenon
  <2> QED BY <2>4, <2>5, Strictly, Zenon
<1> SUFFICES Cardinality(left) <= dcfg.cap
  BY Zenon
<1>5. CASE n <= 0
  <2>1. left \subseteq act
    BY <1>2, Zenon
  <2>2. Cardinality(left) <= Cardinality(act) /\ Cardinality(left) \in Nat
    <3> HIDE DEF left, act
    <3> QED BY <1>1, <2>1, Subsets, Counted, Zenon
  <2> HIDE DEF left, act
  <2>3. Cardinality(act) <= dcfg.cap
    BY <1>1, <1>5
  <2> QED BY <1>1, <2>2, <2>3
<1>6. CASE n > 0
  <2> DEFINE rest == act \ drop
             I == n .. Cardinality(act) - 1
             f == [p \in rest |-> Cardinality(Pre(p))]
  <2>1. f \in [rest -> I] /\ OneToOne(f, rest)
    <3>1. ASSUME NEW p \in rest PROVE Cardinality(Pre(p)) \in I
      <4>1. p \in act /\ ~(Cardinality(Pre(p)) < n)
        BY <3>1, Zenon
      <4>2. Cardinality(Pre(p)) \in Nat /\ Cardinality(Pre(p)) < Cardinality(act)
        BY <4>1, <1>3, Zenon
      <4> HIDE DEF act, Pre
      <4> QED BY <4>1, <4>2, <1>1
    <3>2. ASSUME NEW p \in rest, NEW q \in rest, p # q
          PROVE  Cardinality(Pre(p)) # Cardinality(Pre(q))
      <4>1. p \in act /\ q \in act
        BY Zenon
      <4>2. DropsBefore(S, ans, p, q) \/ DropsBefore(S, ans, q, p)
        BY <1>1, <3>2, <4>1, DropsInOrder, Zenon
      <4>3. Cardinality(Pre(p)) \in Nat /\ Cardinality(Pre(q)) \in Nat
        BY <4>1, <1>3, Zenon
      <4>4. Cardinality(Pre(p)) < Cardinality(Pre(q)) \/ Cardinality(Pre(q)) < Cardinality(Pre(p))
        BY <4>1, <4>2, <1>4, Zenon
      <4> HIDE DEF Pre
      <4> QED BY <4>3, <4>4
    <3> HIDE DEF rest, I, Pre
    <3>3. f \in [rest -> I] /\ \A p \in rest : f[p] = Cardinality(Pre(p))
      BY <3>1, Zenon
    <3> HIDE DEF f
    <3> QED BY <3>2, <3>3, Zenon DEF OneToOne
  <2>2. IsFiniteSet(I) /\ Cardinality(I) = dcfg.cap
    <3>1. n \in Int /\ Cardinality(act) - 1 \in Int
      <4> HIDE DEF act
      <4> QED BY <1>1
    <3>2. IsFiniteSet(I)
          /\ Cardinality(I) = IF n > Cardinality(act) - 1 THEN 0 ELSE Cardinality(act) - 1 - n + 1
      BY <3>1, Interval, Zenon
    <3> HIDE DEF act
    <3> QED BY <3>1, <3>2, <1>1, <1>6
  <2>3. IsFiniteSet(rest) /\ Cardinality(rest) <= Cardinality(I)
    <3> HIDE DEF rest, I, f
    <3> QED BY <2>1, <2>2, Injected
  <2>4. Cardinality(left) <= Cardinality(rest) /\ Cardinality(left) \in Nat
        /\ Cardinality(rest) \in Nat
    <3>1. left \subseteq rest
      BY <1>2, Zenon
    <3> HIDE DEF rest, left
    <3> QED BY <2>3, <3>1, Subsets, Counted
  <2> HIDE DEF rest, left, I
  <2> QED BY <2>2, <2>3, <2>4
<1>7. n \in Int
  <2> HIDE DEF act
  <2> QED BY <1>1
<1> HIDE DEF n
<1> QED BY <1>5, <1>6, <1>7

\* One prefix gets another state.
Put(S, p, x) == [S EXCEPT ![p] = x]

LEMMA UpdateAll ==
  ASSUME NEW S, AllStates(S), NEW p \in Prefix, NEW x, IsState(x),
         NEW U, U = Put(S, p, x)
  PROVE  /\ AllStates(U) /\ U = [o \in Prefix |-> IF o = p THEN x ELSE S[o]]
         /\ Steered(U) \subseteq Steered(S) \cup {p}
         /\ x.imp = NoImp => Steered(U) \subseteq Steered(S) \ {p}
<1>1. U = [o \in Prefix |-> IF o = p THEN x ELSE S[o]]
  BY Zenon DEF AllStates, Put
<1>2. U = [o \in Prefix |-> U[o]] /\ U[p] = x /\ \A o \in Prefix : o # p => U[o] = S[o]
  BY <1>1, Zenon
<1>3. \A o \in Prefix : IsState(U[o])
  BY <1>2, Zenon DEF AllStates
<1>4. Steered(U) \subseteq Steered(S) \cup {p}
  BY <1>2, Zenon DEF Steered
<1>5. x.imp = NoImp => Steered(U) \subseteq Steered(S) \ {p}
  BY <1>2, Zenon DEF Steered
<1> QED BY <1>1, <1>2, <1>3, <1>4, <1>5, Zenon DEF AllStates

LEMMA LeastOf ==
  ASSUME SetFacts, NEW S \in SUBSET Nat, S # {} PROVE Min(S) \in S
<1>1. PICK x \in S : \A y \in S : ~(y < x)
  BY Least, Zenon
<1>2. \E m \in S : \A y \in S : m <= y
  BY <1>1
<1> QED BY <1>2, Zenon DEF Min

LEMMA SteeredFinite ==
  ASSUME DecideConstants, SetFacts, NEW S
  PROVE  Steered(S) \subseteq Prefix /\ IsFiniteSet(Steered(S)) /\ Cardinality(Steered(S)) \in Nat
<1>1. Steered(S) \subseteq Prefix
  BY Zenon DEF Steered
<1> QED BY <1>1, Subsets, Counted, Zenon DEF DecideConstants

\* The displaced steer frees one slot.
LEMMA DisplaceIs ==
  ASSUME DecideConstants, SetFacts, NEW S, AllStates(S), \E q \in Steered(S) : S[q].imp.cause = "planned",
         NEW D, D = DisplaceCommit(S)
  PROVE  /\ AllStates(D) /\ \A o \in Prefix : Down(S[o], D[o])
         /\ \E m \in Steered(S) : Steered(D) \subseteq Steered(S) \ {m}
<1> DEFINE plan == {p \in Steered(S) : S[p].imp.cause = "planned"}
           m == Min(plan)
<1>1. plan \subseteq Nat /\ plan # {}
  BY SteeredFinite, Zenon DEF DecideConstants
<1>2. m \in plan
  BY <1>1, LeastOf, Zenon
<1>3. D = Put(S, m, Retire(S[m], TRUE))
  BY Zenon DEF DisplaceCommit, Put
<1> HIDE DEF m
<1>4. m \in Prefix /\ m \in Steered(S) /\ S[m].imp # NoImp
  BY <1>2, Zenon DEF Steered
<1>5. IsState(Retire(S[m], TRUE)) /\ Retire(S[m], TRUE).imp = NoImp
  BY <1>4, RetireIs, Zenon DEF AllStates
<1> DEFINE x == Retire(S[m], TRUE)
<1> HIDE DEF x
<1>6. IsState(x) /\ x.imp = NoImp /\ D = Put(S, m, x)
  BY <1>3, <1>5, Zenon DEF x
<1>7. /\ AllStates(D) /\ D = [o \in Prefix |-> IF o = m THEN x ELSE S[o]]
      /\ Steered(D) \subseteq Steered(S) \ {m}
  BY <1>4, <1>6, UpdateAll, Zenon
<1>8. \A o \in Prefix : Down(S[o], D[o])
  BY <1>4, <1>6, <1>7, Zenon DEF Down
<1> QED BY <1>4, <1>7, <1>8, Zenon

\* One move: it is made, parked or passed over.  At most one other steer ends
\* for it, and the steers stay within the cap.
Admits(S, p, U) ==
  /\ AllStates(U) /\ \A o \in Prefix : o # p => Down(S[o], U[o])
  /\ U[p].imp = NoImp \/ (U[p].quar = NoQuar /\ U[p].imp.held = -1)
  /\ Cardinality(Steered(S)) <= dcfg.cap => Cardinality(Steered(U)) <= dcfg.cap

LEMMA AdmitIs ==
  ASSUME DecideConstants, SetFacts, dcfg.cap \in Nat, NEW S, AllStates(S), NEW p \in Prefix,
         S[p].imp = NoImp, S[p].quar = NoQuar, NEW w, NEW a
  PROVE  Admits(S, p, Admit(S, p, w, a))
<1> DEFINE full == Cardinality(Steered(S)) >= dcfg.cap
           room == \E q \in Steered(S) : S[q].imp.cause = "planned"
           T == IF full THEN DisplaceCommit(S) ELSE S
           U == Admit(S, p, w, a)
           park == [QuarantinePrefix(S[p]) EXCEPT !.conf = NoConf]
           move == [Steer(NoteFlip(T[p]), w.prov, w.cause) EXCEPT !.conf = NoConf]
<1>1. \/ U = S \/ U = Put(S, p, park)
      \/ /\ full => dcfg.cap # 0 /\ room
         /\ U = Put(T, p, move)
  BY Zenon DEF Admit, Put
<1> HIDE DEF U
<1>2. IsState(S[p])
  BY Zenon DEF AllStates
<1> SUFFICES Admits(S, p, U)
  BY Zenon DEF U
<1>3. CASE U = S
  BY <1>3, Zenon DEF Admits, Down
<1>4. CASE U = Put(S, p, park)
  <2>1. IsState(QuarantinePrefix(S[p])) /\ QuarantinePrefix(S[p]).imp = NoImp
    BY <1>2, QuarantineIs, Zenon
  <2>2. IsState(park) /\ park.imp = NoImp
    BY <2>1, ConfSame DEF Same
  <2> HIDE DEF park
  <2>3. /\ AllStates(U) /\ U = [o \in Prefix |-> IF o = p THEN park ELSE S[o]]
        /\ Steered(U) \subseteq Steered(S) \ {p}
    <3>1. AllStates(U) /\ Steered(U) \subseteq Steered(S) \ {p}
      BY <1>4, <2>2, UpdateAll, Zenon
    <3>2. U = [o \in Prefix |-> IF o = p THEN park ELSE S[o]]
      BY <1>4, Zenon DEF AllStates, Put
    <3> QED BY <3>1, <3>2, Zenon
  <2>4. Steered(U) \subseteq Steered(S)
    BY <2>3, Zenon
  <2>5. Cardinality(Steered(U)) <= Cardinality(Steered(S))
    BY <2>4, SteeredFinite, Subsets, Zenon
  <2>6. Cardinality(Steered(U)) \in Nat /\ Cardinality(Steered(S)) \in Nat
    BY SteeredFinite, Zenon
  <2>7. Cardinality(Steered(S)) <= dcfg.cap => Cardinality(Steered(U)) <= dcfg.cap
    BY <2>5, <2>6
  <2>8. U[p].imp = NoImp /\ \A o \in Prefix : o # p => Down(S[o], U[o])
    BY <2>2, <2>3, Zenon DEF Down
  <2> QED BY <2>3, <2>7, <2>8, Zenon DEF Admits
<1>5. CASE (full => dcfg.cap # 0 /\ room) /\ U = Put(T, p, move)
  <2> DEFINE c == Cardinality(Steered(S))
  <2>1. /\ AllStates(T) /\ \A o \in Prefix : Down(S[o], T[o])
        /\ ~full => T = S
        /\ full => \E m \in Steered(S) : Steered(T) \subseteq Steered(S) \ {m}
    <3>1. CASE full
      <4>1. T = DisplaceCommit(S) /\ room
        BY <3>1, <1>5, Zenon
      <4> HIDE DEF T
      <4> QED BY <3>1, <4>1, DisplaceIs, Zenon
    <3>2. CASE ~full
      BY <3>2, Zenon DEF Down
    <3> QED BY <3>1, <3>2, Zenon
  <2> HIDE DEF T
  <2>2. T[p] = S[p]
    BY <2>1, <1>2, DownIs, Zenon
  <2>3. Stays(T[p], move)
    BY <1>2, <2>2, WaysOn, Zenon
  <2> HIDE DEF move
  <2>4. IsState(move) /\ (move.imp = NoImp \/ (move.quar = NoQuar /\ move.imp.held = -1))
    BY <2>2, <2>3, NoImpIs, Zenon DEF Stays
  <2>5. /\ AllStates(U) /\ U = [o \in Prefix |-> IF o = p THEN move ELSE T[o]]
        /\ Steered(U) \subseteq Steered(T) \cup {p}
    <3>1. AllStates(U) /\ Steered(U) \subseteq Steered(T) \cup {p}
      BY <1>5, <2>1, <2>4, UpdateAll, Zenon
    <3>2. U = [o \in Prefix |-> IF o = p THEN move ELSE T[o]]
      BY <1>5, <2>1, Zenon DEF AllStates, Put
    <3> QED BY <3>1, <3>2, Zenon
  <2>6. c <= dcfg.cap => Cardinality(Steered(U)) <= dcfg.cap
    <3>1. c \in Nat /\ IsFiniteSet(Steered(S)) /\ Cardinality(Steered(U)) \in Nat
          /\ IsFiniteSet(Steered(T)) /\ Cardinality(Steered(T)) \in Nat
      BY SteeredFinite, Zenon
    <3>2. Cardinality(Steered(U)) <= Cardinality(Steered(T)) + 1
      <4>1. /\ IsFiniteSet(Steered(T) \cup {p})
            /\ Cardinality(Steered(T) \cup {p}) \in {Cardinality(Steered(T)), Cardinality(Steered(T)) + 1}
        BY <3>1, Adding, Zenon
      <4>2. Cardinality(Steered(U)) <= Cardinality(Steered(T) \cup {p})
        BY <2>5, <4>1, Subsets, Zenon
      <4> QED BY <3>1, <4>1, <4>2
    <3>3. CASE full
      <4>1. PICK m \in Steered(S) : Steered(T) \subseteq Steered(S) \ {m}
        BY <2>1, <3>3, Zenon
      <4>2. IsFiniteSet(Steered(S) \ {m}) /\ Cardinality(Steered(S) \ {m}) = c - 1
        BY <3>1, Removing, Zenon
      <4>3. Cardinality(Steered(T)) <= Cardinality(Steered(S) \ {m})
        BY <4>1, <4>2, Subsets, Zenon
      <4> HIDE DEF c
      <4> QED BY <3>1, <3>2, <4>2, <4>3
    <3>4. CASE ~full
      <4>1. Cardinality(Steered(T)) = c
        BY <2>1, <3>4, Zenon
      <4>2. c < dcfg.cap
        BY <3>1, <3>4
      <4> HIDE DEF c
      <4> QED BY <3>1, <3>2, <4>1, <4>2
    <3> QED BY <3>3, <3>4, Zenon
  <2>7. U[p] = move /\ \A o \in Prefix : o # p => Down(S[o], U[o])
    BY <2>1, <2>5, Zenon
  <2> QED BY <2>4, <2>5, <2>6, <2>7, Zenon DEF Admits
<1> QED BY <1>1, <1>3, <1>4, <1>5, Zenon

\* Induction up to n, for a set.
LEMMA UpTo ==
  ASSUME SetFacts, NEW n \in Nat, NEW S, 0 \in S, \A i \in 0 .. n - 1 : i \in S => i + 1 \in S
  PROVE  \A i \in 0 .. n : i \in S
<1> DEFINE bad == {i \in 0 .. n : i \notin S}
<1> SUFFICES ASSUME bad # {} PROVE FALSE
  BY Zenon
<1>1. bad \in SUBSET Nat
  OBVIOUS
<1>2. PICK x \in bad : \A y \in bad : ~(y < x)
  BY <1>1, Least, Zenon
<1>4. x \in 0 .. n /\ x \notin S
  BY <1>2, Zenon
<1>5. x # 0
  BY <1>4, Zenon
<1>6. x - 1 \in 0 .. n - 1 /\ x - 1 \in 0 .. n /\ x - 1 < x /\ (x - 1) + 1 = x
  BY <1>4, <1>5
<1>7. x - 1 \notin bad
  BY <1>2, <1>6, Zenon
<1>8. x - 1 \in S
  BY <1>6, <1>7, Zenon
<1> HIDE DEF bad
<1> QED BY <1>4, <1>6, <1>8

LEMMA LenOf ==
  ASSUME NEW n \in Nat, NEW W, NEW q \in [1 .. n -> W]
  PROVE  Len(q) = n
<1>1. q \in Seq(W)
  OBVIOUS
<1>2. DOMAIN q = 1 .. Len(q) /\ Len(q) \in Nat
  BY <1>1
<1>3. DOMAIN q = 1 .. n
  OBVIOUS
<1> QED BY <1>2, <1>3

\* The queue is worked off one after the other.
Steps(g, m, T, one, ans, q) ==
  g = [i \in 0 .. m |-> IF i = 0 THEN T ELSE Admit(g[i - 1], q[i], one[q[i]].want, ans[q[i]])]

LEMMA StepsExist ==
  ASSUME SetFacts, NEW n \in Nat, NEW T, NEW one, NEW ans, NEW q
  PROVE  \E g : Steps(g, n, T, one, ans, q)
<1> DEFINE X == {m \in Nat : \E g : Steps(g, m, T, one, ans, q)}
<1>1. 0 \in X
  <2> DEFINE g == [i \in 0 .. 0 |-> T]
  <2>1. \A i \in 0 .. 0 : i = 0
    OBVIOUS
  <2>2. g = [i \in 0 .. 0 |-> IF i = 0 THEN T
                             ELSE Admit(g[i - 1], q[i], one[q[i]].want, ans[q[i]])]
    BY <2>1, Zenon
  <2>3. 0 \in Nat
    OBVIOUS
  <2> HIDE DEF g
  <2> QED BY <2>2, <2>3, Zenon DEF Steps
<1>2. ASSUME NEW m \in 0 .. n - 1, m \in X PROVE m + 1 \in X
  <2>1. PICK g : Steps(g, m, T, one, ans, q)
    BY <1>2, Zenon
  <2> DEFINE St(R, i) == Admit(R, q[i], one[q[i]].want, ans[q[i]])
             h == [i \in 0 .. m + 1 |-> IF i = m + 1 THEN St(g[m], m + 1) ELSE g[i]]
  <2>2. \A i \in 0 .. m : g[i] = IF i = 0 THEN T ELSE St(g[i - 1], i)
    BY <2>1, Zenon DEF Steps
  <2> HIDE DEF St
  <2>3. ASSUME NEW i \in 0 .. m + 1 PROVE h[i] = IF i = 0 THEN T ELSE St(h[i - 1], i)
    <3>1. CASE i = m + 1
      <4>1. i # 0 /\ i - 1 \in 0 .. m + 1 /\ i - 1 = m /\ i - 1 # m + 1
        BY <3>1
      <4>2. h[i] = St(g[m], m + 1) /\ h[i - 1] = g[m]
        BY <3>1, <4>1, Zenon
      <4> QED BY <3>1, <4>1, <4>2, Zenon
    <3>2. CASE i # m + 1
      <4>1. i \in 0 .. m /\ (i # 0 => i - 1 \in 0 .. m + 1 /\ i - 1 # m + 1)
        BY <3>2
      <4>2. h[i] = g[i] /\ (i # 0 => h[i - 1] = g[i - 1])
        BY <3>2, <4>1, Zenon
      <4> QED BY <2>2, <4>1, <4>2, Zenon
    <3> QED BY <3>1, <3>2, Zenon
  <2>4. h = [i \in 0 .. m + 1 |-> h[i]]
    BY Zenon
  <2> HIDE DEF h
  <2>5. h = [i \in 0 .. m + 1 |-> IF i = 0 THEN T ELSE St(h[i - 1], i)]
    BY <2>3, <2>4, Zenon
  <2>6. Steps(h, m + 1, T, one, ans, q)
    BY <2>5, Zenon DEF Steps, St
  <2>7. m + 1 \in Nat
    OBVIOUS
  <2> QED BY <2>6, <2>7, Zenon
<1> HIDE DEF X
<1>3. \A i \in 0 .. n : i \in X
  BY <1>1, <1>2, UpTo, Zenon
<1>4. n \in 0 .. n
  OBVIOUS
<1> QED BY <1>3, <1>4, Zenon DEF X

LEMMA AdmittedSteps ==
  ASSUME SetFacts, NEW T, NEW one, NEW ans, NEW q, Len(q) \in Nat
  PROVE  \E run : Steps(run, Len(q), T, one, ans, q) /\ Admitted(T, one, ans, q) = run[Len(q)]
<1> DEFINE run == CHOOSE run : run = [i \in 0 .. Len(q) |->
                    IF i = 0 THEN T ELSE Admit(run[i - 1], q[i], one[q[i]].want, ans[q[i]])]
<1>1. PICK g : g = [i \in 0 .. Len(q) |->
                    IF i = 0 THEN T ELSE Admit(g[i - 1], q[i], one[q[i]].want, ans[q[i]])]
  <2>1. PICK g : Steps(g, Len(q), T, one, ans, q)
    BY StepsExist, Zenon
  <2> QED BY <2>1, Zenon DEF Steps
<1>2. run = [i \in 0 .. Len(q) |->
               IF i = 0 THEN T ELSE Admit(run[i - 1], q[i], one[q[i]].want, ans[q[i]])]
  BY <1>1, Zenon
<1>3. Admitted(T, one, ans, q) = run[Len(q)]
  BY Zenon DEF Admitted
<1> HIDE DEF run
<1> QED BY <1>2, <1>3, Zenon DEF Steps

\* A move that was made: not of a parked prefix, and the native path not yet
\* looked at.
Fine(s) == s.imp = NoImp \/ (s.quar = NoQuar /\ s.imp.held = -1)

\* A queue of prefixes that can move, each once.
IsQueue(q, n, T) ==
  /\ q \in [1 .. n -> Prefix] /\ \A i, j \in 1 .. n : i < j => q[i] # q[j]
  /\ \A i \in 1 .. n : T[q[i]].imp = NoImp /\ T[q[i]].quar = NoQuar

\* Steers within the cap, and every prefix left alone, ended, or handled.
Worked(q, n, T, A) ==
  /\ AllStates(A) /\ Cardinality(Steered(A)) <= dcfg.cap
  /\ \A p \in Prefix : Down(T[p], A[p]) \/ ((\E i \in 1 .. n : p = q[i]) /\ Fine(A[p]))

LEMMA AdmittedIs ==
  ASSUME DecideConstants, SetFacts, dcfg.cap \in Nat, NEW T, AllStates(T), NEW one, NEW ans,
         NEW n \in Nat, NEW q, IsQueue(q, n, T), Cardinality(Steered(T)) <= dcfg.cap
  PROVE  Worked(q, n, T, Admitted(T, one, ans, q))
<1>0. /\ q \in [1 .. n -> Prefix] /\ \A i, j \in 1 .. n : i < j => q[i] # q[j]
      /\ \A i \in 1 .. n : T[q[i]].imp = NoImp /\ T[q[i]].quar = NoQuar
  BY Zenon DEF IsQueue
<1>1. Len(q) = n
  BY <1>0, LenOf, Zenon
<1> DEFINE A == Admitted(T, one, ans, q)
<1>2. PICK run : Steps(run, n, T, one, ans, q) /\ A = run[n]
  <2>1. Len(q) \in Nat
    BY <1>1, Zenon
  <2>2. PICK run : Steps(run, Len(q), T, one, ans, q) /\ Admitted(T, one, ans, q) = run[Len(q)]
    BY <2>1, AdmittedSteps
  <2> QED BY <1>1, <2>2, Zenon
<1>3. \A i \in 0 .. n : run[i] = IF i = 0 THEN T
                                ELSE Admit(run[i - 1], q[i], one[q[i]].want, ans[q[i]])
  BY <1>2, Zenon DEF Steps
<1> DEFINE Good(i, R) ==
             /\ AllStates(R) /\ Cardinality(Steered(R)) <= dcfg.cap
             /\ \A p \in Prefix : Down(T[p], R[p]) \/ ((\E j \in 1 .. i : p = q[j]) /\ Fine(R[p]))
           X == {i \in 0 .. n : Good(i, run[i])}
<1>4. 0 \in X
  <2>1. 0 \in 0 .. n
    OBVIOUS
  <2>2. run[0] = T
    BY <1>0, <1>3, <2>1, Zenon
  <2>3. \A p \in Prefix : Down(T[p], T[p])
    BY Zenon DEF Down
  <2> QED BY <2>1, <2>2, <2>3, Zenon
<1>5. ASSUME NEW i \in 0 .. n - 1, i \in X PROVE i + 1 \in X
  <2> DEFINE k == i + 1
             R == run[i]
             U == run[k]
             o == q[k]
  <2>1. k \in 0 .. n /\ k \in 1 .. n /\ k # 0 /\ k - 1 = i
    OBVIOUS
  <2>2. Good(i, R)
    BY <1>5, Zenon
  <2>3. U = Admit(R, o, one[o].want, ans[o]) /\ o \in Prefix
    BY <1>0, <1>3, <2>1, Zenon
  <2>4. \A j \in 1 .. i : j \in 1 .. n /\ j \in 1 .. k /\ j < k
    OBVIOUS
  <2>5. ~\E j \in 1 .. i : o = q[j]
    <3> HIDE DEF k
    <3> QED BY <1>0, <2>1, <2>4, Zenon
  <2>6. R[o] = T[o]
    <3> HIDE DEF R, o, k
    <3>1. Down(T[o], R[o]) /\ T[o].imp = NoImp
      BY <1>0, <2>1, <2>2, <2>3, <2>5, Zenon DEF o
    <3> QED BY <3>1, Zenon DEF Down
  <2>7. R[o].imp = NoImp /\ R[o].quar = NoQuar
    BY <1>0, <2>1, <2>6, Zenon
  <2> HIDE DEF R, U, o, k
  <2>8. AllStates(R) /\ Cardinality(Steered(R)) <= dcfg.cap
    BY <2>2, Zenon
  <2>9. Admits(R, o, U)
    BY <2>3, <2>7, <2>8, AdmitIs, Zenon
  <2>10. ASSUME NEW p \in Prefix
         PROVE  Down(T[p], U[p]) \/ ((\E j \in 1 .. k : p = q[j]) /\ Fine(U[p]))
    <3>1. CASE p = o
      <4>1. p = q[k] /\ k \in 1 .. k
        BY <3>1, <2>1 DEF o
      <4>2. Fine(U[p])
        BY <2>9, <3>1, Zenon DEF Admits, Fine
      <4> QED BY <4>1, <4>2, Zenon
    <3>2. CASE p # o
      <4>1. Down(R[p], U[p])
        BY <2>9, <3>2, Zenon DEF Admits
      <4>2. CASE Down(T[p], R[p])
        BY <4>1, <4>2, DownAgain, Zenon
      <4>3. CASE (\E j \in 1 .. i : p = q[j]) /\ Fine(R[p])
        <5>1. \E j \in 1 .. k : p = q[j]
          BY <4>3, <2>4, Zenon DEF k
        <5>2. Fine(U[p])
          BY <4>1, <4>3, Zenon DEF Down, Fine
        <5> QED BY <5>1, <5>2, Zenon
      <4> QED BY <2>2, <4>2, <4>3, Zenon
    <3> QED BY <3>1, <3>2, Zenon
  <2>11. Good(k, U)
    BY <2>8, <2>9, <2>10, Zenon DEF Admits
  <2> QED BY <2>1, <2>11, Zenon DEF U, k
<1>6. \A i \in 0 .. n : i \in X
  <2> HIDE DEF X
  <2> QED BY <1>4, <1>5, UpTo, Zenon
<1>7. n \in 0 .. n
  OBVIOUS
<1> QED BY <1>2, <1>6, <1>7, Zenon DEF Worked

-----------------------------------------------------------------------------
(* A whole evaluation. *)

\* What an evaluation makes of prefix p, in state b after the verification: an
\* improvement that goes on was looked at; a new one is of a prefix that
\* nothing held off; and a cooldown is kept.
Evaluates(p, b, a, x) ==
  /\ IsState(x)
  /\ x.imp # NoImp /\ b.imp # NoImp => x.imp.held = HeldNow(p, b, a) /\ x.quar \in {b.quar, NoQuar}
  /\ x.imp # NoImp /\ b.imp = NoImp => b.cool = 0 /\ x.quar = NoQuar /\ x.imp.held = -1
  /\ b.imp = NoImp /\ b.cool # 0 => x.imp = NoImp /\ x.cool = b.cool

\* The cap holds once the steers were trimmed.
LEMMA TrimmedFits ==
  ASSUME DecideConstants, SetFacts, dcfg.cap \in Nat, NEW one, NEW ans, NEW r,
         res \in [Prefix -> [Provider -> [rank : Int, age : Int]]],
         \A p \in Prefix : IsState(one[p].s),
         ~r.ready => \A p \in Prefix : one[p].s.imp = NoImp
  PROVE  Cardinality(Steered(Trimmed(one, ans, r))) <= dcfg.cap
<1> DEFINE S == [p \in Prefix |-> one[p].s]
           T == TrimToCap(S, ans)
           U == Shed(T, ans, r)
<1>1. AllStates(S) /\ \A p \in Prefix : S[p] = one[p].s
  BY Zenon DEF AllStates
<1>2. CASE r.ready
  <2>1. Trimmed(one, ans, r) = U
    BY <1>2, Zenon DEF Trimmed
  <2> HIDE DEF S
  <2>2. Cardinality(Steered(T)) <= dcfg.cap
    BY <1>1, TrimFits, Zenon
  <2>3. Steered(U) \subseteq Steered(T)
    <3> SUFFICES ASSUME NEW p \in Steered(U) PROVE p \in Steered(T)
      BY Zenon
    <3>1. p \in Prefix /\ U[p].imp # NoImp
      BY Zenon DEF Steered
    <3>2. U[p] = T[p] \/ p \in Steered(T)
      BY <3>1, Zenon DEF Shed
    <3> HIDE DEF U, T
    <3> QED BY <3>1, <3>2, Zenon DEF Steered
  <2> HIDE DEF T, U
  <2>4. IsFiniteSet(Steered(T)) /\ Cardinality(Steered(T)) \in Nat /\ Cardinality(Steered(U)) \in Nat
    BY SteeredFinite, Zenon
  <2>5. Cardinality(Steered(U)) <= Cardinality(Steered(T))
    BY <2>3, <2>4, Subsets, Zenon
  <2>6. Cardinality(Steered(U)) <= dcfg.cap
    BY <2>2, <2>4, <2>5
  <2> QED BY <2>1, <2>6, Zenon
<1>3. CASE ~r.ready
  <2>1. Trimmed(one, ans, r) = S
    BY <1>3, Zenon DEF Trimmed
  <2> HIDE DEF S
  <2>2. Steered(S) = {}
    BY <1>1, <1>3, Zenon DEF Steered
  <2>3. Cardinality(Steered(S)) = 0
    BY <2>2, Zenon DEF SetFacts
  <2> QED BY <2>1, <2>3
<1> QED BY <1>2, <1>3, Zenon

LEMMA RoundIs ==
  ASSUME DecideConstants, SetFacts, ShapeInv, NEW ans, NEW r, NEW before, NEW one, NEW q,
         \A p \in Prefix : IsState(before[p]),
         one = Each(before, ans, r), q \in Queue([p \in Prefix |-> one[p].want])
  PROVE  LET A == Admitted(Trimmed(one, ans, r), one, ans, q) IN
         /\ AllStates(A) /\ Cardinality(Steered(A)) <= dcfg.cap
         /\ \A p \in Prefix : Evaluates(p, before[p], ans[p], A[p])
<1> DEFINE T == Trimmed(one, ans, r)
           A == Admitted(T, one, ans, q)
           W == {p \in Prefix : one[p].want # NoWant}
           n == Cardinality(W)
<1>1. \A p \in Prefix : Judges(p, before[p], ans[p], r, one[p])
  BY EachIs, Zenon
<1>2. \A p \in Prefix : IsState(one[p].s)
  BY <1>1, Zenon DEF Judges
<1>3. AllStates(T) /\ \A p \in Prefix : Down(one[p].s, T[p])
  BY <1>2, TrimmedIs, Zenon
<1>4. Cardinality(Steered(T)) <= dcfg.cap /\ dcfg.cap \in Nat
  <2>1. ~r.ready => \A p \in Prefix : one[p].s.imp = NoImp
    BY <1>1, Zenon DEF Judges
  <2>2. dcfg.cap \in Nat /\ res \in [Prefix -> [Provider -> [rank : Int, age : Int]]]
    BY Zenon DEF ShapeInv
  <2> QED BY <1>2, <2>1, <2>2, TrimmedFits, Zenon
<1>5. n \in Nat /\ W \subseteq Prefix
  <2>1. W \subseteq Prefix
    BY Zenon
  <2> HIDE DEF W
  <2> QED BY <2>1, Subsets, Counted, Zenon DEF DecideConstants
<1>6. q \in [1 .. n -> W] /\ \A i, j \in 1 .. n : i < j => q[i] # q[j]
  <2> DEFINE want == [p \in Prefix |-> one[p].want]
  <2>1. {p \in Prefix : want[p] # NoWant} = W
    BY Zenon
  <2> HIDE DEF want, W
  <2>2. q \in Queue(want)
    BY DEF want
  <2> QED BY <2>1, <2>2, Zenon DEF Queue
<1>7. \A p \in W : p \in Prefix /\ before[p].imp = NoImp /\ before[p].cool = 0
                   /\ T[p].imp = NoImp /\ T[p].quar = NoQuar
  <2> SUFFICES ASSUME NEW p \in W
               PROVE p \in Prefix /\ before[p].imp = NoImp /\ before[p].cool = 0
                     /\ T[p].imp = NoImp /\ T[p].quar = NoQuar
    BY Zenon
  <2>1. p \in Prefix /\ one[p].want # NoWant
    BY Zenon
  <2>2. before[p].imp = NoImp /\ before[p].cool = 0 /\ one[p].s.imp = NoImp /\ one[p].s.quar = NoQuar
    BY <2>1, <1>1, Zenon DEF Judges
  <2> HIDE DEF T
  <2>3. T[p] = one[p].s
    BY <2>1, <2>2, <1>3, Zenon DEF Down
  <2> QED BY <2>1, <2>2, <2>3, Zenon
<1> HIDE DEF T, n
<1>8. Worked(q, n, T, A)
  <2>1. q \in [1 .. n -> Prefix]
    BY <1>5, <1>6, Zenon
  <2>2. \A i \in 1 .. n : T[q[i]].imp = NoImp /\ T[q[i]].quar = NoQuar
    BY <1>6, <1>7, Zenon
  <2>3. IsQueue(q, n, T)
    BY <1>6, <2>1, <2>2, Zenon DEF IsQueue
  <2> QED BY <1>3, <1>4, <1>5, <2>3, AdmittedIs, Zenon
<1>9. ASSUME NEW p \in Prefix PROVE Evaluates(p, before[p], ans[p], A[p])
  <2> HIDE DEF A
  <2>1. Judges(p, before[p], ans[p], r, one[p]) /\ IsState(A[p])
    BY <1>1, <1>8, Zenon DEF AllStates, Worked
  <2>2. CASE Down(T[p], A[p])
    <3>1. Down(one[p].s, A[p])
      BY <2>2, <1>3, DownAgain, Zenon
    <3>2. A[p].imp # NoImp => A[p] = one[p].s
      BY <3>1, Zenon DEF Down
    <3>3. one[p].s.imp = NoImp => A[p] = one[p].s
      BY <3>1, Zenon DEF Down
    <3> QED BY <2>1, <3>2, <3>3, Zenon DEF Judges, Evaluates
  <2>3. CASE (\E i \in 1 .. n : p = q[i]) /\ Fine(A[p])
    <3>1. p \in W
      BY <2>3, <1>6, Zenon
    <3>2. before[p].imp = NoImp /\ before[p].cool = 0
      BY <3>1, <1>7, Zenon
    <3> QED BY <2>1, <2>3, <3>2, Zenon DEF Evaluates, Fine
  <2> QED BY <1>8, <2>2, <2>3, Zenon DEF Worked
<1> QED BY <1>8, <1>9, Zenon DEF T, Worked

-----------------------------------------------------------------------------
(* Time, verification and history. *)

LEMMA MaxTwo ==
  ASSUME NEW x \in Int, NEW y \in Int PROVE Max({x, y}) = IF x >= y THEN x ELSE y
<1> DEFINE m == IF x >= y THEN x ELSE y
<1>1. m \in {x, y} /\ \A z \in {x, y} : m >= z
  OBVIOUS
<1>2. ASSUME NEW k \in {x, y}, \A z \in {x, y} : k >= z PROVE k = m
  BY <1>2
<1> HIDE DEF m
<1>3. Max({x, y}) = m
  BY <1>1, <1>2, Zenon DEF Max
<1> QED BY <1>3 DEF m

LEMMA MinTwo ==
  ASSUME NEW x \in Int, NEW y \in Int PROVE Min({x, y}) = IF x <= y THEN x ELSE y
<1> DEFINE m == IF x <= y THEN x ELSE y
<1>1. m \in {x, y} /\ \A z \in {x, y} : m <= z
  OBVIOUS
<1>2. ASSUME NEW k \in {x, y}, \A z \in {x, y} : k <= z PROVE k = m
  BY <1>2
<1> HIDE DEF m
<1>3. Min({x, y}) = m
  BY <1>1, <1>2, Zenon DEF Min
<1> QED BY <1>3 DEF m

LEMMA OlderIs ==
  ASSUME NEW a \in Int, NEW last \in Int
  PROVE  Older(a, last) = IF a < 0 THEN a ELSE IF a <= last THEN a + 1 ELSE last + 1
<1>1. a + 1 \in Int /\ last + 1 \in Int
  OBVIOUS
<1>2. Min({a + 1, last + 1}) = IF a + 1 <= last + 1 THEN a + 1 ELSE last + 1
  BY <1>1, MinTwo
<1> QED BY <1>2 DEF Older

LEMMA AgedIs ==
  ASSUME NEW s, IsState(s), NativeConfirm \in Nat
  PROVE  LET t == Aged(s) IN
         /\ IsState(t) /\ t.cool = Less(s.cool)
         /\ t.imp.held = Older(s.imp.held, NativeConfirm)
         /\ s.imp = NoImp => t.imp = NoImp
         /\ s.quar = NoQuar => t.quar = NoQuar
<1> DEFINE h == Older(s.imp.held, NativeConfirm)
           x == Older(s.imp.age, Max({HoldTime, TTL}))
           j == [s.imp EXCEPT !.age = Older(@, Max({HoldTime, TTL})), !.held = Older(@, NativeConfirm)]
           j1 == [s.imp EXCEPT !.age = x]
           i == IF s.imp = NoImp THEN NoImp ELSE j
           q == IF s.quar = NoQuar THEN NoQuar
                ELSE [s.quar EXCEPT !.left = Max({@ - 1, -MaxCooldown - 1})]
<1>1. \E k, f, o : Aged(s) = StateOf(i, Less(s.cool), k, f, q, o)
  BY Zenon DEF Aged, StateOf
<1>2. IsImp(i) /\ i.held = h
  <2>1. CASE s.imp = NoImp
    <3>1. Older(-1, NativeConfirm) = -1
      BY OlderIs
    <3> QED BY <2>1, <3>1, NoImpIs, Zenon
  <2>2. CASE s.imp # NoImp
    <3>1. IsImp(s.imp)
      BY StateIs, Zenon
    <3>2. j = [j1 EXCEPT !.held = h]
      BY <3>1 DEF IsImp
    <3>3. j1 = [prov |-> s.imp.prov, cause |-> s.imp.cause, age |-> x, held |-> s.imp.held]
      <4> HIDE DEF x
      <4> QED BY <3>1 DEF IsImp
    <3> HIDE DEF j1, h, x, j
    <3>4. j = [prov |-> s.imp.prov, cause |-> s.imp.cause, age |-> x, held |-> h]
      BY <3>2, <3>3
    <3>5. IsImp(j) /\ j.held = h
      BY <3>4 DEF IsImp
    <3> QED BY <2>2, <3>5, Zenon
  <2> QED BY <2>1, <2>2, Zenon
<1>3. (s.imp = NoImp => i = NoImp) /\ (s.quar = NoQuar => q = NoQuar)
  BY Zenon
<1> HIDE DEF i, q, h
<1>4. PICK k, f, o : Aged(s) = StateOf(i, Less(s.cool), k, f, q, o)
  BY <1>1, Zenon
<1>5. Aged(s).imp = i /\ Aged(s).quar = q /\ Aged(s).cool = Less(s.cool) /\ IsState(Aged(s))
  BY <1>2, <1>4, StateParts
<1> QED BY <1>2, <1>3, <1>5, Zenon DEF h

LEMMA BackoutIs ==
  ASSUME NEW s, IsState(s), NEW hold
  PROVE  LET t == Backout(s, hold) IN
         IsState(t) /\ (t = s \/ (hold > 0 /\ t.imp = NoImp /\ t.cool = hold /\ t.quar = s.quar))
<1> DEFINE u == [s EXCEPT !.imp = NoImp]
           v == [u EXCEPT !.conf = NoConf]
           w == [v EXCEPT !.cool = hold]
<1>1. Backout(s, hold) = s \/ (hold > 0 /\ Backout(s, hold) = w)
  BY Zenon DEF Backout
<1>2. u = StateOf(NoImp, s.cool, s.conf, s.flips, s.quar, s.off)
  BY StateIs DEF StateOf
<1> HIDE DEF u
<1>3. v = StateOf(NoImp, s.cool, NoConf, s.flips, s.quar, s.off)
  BY <1>2 DEF StateOf
<1> HIDE DEF v
<1>4. w = StateOf(NoImp, hold, NoConf, s.flips, s.quar, s.off)
  BY <1>3 DEF StateOf
<1> HIDE DEF w
<1>5. IsState(w) /\ w.imp = NoImp /\ w.cool = hold /\ w.quar = s.quar
  BY <1>4, StateParts, NoImpIs
<1> QED BY <1>1, <1>5, Zenon

\* A history from its parts, and one part of it replaced.
HistoryOf(w, m, o, l, x) == [wins |-> w, moves |-> m, off |-> o, late |-> l, misread |-> x]

LEMMA HistoryParts ==
  ASSUME NEW h, NEW w, NEW m, NEW o, NEW l, NEW x, h = HistoryOf(w, m, o, l, x)
  PROVE  IsHistory(h) /\ h.off = o /\ h.late = l /\ h.misread = x
  BY DEF IsHistory, HistoryOf

LEMMA HistoryIs ==
  ASSUME NEW h, IsHistory(h), NEW x
  PROVE  /\ h = HistoryOf(h.wins, h.moves, h.off, h.late, h.misread)
         /\ [h EXCEPT !.wins = x] = HistoryOf(x, h.moves, h.off, h.late, h.misread)
         /\ [h EXCEPT !.moves = x] = HistoryOf(h.wins, x, h.off, h.late, h.misread)
         /\ [h EXCEPT !.off = x] = HistoryOf(h.wins, h.moves, x, h.late, h.misread)
         /\ [h EXCEPT !.late = x] = HistoryOf(h.wins, h.moves, h.off, x, h.misread)
<1>1. h = HistoryOf(h.wins, h.moves, h.off, h.late, h.misread)
  BY Zenon DEF IsHistory, HistoryOf
<1>2. [h EXCEPT !.wins = x] = HistoryOf(x, h.moves, h.off, h.late, h.misread)
  BY <1>1 DEF HistoryOf
<1>3. [h EXCEPT !.moves = x] = HistoryOf(h.wins, x, h.off, h.late, h.misread)
  BY <1>1 DEF HistoryOf
<1>4. [h EXCEPT !.off = x] = HistoryOf(h.wins, h.moves, x, h.late, h.misread)
  BY <1>1 DEF HistoryOf
<1>5. [h EXCEPT !.late = x] = HistoryOf(h.wins, h.moves, h.off, x, h.misread)
  BY <1>1 DEF HistoryOf
<1> QED BY <1>1, <1>2, <1>3, <1>4, <1>5

\* A history that keeps all but the wins and the moves.
KeepsHistory(h, g) == IsHistory(g) /\ g.off = h.off /\ g.late = h.late /\ g.misread = h.misread

LEMMA HistoryKept ==
  ASSUME NEW h, IsHistory(h), NEW x
  PROVE  /\ KeepsHistory(h, h) /\ KeepsHistory(h, [h EXCEPT !.wins = x])
         /\ KeepsHistory(h, [h EXCEPT !.moves = x])
<1> DEFINE g == [h EXCEPT !.wins = x]
           k == [h EXCEPT !.moves = x]
<1>1. /\ g = HistoryOf(x, h.moves, h.off, h.late, h.misread)
      /\ k = HistoryOf(h.wins, x, h.off, h.late, h.misread)
  BY HistoryIs, Zenon
<1> HIDE DEF g, k
<1>2. KeepsHistory(h, g) /\ KeepsHistory(h, k)
  BY <1>1, HistoryParts DEF KeepsHistory
<1>3. KeepsHistory(h, h)
  BY Zenon DEF KeepsHistory
<1> QED BY <1>2, <1>3 DEF g, k

-----------------------------------------------------------------------------
(* The invariant is kept. *)

LEMMA DecideStarts == ASSUME DecideConstants, DecideInit PROVE DecideInv
<1>1. PICK b \in Starts : dcfg = b.cfg /\ b.cfg.cap \in Nat
  BY Zenon DEF DecideInit, DecideConstants
<1>2. /\ eng = [p \in Prefix |-> NewState] /\ kick = FALSE
      /\ res = [p \in Prefix |-> [v \in Provider |-> NoResult]]
      /\ router = [p \in Prefix |-> [up |-> TRUE, hid |-> FALSE, wire |-> -1]]
      /\ seen = [p \in Prefix |-> HistoryOf([v \in Provider |-> 0], <<>>, 0, FALSE, FALSE)]
  BY Zenon DEF DecideInit, HistoryOf
<1>3. IsState(NewState) /\ NewState.imp = NoImp /\ NewState.quar = NoQuar
  <2>1. NewState = StateOf(NoImp, 0, NoConf, <<>>, NoQuar, NoOff)
    BY Zenon DEF NewState, StateOf
  <2> QED BY <2>1, StateParts, NoImpIs
<1>4. ASSUME NEW p \in Prefix
      PROVE  /\ IsState(eng[p]) /\ eng[p].imp = NoImp /\ eng[p].quar = NoQuar
             /\ IsHistory(seen[p]) /\ seen[p].off = 0 /\ ~seen[p].misread
             /\ router[p].wire = -1 /\ router[p].hid = FALSE
  <2>1. eng[p] = NewState /\ seen[p] = HistoryOf([v \in Provider |-> 0], <<>>, 0, FALSE, FALSE)
    BY <1>2, Zenon
  <2>2. router[p].wire = -1 /\ router[p].hid = FALSE
    BY <1>2
  <2>3. IsHistory(seen[p]) /\ seen[p].off = 0 /\ seen[p].misread = FALSE
    <3>1. PICK w, m : seen[p] = HistoryOf(w, m, 0, FALSE, FALSE)
      BY <2>1, Zenon
    <3> QED BY <3>1 DEF HistoryOf, IsHistory
  <2> QED BY <1>3, <2>1, <2>2, <2>3, Zenon
<1>5. router \in [Prefix -> [up : BOOLEAN, hid : BOOLEAN, wire : Int]]
  BY <1>2
<1>6. res \in [Prefix -> [Provider -> [rank : Int, age : Int]]]
  BY <1>2 DEF NoResult
<1>7. ShapeInv
  <2>1. eng = [p \in Prefix |-> eng[p]] /\ seen = [p \in Prefix |-> seen[p]]
    BY <1>2, Zenon
  <2> QED BY <1>1, <1>4, <1>5, <1>6, <2>1, Zenon DEF ShapeInv
<1>8. ASSUME NEW p \in Prefix PROVE HeldInv(p) /\ SeenInv(p)
  <2>1. ~(seen[p].off > 0) /\ eng[p].quar = NoQuar /\ eng[p].imp = NoImp
    <3>1. ~(0 > 0)
      OBVIOUS
    <3> QED BY <1>4, <3>1, Zenon
  <2>2. HeldInv(p)
    BY <2>1, Zenon DEF HeldInv
  <2>3. /\ eng[p].imp.held = -1 /\ router[p].wire = -1 /\ router[p].hid = FALSE
        /\ ~seen[p].misread
    BY <1>4, NoImpIs, Zenon
  <2>4. -1 \in Int /\ -1 >= -1
    OBVIOUS
  <2>5. SeenInv(p)
    BY <2>1, <2>3, <2>4, Zenon DEF SeenInv
  <2> QED BY <2>2, <2>5, Zenon
<1> QED BY <1>7, <1>8, Zenon DEF DecideInv

\* A step that leaves the improvements, the routes and the hold-offs alone.
KeepsAll ==
  /\ eng' = [p \in Prefix |-> eng'[p]] /\ seen' = [p \in Prefix |-> seen'[p]]
  /\ \A p \in Prefix :
       /\ IsState(eng'[p]) /\ eng'[p].imp = eng[p].imp /\ eng'[p].cool = eng[p].cool
       /\ eng'[p].quar \in {eng[p].quar, NoQuar}
       /\ KeepsHistory(seen[p], seen'[p])
  /\ router' = router /\ kick' = kick

LEMMA KeptAll ==
  ASSUME DecideInv, KeepsAll, dcfg'.cap \in Nat,
         res' \in [Prefix -> [Provider -> [rank : Int, age : Int]]]
  PROVE  DecideInv'
<1>1. ShapeInv'
  BY Zenon DEF DecideInv, ShapeInv, KeepsAll, KeepsHistory
<1>2. ASSUME NEW p \in Prefix PROVE HeldInv(p)' /\ SeenInv(p)'
  <2>1. HeldInv(p) /\ SeenInv(p)
    BY Zenon DEF DecideInv
  <2>2. /\ eng'[p].imp = eng[p].imp /\ eng'[p].cool = eng[p].cool
        /\ eng'[p].quar \in {eng[p].quar, NoQuar}
        /\ seen'[p].off = seen[p].off /\ seen'[p].late = seen[p].late
        /\ seen'[p].misread = seen[p].misread /\ router' = router /\ kick' = kick
    BY Zenon DEF KeepsAll, KeepsHistory
  <2>3. HeldInv(p)'
    BY <2>1, <2>2, Zenon DEF HeldInv
  <2>4. SeenInv(p)'
    BY <2>1, <2>2, Zenon DEF SeenInv
  <2> QED BY <2>3, <2>4
<1> QED BY <1>1, <1>2, Zenon DEF DecideInv

LEMMA MeasureKeeps ==
  ASSUME DecideConstants, DecideInv, NEW p \in Prefix, Measure(p) PROVE DecideInv'
<1>1. PICK S \in (SUBSET dcfg.egress) \ {{}}, rank \in Shapes :
        /\ res' = [res EXCEPT ![p] = Results(p, S, rank)]
        /\ seen' = [seen EXCEPT ![p].wins = Winning(p, S, rank)]
        /\ UNCHANGED <<dcfg, eng, router, check, kick>>
  BY Zenon DEF Measure
<1>2. rank \in [Provider -> Int]
  BY Zenon DEF DecideConstants
<1>3. res' \in [Prefix -> [Provider -> [rank : Int, age : Int]]]
  <2> DEFINE new == Results(p, S, rank)
  <2>1. res \in [Prefix -> [Provider -> [rank : Int, age : Int]]]
    BY Zenon DEF DecideInv, ShapeInv
  <2>2. new \in [Provider -> [rank : Int, age : Int]]
    BY <1>2, <2>1 DEF Results
  <2> HIDE DEF new
  <2>3. res' = [res EXCEPT ![p] = new]
    BY <1>1 DEF new
  <2> QED BY <2>1, <2>2, <2>3
<1> DEFINE x == Winning(p, S, rank)
<1>4. seen' = [seen EXCEPT ![p].wins = x]
  BY <1>1, Zenon
<1> HIDE DEF x
<1>5. KeepsAll
  <2>1. ShapeInv
    BY Zenon DEF DecideInv
  <2> DEFINE g == [seen[p] EXCEPT !.wins = x]
  <2>2. KeepsHistory(seen[p], g)
    BY <2>1, HistoryKept, Zenon DEF ShapeInv
  <2>3. seen' = Put(seen, p, g)
    BY <1>4 DEF Put
  <2> HIDE DEF g
  <2>4. seen' = [o \in Prefix |-> IF o = p THEN g ELSE seen[o]]
    BY <2>1, <2>3, Zenon DEF ShapeInv, Put
  <2>5. \A o \in Prefix : KeepsHistory(seen[o], seen'[o])
    BY <2>1, <2>2, <2>4, Zenon DEF ShapeInv, KeepsHistory
  <2>6. seen' = [o \in Prefix |-> seen'[o]]
    BY <2>4, Zenon
  <2> QED BY <1>1, <2>1, <2>5, <2>6, Zenon DEF ShapeInv, KeepsAll
<1>6. dcfg'.cap \in Nat
  BY <1>1, Zenon DEF DecideInv, ShapeInv
<1> QED BY <1>3, <1>5, <1>6, KeptAll, Zenon

LEMMA SetConfigKeeps ==
  ASSUME DecideConstants, DecideInv, NEW c \in Configs, SetConfig(c) PROVE DecideInv'
<1>1. /\ dcfg' = c /\ UNCHANGED <<eng, res, router, kick>>
      /\ seen' = [p \in Prefix |-> [seen[p] EXCEPT !.moves = <<>>]]
  BY Zenon DEF SetConfig
<1>2. ShapeInv
  BY Zenon DEF DecideInv
<1>3. ASSUME NEW p \in Prefix PROVE KeepsHistory(seen[p], seen'[p])
  <2> DEFINE g == [seen[p] EXCEPT !.moves = <<>>]
  <2>1. KeepsHistory(seen[p], g)
    BY <1>2, HistoryKept, Zenon DEF ShapeInv
  <2>2. seen'[p] = g
    BY <1>1, Zenon
  <2> HIDE DEF g
  <2> QED BY <2>1, <2>2, Zenon
<1>4. seen' = [p \in Prefix |-> seen'[p]]
  BY <1>1, Zenon
<1>5. KeepsAll
  BY <1>1, <1>2, <1>3, <1>4, Zenon DEF KeepsAll, ShapeInv
<1>6. dcfg'.cap \in Nat /\ res' \in [Prefix -> [Provider -> [rank : Int, age : Int]]]
  BY <1>1, <1>2, Zenon DEF ShapeInv, DecideConstants
<1> QED BY <1>5, <1>6, KeptAll, Zenon

LEMMA ReleaseIs ==
  ASSUME NEW s, IsState(s), NEW ago
  PROVE  LET t == ReleaseQuarantine(s, ago)
         IN IsState(t) /\ t.imp = s.imp /\ t.cool = s.cool /\ t.quar = NoQuar
<1> DEFINE u == [s EXCEPT !.quar = NoQuar]
           v == [u EXCEPT !.off.age = IF s.off.n > 0 THEN ago ELSE 0]
           o == [u.off EXCEPT !.age = IF s.off.n > 0 THEN ago ELSE 0]
<1>0. ReleaseQuarantine(s, ago) = v
  BY DEF ReleaseQuarantine
<1>1. u = StateOf(s.imp, s.cool, s.conf, s.flips, NoQuar, s.off)
  BY StateIs DEF StateOf
<1> HIDE DEF u
<1>2. v = [u EXCEPT !.off = o]
  OBVIOUS
<1> HIDE DEF v, o
<1>3. v = StateOf(s.imp, s.cool, s.conf, s.flips, NoQuar, o)
  BY <1>1, <1>2 DEF StateOf
<1> QED BY <1>0, <1>3, StateIs, StateParts

LEMMA ReleaseKeeps ==
  ASSUME DecideConstants, DecideInv, NEW p \in Prefix, Release(p) PROVE DecideInv'
<1>1. ShapeInv
  BY Zenon DEF DecideInv
<1> DEFINE s == ReleaseQuarantine(eng[p], 0)
           g == [seen[p] EXCEPT !.moves = <<>>]
<1>2. /\ eng' = Put(eng, p, s) /\ UNCHANGED <<dcfg, res, router, kick>>
  BY Zenon DEF Release, Put
<1>3. seen' = Put(seen, p, g)
  BY DEF Release, Put
<1>4. IsState(s) /\ s.imp = eng[p].imp /\ s.cool = eng[p].cool /\ s.quar = NoQuar
  BY <1>1, ReleaseIs, Zenon DEF ShapeInv
<1>5. KeepsHistory(seen[p], g)
  BY <1>1, HistoryKept, Zenon DEF ShapeInv
<1> HIDE DEF s, g
<1>6. /\ seen' = [o \in Prefix |-> IF o = p THEN g ELSE seen[o]]
      /\ eng' = [o \in Prefix |-> IF o = p THEN s ELSE eng[o]]
  BY <1>1, <1>2, <1>3, Zenon DEF ShapeInv, Put
<1>7. \A o \in Prefix : KeepsHistory(seen[o], seen'[o])
  BY <1>1, <1>5, <1>6, Zenon DEF ShapeInv, KeepsHistory
<1>8. \A o \in Prefix : /\ IsState(eng'[o]) /\ eng'[o].imp = eng[o].imp /\ eng'[o].cool = eng[o].cool
                        /\ eng'[o].quar \in {eng[o].quar, NoQuar}
  BY <1>1, <1>4, <1>6, Zenon DEF ShapeInv
<1>9. seen' = [o \in Prefix |-> seen'[o]] /\ eng' = [o \in Prefix |-> eng'[o]]
  BY <1>6, Zenon
<1>10. KeepsAll
  BY <1>2, <1>7, <1>8, <1>9, Zenon DEF KeepsAll
<1>11. dcfg'.cap \in Nat /\ res' \in [Prefix -> [Provider -> [rank : Int, age : Int]]]
  BY <1>1, <1>2, Zenon DEF ShapeInv
<1> QED BY <1>10, <1>11, KeptAll, Zenon

\* A step of the router: the path of one prefix changes.
LEMMA RouterKeeps ==
  ASSUME DecideInv, NEW p \in Prefix, NEW w \in [up : BOOLEAN, hid : BOOLEAN, wire : Int],
         router' = [router EXCEPT ![p] = w], UNCHANGED <<dcfg, eng, res, seen>>,
         w.wire = router[p].wire, kick' \in BOOLEAN, kick => kick',
         \/ w.hid = router[p].hid
         \/ kick' /\ w.wire >= 0 /\ w.wire < NativeConfirm
  PROVE  DecideInv'
<1>1. ShapeInv /\ \A o \in Prefix : HeldInv(o) /\ SeenInv(o)
  BY Zenon DEF DecideInv
<1>2. router' \in [Prefix -> [up : BOOLEAN, hid : BOOLEAN, wire : Int]]
  BY <1>1 DEF ShapeInv
<1>3. ShapeInv'
  BY <1>1, <1>2, Zenon DEF ShapeInv
<1>4. ASSUME NEW o \in Prefix PROVE HeldInv(o)' /\ SeenInv(o)'
  <2>1. HeldInv(o)'
    BY <1>1, Zenon DEF HeldInv
  <2>2. CASE o # p
    <3>1. router'[o] = router[o]
      BY <1>1, <2>2 DEF ShapeInv
    <3> QED BY <1>1, <2>1, <3>1, Zenon DEF SeenInv
  <2>3. CASE o = p
    <3> DEFINE i == eng[p].imp
               h == i.held
               v == router[p].wire
    <3>1. router'[p] = w
      BY <1>1 DEF ShapeInv
    <3>2. /\ h \in Int /\ h >= -1 /\ v >= -1 /\ ~seen[p].misread
          /\ i = NoImp \/ seen[p].late \/ h <= v \/ v >= NativeConfirm
          /\ router[p].hid /\ ~seen[p].late /\ i # NoImp => h < NativeConfirm /\ (~kick => h = -1)
      BY <1>1, Zenon DEF SeenInv
    <3>3. w.hid /\ ~seen[p].late /\ i # NoImp => h < NativeConfirm /\ (~kick' => h = -1)
      <4>1. CASE w.hid = router[p].hid
        BY <3>2, <4>1, Zenon
      <4>2. CASE kick' /\ w.wire >= 0 /\ w.wire < NativeConfirm
        <5>1. v \in Int /\ v >= 0 /\ v < NativeConfirm
          BY <1>1, <4>2 DEF ShapeInv
        <5>3. ~(v >= NativeConfirm)
          BY <5>1, DecideConstants DEF DecideConstants
        <5>4. i # NoImp /\ ~seen[p].late => h <= v
          BY <3>2, <5>3, Zenon
        <5>5. h <= v => h < NativeConfirm
          <6> HIDE DEF h, v
          <6> QED BY <3>2, <5>1, DecideConstants DEF DecideConstants
        <5> QED BY <4>2, <5>4, <5>5, Zenon
      <4> QED BY <4>1, <4>2, Zenon
    <3>4. SeenInv(p)'
      BY <3>1, <3>2, <3>3, Zenon DEF SeenInv
    <3> QED BY <2>1, <2>3, <3>4, Zenon
  <2> QED BY <2>2, <2>3, Zenon
<1> QED BY <1>3, <1>4, Zenon DEF DecideInv

LEMMA HideKeeps == ASSUME DecideInv, NEW p \in Prefix, Hide(p) PROVE DecideInv'
<1> DEFINE w == [router[p] EXCEPT !.hid = TRUE]
<1>1. router[p] \in [up : BOOLEAN, hid : BOOLEAN, wire : Int]
  BY DEF DecideInv, ShapeInv
<1>2. w \in [up : BOOLEAN, hid : BOOLEAN, wire : Int] /\ w.wire = router[p].wire
  BY <1>1, Zenon
<1>3. router' = [router EXCEPT ![p] = w]
  BY DEF Hide
<1>4. w.wire >= 0 /\ w.wire < NativeConfirm
  BY <1>2, DecideConstants DEF Hide, DecideConstants
<1>5. kick' = TRUE /\ UNCHANGED <<dcfg, eng, res, seen>>
  BY Zenon DEF Hide
<1> HIDE DEF w
<1> QED BY <1>2, <1>3, <1>4, <1>5, RouterKeeps, Zenon

LEMMA LeaveKeeps == ASSUME DecideInv, NEW p \in Prefix, Leave(p) PROVE DecideInv'
<1> DEFINE w == [router[p] EXCEPT !.up = FALSE]
<1>1. router[p] \in [up : BOOLEAN, hid : BOOLEAN, wire : Int]
  BY DEF DecideInv, ShapeInv
<1>2. /\ w \in [up : BOOLEAN, hid : BOOLEAN, wire : Int] /\ w.wire = router[p].wire
      /\ w.hid = router[p].hid
  BY <1>1, Zenon
<1>3. router' = [router EXCEPT ![p] = w]
  BY DEF Leave
<1>4. kick' \in BOOLEAN /\ (kick => kick') /\ UNCHANGED <<dcfg, eng, res, seen>>
  BY Zenon DEF Leave
<1> HIDE DEF w
<1> QED BY <1>2, <1>3, <1>4, RouterKeeps, Zenon

LEMMA ResetKeeps == ASSUME DecideInv, Reset PROVE DecideInv'
<1>1. ShapeInv
  BY Zenon DEF DecideInv
<1>2. /\ eng' = [p \in Prefix |-> NewState] /\ UNCHANGED <<dcfg, res, kick>>
      /\ router' = [p \in Prefix |-> [router[p] EXCEPT !.wire = -1, !.hid = FALSE]]
      /\ seen' = [p \in Prefix |-> [seen[p] EXCEPT !.wins = [v \in Provider |-> Min({@[v], 1})],
                                 !.moves = <<>>, !.off = 0, !.late = FALSE]]
  BY Zenon DEF Reset
<1>3. IsState(NewState) /\ NewState.imp = NoImp /\ NewState.quar = NoQuar
  <2>1. NewState = StateOf(NoImp, 0, NoConf, <<>>, NoQuar, NoOff)
    BY Zenon DEF NewState, StateOf
  <2> QED BY <2>1, StateParts, NoImpIs
<1>4. ASSUME NEW p \in Prefix
      PROVE  IsHistory(seen'[p]) /\ seen'[p].off = 0 /\ seen'[p].misread = seen[p].misread
  <2> DEFINE h == seen[p]
             x == [v \in Provider |-> Min({h.wins[v], 1})]
             a == [h EXCEPT !.wins = x]
             b == [a EXCEPT !.moves = <<>>]
             c == [b EXCEPT !.off = 0]
             d == [c EXCEPT !.late = FALSE]
  <2>1. seen'[p] = d
    BY <1>2, Zenon
  <2> HIDE DEF x
  <2>2. IsHistory(h)
    BY <1>1, Zenon DEF ShapeInv
  <2>3. IsHistory(a) /\ a.misread = h.misread
    BY <2>2, HistoryKept, Zenon DEF KeepsHistory
  <2> HIDE DEF a
  <2>4. IsHistory(b) /\ b.misread = h.misread
    BY <2>3, HistoryKept, Zenon DEF KeepsHistory
  <2> HIDE DEF b
  <2>5. c = HistoryOf(b.wins, b.moves, 0, b.late, b.misread)
    BY <2>4, HistoryIs, Zenon
  <2> HIDE DEF c
  <2>6. IsHistory(c) /\ c.off = 0 /\ c.misread = h.misread
    BY <2>4, <2>5, HistoryParts
  <2>7. \A l : LET e == [c EXCEPT !.late = l] IN IsHistory(e) /\ e.off = 0 /\ e.misread = h.misread
    <3> TAKE l
    <3>1. [c EXCEPT !.late = l] = HistoryOf(c.wins, c.moves, c.off, l, c.misread)
      BY <2>6, HistoryIs, Zenon
    <3> QED BY <2>6, <3>1, HistoryParts
  <2>8. IsHistory(d) /\ d.off = 0 /\ d.misread = h.misread
    BY <2>7, Zenon
  <2> QED BY <2>1, <2>8, Zenon
<1>5. ASSUME NEW p \in Prefix
      PROVE  /\ router'[p] \in [up : BOOLEAN, hid : BOOLEAN, wire : Int]
             /\ router'[p].wire = -1 /\ router'[p].hid = FALSE
  <2> DEFINE u == [router[p] EXCEPT !.wire = -1]
             w == [u EXCEPT !.hid = FALSE]
  <2>1. router'[p] = w
    BY <1>2, Zenon
  <2>2. router[p] \in [up : BOOLEAN, hid : BOOLEAN, wire : Int]
    BY <1>1 DEF ShapeInv
  <2>3. u \in [up : BOOLEAN, hid : BOOLEAN, wire : Int] /\ u.wire = -1
    BY <2>2
  <2> HIDE DEF u
  <2>4. w \in [up : BOOLEAN, hid : BOOLEAN, wire : Int] /\ w.wire = -1 /\ w.hid = FALSE
    BY <2>3, Zenon
  <2> QED BY <2>1, <2>4, Zenon
<1>6. \A p \in Prefix : eng'[p] = NewState
  BY <1>2, Zenon
<1>7. ShapeInv'
  <2>1. eng' = [p \in Prefix |-> eng'[p]] /\ seen' = [p \in Prefix |-> seen'[p]]
        /\ router' = [p \in Prefix |-> router'[p]]
    BY <1>2, Zenon
  <2>2. router' \in [Prefix -> [up : BOOLEAN, hid : BOOLEAN, wire : Int]]
    BY <1>5, <2>1, Zenon
  <2> QED BY <1>1, <1>2, <1>3, <1>4, <1>6, <2>1, <2>2, Zenon DEF ShapeInv
<1>8. ASSUME NEW p \in Prefix PROVE HeldInv(p)' /\ SeenInv(p)'
  <2>1. ~(0 > 0) /\ -1 \in Int /\ -1 >= -1
    OBVIOUS
  <2>2. HeldInv(p)'
    BY <1>3, <1>4, <1>6, <2>1, Zenon DEF HeldInv
  <2>3. ~seen'[p].misread
    BY <1>4, Zenon DEF DecideInv, SeenInv
  <2>4. eng'[p].imp = NoImp /\ eng'[p].imp.held = -1 /\ router'[p].wire = -1 /\ router'[p].hid = FALSE
    BY <1>3, <1>5, <1>6, NoImpIs, Zenon
  <2>5. SeenInv(p)'
    BY <2>1, <2>3, <2>4, Zenon DEF SeenInv
  <2> QED BY <2>2, <2>5, Zenon
<1> QED BY <1>7, <1>8, Zenon DEF DecideInv

LEMMA TickKeeps == ASSUME DecideConstants, DecideInv, DecideTick PROVE DecideInv'
<1>1. ShapeInv /\ \A p \in Prefix : HeldInv(p) /\ SeenInv(p)
  BY Zenon DEF DecideInv
<1>2. /\ eng' = [p \in Prefix |-> Aged(eng[p])] /\ ~kick /\ UNCHANGED <<dcfg, kick>>
      /\ res' = [p \in Prefix |-> [v \in Provider |-> [res[p][v] EXCEPT !.age = Older(@, MaxAge)]]]
      /\ router' = [p \in Prefix |-> [router[p] EXCEPT !.wire = Older(@, NativeConfirm - 1)]]
      /\ seen' = [p \in Prefix |-> [seen[p] EXCEPT
                   !.moves = [i \in DOMAIN @ |-> Older(@[i], Window)], !.off = Less(@)]]
  BY Zenon DEF DecideTick
<1>3. NativeConfirm \in Nat /\ MaxAge \in Nat
  BY Zenon DEF DecideConstants
<1>4. ASSUME NEW a \in Int, NEW last \in Int PROVE Older(a, last) \in Int
  BY OlderIs
<1>5. ASSUME NEW p \in Prefix
      PROVE  /\ IsHistory(seen'[p]) /\ seen'[p].off = Less(seen[p].off)
             /\ seen'[p].late = seen[p].late /\ seen'[p].misread = seen[p].misread
  <2> DEFINE h == seen[p]
             m == [i \in DOMAIN h.moves |-> Older(h.moves[i], Window)]
             a == [h EXCEPT !.moves = m]
             b == [a EXCEPT !.off = Less(@)]
             c == [a EXCEPT !.off = Less(h.off)]
  <2>1. seen'[p] = b
    BY <1>2, Zenon
  <2> HIDE DEF m
  <2>2. KeepsHistory(h, a)
    BY <1>1, HistoryKept, Zenon DEF ShapeInv
  <2> HIDE DEF a
  <2>3. IsHistory(a) /\ a.off = h.off /\ a.late = h.late /\ a.misread = h.misread
    BY <2>2, Zenon DEF KeepsHistory
  <2>4. b = c
    BY <2>3
  <2> HIDE DEF b
  <2>5. c = HistoryOf(a.wins, a.moves, Less(h.off), a.late, a.misread)
    BY <2>3, HistoryIs, Zenon
  <2> HIDE DEF c
  <2>6. IsHistory(c) /\ c.off = Less(h.off) /\ c.late = a.late /\ c.misread = a.misread
    BY <2>5, HistoryParts
  <2> QED BY <2>1, <2>3, <2>4, <2>6, Zenon
<1>6. ASSUME NEW p \in Prefix
      PROVE  /\ router'[p] \in [up : BOOLEAN, hid : BOOLEAN, wire : Int]
             /\ router'[p].wire = Older(router[p].wire, NativeConfirm - 1)
             /\ router'[p].hid = router[p].hid
  <2> DEFINE x == Older(router[p].wire, NativeConfirm - 1)
             w == [router[p] EXCEPT !.wire = x]
  <2>1. router'[p] = w
    BY <1>2, Zenon
  <2>2. router[p] \in [up : BOOLEAN, hid : BOOLEAN, wire : Int] /\ NativeConfirm - 1 \in Int
    BY <1>1, <1>3 DEF ShapeInv
  <2>3. x \in Int
    BY <1>4, <2>2, Zenon
  <2> HIDE DEF x
  <2>4. w \in [up : BOOLEAN, hid : BOOLEAN, wire : Int] /\ w.wire = x /\ w.hid = router[p].hid
    BY <2>2, <2>3
  <2> QED BY <2>1, <2>4, Zenon DEF x
<1>7. ASSUME NEW p \in Prefix
      PROVE  /\ IsState(eng'[p]) /\ eng'[p].cool = Less(eng[p].cool)
             /\ eng'[p].imp.held = Older(eng[p].imp.held, NativeConfirm)
             /\ eng[p].imp = NoImp => eng'[p].imp = NoImp
             /\ eng[p].quar = NoQuar => eng'[p].quar = NoQuar
  <2>1. eng'[p] = Aged(eng[p]) /\ IsState(eng[p])
    BY <1>1, <1>2, Zenon DEF ShapeInv
  <2> QED BY <1>3, <2>1, AgedIs, Zenon
<1>8. res' \in [Prefix -> [Provider -> [rank : Int, age : Int]]]
  <2>1. ASSUME NEW p \in Prefix, NEW v \in Provider
        PROVE  [res[p][v] EXCEPT !.age = Older(@, MaxAge)] \in [rank : Int, age : Int]
    <3>1. res[p][v] \in [rank : Int, age : Int]
      BY <1>1 DEF ShapeInv
    <3>2. Older(res[p][v].age, MaxAge) \in Int
      <4>1. res[p][v].age \in Int /\ MaxAge \in Int
        BY <1>3, <3>1
      <4> QED BY <1>4, <4>1, Zenon
    <3> QED BY <3>1, <3>2
  <2> DEFINE R(p, v) == [res[p][v] EXCEPT !.age = Older(@, MaxAge)]
  <2>2. res' = [p \in Prefix |-> [v \in Provider |-> R(p, v)]]
    BY <1>2, Zenon
  <2>3. \A p \in Prefix, v \in Provider : R(p, v) \in [rank : Int, age : Int]
    BY <2>1, Zenon
  <2> HIDE DEF R
  <2> QED BY <2>2, <2>3, Zenon
<1>9. ShapeInv'
  <2>1. eng' = [p \in Prefix |-> eng'[p]] /\ seen' = [p \in Prefix |-> seen'[p]]
        /\ router' = [p \in Prefix |-> router'[p]]
    BY <1>2, Zenon
  <2>2. router' \in [Prefix -> [up : BOOLEAN, hid : BOOLEAN, wire : Int]]
    BY <1>6, <2>1, Zenon
  <2> QED BY <1>1, <1>2, <1>5, <1>7, <1>8, <2>1, <2>2, Zenon DEF ShapeInv
<1>10. ASSUME NEW p \in Prefix PROVE HeldInv(p)'
  <2>1. CASE seen[p].off > 0
    BY <1>1, <1>5, <1>7, <2>1, Zenon DEF HeldInv
  <2>2. CASE ~(seen[p].off > 0)
    <3>1. ~(0 > 0)
      OBVIOUS
    <3>2. ~(seen'[p].off > 0)
      BY <1>5, <2>2, <3>1, Zenon DEF Less
    <3> QED BY <1>1, <1>7, <3>2, Zenon DEF HeldInv
  <2> QED BY <2>1, <2>2, Zenon
<1>11. ASSUME NEW p \in Prefix PROVE SeenInv(p)'
  <2> DEFINE h == eng[p].imp.held
             g == eng'[p].imp.held
             v == router[p].wire
             w == router'[p].wire
             C == NativeConfirm
  <2>1. /\ h \in Int /\ h >= -1 /\ v >= -1 /\ ~seen[p].misread
        /\ eng[p].imp = NoImp \/ seen[p].late \/ h <= v \/ v >= C
        /\ router[p].hid /\ ~seen[p].late /\ eng[p].imp # NoImp => h < C /\ (~kick => h = -1)
    BY <1>1, Zenon DEF SeenInv
  <2>2. v \in Int /\ C \in Int /\ C - 1 \in Int /\ C >= 0
    BY <1>1, <1>3 DEF ShapeInv
  <2>3. g = Older(h, C) /\ w = Older(v, C - 1)
    BY <1>6, <1>7, Zenon
  <2>4. Older(h, C) = IF h < 0 THEN h ELSE IF h <= C THEN h + 1 ELSE C + 1
    BY <2>1, <2>2, OlderIs
  <2>5. Older(v, C - 1) = IF v < 0 THEN v ELSE IF v <= C - 1 THEN v + 1 ELSE (C - 1) + 1
    BY <2>2, OlderIs
  <2> HIDE DEF h, g, v, w, C
  <2>6. /\ g \in Int /\ g >= -1 /\ w >= -1 /\ (h = -1 => g = -1 /\ g < C)
        /\ h <= v \/ v >= C => g <= w \/ w >= C
    <3>1. h \in Int /\ h >= -1 /\ v \in Int /\ v >= -1 /\ C \in Int /\ C >= 0
      BY <2>1, <2>2, Zenon
    <3> QED BY <2>3, <2>4, <2>5, <3>1
  <2>7. /\ eng'[p].imp = NoImp \/ seen'[p].late \/ g <= w \/ w >= C
        /\ router'[p].hid /\ ~seen'[p].late /\ eng'[p].imp # NoImp => g < C /\ (~kick' => g = -1)
        /\ ~seen'[p].misread
    BY <1>2, <1>5, <1>6, <1>7, <2>1, <2>6, Zenon
  <2> QED BY <2>6, <2>7, Zenon DEF SeenInv, g, w, C
<1> QED BY <1>9, <1>10, <1>11, Zenon DEF DecideInv

LEMMA NotedIs ==
  ASSUME NEW p, NEW a, NEW r, NEW b, NEW hold, NEW new, NEW wire
  PROVE  LET N == Noted(p, a, r, b, hold, new, wire) IN
         /\ IsHistory(N) /\ N.off = IF b # eng[p] THEN hold ELSE seen[p].off
         /\ N.late = (new # NoImp /\ (seen[p].late \/ (p \notin r.synced /\ wire < 0)))
         /\ N.misread => seen[p].misread
                         \/ (b.imp # NoImp /\ Left(p, b) /\ router[p].up /\ ~seen[p].late)
<1> DEFINE N == Noted(p, a, r, b, hold, new, wire)
           off == IF b # eng[p] THEN hold ELSE seen[p].off
           late == new # NoImp /\ (seen[p].late \/ (p \notin r.synced /\ wire < 0))
           mis == seen[p].misread \/ (r.ready /\ b.imp # NoImp /\ Measured(p) # {} /\ a.pol # "ignore"
                                      /\ Left(p, b) /\ router[p].up /\ ~seen[p].late)
<1>1. \E w, m : N = HistoryOf(w, m, off, late, mis)
  BY Zenon DEF Noted, HistoryOf
<1> HIDE DEF N, off, late, mis
<1>2. PICK w, m, o, l, x : N = HistoryOf(w, m, o, l, x) /\ o = off /\ l = late /\ x = mis
  BY <1>1, Zenon
<1>3. IsHistory(N) /\ N.off = o /\ N.late = l /\ N.misread = x
  <2> HIDE <1>2
  <2>1. N = HistoryOf(w, m, o, l, x)
    BY <1>2, Zenon
  <2> QED BY <2>1, HistoryParts
<1> QED BY <1>2, <1>3, Zenon DEF N, off, late, mis

\* What an evaluation leaves behind: the engine's new states, the routes after
\* the sync, and what the history notes.
Leaves(p, a, r, hold) ==
  LET b == Backout(eng[p], hold)
      new == eng'[p].imp
  IN /\ Evaluates(p, b, a, eng'[p])
     /\ router'[p] = Synced(p, eng[p].imp, new, a, p \in r.synced)
     /\ IsHistory(seen'[p]) /\ seen'[p].off = IF b # eng[p] THEN hold ELSE seen[p].off
     /\ seen'[p].late = (new # NoImp /\ (seen[p].late \/ (p \notin r.synced /\ router'[p].wire < 0)))
     /\ seen'[p].misread => seen[p].misread
          \/ (b.imp # NoImp /\ Left(p, b) /\ router[p].up /\ ~seen[p].late)

LEMMA RoundParts ==
  ASSUME DecideConstants, SetFacts, DecideInv, NEW ans, NEW r, Round(ans, r)
  PROVE  /\ AllStates(eng') /\ Cardinality(Steered(eng')) <= dcfg.cap
         /\ seen' = [p \in Prefix |-> seen'[p]] /\ router' = [p \in Prefix |-> router'[p]]
         /\ UNCHANGED <<dcfg, res>> /\ kick' = FALSE
         /\ \A p \in Prefix : \E hold : Leaves(p, ans[p], r, hold)
<1>a. PICK j \in {[p \in Prefix |-> Judged(p, r)]} :
        \E before \in {[p \in Prefix |-> Backout(eng[p], j[p].hold)]} :
        \E one \in {Each(before, ans, r)} : \E kept \in {Trimmed(one, ans, r)} :
        \E q \in Queue([p \in Prefix |-> one[p].want]) :
        \E after \in {Admitted(kept, one, ans, q)} : Settle(ans, r, j, before, after)
  BY Zenon DEF Round
<1>b. PICK before \in {[p \in Prefix |-> Backout(eng[p], j[p].hold)]} :
        \E one \in {Each(before, ans, r)} : \E kept \in {Trimmed(one, ans, r)} :
        \E q \in Queue([p \in Prefix |-> one[p].want]) :
        \E after \in {Admitted(kept, one, ans, q)} : Settle(ans, r, j, before, after)
  BY <1>a, Zenon
<1>c. PICK one \in {Each(before, ans, r)} : \E kept \in {Trimmed(one, ans, r)} :
        \E q \in Queue([p \in Prefix |-> one[p].want]) :
        \E after \in {Admitted(kept, one, ans, q)} : Settle(ans, r, j, before, after)
  BY <1>b, Zenon
<1>d. PICK kept \in {Trimmed(one, ans, r)} :
        \E q \in Queue([p \in Prefix |-> one[p].want]) :
        \E after \in {Admitted(kept, one, ans, q)} : Settle(ans, r, j, before, after)
  BY <1>c, Zenon
<1>e. PICK q \in Queue([p \in Prefix |-> one[p].want]) :
        \E after \in {Admitted(kept, one, ans, q)} : Settle(ans, r, j, before, after)
  BY <1>d, Zenon
<1>f. PICK after \in {Admitted(kept, one, ans, q)} : Settle(ans, r, j, before, after)
  BY <1>e, Zenon
<1>1. /\ eng' = after
      /\ router' = [p \in Prefix |-> Synced(p, eng[p].imp, after[p].imp, ans[p], p \in r.synced)]
      /\ seen' = [p \in Prefix |->
           Noted(p, ans[p], r, before[p], j[p].hold, after[p].imp, router'[p].wire)]
      /\ kick' = FALSE /\ UNCHANGED <<dcfg, res>>
  BY <1>f, Zenon DEF Settle
<1>2. ShapeInv
  BY Zenon DEF DecideInv
<1>3. \A p \in Prefix : before[p] = Backout(eng[p], j[p].hold)
  BY Zenon
<1>4. ASSUME NEW p \in Prefix PROVE IsState(before[p])
  <2>1. IsState(eng[p])
    BY <1>2, Zenon DEF ShapeInv
  <2>2. IsState(Backout(eng[p], j[p].hold))
    BY <2>1, BackoutIs, Zenon
  <2> QED BY <1>3, <2>2, Zenon
<1>5. eng' = Admitted(Trimmed(one, ans, r), one, ans, q)
  BY <1>1, Zenon
<1>6. one = Each(before, ans, r) /\ q \in Queue([p \in Prefix |-> one[p].want])
  BY Zenon
<1>7. /\ AllStates(eng') /\ Cardinality(Steered(eng')) <= dcfg.cap
      /\ \A p \in Prefix : Evaluates(p, before[p], ans[p], eng'[p])
  BY <1>2, <1>4, <1>5, <1>6, RoundIs, Zenon
<1>8. seen' = [p \in Prefix |-> seen'[p]] /\ router' = [p \in Prefix |-> router'[p]]
  BY <1>1, Zenon
<1>9. ASSUME NEW p \in Prefix PROVE Leaves(p, ans[p], r, j[p].hold)
  <2> DEFINE hold == j[p].hold
             b == before[p]
  <2>1. /\ router'[p] = Synced(p, eng[p].imp, eng'[p].imp, ans[p], p \in r.synced)
        /\ seen'[p] = Noted(p, ans[p], r, b, hold, eng'[p].imp, router'[p].wire)
    BY <1>1, Zenon
  <2>2. b = Backout(eng[p], hold) /\ Evaluates(p, b, ans[p], eng'[p])
    BY <1>3, <1>7, Zenon
  <2> HIDE DEF hold, b
  <2>3. /\ IsHistory(seen'[p]) /\ seen'[p].off = IF b # eng[p] THEN hold ELSE seen[p].off
        /\ seen'[p].late = (eng'[p].imp # NoImp
                            /\ (seen[p].late \/ (p \notin r.synced /\ router'[p].wire < 0)))
        /\ seen'[p].misread => seen[p].misread
             \/ (b.imp # NoImp /\ Left(p, b) /\ router[p].up /\ ~seen[p].late)
    <3> DEFINE new == eng'[p].imp
               wire == router'[p].wire
               N == Noted(p, ans[p], r, b, hold, new, wire)
    <3>1. /\ IsHistory(N) /\ N.off = IF b # eng[p] THEN hold ELSE seen[p].off
          /\ N.late = (new # NoImp /\ (seen[p].late \/ (p \notin r.synced /\ wire < 0)))
          /\ N.misread => seen[p].misread
               \/ (b.imp # NoImp /\ Left(p, b) /\ router[p].up /\ ~seen[p].late)
      <4> HIDE DEF new, wire
      <4> QED BY NotedIs, Zenon
    <3>2. seen'[p] = N
      BY <2>1, Zenon
    <3> HIDE DEF N
    <3> QED BY <3>1, <3>2, Zenon
  <2>4. Leaves(p, ans[p], r, hold)
    BY <2>1, <2>2, <2>3, Zenon DEF Leaves
  <2> QED BY <2>4, Zenon DEF hold
<1> QED BY <1>1, <1>7, <1>8, <1>9, Zenon

\* The route after the sync: as it was, announced, or withdrawn; one that was
\* synced is out when it should be.
LEMMA SyncedIs ==
  ASSUME NEW p, NEW old, NEW new, NEW a, NEW ok,
         router[p] \in [up : BOOLEAN, hid : BOOLEAN, wire : Int]
  PROVE  LET s == Synced(p, old, new, a, ok) IN
         /\ s \in [up : BOOLEAN, hid : BOOLEAN, wire : Int] /\ (s.hid => router[p].hid)
         /\ \/ s.wire = router[p].wire
            \/ s.wire = 0 /\ ~(router[p].wire >= 0)
            \/ s.wire = -1 /\ (new = NoImp \/ a.leak)
         /\ ok /\ new # NoImp /\ ~a.leak => s.wire >= 0
<1> DEFINE s == Synced(p, old, new, a, ok)
           x == [router[p] EXCEPT !.wire = 0]
           y == [router[p] EXCEPT !.wire = -1]
           z == [y EXCEPT !.hid = FALSE]
           zz == [router[p] EXCEPT !.wire = -1, !.hid = FALSE]
           want == new # NoImp /\ ~a.leak
           out == router[p].wire >= 0
           R == [up : BOOLEAN, hid : BOOLEAN, wire : Int]
<1>1. zz = z
  BY Zenon
<1>2. x \in R /\ x.wire = 0 /\ x.hid = router[p].hid
  OBVIOUS
<1>3. y \in R /\ y.wire = -1
  OBVIOUS
<1> HIDE DEF y
<1>4. z \in R /\ z.wire = -1 /\ z.hid = FALSE
  BY <1>3, Zenon
<1>5. \/ s = router[p] /\ (~ok \/ out = want)
      \/ s = x /\ ~(out = want) /\ want
      \/ s = z /\ ~(out = want) /\ ~want
  BY <1>1, Zenon DEF Synced, y
<1>6. want <=> (new # NoImp /\ ~a.leak)
  BY Zenon
<1>7. (0 >= 0) /\ ~(-1 >= 0)
  OBVIOUS
<1> HIDE DEF s, x, z, want
<1>8. CASE s = router[p] /\ (~ok \/ out = want)
  <2>1. ok /\ want => s.wire >= 0
    BY <1>8, Zenon
  <2> QED BY <1>6, <1>8, <2>1, Zenon DEF s
<1>9. CASE s = x /\ ~(out = want) /\ want
  <2>1. ~out
    BY <1>9, Zenon
  <2> QED BY <1>2, <1>7, <1>9, <2>1, Zenon DEF s
<1>10. CASE s = z /\ ~(out = want) /\ ~want
  BY <1>4, <1>6, <1>10, Zenon DEF s
<1> QED BY <1>5, <1>8, <1>9, <1>10, Zenon

\* A prefix after an evaluation.  A hold-off is a cooldown, which the
\* evaluation honours.  What counts as seen with the native path is a route
\* that is out; a path that the router hides does not count at all.
LEMMA LeavesKeeps ==
  ASSUME DecideConstants, DecideInv, NEW p \in Prefix, NEW a, NEW r, NEW hold,
         Leaves(p, a, r, hold), kick' = FALSE
  PROVE  /\ HeldInv(p)' /\ SeenInv(p)' /\ IsHistory(seen'[p])
         /\ router'[p] \in [up : BOOLEAN, hid : BOOLEAN, wire : Int]
<1> DEFINE s == eng[p]
           b == Backout(s, hold)
           x == eng'[p]
           v == router[p].wire
           w == router'[p].wire
           h == seen[p]
           g == seen'[p]
           C == NativeConfirm
           ok == p \in r.synced
           R == [up : BOOLEAN, hid : BOOLEAN, wire : Int]
<1>1. /\ IsState(s) /\ router[p] \in R /\ HeldInv(p) /\ SeenInv(p)
  BY Zenon DEF DecideInv, ShapeInv
<1>2. /\ Evaluates(p, b, a, x) /\ router'[p] = Synced(p, s.imp, x.imp, a, ok)
      /\ IsHistory(g) /\ g.off = IF b # s THEN hold ELSE h.off
      /\ g.late = (x.imp # NoImp /\ (h.late \/ (~ok /\ w < 0)))
      /\ g.misread => h.misread \/ (b.imp # NoImp /\ Left(p, b) /\ router[p].up /\ ~h.late)
  BY Zenon DEF Leaves
<1>3. b = s \/ (hold > 0 /\ b.imp = NoImp /\ b.cool = hold /\ b.quar = s.quar)
  BY <1>1, BackoutIs, Zenon
<1>4. /\ router'[p] \in R /\ (router'[p].hid => router[p].hid)
      /\ \/ w = v
         \/ w = 0 /\ ~(v >= 0)
         \/ w = -1 /\ (x.imp = NoImp \/ a.leak)
      /\ ok /\ x.imp # NoImp /\ ~a.leak => w >= 0
  <2> DEFINE y == Synced(p, s.imp, x.imp, a, ok)
  <2>1. /\ y \in R /\ (y.hid => router[p].hid)
        /\ \/ y.wire = v
           \/ y.wire = 0 /\ ~(v >= 0)
           \/ y.wire = -1 /\ (x.imp = NoImp \/ a.leak)
        /\ ok /\ x.imp # NoImp /\ ~a.leak => y.wire >= 0
    <3> HIDE DEF x, s, ok
    <3> QED BY <1>1, SyncedIs
  <2> HIDE DEF y
  <2>2. router'[p] = y
    BY <1>2, Zenon DEF y
  <2> QED BY <2>1, <2>2, Zenon
<1>5. /\ x.imp # NoImp /\ b.imp # NoImp => x.imp.held = HeldNow(p, b, a) /\ x.quar \in {b.quar, NoQuar}
      /\ x.imp # NoImp /\ b.imp = NoImp => b.cool = 0 /\ x.quar = NoQuar /\ x.imp.held = -1
      /\ b.imp = NoImp /\ b.cool # 0 => x.imp = NoImp /\ x.cool = b.cool
  BY <1>2, Zenon DEF Evaluates
<1>6. HeldInv(p)'
  <2>1. ASSUME g.off > 0 PROVE x.imp = NoImp /\ x.cool = g.off
    <3>1. g.off # 0
      <4>1. ~(0 > 0)
        OBVIOUS
      <4> QED BY <2>1, <4>1, Zenon
    <3>2. b.imp = NoImp /\ b.cool = g.off
      BY <1>1, <1>2, <1>3, <2>1, Zenon DEF HeldInv
    <3> QED BY <1>5, <3>1, <3>2, Zenon
  <2>2. ASSUME x.quar # NoQuar PROVE x.imp = NoImp
    BY <1>1, <1>3, <1>5, <2>2, Zenon DEF HeldInv
  <2> QED BY <2>1, <2>2, Zenon DEF HeldInv
<1>7. SeenInv(p)'
  <2>1. /\ s.imp.held \in Int /\ s.imp.held >= -1 /\ v >= -1 /\ v \in Int /\ w \in Int
        /\ C \in Int /\ C >= 0
    <3>1. v \in Int /\ w \in Int
      BY <1>1, <1>4
    <3>2. C \in Int /\ C >= 0
      BY DEF DecideConstants
    <3> QED BY <1>1, <3>1, <3>2, Zenon DEF SeenInv
  <2>2. ~h.misread /\ (s.imp = NoImp \/ h.late \/ s.imp.held <= v \/ v >= C)
        /\ (router[p].hid /\ ~h.late /\ s.imp # NoImp => s.imp.held < C)
    BY <1>1, Zenon DEF SeenInv
  <2>3. ~g.misread
    <3>1. ASSUME b.imp # NoImp, Left(p, b), router[p].up, ~h.late PROVE FALSE
      <4>1. b = s /\ router[p].hid /\ s.imp.held >= C
        BY <1>3, <3>1, Zenon DEF Left, InRIB
      <4>2. s.imp.held < C
        BY <2>2, <3>1, <4>1, Zenon
      <4> HIDE DEF s, C
      <4> QED BY <2>1, <4>1, <4>2
    <3> QED BY <1>2, <2>2, <3>1, Zenon
  <2>4. x.imp = NoImp => x.imp.held = -1
    BY NoImpIs, Zenon
  <2>5. \/ x.imp.held = -1
        \/ /\ x.imp # NoImp /\ InRIB(p) /\ ~a.leak /\ s.imp # NoImp
           /\ x.imp.held = Max({s.imp.held, 0})
    <3>1. CASE x.imp # NoImp /\ b.imp # NoImp
      BY <1>3, <1>5, <3>1, Zenon DEF HeldNow
    <3>2. CASE ~(x.imp # NoImp /\ b.imp # NoImp)
      BY <1>5, <2>4, <3>2, Zenon
    <3> QED BY <3>1, <3>2, Zenon
  <2>6. Max({s.imp.held, 0}) = IF s.imp.held >= 0 THEN s.imp.held ELSE 0
    BY <2>1, MaxTwo
  <2> DEFINE i == s.imp.held
             k == x.imp.held
  <2>7. k \in Int /\ k >= -1 /\ w >= -1 /\ (k = -1 => k <= w /\ k < C)
    <3>1. i \in Int /\ v \in Int /\ w \in Int /\ v >= -1 /\ C \in Int /\ C >= 0
      BY <2>1, Zenon
    <3>2. k = -1 \/ k = IF i >= 0 THEN i ELSE 0
      BY <2>5, <2>6, Zenon
    <3>3. w = v \/ w = 0 \/ w = -1
      BY <1>4, Zenon
    <3> HIDE DEF i, k, v, w, C
    <3> QED BY <3>1, <3>2, <3>3
  <2>8. x.imp = NoImp \/ g.late \/ k <= w \/ w >= C
    <3> SUFFICES ASSUME x.imp # NoImp, ~g.late, k # -1 PROVE k <= w \/ w >= C
      BY <2>7, Zenon
    <3>1. ~h.late /\ (ok \/ ~(w < 0))
      BY <1>2, Zenon
    <3>2. ~a.leak /\ s.imp # NoImp /\ k = IF i >= 0 THEN i ELSE 0
      BY <2>5, <2>6, Zenon
    <3>3. w >= 0 \/ ~(w < 0)
      BY <1>4, <3>1, <3>2, Zenon
    <3>4. w = v \/ (w = 0 /\ ~(v >= 0))
      BY <1>4, <3>2, Zenon
    <3>5. i <= v \/ v >= C
      BY <2>2, <3>1, <3>2, Zenon
    <3>6. i \in Int /\ k \in Int /\ v \in Int /\ w \in Int /\ C \in Int /\ C >= 0
      BY <2>1, <2>7, Zenon
    <3> HIDE DEF i, k, v, w, C
    <3> QED BY <3>2, <3>3, <3>4, <3>5, <3>6
  <2>9. ASSUME router'[p].hid PROVE k = -1
    BY <1>4, <2>5, <2>9, Zenon DEF InRIB
  <2> QED BY <2>3, <2>7, <2>8, <2>9, Zenon DEF SeenInv
<1> QED BY <1>2, <1>4, <1>6, <1>7, Zenon

LEMMA DecisionKeeps == ASSUME DecideConstants, SetFacts, DecideInv, Decision PROVE DecideInv'
<1>1. PICK e \in Evals : Round(e.ans, e.r)
  BY Zenon DEF Decision
<1>2. /\ AllStates(eng') /\ seen' = [p \in Prefix |-> seen'[p]]
      /\ router' = [p \in Prefix |-> router'[p]] /\ UNCHANGED <<dcfg, res>> /\ kick' = FALSE
      /\ \A p \in Prefix : \E hold : Leaves(p, e.ans[p], e.r, hold)
  BY <1>1, RoundParts, Zenon
<1>3. ASSUME NEW p \in Prefix
      PROVE  /\ HeldInv(p)' /\ SeenInv(p)' /\ IsHistory(seen'[p])
             /\ router'[p] \in [up : BOOLEAN, hid : BOOLEAN, wire : Int]
  <2>1. PICK hold : Leaves(p, e.ans[p], e.r, hold)
    BY <1>2, Zenon
  <2> QED BY <1>2, <2>1, LeavesKeeps, Zenon
<1>4. ShapeInv'
  <2>1. ShapeInv
    BY Zenon DEF DecideInv
  <2>2. router' \in [Prefix -> [up : BOOLEAN, hid : BOOLEAN, wire : Int]]
    BY <1>2, <1>3, Zenon
  <2> QED BY <1>2, <1>3, <2>1, <2>2, Zenon DEF ShapeInv, AllStates
<1> QED BY <1>3, <1>4, Zenon DEF DecideInv

LEMMA DecideStep == ASSUME DecideConstants, SetFacts, DecideInv, [DecideNext]_decideVars PROVE DecideInv'
<1>1. CASE DecideTick
  BY <1>1, TickKeeps, Zenon
<1>2. CASE Decision
  BY <1>2, DecisionKeeps, Zenon
<1>3. CASE Reset
  BY <1>3, ResetKeeps, Zenon
<1>4. ASSUME NEW p \in Prefix, Measure(p) PROVE DecideInv'
  BY <1>4, MeasureKeeps, Zenon
<1>5. ASSUME NEW p \in Prefix, Release(p) PROVE DecideInv'
  BY <1>5, ReleaseKeeps, Zenon
<1>6. ASSUME NEW p \in Prefix, Hide(p) PROVE DecideInv'
  BY <1>6, HideKeeps, Zenon
<1>7. ASSUME NEW p \in Prefix, Leave(p) PROVE DecideInv'
  BY <1>7, LeaveKeeps, Zenon
<1>8. ASSUME NEW c \in Configs, SetConfig(c) PROVE DecideInv'
  BY <1>8, SetConfigKeeps, Zenon
<1>9. CASE UNCHANGED decideVars
  BY <1>9, Zenon DEF decideVars, DecideInv, ShapeInv, HeldInv, SeenInv
<1> QED BY <1>1, <1>2, <1>3, <1>4, <1>5, <1>6, <1>7, <1>8, <1>9, Zenon DEF DecideNext

\* What a step may do to the steers.
CapStep ==
  \/ Cardinality(Steered(eng)') <= dcfg.cap
  \/ ~Decision /\ Steered(eng)' \subseteq Steered(eng)

LEMMA CapKept ==
  ASSUME DecideConstants, SetFacts, DecideInv, [DecideNext]_decideVars PROVE CapStep
<1>a. ShapeInv /\ Steered(eng)' = Steered(eng')
  BY Zenon DEF DecideInv, Steered
<1>1. CASE Decision
  <2>1. PICK e \in Evals : Round(e.ans, e.r)
    BY <1>1, Zenon DEF Decision
  <2>2. Cardinality(Steered(eng')) <= dcfg.cap
    BY <2>1, RoundParts, Zenon
  <2> QED BY <1>a, <2>2, Zenon DEF CapStep
<1>b. ASSUME ~Decision, \A p \in Prefix : eng[p].imp = NoImp => eng'[p].imp = NoImp
      PROVE  CapStep
  BY <1>b, Zenon DEF Steered, CapStep
<1>2. CASE ~Decision /\ DecideTick
  <2>1. ASSUME NEW p \in Prefix, eng[p].imp = NoImp PROVE eng'[p].imp = NoImp
    <3>1. eng'[p] = Aged(eng[p]) /\ IsState(eng[p]) /\ NativeConfirm \in Nat
      BY <1>2, <1>a, Zenon DEF DecideTick, ShapeInv, DecideConstants
    <3> QED BY <2>1, <3>1, AgedIs, Zenon
  <2> QED BY <1>2, <1>b, <2>1, Zenon
<1>3. CASE ~Decision /\ Reset
  <2>1. NewState.imp = NoImp
    BY DEF NewState
  <2>2. ASSUME NEW p \in Prefix PROVE eng'[p].imp = NoImp
    BY <1>3, <2>1, Zenon DEF Reset
  <2> QED BY <1>3, <1>b, <2>2, Zenon
<1>4. ASSUME ~Decision, NEW q \in Prefix, Release(q) PROVE CapStep
  <2>1. ASSUME NEW p \in Prefix PROVE eng'[p].imp = eng[p].imp
    <3>1. eng' = [eng EXCEPT ![q] = ReleaseQuarantine(eng[q], 0)]
      BY <1>4, Zenon DEF Release
    <3>2. eng'[p] = IF p = q THEN ReleaseQuarantine(eng[q], 0) ELSE eng[p]
      BY <1>a, <3>1, Zenon DEF ShapeInv
    <3>3. IsState(eng[q])
      BY <1>a, Zenon DEF ShapeInv
    <3>4. ReleaseQuarantine(eng[q], 0).imp = eng[q].imp
      BY <3>3, ReleaseIs, Zenon
    <3> QED BY <3>2, <3>4, Zenon
  <2> QED BY <1>4, <1>b, <2>1, Zenon
<1>5. ASSUME ~Decision, eng' = eng PROVE CapStep
  BY <1>5, <1>b, Zenon
<1>6. ASSUME NEW p \in Prefix, Measure(p) \/ Hide(p) \/ Leave(p) PROVE eng' = eng
  BY <1>6, Zenon DEF Measure, Hide, Leave
<1>7. ASSUME NEW c \in Configs, SetConfig(c) PROVE eng' = eng
  BY <1>7, Zenon DEF SetConfig
<1>8. UNCHANGED decideVars => eng' = eng
  BY Zenon DEF decideVars
<1> QED BY <1>1, <1>2, <1>3, <1>4, <1>5, <1>6, <1>7, <1>8, Zenon DEF DecideNext

-----------------------------------------------------------------------------
(* The theorems. *)

Library == INSTANCE FiniteSetTheorems

\* The library speaks of the same finite sets and of the same cardinality.
LEMMA SameSets ==
  ASSUME NEW S
  PROVE  (Library!IsFiniteSet(S) <=> IsFiniteSet(S)) /\ Library!Cardinality(S) = Cardinality(S)
<1>1. Library!IsFiniteSet(S) <=> IsFiniteSet(S)
  BY Zenon DEF IsFiniteSet, Library!IsFiniteSet
<1>2. Library!Cardinality(S) = Cardinality(S)
  BY Zenon DEF Cardinality, Library!Cardinality
<1> QED BY <1>1, <1>2, Zenon

LEMMA SetsAreSo == SetFacts
<1>1. ASSUME NEW S, NEW T, IsFiniteSet(T), NEW f \in [S -> T], OneToOne(f, S)
      PROVE  IsFiniteSet(S) /\ Cardinality(S) <= Cardinality(T)
  <2>1. f \in Library!Injection(S, T)
    BY <1>1, Zenon DEF Library!Injection, Library!IsInjective, OneToOne
  <2>2. Library!IsFiniteSet(T)
    BY <1>1, SameSets, Zenon
  <2>3. Library!IsFiniteSet(S) /\ Library!Cardinality(S) <= Library!Cardinality(T)
    BY <2>1, <2>2, Library!FS_Injection, Zenon
  <2>4. /\ IsFiniteSet(S) /\ Library!Cardinality(S) = Cardinality(S)
        /\ Library!Cardinality(T) = Cardinality(T)
    BY <2>3, SameSets, Zenon
  <2> QED BY <2>3, <2>4, Zenon
<1>2. ASSUME NEW S \in SUBSET Nat, S # {} PROVE HasLeast(S)
  <2>1. PICK x \in S : \A y \in S : <<y, x>> \notin Library!OpToRel(<, Nat)
    BY <1>2, Library!NatLessThanWellFounded, Library!WFMin, Zenon
  <2>2. \A y \in S : y < x => <<y, x>> \in Library!OpToRel(<, Nat)
    BY Zenon DEF Library!OpToRel
  <2> QED BY <2>1, <2>2, Zenon DEF HasLeast
<1>3. Cardinality({}) = 0
  BY SameSets, Library!FS_EmptySet, Zenon
<1>4. ASSUME NEW S, IsFiniteSet(S) PROVE Cardinality(S) \in Nat
  <2>1. Library!Cardinality(S) \in Nat
    BY <1>4, SameSets, Library!FS_CardinalityType, Zenon
  <2> QED BY <2>1, SameSets, Zenon
<1>5. ASSUME NEW S, IsFiniteSet(S), NEW T \in SUBSET S PROVE Within(T, S)
  <2>1. Library!IsFiniteSet(S)
    BY <1>5, SameSets, Zenon
  <2>2. /\ Library!IsFiniteSet(T) /\ Library!Cardinality(T) <= Library!Cardinality(S)
        /\ Library!Cardinality(S) = Library!Cardinality(T) => S = T
    BY <2>1, Library!FS_Subset, Zenon
  <2>3. /\ IsFiniteSet(T) /\ Library!Cardinality(S) = Cardinality(S)
        /\ Library!Cardinality(T) = Cardinality(T)
    BY <2>2, SameSets, Zenon
  <2> QED BY <2>2, <2>3, Zenon DEF Within
<1>6. ASSUME NEW S, NEW x, IsFiniteSet(S) PROVE With(S, x) /\ Without(S, x)
  <2>1. Library!IsFiniteSet(S)
    BY <1>6, SameSets, Zenon
  <2>2. /\ Library!IsFiniteSet(S \cup {x})
        /\ Library!Cardinality(S \cup {x})
             = IF x \in S THEN Library!Cardinality(S) ELSE Library!Cardinality(S) + 1
    BY <2>1, Library!FS_AddElement, Zenon
  <2>3. /\ Library!IsFiniteSet(S \ {x})
        /\ Library!Cardinality(S \ {x})
             = IF x \in S THEN Library!Cardinality(S) - 1 ELSE Library!Cardinality(S)
    BY <2>1, Library!FS_RemoveElement, Zenon
  <2> QED BY <2>2, <2>3, SameSets, Zenon DEF With, Without
<1>7. ASSUME NEW a \in Int, NEW b \in Int PROVE Spans(a, b)
  <2>1. /\ Library!IsFiniteSet(a .. b)
        /\ Library!Cardinality(a .. b) = IF a > b THEN 0 ELSE b - a + 1
    BY Library!FS_Interval, Zenon
  <2> QED BY <2>1, SameSets, Zenon DEF Spans
<1> QED BY <1>1, <1>2, <1>3, <1>4, <1>5, <1>6, <1>7, Zenon DEF SetFacts

\* The decision engine keeps its invariant: the shapes of its state; that what
\* is held off or quarantined is on its native path; and that an improvement
\* counts as seen with the native path no longer than its route is out.
THEOREM DecideHolds == DecideSpec => []DecideInv
<1>1. DecideInit => DecideInv
  BY DecideStarts, DecideConstants, Zenon
<1>2. DecideInv /\ [DecideNext]_decideVars => DecideInv'
  BY DecideStep, DecideConstants, SetsAreSo, Zenon
<1> QED BY <1>1, <1>2, PTL DEF DecideSpec

\* A quarantined prefix, and one whose steer the verification backed out less
\* than the hold-off ago, is on its native path, whatever the policies, the
\* planner, the cap and the operator do meanwhile (Backout, decideIdle).
THEOREM HeldOffIsNative == DecideSpec => []HeldOffStaysNative
<1>1. DecideInv => HeldOffStaysNative
  BY Zenon DEF DecideInv, HeldInv, HeldOffStaysNative
<1> QED BY <1>1, DecideHolds, PTL

\* A router that stops sending its native path because it prefers Packeteer's
\* route is not taken for a neighbor that lost the prefix (nativeSeen).
THEOREM WithdrawalIsReal == DecideSpec => []WithdrawIsReal
<1>1. DecideInv => WithdrawIsReal
  BY Zenon DEF DecideInv, SeenInv, WithdrawIsReal
<1> QED BY <1>1, DecideHolds, PTL

\* After an evaluation the steers do not outnumber max_improvements, whatever
\* a reload made of it before and whatever the evaluation trims, sheds, displaces
\* and admits; no other step adds a steer (trimToCap, shedOverCapacity,
\* displaceCommit and the admission in Decide).
THEOREM CapHolds == DecideSpec => WithinCap
<1>1. DecideInv /\ [DecideNext]_decideVars => [CapStep]_decideVars
  BY CapKept, DecideConstants, SetsAreSo, Zenon
<1> QED BY <1>1, DecideHolds, PTL DEF DecideSpec, WithinCap, CapStep

=============================================================================
