----------------------------- MODULE MCDecide ------------------------------
(***************************************************************************)
(* The decision engine on small instances.  A scope is a configuration and *)
(* how many probe rounds, unusual answers, operator and router events a    *)
(* behaviour can have.                                                     *)
(***************************************************************************)
EXTENDS Decide, TLC

Plain == [bad |-> {}, leak |-> FALSE, pol |-> "none", pin |-> 0, fault |-> FALSE,
          lacking |-> FALSE, want |-> 0, moveOK |-> FALSE, plan |-> "ok", over |-> {}]
Usual == [ready |-> TRUE, excl |-> {}, hot |-> {}, moved |-> "all", synced |-> {1, 2}]
Answers == {
  [Plain EXCEPT !.bad = {1}], [Plain EXCEPT !.bad = {2}], [Plain EXCEPT !.leak = TRUE],
  [Plain EXCEPT !.pol = "ignore"], [Plain EXCEPT !.pol = "vip"],
  [Plain EXCEPT !.pin = 1], [Plain EXCEPT !.pin = 2], [Plain EXCEPT !.pin = 2, !.fault = TRUE],
  [Plain EXCEPT !.lacking = TRUE], [Plain EXCEPT !.want = 2, !.moveOK = TRUE],
  [Plain EXCEPT !.plan = "off"], [Plain EXCEPT !.plan = "worse"], [Plain EXCEPT !.over = {2}]}
Rounds == {
  [Usual EXCEPT !.ready = FALSE], [Usual EXCEPT !.excl = {2}], [Usual EXCEPT !.hot = {2}],
  [Usual EXCEPT !.moved = "none"], [Usual EXCEPT !.moved = "waiting"], [Usual EXCEPT !.synced = {}]}
DEvals ==
  LET all == [p \in {1, 2} |-> Plain]
  IN {[ans |-> all, r |-> Usual, p |-> 0, odd |-> FALSE]}
     \cup {[ans |-> all, r |-> r, p |-> 0, odd |-> TRUE] : r \in Rounds}
     \cup {[ans |-> [all EXCEPT ![p] = a], r |-> Usual, p |-> p, odd |-> TRUE] : p \in {1, 2}, a \in Answers}

Cfg(cap, confirm, flips, probed, egress) ==
  [cap |-> cap, confirm |-> confirm, flips |-> flips, allow |-> {1, 2},
   probed |-> probed, egress |-> egress]
Budget(probe, odd, op, rt) ==
  ("probe" :> probe) @@ ("odd" :> odd) @@ ("op" :> op) @@ ("router" :> rt)

DShapes == {<<1, 0, 1>>, <<1, 1, 0>>, <<0, 1, 1>>, <<1, 0, 0>>}
DStarts == {
  [cfg |-> Cfg(1, 2, 1, {1}, {1, 2, 3}), budget |-> Budget(4, 1, 0, 0)],
  [cfg |-> Cfg(1, 1, 1, {1}, {1, 2}), budget |-> Budget(3, 1, 0, 0)],
  [cfg |-> Cfg(1, 1, 1, {1}, {1, 2}), budget |-> Budget(2, 0, 2, 0)],
  [cfg |-> Cfg(1, 1, 0, {1}, {1, 2}), budget |-> Budget(2, 1, 0, 2)],
  [cfg |-> Cfg(1, 1, 0, {1}, {1, 2}), budget |-> Budget(2, 2, 0, 0)],
  [cfg |-> Cfg(1, 1, 0, {1, 2}, {1, 2}), budget |-> Budget(2, 1, 1, 0)]}
DConfigs == {Cfg(0, 1, 0, {1}, {1, 2}), Cfg(1, 1, 2, {1}, {1, 2}), Cfg(2, 1, 0, {1, 2}, {1, 2})}
=============================================================================
