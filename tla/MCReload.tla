------------------------------ MODULE MCReload ------------------------------
(***************************************************************************)
(* Two plugins, two neighbors and a handful of files that change several   *)
(* groups of keys at once.                                                 *)
(***************************************************************************)
EXTENDS Reload

Nbr(s1, l1, s2, l2) == [r \in 1 .. 2 |-> IF r = 1 THEN [set |-> s1, list |-> l1]
                                                 ELSE [set |-> s2, list |-> l2]]

Observe ==
  [mode |-> "off", inb |-> "off", mit |-> "off", allow |-> 1, cap |-> 1, hold |-> 1,
   timing |-> 1, plug |-> [n \in 1 .. 2 |-> 1], nbr |-> Nbr(1, 0, 0, 0), fixed |-> 0]
Inject == [Observe EXCEPT !.mode = "inject"]
Steer == [Inject EXCEPT !.inb = "inject", !.mit = "inject"]
Plain(c) == [c EXCEPT !.inb = "none", !.mit = "none"]
Swapped(c) == [c EXCEPT !.plug = [n \in 1 .. 2 |-> IF n = 1 THEN 2 ELSE 0]]

MCFiles ==
  { Observe, Inject, Steer, Swapped(Observe), Swapped(Steer),
    [Swapped(Inject) EXCEPT !.mit = "inject", !.hold = 2],
    [Inject EXCEPT !.nbr = Nbr(1, 1, 1, 2), !.allow = 2],
    [Steer EXCEPT !.nbr = Nbr(2, 1, 0, 0), !.timing = 2],
    [Observe EXCEPT !.nbr = Nbr(0, 0, 1, 2), !.hold = 2],
    [Steer EXCEPT !.nbr = Nbr(0, 0, 1, 1)],
    [Steer EXCEPT !.cap = 2], [Steer EXCEPT !.mit = "off"],
    [Observe EXCEPT !.nbr = Nbr(0, 0, 0, 0)],
    [Swapped(Observe) EXCEPT !.nbr = Nbr(0, 0, 0, 0), !.hold = 2],
    Plain(Observe), [Plain(Inject) EXCEPT !.cap = 2, !.timing = 2],
    [Inject EXCEPT !.fixed = 1] }
=============================================================================
