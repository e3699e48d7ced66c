----------------------------- MODULE Leadership -----------------------------
(***************************************************************************)
(* What an elector promises the core (pkg/plugin/elector.go, Elector): the *)
(* role is held by nobody or by one instance, and passes from one to the   *)
(* other only through nobody.                                              *)
(***************************************************************************)
CONSTANT Node

VARIABLE leaders  \* the instances whose Active() is true

Init == leaders = {}

TurnActive(n) == leaders = {} /\ leaders' = {n}

TurnStandby(n) == leaders = {n} /\ leaders' = {}

Next == \E n \in Node : TurnActive(n) \/ TurnStandby(n)

Spec == Init /\ [][Next]_leaders
=============================================================================
