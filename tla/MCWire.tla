------------------------------- MODULE MCWire -------------------------------
(***************************************************************************)
(* Two prefixes, one of them inbound, a shared cap of one route, one       *)
(* mitigation rule at a time and a leak watch with room for one prefix     *)
(* that is not on the wire.                                                *)
(***************************************************************************)
EXTENDS Wire

CONSTANTS p1, p2
=============================================================================
