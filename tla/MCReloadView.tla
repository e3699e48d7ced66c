---------------------------- MODULE MCReloadView ----------------------------
(***************************************************************************)
(* A reload of the config file, and the learned view with the reloads of   *)
(* its neighbors, on small instances.  The two models share no state:      *)
(* Reload has the sessions as sets, Rib the calls that change one of them. *)
(* A behaviour is one of either.                                           *)
(***************************************************************************)
EXTENDS MCReload, MCView

CONSTANTS Parts
VARIABLE part

\* In a behaviour of one part the other has one start.
PartInit ==
  /\ Init /\ RibInit /\ part \in Parts
  /\ part = "reload" \/ (speaker /\ cur = Observe)
  /\ part = "view" \/ ribBudget = (CHOOSE s \in RibStarts : TRUE).budget

PartNext ==
  \/ part = "reload" /\ Next /\ UNCHANGED <<ribVars, part>>
  \/ part = "view" /\ RibNext /\ UNCHANGED <<vars, part>>

PartSpec == PartInit /\ [][PartNext]_<<vars, ribVars, part>>
=============================================================================
