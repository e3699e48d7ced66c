------------------------------ MODULE MCProbe ------------------------------
(***************************************************************************)
(* The probe engine on small instances.  Each scope gives the events from  *)
(* outside a budget; together they fire every action.                      *)
(***************************************************************************)
EXTENDS Probe, TLC

T(e, u) == [every |-> e, urgent |-> u]
Plain == (1 :> T(0, FALSE)) @@ (2 :> T(0, FALSE))
MCLists == {Nothing, 1 :> T(1, FALSE), Plain}
MCReach == {<<1, 1>>, <<2, 1>>, <<1, 2>>, <<1, 3>>}

None == [k \in {"probe", "source", "fail", "down", "urgent", "retain", "manual", "timing", "path", "list"} |-> 0]
Start(ls, i, f) == [lists |-> ls, base |-> i, budget |-> f @@ None]
One == (1 :> Plain) @@ (2 :> Nothing)
Vip == (1 :> Plain) @@ (2 :> (1 :> T(1, FALSE)))

MCProbeStarts == {
  \* slow probes, results that meet the deadline, sources without a usable address
  Start(One, 2, "probe" :> 2 @@ "source" :> 1),
  Start(One, 2, "probe" :> 1 @@ "down" :> 1 @@ "path" :> 2),
  \* sources that fail, are late and change
  Start(One, 2, "source" :> 2 @@ "fail" :> 1),
  Start(One, 2, "source" :> 1 @@ "list" :> 1),
  \* a short interval, prefixes that are retained, queued or being confirmed
  Start(Vip, 2, "list" :> 1 @@ "retain" :> 1),
  Start(Vip, 4, "urgent" :> 1),
  Start(One, 4, "urgent" :> 1),
  Start(Vip, 4, "urgent" :> 1 @@ "timing" :> 1),
  Start(One, 2, "manual" :> 2) }
=============================================================================
