------------------------------ MODULE MCView -------------------------------
(***************************************************************************)
(* The learned view on small instances.  Each scope gives the events from  *)
(* outside a budget; together they fire every action.                      *)
(***************************************************************************)
EXTENDS Rib, TLC

Path(v, lp, own) == [prov |-> v, lp |-> lp, len |-> 1, own |-> own]
MCUsage == <<"prefer", "only">>
MCNbrPaths == {Path(1, 1, FALSE), Path(2, 2, FALSE), Path(1, 1, TRUE)}
MCBmpPaths == {Path(0, 1, FALSE), Path(2, 1, FALSE)}

MCRoutes ==
  [src : {"ibgp"}, key : AdjKey, path : MCNbrPaths] \cup [src : {"bmp"}, key : {<<k>> : k \in Peer}, path : MCBmpPaths]

None == [k \in {"up", "lose", "send", "reload", "drop", "fail", "conn", "bmp", "read"} |-> 0]
With(f) == f @@ None

MCRibStarts == {
  \* one router, its session flapping, add-path capability reads
  [nbrs |-> {1}, budget |-> With("up" :> 2 @@ "lose" :> 1 @@ "send" :> 2 @@ "fail" :> 1)],
  \* two routers, a reload
  [nbrs |-> {1}, budget |-> With("up" :> 2 @@ "send" :> 1 @@ "reload" :> 2 @@ "fail" :> 1)],
  \* a drop of the sessions during a reload
  [nbrs |-> {1}, budget |-> With("up" :> 2 @@ "reload" :> 2 @@ "drop" :> 1 @@ "fail" :> 1)],
  \* a monitored router that reconnects
  [nbrs |-> {}, budget |-> With("conn" :> 2 @@ "bmp" :> 3 @@ "fail" :> 1)],
  \* both sources, and full-table readers
  [nbrs |-> {1}, budget |-> With("up" :> 1 @@ "send" :> 1 @@ "conn" :> 1 @@ "bmp" :> 2)],
  [nbrs |-> {1}, budget |-> With("up" :> 1 @@ "send" :> 3 @@ "read" :> 2)] }
=============================================================================
