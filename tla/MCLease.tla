------------------------------ MODULE MCLease ------------------------------
(***************************************************************************)
(* Two instances with the same ttl; one time unit is the renew interval.   *)
(***************************************************************************)
EXTENDS Lease, TLC

CONSTANTS a, b

MCTTL == [n \in Node |-> 4]
MCRenew == [n \in Node |-> 1]

-----------------------------------------------------------------------------
(***************************************************************************)
(* No action reads the clock but in a comparison of two times, no action   *)
(* reads a start count but to compare a token with the record's, and no    *)
(* action reads what has no meaning where the instance is.  States that    *)
(* agree on the view below therefore have the same futures (up to MaxTime  *)
(* and MaxStarts, which are out of reach), and TLC keeps one of each.      *)
(***************************************************************************)
AtMost(x, cap) == IF x > cap THEN cap ELSE x
AtLeast0(x) == IF x < 0 THEN 0 ELSE x
LongestWait == 4

Foreign(n) ==
  \/ file.kind = "garbage"
  \/ file.kind = "lease" /\ ~file.released /\ ~Mine(n)

TickView(n) ==
  CASE tick[n] = "idle" -> <<>>
    [] tick[n] = "lock" /\ ~cand[n].eligible -> <<FALSE>>
    [] OTHER -> <<TRUE, cand[n].hold,
                  IF life[n] = "stopped" THEN 0
                  ELSE AtMost(now - start[n], Half(n))>>

SeenView(n) ==
  CASE ~Foreign(n) -> <<>>
    [] ~seen[n]    -> <<FALSE>>
    [] OTHER       -> <<TRUE, AtMost(now - lastChange[n], LongestWait)>>

InstanceView(n) ==
  IF life[n] = "down" THEN <<>>
  ELSE <<life[n], active[n], tick[n], resign[n],
         IF active[n] THEN AtMost(now - lastOK[n], Half(n)) ELSE 0,
         AtLeast0(noAcquire[n] - now),
         SeenView(n), TickView(n)>>

LeaseView == <<[file EXCEPT !.start = (@ = starts[file.node])],
               [n \in Node |-> InstanceView(n)]>>

Symmetry == Permutations(Node)
=============================================================================
