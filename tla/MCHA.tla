-------------------------------- MODULE MCHA --------------------------------
(***************************************************************************)
(* Two instances, one renew interval per time unit, haWithdrawSettle of    *)
(* one unit.                                                               *)
(***************************************************************************)
EXTENDS HA, TLC

CONSTANTS a, b

MCTTL == [n \in Node |-> 4]
MCRenew == [n \in Node |-> 1]

-----------------------------------------------------------------------------
(***************************************************************************)
(* As for the lease alone, times matter as differences and only where an   *)
(* action reads them: states that agree on the view have the same futures  *)
(* up to MaxTime and MaxStarts, which are out of reach.                    *)
(***************************************************************************)
AtMost(x, cap) == IF x > cap THEN cap ELSE x
AtLeast0(x) == IF x < 0 THEN 0 ELSE x
LongestWait ==
  3 + CHOOSE h \in Hold : \A g \in Hold : g <= h

SeenView(n) ==
  IF file.kind = "none" \/ (file.kind = "lease" /\ (file.released \/ Mine(n)))
    THEN <<>>
    ELSE <<seen[n], IF seen[n] THEN AtMost(now - lastChange[n], LongestWait)
                    ELSE 0>>

InstanceView(n) ==
  IF life[n] = "down" THEN <<starts[n], AtLeast0(until[n] - now)>>
  ELSE <<starts[n], life[n], active[n],
         IF active[n] \/ paths[n] \/ syncing[n]
           THEN AtMost(now - lastOK[n], Half(n) + 1) ELSE 0,
         AtLeast0(noAcquire[n] - now), changed[n],
         SeenView(n), ticked[n],
         health[n], hold[n], storage[n], was[n], handler[n], main[n],
         IF handler[n] = "settle" THEN AtLeast0(wakeAt[n] - now) ELSE 0,
         IF main[n] = "settle" THEN AtLeast0(stopAt[n] - now) ELSE 0,
         syncing[n], paths[n], AtLeast0(until[n] - now)>>

\* The instances without their names, which nothing but the record mentions.
HAView ==
  <<events, healed, [file EXCEPT !.node = 0, !.start = (@ = starts[file.node])],
    {<<file.node = n, InstanceView(n)>> : n \in Node}>>

\* Crashes, shutdowns and restarts are explored where nothing that was lost came
\* back and no drop failed; after that a second loss only of a lone instance.
Scope ==
  healed =>
    /\ \A n \in Node : /\ starts[n] <= 1
                       /\ starts[n] = 1 => life[n] = "running" /\ main[n] = "run"
    /\ \/ \E n \in Node : starts[n] = 0
       \/ \A n \in Node : storage[n] /\ health[n] # "lost"
=============================================================================
