------------------------------- MODULE MCFeed -------------------------------
(* Feed on one prefix: the prefixes are handled alike, and the revision, the  *)
(* expiry and the deadline are of the whole document. The lifetime is three   *)
(* intervals, the least the configuration accepts.                            *)
EXTENDS Feed, TLC

CONSTANTS p1

-----------------------------------------------------------------------------
(***************************************************************************)
(* States that agree on the view have the same futures: a timer, a target  *)
(* or a revision counts only where an action still reads it.  No action    *)
(* reads lag, and WithdrawPrompt reads it only while healthy, which a feed *)
(* never becomes again.                                                    *)
(***************************************************************************)
ConsumerView ==
  IF con.at = "stopped" THEN <<con.started, con.error>>
  ELSE [con EXCEPT !.next = IF con.at = "put" THEN @ ELSE "top",
                   !.timer = IF con.at \in {"fetch", "put", "pause"} THEN @ ELSE 0]

RequestView ==
  [req EXCEPT !.rev = IF req.wait /\ req.at \in {"sent", "armed", "parked"} THEN @ ELSE 0,
              !.changed = IF req.at \in {"armed", "parked"} THEN @ ELSE 0,
              !.wait = IF req.at = "sent" THEN @ ELSE TRUE,
              !.timer = IF req.at \in {"armed", "parked", "answer"} THEN @ ELSE 0]

FeedView ==
  <<ctl, feed, inner, call, torn, round, RequestView, ConsumerView, daemon, half,
    renewed, IF healthy THEN lag ELSE <<>>, healthy, events>>
=============================================================================
