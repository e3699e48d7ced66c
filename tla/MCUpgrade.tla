----------------------------- MODULE MCUpgrade -----------------------------
(***************************************************************************)
(* Three releases over the installed binary; which of them never stay up   *)
(* is up to the configuration.                                             *)
(***************************************************************************)
EXTENDS Upgrade

(***************************************************************************)
(* A start count is compared with MaxAttempts and nothing else, so a crash *)
(* loop of a confirmed version changes nothing once it has passed that.    *)
(***************************************************************************)
Capped(x) == IF x > MaxAttempts THEN MaxAttempts + 1 ELSE x
CappedState(st) == [st EXCEPT !.attempts = Capped(@)]

UpgradeView ==
  <<CappedState(state), files, proc,
    [confirm EXCEPT !.st = CappedState(@)], [op EXCEPT !.st = CappedState(@)],
    [pending EXCEPT !.undo = CappedState(@)], events,
    [v \in Version |-> Capped(starts[v])], stayed>>
=============================================================================
