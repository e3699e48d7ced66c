------------------------------ MODULE Upgrade ------------------------------
(***************************************************************************)
(* One-click upgrade and rollback (internal/upgrade and                    *)
(* cmd/controller/upgrade.go): state.json names the version to run, the    *)
(* installed binary (the base) hands over to it at every start, and a      *)
(* version that does not stay up is dropped for the previous one.          *)
(*                                                                         *)
(* Inside a process three activities meet: an Apply or Rollback request,   *)
(* the confirm timer and the shutdown.  Confirm, Abort and Pending exclude *)
(* each other (mu); switchTo reads and writes state.json without mu.  A    *)
(* crash can come between any two steps; save is atomic (a rename).        *)
(*                                                                         *)
(* Versions are numbers in the order of Compare.  Signatures, checksums    *)
(* and the trial run decide only whether an Apply gets as far as switchTo; *)
(* a trial says nothing about staying up.                                  *)
(***************************************************************************)
EXTENDS Integers, FiniteSets

CONSTANTS
  Version,     \* the releases that can be staged
  Bad,         \* those that never stay up until the confirm timer
  MaxAttempts, \* starts a version has to stay up in
  Faults,      \* which of the special faults below happen
  MaxEvents    \* bound on requests, crashes, signals and faults

\* The installed binary, older than every release staged over it.
Base == 0
None == -1

ASSUME UpgradeAssumption ==
  /\ Version \subseteq Nat \ {Base} /\ Bad \subseteq Version
  /\ MaxAttempts \in Nat \ {0} /\ MaxEvents \in Nat
  /\ Faults \subseteq {"early", "exec", "save", "disk", "delete"}

VARIABLES
  state,   \* state.json
  files,   \* the staged versions that are on disk and unchanged
  proc,    \* the process: where it is, its version, whether a signal came
  confirm, \* the confirm timer and what Confirm has loaded
  op,      \* the Apply or Rollback in progress
  pending, \* Manager.pending and Manager.undo
  events,  \* how many requests, crashes, signals and faults there were
  starts,  \* starts[v]: how often v was started since it was last chosen
  stayed   \* stayed[v]: v stayed up once since it was last chosen; "was" in
           \* op and pending is stayed of the target before it was chosen

vars == <<state, files, proc, confirm, op, pending, events, starts, stayed>>

State == [on : BOOLEAN, active : Version \cup {Base},
          previous : Version \cup {Base, None}, attempts : Nat,
          confirmed : BOOLEAN]

NoState == [on |-> FALSE, active |-> Base, previous |-> None, attempts |-> 0,
            confirmed |-> FALSE]

TypeOK ==
  /\ state \in State
  /\ files \subseteq Version
  /\ proc \in [at : {"down", "launch", "init", "up", "stopping"},
               ver : Version \cup {Base}, signal : BOOLEAN]
  /\ confirm \in [at : {"off", "armed", "loaded", "done"}, st : State]
  /\ op \in [at : {"idle", "staged", "loaded", "saved"},
             target : Version \cup {Base}, st : State, was : BOOLEAN]
  /\ pending \in [on : BOOLEAN, target : Version \cup {Base}, undo : State,
                  was : BOOLEAN]
  /\ events \in 0..MaxEvents
  /\ starts \in [Version -> Nat]
  /\ stayed \in [Version -> BOOLEAN]

\* The process was started from a staged binary (LaunchedEnv).
Launched == proc.ver # Base

Serving == proc.at \in {"up", "stopping"}

NoOp == [at |-> "idle", target |-> Base, st |-> NoState, was |-> FALSE]
NoSwitch == [on |-> FALSE, target |-> Base, undo |-> NoState, was |-> FALSE]
Timer(at) == [at |-> at, st |-> NoState]

Event == events < MaxEvents /\ events' = events + 1

\* The memory of a process that begins or ends is empty.
Fresh == /\ confirm' = Timer("off") /\ op' = NoOp /\ pending' = NoSwitch

Init ==
  /\ state = NoState /\ files = {}
  /\ proc = [at |-> "down", ver |-> Base, signal |-> FALSE]
  /\ confirm = Timer("off") /\ op = NoOp /\ pending = NoSwitch
  /\ events = 0
  /\ starts = [v \in Version |-> 0] /\ stayed = [v \in Version |-> FALSE]

-----------------------------------------------------------------------------
(* The life of a process. *)

Down == [at |-> "down", ver |-> Base, signal |-> FALSE]

\* The supervisor always starts the installed binary.
Boot ==
  /\ proc.at = "down"
  /\ proc' = [at |-> "launch", ver |-> Base, signal |-> FALSE]
  /\ UNCHANGED <<state, files, confirm, op, pending, events, starts, stayed>>

\* exec of version v: a staged one is marked and skips the launcher.
Exec(v) ==
  /\ proc' = [at |-> IF v = Base THEN "launch" ELSE "init", ver |-> v,
              signal |-> FALSE]
  /\ starts' = IF v = Base THEN starts ELSE [starts EXCEPT ![v] = @ + 1]
  /\ Fresh

\* Relaunch has nothing to hand over to.
LaunchBase ==
  /\ proc.at = "launch"
  /\ ~state.on \/ state.active = Base
  /\ proc' = [proc EXCEPT !.at = "init"]
  /\ UNCHANGED <<state, files, confirm, op, pending, events, starts, stayed>>

\* A variant of Dropped that counts one start too many.
DroppedLate(st) ==
  \/ st.active \notin files
  \/ ~st.confirmed /\ st.attempts > MaxAttempts

\* Relaunch gives up on the active version: its file is gone or changed, or
\* it has not stayed up.
Dropped(st) ==
  \/ st.active \notin files
  \/ ~st.confirmed /\ st.attempts >= MaxAttempts

\* revert
Reverted(st) ==
  [st EXCEPT !.active = IF st.previous = None THEN Base ELSE st.previous,
             !.previous = None, !.attempts = 0, !.confirmed = TRUE]

\* A variant of LaunchRevert that needs a rollback target.
LaunchRevertOnce ==
  /\ proc.at = "launch" /\ state.on /\ state.active # Base
  /\ Dropped(state) /\ state.previous # None
  /\ state' = Reverted(state)
  /\ UNCHANGED <<files, proc, confirm, op, pending, events, starts, stayed>>

\* One turn of Relaunch's loop.  Two turns reach the base, so its bound of
\* three is never what ends it.
LaunchRevert ==
  /\ proc.at = "launch" /\ state.on /\ state.active # Base
  /\ Dropped(state)
  /\ state' = Reverted(state)
  /\ UNCHANGED <<files, proc, confirm, op, pending, events, starts, stayed>>

LaunchStaged ==
  /\ proc.at = "launch" /\ state.on /\ state.active # Base
  /\ ~Dropped(state)
  /\ state' = [state EXCEPT !.attempts = @ + 1]
  /\ Exec(state.active)
  /\ UNCHANGED <<files, events, stayed>>

\* The exec fails after the start was counted, or the state could not be
\* saved: this process runs on as the base.
LaunchFails ==
  /\ proc.at = "launch" /\ state.on /\ state.active # Base
  /\ Event
  /\ \/ /\ "exec" \in Faults /\ ~Dropped(state)
        /\ state' = [state EXCEPT !.attempts = @ + 1]
     \/ "save" \in Faults /\ UNCHANGED state
  /\ proc' = [proc EXCEPT !.at = "init"]
  /\ UNCHANGED <<files, confirm, op, pending, starts, stayed>>

\* The launcher finds a state that was made for another installed version.
Discard ==
  /\ proc.at = "launch" /\ state.on
  /\ "delete" \in Faults /\ Event
  /\ state' = NoState
  /\ UNCHANGED <<files, proc, confirm, op, pending, starts, stayed>>

\* A variant of Kept that forgets the rollback target.
KeptActive(st) == IF st.on THEN files \cap {st.active} ELSE files

\* prune
Kept(st) == IF st.on THEN files \cap {st.active, st.previous} ELSE files

\* New: a staged process needs the state, and everybody prunes.  The confirm
\* timer runs in a staged process only.
StartUp ==
  /\ proc.at = "init"
  /\ IF Launched /\ ~state.on
       THEN proc' = Down /\ UNCHANGED <<files, confirm>>
       ELSE /\ proc' = [proc EXCEPT !.at = "up"]
            /\ files' = Kept(state)
            /\ confirm' = Timer(IF Launched THEN "armed" ELSE "off")
  /\ UNCHANGED <<state, op, pending, events, starts, stayed>>

Die == proc' = Down /\ Fresh /\ UNCHANGED <<state, files, starts, stayed>>

\* Any process may crash, and a bad version does.
Crash == proc.at # "down" /\ Event /\ Die
BadExit ==
  /\ proc.at \in {"init", "up"} /\ proc.ver \in Bad
  /\ Die
  /\ UNCHANGED events

\* A staged file is lost or changed on disk.
FileLost(v) ==
  /\ "disk" \in Faults /\ v \in files /\ Event
  /\ files' = files \ {v}
  /\ UNCHANGED <<state, proc, confirm, op, pending, starts, stayed>>

\* The operator deletes state.json.
StateDeleted ==
  /\ "delete" \in Faults /\ state.on /\ Event
  /\ state' = NoState
  /\ UNCHANGED <<files, proc, confirm, op, pending, starts, stayed>>

-----------------------------------------------------------------------------
(* confirmUpgrade and Confirm. *)

\* Confirm holds mu between its load and its save.
MuFree == confirm.at # "loaded"

\* The version has stayed up for confirmAfter.
ConfirmLoad ==
  /\ Serving /\ confirm.at = "armed" /\ proc.ver \notin Bad
  /\ stayed' = [stayed EXCEPT ![proc.ver] = TRUE]
  /\ confirm' = IF state.on /\ ~state.confirmed
                  THEN [at |-> "loaded", st |-> state]
                  ELSE Timer("done")
  /\ UNCHANGED <<state, files, proc, op, pending, events, starts>>

ConfirmSave ==
  /\ confirm.at = "loaded"
  /\ state' = [confirm.st EXCEPT !.confirmed = TRUE, !.attempts = 0]
  /\ confirm' = Timer("done")
  /\ UNCHANGED <<files, proc, op, pending, events, starts, stayed>>

ConfirmSaveFails ==
  /\ confirm.at = "loaded"
  /\ "save" \in Faults /\ Event
  /\ confirm' = Timer("done")
  /\ UNCHANGED <<state, files, proc, op, pending, starts, stayed>>

-----------------------------------------------------------------------------
(* Apply and Rollback. *)

\* begin.  Without the fault "early" nobody asks while the running version
\* has yet to be confirmed.
Begin ==
  /\ proc.at = "up" /\ MuFree
  /\ op.at = "idle" /\ ~pending.on
  /\ confirm.at = "armed" => "early" \in Faults
  /\ Event

Staged(v) == [NoOp EXCEPT !.at = "staged", !.target = v]

\* apply, up to switchTo: a newer release is on disk.
Apply(v) ==
  /\ Begin
  /\ v > proc.ver
  /\ files' = files \cup {v}
  /\ op' = Staged(v)
  /\ UNCHANGED <<state, proc, confirm, pending, starts, stayed>>

\* rollback, up to switchTo.
Rollback ==
  /\ Begin
  /\ state.on /\ state.previous \in files \cup {Base}
  /\ op' = Staged(state.previous)
  /\ UNCHANGED <<state, files, proc, confirm, pending, starts, stayed>>

\* switchTo loads the state, or makes the first one.
SwitchLoad ==
  /\ Serving /\ op.at = "staged"
  /\ op' = [op EXCEPT !.at = "loaded", !.st = [state EXCEPT !.on = TRUE]]
  /\ UNCHANGED <<state, files, proc, confirm, pending, events, starts, stayed>>

\* The coming exec counts as the first start.
Switched(st, v) ==
  [on |-> TRUE, active |-> v, previous |-> st.active,
   attempts |-> IF v = Base THEN 0 ELSE 1, confirmed |-> v = Base]

SwitchSave ==
  /\ Serving /\ op.at = "loaded"
  /\ state' = Switched(op.st, op.target)
  /\ IF op.target = Base
       THEN op' = [op EXCEPT !.at = "saved"] /\ UNCHANGED <<starts, stayed>>
       ELSE /\ op' = [op EXCEPT !.at = "saved", !.was = stayed[op.target]]
            /\ starts' = [starts EXCEPT ![op.target] = 0]
            /\ stayed' = [stayed EXCEPT ![op.target] = FALSE]
  /\ UNCHANGED <<files, proc, confirm, pending, events>>

\* A variant of SwitchFails that prepares the switch all the same.
SwitchFailsAnyway ==
  /\ Serving /\ op.at = "loaded" /\ MuFree
  /\ "save" \in Faults /\ Event
  /\ pending' = [on |-> TRUE, target |-> op.target, undo |-> op.st,
                 was |-> op.was]
  /\ op' = NoOp
  /\ UNCHANGED <<state, files, proc, confirm, starts, stayed>>

SwitchFails ==
  /\ Serving /\ op.at = "loaded"
  /\ "save" \in Faults /\ Event
  /\ op' = NoOp
  /\ UNCHANGED <<state, files, proc, confirm, pending, starts, stayed>>

SwitchPend ==
  /\ Serving /\ op.at = "saved" /\ MuFree
  /\ pending' = [on |-> TRUE, target |-> op.target, undo |-> op.st,
                 was |-> op.was]
  /\ op' = NoOp
  /\ UNCHANGED <<state, files, proc, confirm, events, starts, stayed>>

-----------------------------------------------------------------------------
(* Shutdown and finishUpgrade. *)

\* StopDelay after the switch was prepared.
Stop ==
  /\ proc.at = "up" /\ pending.on
  /\ proc' = [proc EXCEPT !.at = "stopping"]
  /\ UNCHANGED <<state, files, confirm, op, pending, events, starts, stayed>>

Signal ==
  /\ Serving /\ ~proc.signal /\ Event
  /\ proc' = [proc EXCEPT !.at = "stopping", !.signal = TRUE]
  /\ UNCHANGED <<state, files, confirm, op, pending, starts, stayed>>

\* No switch was prepared: the process just ends.
FinishPlain ==
  /\ proc.at = "stopping" /\ MuFree /\ ~pending.on
  /\ Die
  /\ UNCHANGED events

Undone(st) == [pending.undo EXCEPT !.on = st.on]

\* A signal came, or the shutdown failed: the state goes back.
Abort ==
  /\ proc.at = "stopping" /\ MuFree /\ pending.on
  /\ \/ proc.signal /\ UNCHANGED events
     \/ ~proc.signal /\ Event
  /\ state' = IF state.on THEN Undone(state) ELSE state
  /\ proc' = Down /\ Fresh
  /\ stayed' = IF pending.target = Base THEN stayed
               ELSE [stayed EXCEPT ![pending.target] = pending.was]
  /\ UNCHANGED <<files, starts>>

FinishExec ==
  /\ proc.at = "stopping" /\ MuFree /\ pending.on /\ ~proc.signal
  /\ Exec(pending.target)
  /\ UNCHANGED <<state, files, events, stayed>>

\* The exec fails, or Abort cannot save: the process ends with the switch
\* recorded.
FinishFails ==
  /\ proc.at = "stopping" /\ MuFree /\ pending.on
  /\ "save" \in Faults \/ ("exec" \in Faults /\ ~proc.signal)
  /\ Event
  /\ Die

-----------------------------------------------------------------------------
Startup == Boot \/ LaunchBase \/ LaunchRevert \/ LaunchStaged \/ StartUp

Confirming == ConfirmLoad \/ ConfirmSave

Switching == SwitchLoad \/ SwitchSave \/ SwitchPend

Finishing == Stop \/ FinishPlain \/ Abort \/ FinishExec

Next ==
  \/ Startup \/ BadExit \/ Confirming \/ Switching \/ Finishing
  \/ LaunchFails \/ ConfirmSaveFails \/ SwitchFails \/ FinishFails
  \/ Crash \/ Signal \/ Discard \/ StateDeleted \/ Rollback
  \/ \E v \in Version : Apply(v) \/ FileLost(v)

\* A supervisor restarts the process, goroutines run, timers fire, and a bad
\* version does not stay up.
Fairness ==
  /\ WF_vars(Startup) /\ WF_vars(BadExit) /\ WF_vars(Confirming)
  /\ WF_vars(Switching) /\ WF_vars(Finishing)

Spec == Init /\ [][Next]_vars /\ Fairness

-----------------------------------------------------------------------------
(* Properties. *)

\* "A staged version that fails to start twice in a row without staying up
\* for 30 seconds is dropped": whatever crashes, restarts, switches and
\* reverts came in between, a version chosen by Apply or Rollback that has
\* not stayed up since is not started more often than MaxAttempts.
DroppedAfterTwo ==
  \A v \in Version : ~stayed[v] => starts[v] <= MaxAttempts

\* A staged process is what state.json says should run, unless a switch is
\* under way or the state was deleted: the switch was recorded (switchTo) and
\* no later save of Confirm or Abort took it back.
RunsWhatIsRecorded ==
  Launched /\ proc.at \in {"init", "up"} /\ op.at # "saved" /\ ~pending.on
    /\ state.on => state.active = proc.ver

\* "the previous version stays on disk": neither prune nor an aborted switch
\* loses the version to run or the rollback target.
RollbackOnDisk ==
  state.on => {state.active, state.previous} \ {Base, None} \subseteq files

\* switchTo "remembers what ran as the rollback target".
RemembersWhatRan ==
  [][SwitchSave => state'.previous = proc.ver]_vars

\* A switch whose shutdown fails or is cut short by a signal leaves the state
\* naming the version that ran, so the next start runs it again.
AbortKeepsCurrent == [][Abort /\ state.on => state'.active = proc.ver]_vars

\* However often bad versions are applied, the controller comes up again in a
\* version that stays up: no crash loop is for ever.
Recovers == []<>(proc.at = "up" /\ proc.ver \notin Bad)

-----------------------------------------------------------------------------
(* The inductive invariants. *)

\* The memory of a process that does not serve yet is empty.
QuietInv ==
  /\ ~Serving => op = NoOp /\ confirm = Timer("off") /\ pending = NoSwitch
  /\ proc.at \in {"down", "launch"} => ~Launched

\* What a state names is on disk, in state.json and in every copy of it.
Safe(st, disk) == {st.active, st.previous} \ {Base, None} \subseteq disk

DiskInv ==
  /\ Safe(state, files) /\ Safe(confirm.st, files) /\ Safe(op.st, files)
  /\ Safe(pending.undo, files)
  /\ op.target \in files \cup {Base}

\* No switch is under way while Confirm is still to come or runs.
ConfirmInv ==
  confirm.at \in {"armed", "loaded"} =>
    Launched /\ op.at = "idle" /\ ~pending.on

\* state.json names the target of a switch once it is saved, and else the
\* staged version that runs, which is also what Confirm writes.
RecordInv ==
  /\ confirm.at = "loaded" => confirm.st.on /\ confirm.st.active = proc.ver
  /\ pending.on => op.at = "idle"
  /\ op.at = "saved" /\ state.on => state.active = op.target
  /\ pending.on /\ state.on => state.active = pending.target
  /\ Launched /\ op.at # "saved" /\ ~pending.on /\ state.on =>
       state.active = proc.ver

\* As RecordInv, for the installed binary; a switch leaves what runs.
BaseInv ==
  /\ proc.at \in {"init", "up", "stopping"} /\ ~Launched
       /\ op.at # "saved" /\ ~pending.on /\ state.on => state.active = Base
  /\ op.at \in {"loaded", "saved"} => op.st.active \in {proc.ver, Base}
  /\ op.at # "idle" /\ op.target \in Version => op.target # proc.ver

\* What is not in use is empty.
EmptyInv ==
  /\ ~state.on => state = NoState
  /\ confirm.at # "loaded" => confirm.st = NoState
  /\ ~pending.on => pending = NoSwitch

\* A rollback target has stayed up, and so has a confirmed version.
Proven(st, good) ==
  /\ st.previous \in Version => good[st.previous] /\ st.previous # st.active
  /\ st.confirmed /\ st.active \in Version => good[st.active]

\* The same of the state a switch to t can go back to, when was is what was
\* known of t.
ProvenBefore(st, t, was, good) ==
  /\ st.previous \in Version =>
       /\ IF st.previous = t THEN was ELSE good[st.previous]
       /\ st.previous # st.active
  /\ st.active \in Version => good[st.active] /\ st.active # t

ProvenInv ==
  /\ Serving /\ Launched => confirm.at # "off"
  /\ confirm.at \in {"loaded", "done"} => Launched /\ stayed[proc.ver]
  /\ Proven(state, stayed) /\ Proven(confirm.st, stayed)
  /\ op.at = "loaded" =>
       /\ Proven(op.st, stayed)
       /\ op.st.active \in Version => stayed[op.st.active]
  /\ op.at = "saved" => ProvenBefore(op.st, op.target, op.was, stayed)
  /\ pending.on =>
       ProvenBefore(pending.undo, pending.target, pending.was, stayed)

\* Starts are counted before they happen.
CountInv ==
  /\ state.on /\ state.active \in Version /\ ~stayed[state.active] =>
       starts[state.active] <= state.attempts
  /\ op.at = "saved" /\ op.target \in Version =>
       starts[op.target] = 0 /\ (state.on => state.attempts >= 1)
  /\ pending.on /\ pending.target \in Version =>
       starts[pending.target] = 0 /\ (state.on => state.attempts >= 1)

\* A staged process has a state, and a switch starts from what runs.
RanInv ==
  /\ Launched \/ op.at = "saved" \/ pending.on => state.on
  /\ op.at \in {"loaded", "saved"} => op.st.active = proc.ver
  /\ pending.on => pending.undo.active = proc.ver
=============================================================================
