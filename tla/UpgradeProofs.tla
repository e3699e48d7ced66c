--------------------------- MODULE UpgradeProofs ---------------------------
(***************************************************************************)
(* What Upgrade guarantees for every set of versions, every set of bad     *)
(* ones and any number of requests, crashes and signals.                   *)
(***************************************************************************)
EXTENDS Upgrade, TLAPS

-----------------------------------------------------------------------------
(* Every way in which the code derives a state from another yields one. *)

\* Of no state.json.
LEMMA NoStateType == NoState \in State
BY Zenon DEF NoState, State, Base, None

\* Of revert.
LEMMA RevertedType ==
  ASSUME NEW st \in State
  PROVE  Reverted(st) \in State
BY ZenonT(60) DEF State, Reverted

\* Of switchTo.
LEMMA SwitchedType ==
  ASSUME NEW st \in State, NEW v \in Version \cup {Base}
  PROVE  Switched(st, v) \in State
BY Zenon DEF State, Switched

\* Of a counted start and of Confirm.
LEMMA UpdateType ==
  ASSUME NEW st \in State, NEW b \in BOOLEAN
  PROVE  /\ [st EXCEPT !.on = b] \in State
         /\ [st EXCEPT !.attempts = @ + 1] \in State
         /\ [st EXCEPT !.confirmed = TRUE, !.attempts = 0] \in State
<1>1. [st EXCEPT !.on = b] \in State
  BY Zenon DEF State
<1>2. [st EXCEPT !.attempts = @ + 1] \in State
  BY DEF State
<1>3. [st EXCEPT !.confirmed = TRUE, !.attempts = 0] \in State
  BY ZenonT(60) DEF State
<1> QED
  BY <1>1, <1>2, <1>3, Zenon

\* What a state consists of.
LEMMA StateFields ==
  ASSUME NEW st \in State
  PROVE  /\ st.on \in BOOLEAN /\ st.confirmed \in BOOLEAN
         /\ st.active \in Version \cup {Base}
         /\ st.previous \in Version \cup {Base, None}
         /\ st.attempts \in Nat
BY Zenon DEF State

-----------------------------------------------------------------------------
\* Every step keeps the types.
LEMMA TypeStep == TypeOK /\ [Next]_vars => TypeOK'
<1> DEFINE Goal == TypeOK
<1> SUFFICES ASSUME TypeOK, [Next]_vars PROVE Goal'
  BY Zenon
<1> USE UpgradeAssumption, NoStateType
<1> USE DEF TypeOK, Event
<1>1. CASE Boot
  BY <1>1, Zenon
    DEF NoOp, NoSwitch, Timer, Base, Boot
<1>2. CASE LaunchBase
  BY <1>2, Zenon
    DEF LaunchBase
<1>3. CASE LaunchRevert
  BY <1>3, RevertedType
    DEF LaunchRevert
<1>4. CASE LaunchStaged
  <2>1. state' \in State
    BY ZenonT(60), <1>4, UpdateType DEF LaunchStaged
  <2>2. state.active \in Version
    BY <1>4, StateFields, Zenon DEF LaunchStaged
  <2> QED
    BY <1>4, <2>1, <2>2
      DEF LaunchStaged, Exec, Fresh, NoOp, NoSwitch, Timer, Base
<1>5. CASE StartUp
  <2>1. proc' \in [at : {"down", "launch", "init", "up", "stopping"},
                   ver : Version \cup {Base}, signal : BOOLEAN]
    <3>1. CASE Launched /\ ~state.on
      <4>1. proc' = Down
        BY <1>5, <3>1, Zenon DEF StartUp
      <4> QED
        BY <4>1, Zenon DEF Down
    <3>2. CASE ~(Launched /\ ~state.on)
      BY <1>5, <3>2 DEF StartUp
    <3> QED
      BY <3>1, <3>2, Zenon
  <2>2. files' \subseteq Version
    BY <1>5, Zenon DEF StartUp, Kept
  <2>3. confirm' \in [at : {"off", "armed", "loaded", "done"}, st : State]
    BY <1>5 DEF StartUp, Timer
  <2> QED
    BY <1>5, <2>1, <2>2, <2>3, Zenon DEF StartUp
<1>6. CASE BadExit
  BY <1>6, Zenon
    DEF NoOp, NoSwitch, Timer, Base, BadExit, Die, Down, Fresh
<1>7. CASE ConfirmLoad
  <2>1. confirm' \in [at : {"off", "armed", "loaded", "done"}, st : State]
    BY <1>7, Zenon DEF ConfirmLoad, Timer
  <2> QED
    BY ZenonT(60), <1>7, <2>1 DEF ConfirmLoad
<1>8. CASE ConfirmSave
  <2>1. state' \in State
    BY ZenonT(60), <1>8, UpdateType DEF ConfirmSave
  <2>2. confirm' \in [at : {"off", "armed", "loaded", "done"}, st : State]
    BY <1>8, Zenon DEF ConfirmSave, Timer
  <2> QED
    BY <1>8, <2>1, <2>2 DEF ConfirmSave
<1>9. CASE SwitchLoad
  <2>1. [state EXCEPT !.on = TRUE] \in State
    BY ZenonT(60), UpdateType
  <2> QED
    BY ZenonT(60), <1>9, <2>1 DEF SwitchLoad
<1>10. CASE SwitchSave
  <2>1. state' \in State
    BY <1>10, SwitchedType, Zenon DEF SwitchSave
  <2>2. op.target \in Version \cup {Base}
    BY Zenon
  <2>3. CASE op.target = Base
    BY <1>10, <2>1, <2>3 DEF SwitchSave
  <2>4. CASE op.target # Base
    <3>1. op' = [op EXCEPT !.at = "saved", !.was = stayed[op.target]]
      BY <1>10, <2>4, Zenon DEF SwitchSave
    <3>2. op' \in [at : {"idle", "staged", "loaded", "saved"},
                  target : Version \cup {Base}, st : State, was : BOOLEAN]
      BY ZenonT(60), <3>1, <2>2, <2>4
    <3>3. starts' \in [Version -> Nat] /\ stayed' \in [Version -> BOOLEAN]
      <4>1. /\ starts' = [starts EXCEPT ![op.target] = 0]
            /\ stayed' = [stayed EXCEPT ![op.target] = FALSE]
        BY <1>10, <2>4, Zenon DEF SwitchSave
      <4> QED
        BY <4>1, <2>2, <2>4, Zenon
    <3> QED
      BY <1>10, <2>1, <3>2, <3>3, Zenon DEF SwitchSave
  <2> QED
    BY <2>3, <2>4, Zenon
<1>11. CASE SwitchPend
  <2>1. op' \in [at : {"idle", "staged", "loaded", "saved"},
                  target : Version \cup {Base}, st : State, was : BOOLEAN]
    BY <1>11, Zenon DEF SwitchPend, NoOp, Base
  <2> QED
    BY <1>11, <2>1, Zenon DEF SwitchPend
<1>12. CASE Stop
  BY <1>12, Zenon
    DEF Stop
<1>13. CASE FinishPlain
  BY <1>13, Zenon
    DEF NoOp, NoSwitch, Timer, Base, FinishPlain, Die, Down, Fresh
<1>14. CASE Abort
  <2>1. state' \in State
    BY ZenonT(60), <1>14, UpdateType, StateFields DEF Abort, Undone
  <2>2. stayed' \in [Version -> BOOLEAN]
    BY <1>14, Zenon DEF Abort
  <2> QED
    BY <1>14, <2>1, <2>2 DEF Abort, Down, Fresh, NoOp, NoSwitch, Timer, Base
<1>15. CASE FinishExec
  <2>1. starts' \in [Version -> Nat]
    <3>1. CASE pending.target = Base
      BY <1>15, <3>1, Zenon DEF FinishExec, Exec
    <3>2. CASE pending.target # Base
      <4>1. starts' = [starts EXCEPT ![pending.target] = @ + 1]
        BY <1>15, <3>2, Zenon DEF FinishExec, Exec
      <4>2. pending.target \in Version
        BY <3>2, Zenon
      <4>3. starts \in [Version -> Nat]
        BY Zenon
      <4> HIDE DEF TypeOK
      <4>4. starts[pending.target] \in Nat
        BY ZenonT(60), <4>2, <4>3
      <4> QED
        BY <4>1, <4>2, <4>3, <4>4
    <3> QED
      BY <3>1, <3>2, Zenon
  <2>2. proc' \in [at : {"down", "launch", "init", "up", "stopping"},
                   ver : Version \cup {Base}, signal : BOOLEAN]
    BY <1>15, Zenon DEF FinishExec, Exec
  <2> QED
    BY <1>15, <2>1, <2>2, Zenon
      DEF FinishExec, Exec, Fresh, NoOp, NoSwitch, Timer, Base
<1>16. CASE LaunchFails
  <2>1. state' \in State
    <3>1. [state EXCEPT !.attempts = @ + 1] \in State
      BY ZenonT(60), UpdateType
    <3> QED
      BY <1>16, <3>1, Zenon DEF LaunchFails
  <2> QED
    BY <1>16, <2>1 DEF LaunchFails
<1>17. CASE ConfirmSaveFails
  BY <1>17
    DEF NoOp, NoSwitch, Timer, Base, ConfirmSaveFails
<1>18. CASE SwitchFails
  BY <1>18
    DEF NoOp, NoSwitch, Timer, Base, SwitchFails
<1>19. CASE FinishFails
  BY <1>19
    DEF NoOp, NoSwitch, Timer, Base, FinishFails, Die, Down, Fresh
<1>20. CASE Crash
  BY <1>20
    DEF NoOp, NoSwitch, Timer, Base, Crash, Die, Down, Fresh
<1>21. CASE Signal
  <2>1. proc' \in [at : {"down", "launch", "init", "up", "stopping"},
                   ver : Version \cup {Base}, signal : BOOLEAN]
    BY ZenonT(60), <1>21 DEF Signal
  <2> QED
    BY <1>21, <2>1 DEF Signal
<1>22. CASE Discard
  BY <1>22
    DEF Discard
<1>23. CASE StateDeleted
  BY <1>23
    DEF StateDeleted
<1>24. CASE Rollback
  <2>1. state.previous \in Version \cup {Base}
    BY ZenonT(60), <1>24, StateFields DEF Rollback
  <2>2. op' \in [at : {"idle", "staged", "loaded", "saved"},
                  target : Version \cup {Base}, st : State, was : BOOLEAN]
    BY ZenonT(60), <1>24, <2>1 DEF Rollback, Staged, NoOp
  <2> QED
    BY <1>24, <2>2 DEF Rollback, Begin
<1>25. ASSUME NEW v \in Version, Apply(v) PROVE Goal'
  <2>1. op' \in [at : {"idle", "staged", "loaded", "saved"},
                  target : Version \cup {Base}, st : State, was : BOOLEAN]
    BY ZenonT(60), <1>25 DEF Apply, Staged, NoOp
  <2> QED
    BY <1>25, <2>1 DEF Apply, Begin
<1>26. ASSUME NEW v \in Version, FileLost(v) PROVE Goal'
  BY <1>26
    DEF FileLost
<1>27. CASE UNCHANGED vars
  BY <1>27
    DEF vars
<1> QED
  BY ZenonT(60), <1>1, <1>2, <1>3, <1>4, <1>5, <1>6, <1>7, <1>8, <1>9, <1>10, <1>11,
     <1>12, <1>13, <1>14, <1>15, <1>16, <1>17, <1>18, <1>19, <1>20, <1>21,
     <1>22, <1>23, <1>24, <1>25, <1>26, <1>27
    DEF Next, Startup, Confirming, Switching, Finishing

\* The first state has the types.
LEMMA TypeInit == Init => TypeOK
BY UpgradeAssumption, NoStateType
  DEF Init, TypeOK, NoOp, NoSwitch, Timer, Base

\* The variables keep their types, whatever happens to the process.
THEOREM TypeCorrect == Spec => []TypeOK
BY TypeInit, TypeStep, PTL DEF Spec

-----------------------------------------------------------------------------
\* A process starts with an empty memory, and the launcher runs in the base.
LEMMA QuietStep ==
  ASSUME TypeOK, QuietInv, [Next]_vars
  PROVE  QuietInv'
<1> DEFINE Goal == QuietInv
<1> SUFFICES Goal'
  BY Zenon
<1> USE DEF TypeOK, QuietInv, Serving, Launched
<1>1. CASE Boot
  BY <1>1, Zenon
    DEF Boot
<1>2. CASE LaunchBase
  BY <1>2, Zenon
    DEF LaunchBase
<1>3. CASE LaunchRevert
  BY <1>3, Zenon
    DEF LaunchRevert
<1>4. CASE LaunchStaged
  BY <1>4, Zenon
    DEF LaunchStaged, Exec, Fresh
<1>5. CASE StartUp
  BY <1>5
    DEF StartUp, Down, Kept
<1>6. CASE BadExit
  BY <1>6, Zenon
    DEF BadExit, Die, Down, Fresh
<1>7. CASE ConfirmLoad
  BY <1>7, Zenon
    DEF ConfirmLoad
<1>8. CASE ConfirmSave
  BY <1>8
    DEF Timer, ConfirmSave
<1>9. CASE SwitchLoad
  BY <1>9, Zenon
    DEF SwitchLoad
<1>10. CASE SwitchSave
  BY <1>10, Zenon
    DEF SwitchSave
<1>11. CASE SwitchPend
  BY <1>11, Zenon
    DEF SwitchPend
<1>12. CASE Stop
  BY <1>12, Zenon
    DEF Stop
<1>13. CASE FinishPlain
  BY <1>13, Zenon
    DEF FinishPlain, Die, Down, Fresh
<1>14. CASE Abort
  BY <1>14, Zenon
    DEF Abort, Undone, Down, Fresh
<1>15. CASE FinishExec
  BY <1>15, Zenon
    DEF FinishExec, Exec, Fresh
<1>16. CASE LaunchFails
  BY <1>16, Zenon
    DEF LaunchFails
<1>17. CASE ConfirmSaveFails
  BY <1>17
    DEF Timer, ConfirmSaveFails
<1>18. CASE SwitchFails
  BY <1>18, Zenon
    DEF SwitchFails
<1>19. CASE FinishFails
  BY <1>19, Zenon
    DEF FinishFails, Die, Down, Fresh
<1>20. CASE Crash
  BY <1>20, Zenon
    DEF Crash, Die, Down, Fresh
<1>21. CASE Signal
  BY <1>21, Zenon
    DEF Signal
<1>22. CASE Discard
  BY <1>22, Zenon
    DEF Discard
<1>23. CASE StateDeleted
  BY <1>23, Zenon
    DEF StateDeleted
<1>24. CASE Rollback
  BY <1>24, Zenon
    DEF Rollback, Staged, Begin
<1>25. ASSUME NEW v \in Version, Apply(v) PROVE Goal'
  BY <1>25, Zenon
    DEF Apply, Staged, Begin
<1>26. ASSUME NEW v \in Version, FileLost(v) PROVE Goal'
  BY <1>26, Zenon
    DEF FileLost
<1>27. CASE UNCHANGED vars
  BY <1>27, Zenon
    DEF vars
<1> QED
  BY <1>1, <1>2, <1>3, <1>4, <1>5, <1>6, <1>7, <1>8, <1>9, <1>10, <1>11,
     <1>12, <1>13, <1>14, <1>15, <1>16, <1>17, <1>18, <1>19, <1>20, <1>21,
     <1>22, <1>23, <1>24, <1>25, <1>26, <1>27, Zenon
    DEF Next, Startup, Confirming, Switching, Finishing

\* The first state has no process.
LEMMA QuietInit == Init => QuietInv
BY DEF Init, QuietInv, Serving, Launched

-----------------------------------------------------------------------------
(* How what a state names and what is on disk change together. *)

\* No state names nothing.
LEMMA SafeNone == ASSUME NEW disk PROVE Safe(NoState, disk)
BY Zenon DEF Safe, NoState

\* More files do no harm.
LEMMA SafeGrow ==
  ASSUME NEW st, NEW small, NEW large, small \subseteq large,
         Safe(st, small)
  PROVE  Safe(st, large)
BY Zenon DEF Safe

\* prune keeps what the state names.
LEMMA SafeKept ==
  ASSUME NEW st \in State, Safe(st, files)
  PROVE  Safe(st, Kept(st))
BY Zenon DEF Safe, Kept

\* revert names only what was named.
LEMMA SafeReverted ==
  ASSUME NEW st \in State, NEW disk, Safe(st, disk)
  PROVE  Safe(Reverted(st), disk)
<1>1. /\ Reverted(st).active \in {Base, st.previous}
      /\ Reverted(st).previous = None
      /\ st.previous = None => Reverted(st).active = Base
  BY Zenon DEF Reverted, State
<1> QED
  BY <1>1, Zenon DEF Safe

\* Counting a start and confirming name nothing new.
LEMMA SafeUpdate ==
  ASSUME NEW st \in State, NEW b \in BOOLEAN, NEW disk, Safe(st, disk)
  PROVE  /\ Safe([st EXCEPT !.on = b], disk)
         /\ Safe([st EXCEPT !.attempts = @ + 1], disk)
         /\ Safe([st EXCEPT !.confirmed = TRUE, !.attempts = 0], disk)
<1>1. /\ [st EXCEPT !.on = b].active = st.active
      /\ [st EXCEPT !.on = b].previous = st.previous
  BY Zenon DEF State
<1>2. /\ [st EXCEPT !.attempts = @ + 1].active = st.active
      /\ [st EXCEPT !.attempts = @ + 1].previous = st.previous
  BY Zenon DEF State
<1>3. /\ [st EXCEPT !.confirmed = TRUE, !.attempts = 0].active = st.active
      /\ [st EXCEPT !.confirmed = TRUE, !.attempts = 0].previous
           = st.previous
  BY Zenon DEF State
<1> QED
  BY <1>1, <1>2, <1>3, Zenon DEF Safe

\* switchTo names the target and what the state had.
LEMMA SafeSwitched ==
  ASSUME NEW st \in State, NEW disk, Safe(st, disk),
         NEW v \in disk \cup {Base}
  PROVE  Safe(Switched(st, v), disk)
<1>1. Switched(st, v).active = v /\ Switched(st, v).previous = st.active
  BY Zenon DEF Switched
<1> QED
  BY <1>1, Zenon DEF Safe


-----------------------------------------------------------------------------
\* Unless files get lost, every step keeps what the states name on disk.
LEMMA DiskStep ==
  ASSUME "disk" \notin Faults, TypeOK, QuietInv, DiskInv, [Next]_vars
  PROVE  DiskInv'
<1> DEFINE Goal == DiskInv
<1> SUFFICES Goal'
  BY Zenon
<1> USE SafeNone
<1> USE DEF DiskInv
<1>t. /\ state \in State /\ confirm.st \in State /\ op.st \in State
      /\ pending.undo \in State
  BY Zenon DEF TypeOK
<1>n. /\ NoOp.st = NoState /\ NoOp.target = Base /\ NoSwitch.undo = NoState
      /\ \A at : Timer(at).st = NoState
  BY Zenon DEF NoOp, NoSwitch, Timer
<1>1. CASE Boot
  BY <1>1, Zenon DEF Boot
<1>2. CASE LaunchBase
  BY <1>2, Zenon DEF LaunchBase
<1>3. CASE LaunchRevert
  BY <1>3, <1>t, SafeReverted, Zenon DEF LaunchRevert
<1>4. CASE LaunchStaged
  <2>1. Safe(state', files')
    BY ZenonT(60), <1>4, <1>t, SafeUpdate DEF LaunchStaged
  <2> QED
    BY <1>4, <1>n, <2>1, Zenon DEF LaunchStaged, Exec, Fresh
<1>5. CASE StartUp
  <2>1. op = NoOp /\ confirm = Timer("off") /\ pending = NoSwitch
    BY <1>5, Zenon DEF StartUp, QuietInv, Serving
  <2>2. Safe(state, files')
    BY <1>5, <1>t, SafeKept, Zenon DEF StartUp
  <2> QED
    BY <1>5, <1>n, <2>1, <2>2 DEF StartUp
<1>6. CASE BadExit
  BY <1>6, <1>n, Zenon DEF BadExit, Die, Fresh
<1>7. CASE ConfirmLoad
  <2>1. confirm'.st \in {state, NoState}
    BY <1>7, <1>n, Zenon DEF ConfirmLoad
  <2> QED
    BY <1>7, <2>1, Zenon DEF ConfirmLoad
<1>8. CASE ConfirmSave
  BY ZenonT(60), <1>8, <1>t, <1>n, SafeUpdate DEF ConfirmSave
<1>9. CASE SwitchLoad
  <2>1. Safe([state EXCEPT !.on = TRUE], files)
    BY ZenonT(60), <1>t, SafeUpdate
  <2>2. op'.st = [state EXCEPT !.on = TRUE] /\ op'.target = op.target
    BY <1>9, Zenon DEF SwitchLoad, TypeOK
  <2> QED
    BY <1>9, <2>1, <2>2, Zenon DEF SwitchLoad
<1>10. CASE SwitchSave
  <2>1. Safe(state', files')
    BY <1>10, <1>t, SafeSwitched, Zenon DEF SwitchSave
  <2>2. op'.st = op.st /\ op'.target = op.target
    BY ZenonT(60), <1>10 DEF SwitchSave, TypeOK
  <2> QED
    BY <1>10, <2>1, <2>2, Zenon DEF SwitchSave
<1>11. CASE SwitchPend
  BY <1>11, <1>n, Zenon DEF SwitchPend
<1>12. CASE Stop
  BY <1>12, Zenon DEF Stop
<1>13. CASE FinishPlain
  BY <1>13, <1>n, Zenon DEF FinishPlain, Die, Fresh
<1>14. CASE Abort
  <2>1. Safe(state', files)
    BY ZenonT(60), <1>14, <1>t, SafeUpdate, StateFields DEF Abort, Undone
  <2> QED
    BY <1>14, <1>n, <2>1, Zenon DEF Abort, Fresh
<1>15. CASE FinishExec
  BY <1>15, <1>n, Zenon DEF FinishExec, Exec, Fresh
<1>16. CASE LaunchFails
  <2>1. Safe([state EXCEPT !.attempts = @ + 1], files)
    BY ZenonT(60), <1>t, SafeUpdate
  <2> QED
    BY <1>16, <2>1, Zenon DEF LaunchFails
<1>17. CASE ConfirmSaveFails
  BY <1>17, <1>n, Zenon DEF ConfirmSaveFails
<1>18. CASE SwitchFails
  BY <1>18, <1>n, Zenon DEF SwitchFails
<1>19. CASE FinishFails
  BY <1>19, <1>n, Zenon DEF FinishFails, Die, Fresh
<1>20. CASE Crash
  BY <1>20, <1>n, Zenon DEF Crash, Die, Fresh
<1>21. CASE Signal
  BY <1>21, Zenon DEF Signal
<1>22. CASE Discard
  BY <1>22, Zenon DEF Discard
<1>23. CASE StateDeleted
  BY <1>23, Zenon DEF StateDeleted
<1>24. CASE Rollback
  BY <1>24, <1>n, Zenon DEF Rollback, Staged, NoOp
<1>25. ASSUME NEW v \in Version, Apply(v) PROVE Goal'
  BY <1>25, SafeGrow DEF Apply, Staged, NoOp
<1>26. ASSUME NEW v \in Version, FileLost(v) PROVE Goal'
  BY <1>26, Zenon DEF FileLost
<1>27. CASE UNCHANGED vars
  BY <1>27, Zenon DEF vars
<1> QED
  BY ZenonT(60), <1>1, <1>2, <1>3, <1>4, <1>5, <1>6, <1>7, <1>8, <1>9, <1>10, <1>11,
     <1>12, <1>13, <1>14, <1>15, <1>16, <1>17, <1>18, <1>19, <1>20, <1>21,
     <1>22, <1>23, <1>24, <1>25, <1>26, <1>27
    DEF Next, Startup, Confirming, Switching, Finishing

\* "the previous version stays on disk": while no file gets lost, the version
\* to run and the rollback target that state.json names are there, whatever
\* prune, Abort, crashes, failing saves and failing execs did.
THEOREM RollbackStaysOnDisk ==
  ASSUME "disk" \notin Faults
  PROVE  Spec => []RollbackOnDisk
<1> DEFINE Inv == TypeOK /\ QuietInv /\ DiskInv
<1>1. Init => Inv
  <2>1. Init => DiskInv
    BY SafeNone DEF Init, DiskInv, NoOp, NoSwitch, Timer
  <2> QED
    BY <2>1, TypeInit, QuietInit, Zenon
<1>2. Inv /\ [Next]_vars => Inv'
  BY TypeStep, QuietStep, DiskStep, Zenon
<1>3. Inv => RollbackOnDisk
  BY Zenon DEF DiskInv, Safe, RollbackOnDisk
<1> QED
  BY <1>1, <1>2, <1>3, PTL DEF Spec

-----------------------------------------------------------------------------
(* What the steps write into the fields RecordInv is about. *)

\* Of revert, a counted start, Confirm and switchTo.
LEMMA WrittenFields ==
  ASSUME NEW st \in State, NEW v, NEW b \in BOOLEAN
  PROVE  /\ Switched(st, v).on /\ Switched(st, v).active = v
         /\ [st EXCEPT !.attempts = @ + 1].active = st.active
         /\ [st EXCEPT !.attempts = @ + 1].on = st.on
         /\ [st EXCEPT !.confirmed = TRUE, !.attempts = 0].active = st.active
         /\ [st EXCEPT !.confirmed = TRUE, !.attempts = 0].on = st.on
         /\ [st EXCEPT !.on = b].active = st.active
<1>1. Switched(st, v).on /\ Switched(st, v).active = v
  BY Zenon DEF Switched
<1>2. /\ [st EXCEPT !.attempts = @ + 1].active = st.active
      /\ [st EXCEPT !.attempts = @ + 1].on = st.on
  BY Zenon DEF State
<1>3. /\ [st EXCEPT !.confirmed = TRUE, !.attempts = 0].active = st.active
      /\ [st EXCEPT !.confirmed = TRUE, !.attempts = 0].on = st.on
  BY Zenon DEF State
<1>4. [st EXCEPT !.on = b].active = st.active
  BY Zenon DEF State
<1> QED
  BY <1>1, <1>2, <1>3, <1>4, Zenon

-----------------------------------------------------------------------------
\* While nobody asks for a switch before the running version is confirmed,
\* every step keeps state.json in line with what runs.
LEMMA RecordStep ==
  ASSUME "early" \notin Faults, TypeOK, QuietInv, ConfirmInv,
         RecordInv, [Next]_vars
  PROVE  (ConfirmInv /\ RecordInv)'
<1> DEFINE Goal == ConfirmInv /\ RecordInv
<1> SUFFICES Goal'
  BY Zenon
<1> USE DEF ConfirmInv, RecordInv, Launched
<1>t. /\ state \in State /\ confirm.st \in State /\ op.st \in State
      /\ pending.undo \in State
  BY Zenon DEF TypeOK
<1>n. /\ NoOp.at = "idle" /\ ~NoSwitch.on /\ \A at : Timer(at).at = at
      /\ Down.ver = Base
  BY Zenon DEF NoOp, NoSwitch, Timer, Down
<1>1. CASE Boot
  <2>1. proc'.ver = Base
    BY <1>1, Zenon DEF Boot
  <2>2. op = NoOp /\ confirm = Timer("off") /\ pending = NoSwitch
    BY <1>1, Zenon DEF Boot, QuietInv, Serving
  <2> QED
    BY <1>1, <1>n, <2>1, <2>2 DEF Boot
<1>2. CASE LaunchBase
  <2>1. /\ proc.ver = Base /\ proc'.ver = Base
        /\ op = NoOp /\ confirm = Timer("off") /\ pending = NoSwitch
    BY <1>2, Zenon DEF LaunchBase, QuietInv, Serving, TypeOK
  <2> QED
    BY <1>2, <1>n, <2>1, Zenon DEF LaunchBase
<1>3. CASE LaunchRevert
  <2>1. /\ proc.ver = Base /\ proc'.ver = Base
        /\ op = NoOp /\ confirm = Timer("off") /\ pending = NoSwitch
    BY <1>3, Zenon DEF LaunchRevert, QuietInv, Serving, TypeOK
  <2> QED
    BY <1>3, <1>n, <2>1, Zenon DEF LaunchRevert
<1>4. CASE LaunchStaged
  <2>1. /\ proc'.ver = state.active /\ state'.active = state.active
    BY <1>4, <1>t, WrittenFields, Zenon DEF LaunchStaged, Exec
  <2> QED
    BY <1>4, <1>n, <2>1 DEF LaunchStaged, Exec, Fresh
<1>5. CASE StartUp
  <2>1. op = NoOp /\ confirm = Timer("off") /\ pending = NoSwitch
    BY <1>5, Zenon DEF StartUp, QuietInv, Serving
  <2>2. CASE Launched /\ ~state.on
    BY <1>5, <1>n, <2>1, <2>2 DEF StartUp
  <2>3. CASE ~(Launched /\ ~state.on)
    <3>1. proc'.ver = proc.ver
      BY <1>5, <2>3, Zenon DEF StartUp, TypeOK
    <3>2. confirm'.at = IF Launched THEN "armed" ELSE "off"
      BY <1>5, <1>n, <2>3, Zenon DEF StartUp
    <3> QED
      BY <1>5, <1>n, <2>1, <3>1, <3>2, Zenon DEF StartUp
  <2> QED
    BY <2>2, <2>3, Zenon
<1>6. CASE BadExit
  BY <1>6, <1>n DEF BadExit, Die, Fresh
<1>7. CASE ConfirmLoad
  <2>1. Launched /\ op.at = "idle" /\ ~pending.on
    BY <1>7, Zenon DEF ConfirmLoad
  <2>2. CASE state.on /\ ~state.confirmed
    <3>1. confirm'.st = state
      BY <1>7, <2>2, Zenon DEF ConfirmLoad
    <3> QED
      BY <1>7, <2>1, <2>2, <3>1, Zenon DEF ConfirmLoad
  <2>3. CASE ~(state.on /\ ~state.confirmed)
    BY <1>7, <1>n, <2>1, <2>3 DEF ConfirmLoad
  <2> QED
    BY <2>2, <2>3, Zenon
<1>8. CASE ConfirmSave
  <2>1. state'.active = confirm.st.active
    BY <1>8, <1>t, WrittenFields, Zenon DEF ConfirmSave
  <2> QED
    BY <1>8, <1>n, <2>1, Zenon DEF ConfirmSave
<1>9. CASE SwitchLoad
  <2>1. op'.at = "loaded"
    BY <1>9, Zenon DEF SwitchLoad, TypeOK
  <2> QED
    BY <1>9, <2>1, Zenon DEF SwitchLoad
<1>10. CASE SwitchSave
  <2>1. op'.at = "saved" /\ op'.target = op.target
    BY ZenonT(60), <1>10 DEF SwitchSave, TypeOK
  <2>2. state'.active = op.target
    BY ZenonT(60), <1>10, <1>t, WrittenFields DEF SwitchSave
  <2> QED
    BY <1>10, <2>1, <2>2, Zenon DEF SwitchSave
<1>11. CASE SwitchPend
  <2>1. pending'.on /\ pending'.target = op.target
    BY <1>11, Zenon DEF SwitchPend
  <2> QED
    BY <1>11, <1>n, <2>1, Zenon DEF SwitchPend, MuFree
<1>12. CASE Stop
  <2>1. proc'.ver = proc.ver
    BY <1>12, Zenon DEF Stop, TypeOK
  <2> QED
    BY <1>12, <2>1, Zenon DEF Stop
<1>13. CASE FinishPlain
  BY <1>13, <1>n DEF FinishPlain, Die, Fresh
<1>14. CASE Abort
  BY <1>14, <1>n, Zenon DEF Abort, Fresh
<1>15. CASE FinishExec
  <2>1. proc'.ver = pending.target
    BY <1>15, Zenon DEF FinishExec, Exec
  <2> QED
    BY <1>15, <1>n, <2>1, Zenon DEF FinishExec, Exec, Fresh
<1>16. CASE LaunchFails
  <2>1. /\ proc.ver = Base /\ proc'.ver = Base
        /\ op = NoOp /\ confirm = Timer("off") /\ pending = NoSwitch
    BY <1>16, Zenon DEF LaunchFails, QuietInv, Serving, TypeOK
  <2> QED
    BY <1>16, <1>n, <2>1, Zenon DEF LaunchFails
<1>17. CASE ConfirmSaveFails
  BY <1>17, <1>n, Zenon DEF ConfirmSaveFails
<1>18. CASE SwitchFails
  BY <1>18, <1>n, Zenon DEF SwitchFails
<1>19. CASE FinishFails
  BY <1>19, <1>n, Zenon DEF FinishFails, Die, Fresh
<1>20. CASE Crash
  BY <1>20, <1>n DEF Crash, Die, Fresh
<1>21. CASE Signal
  <2>1. proc'.ver = proc.ver
    BY <1>21, Zenon DEF Signal, TypeOK
  <2> QED
    BY <1>21, <2>1, Zenon DEF Signal
<1>22. CASE Discard
  <2>1. /\ proc.ver = Base /\ proc'.ver = Base
        /\ op = NoOp /\ confirm = Timer("off") /\ pending = NoSwitch
    BY <1>22, Zenon DEF Discard, QuietInv, Serving, TypeOK
  <2> QED
    BY <1>22, <1>n, <2>1, Zenon DEF Discard
<1>23. CASE StateDeleted
  <2>1. ~state'.on
    BY <1>23, Zenon DEF StateDeleted, NoState
  <2> QED
    BY <1>23, <2>1, Zenon DEF StateDeleted
<1>24. CASE Rollback
  <2>1. op'.at = "staged"
    BY <1>24, Zenon DEF Rollback, Staged, NoOp
  <2>2. confirm.at \notin {"armed", "loaded"} /\ ~pending.on /\ op.at = "idle"
    BY <1>24, Zenon DEF Rollback, Begin, MuFree
  <2> QED
    BY <1>24, <2>1, <2>2, Zenon DEF Rollback, Begin
<1>25. ASSUME NEW v \in Version, Apply(v) PROVE Goal'
  <2>1. op'.at = "staged"
    BY <1>25, Zenon DEF Apply, Staged, NoOp
  <2>2. confirm.at \notin {"armed", "loaded"} /\ ~pending.on /\ op.at = "idle"
    BY <1>25, Zenon DEF Apply, Begin, MuFree
  <2> QED
    BY <1>25, <2>1, <2>2, Zenon DEF Apply, Begin
<1>26. ASSUME NEW v \in Version, FileLost(v) PROVE Goal'
  BY <1>26, Zenon DEF FileLost
<1>27. CASE UNCHANGED vars
  BY <1>27, Zenon DEF vars
<1> QED
  BY ZenonT(60), <1>1, <1>2, <1>3, <1>4, <1>5, <1>6, <1>7, <1>8, <1>9, <1>10, <1>11,
     <1>12, <1>13, <1>14, <1>15, <1>16, <1>17, <1>18, <1>19, <1>20, <1>21,
     <1>22, <1>23, <1>24, <1>25, <1>26, <1>27
    DEF Next, Startup, Confirming, Switching, Finishing

\* The first state runs nothing.
LEMMA RecordInit == Init => ConfirmInv /\ RecordInv
BY DEF Init, ConfirmInv, RecordInv, Launched, NoOp, NoSwitch, Timer

\* While nobody asks for a switch in the first seconds of a version, the
\* staged process that runs is the one state.json says should run: neither
\* Confirm nor Abort takes back a recorded switch, whatever saves and execs
\* fail, and the next start runs the same version.
THEOREM RecordedIsRunning ==
  ASSUME "early" \notin Faults
  PROVE  Spec => []RunsWhatIsRecorded
<1> DEFINE Inv == TypeOK /\ QuietInv /\ ConfirmInv /\ RecordInv
<1>1. Init => Inv
  BY RecordInit, TypeInit, QuietInit, Zenon
<1>2. Inv /\ [Next]_vars => Inv'
  BY TypeStep, QuietStep, RecordStep, Zenon
<1>3. Inv => RunsWhatIsRecorded
  BY Zenon DEF RecordInv, RunsWhatIsRecorded
<1> QED
  BY <1>1, <1>2, <1>3, PTL DEF Spec

-----------------------------------------------------------------------------
(* What is known of the versions a state names, and of the state a switch  *)
(* can go back to, when states and knowledge change.                       *)

\* No state names no version.
LEMMA ProvenNone == ASSUME NEW good PROVE Proven(NoState, good)
BY UpgradeAssumption DEF Proven, NoState, Base, None

\* One more version that stayed up does no harm.
LEMMA ProvenGrow ==
  ASSUME NEW st \in State, NEW good \in [Version -> BOOLEAN],
         NEW v \in Version, Proven(st, good)
  PROVE  Proven(st, [good EXCEPT ![v] = TRUE])
BY Zenon DEF Proven

\* revert falls back to a rollback target, which has stayed up.
LEMMA ProvenReverted ==
  ASSUME NEW st \in State, NEW good, Proven(st, good)
  PROVE  Proven(Reverted(st), good)
<1>1. /\ Reverted(st).previous = None
      /\ Reverted(st).active = IF st.previous = None THEN Base ELSE st.previous
  BY Zenon DEF Reverted, State
<1> QED
  BY <1>1, UpgradeAssumption DEF Proven, Base, None

\* Counting a start says nothing of versions.
LEMMA ProvenUpdate ==
  ASSUME NEW st \in State, NEW b \in BOOLEAN, NEW good, Proven(st, good)
  PROVE  /\ Proven([st EXCEPT !.on = b], good)
         /\ Proven([st EXCEPT !.attempts = @ + 1], good)
<1>1. /\ [st EXCEPT !.on = b].active = st.active
      /\ [st EXCEPT !.on = b].previous = st.previous
      /\ [st EXCEPT !.on = b].confirmed = st.confirmed
  BY Zenon DEF State
<1>2. /\ [st EXCEPT !.attempts = @ + 1].active = st.active
      /\ [st EXCEPT !.attempts = @ + 1].previous = st.previous
      /\ [st EXCEPT !.attempts = @ + 1].confirmed = st.confirmed
  BY Zenon DEF State
<1> QED
  BY <1>1, <1>2, Zenon DEF Proven

\* Confirm confirms a version that has stayed up.
LEMMA ProvenConfirmed ==
  ASSUME NEW st \in State, NEW good, Proven(st, good),
         st.active \in Version => good[st.active]
  PROVE  Proven([st EXCEPT !.confirmed = TRUE, !.attempts = 0], good)
<1>1. /\ [st EXCEPT !.confirmed = TRUE, !.attempts = 0].active = st.active
      /\ [st EXCEPT !.confirmed = TRUE, !.attempts = 0].previous
           = st.previous
  BY Zenon DEF State
<1> QED
  BY <1>1, Zenon DEF Proven

\* switchTo makes the version that ran the rollback target.
LEMMA ProvenSwitched ==
  ASSUME NEW st \in State, NEW good \in [Version -> BOOLEAN],
         NEW t \in Version, st.active # t,
         st.active \in Version => good[st.active]
  PROVE  Proven(Switched(st, t), [good EXCEPT ![t] = FALSE])
<1>1. /\ Switched(st, t).previous = st.active
      /\ Switched(st, t).active = t
      /\ Switched(st, t).confirmed = (t = Base)
  BY Zenon DEF Switched
<1>2. t # Base
  BY UpgradeAssumption, Zenon
<1> QED
  BY ZenonT(60), <1>1, <1>2 DEF Proven

\* So it does when the target is the installed binary.
LEMMA ProvenSwitchedBase ==
  ASSUME NEW st \in State, NEW good,
         st.active \in Version => good[st.active]
  PROVE  Proven(Switched(st, Base), good)
<1>1. /\ Switched(st, Base).previous = st.active
      /\ Switched(st, Base).active = Base
  BY Zenon DEF Switched
<1> QED
  BY ZenonT(60), <1>1, UpgradeAssumption DEF Proven

\* What Abort needs to know is kept.
LEMMA BeforeSwitched ==
  ASSUME NEW st \in State, NEW good \in [Version -> BOOLEAN],
         NEW t \in Version, st.active # t, Proven(st, good),
         st.active \in Version => good[st.active]
  PROVE  ProvenBefore(st, t, good[t], [good EXCEPT ![t] = FALSE])
BY Zenon DEF Proven, ProvenBefore

\* So it is when the target is the installed binary.
LEMMA BeforeSwitchedBase ==
  ASSUME NEW st \in State, NEW good, NEW was, Proven(st, good),
         st.active \in Version => good[st.active]
  PROVE  ProvenBefore(st, Base, was, good)
BY ZenonT(60), UpgradeAssumption DEF Proven, ProvenBefore

\* Abort goes back to a state and to what was known then.
LEMMA BeforeUndone ==
  ASSUME NEW st \in State, NEW good \in [Version -> BOOLEAN],
         NEW t \in Version, NEW was \in BOOLEAN, NEW b \in BOOLEAN,
         ProvenBefore(st, t, was, good)
  PROVE  Proven([st EXCEPT !.on = b], [good EXCEPT ![t] = was])
<1>1. /\ [st EXCEPT !.on = b].active = st.active
      /\ [st EXCEPT !.on = b].previous = st.previous
  BY Zenon DEF State
<1> QED
  BY <1>1, Zenon DEF Proven, ProvenBefore

\* So it does when the target was the installed binary.
LEMMA BeforeUndoneBase ==
  ASSUME NEW st \in State, NEW good, NEW was, NEW b \in BOOLEAN,
         ProvenBefore(st, Base, was, good)
  PROVE  Proven([st EXCEPT !.on = b], good)
<1>1. /\ [st EXCEPT !.on = b].active = st.active
      /\ [st EXCEPT !.on = b].previous = st.previous
  BY Zenon DEF State
<1> QED
  BY <1>1, UpgradeAssumption, Zenon DEF Proven, ProvenBefore

-----------------------------------------------------------------------------
(* The step lemmas behind DroppedAfterTwo. *)

\* What they assume of the state before the step.
Known ==
  /\ TypeOK /\ QuietInv /\ ConfirmInv /\ RecordInv /\ BaseInv /\ EmptyInv
  /\ ProvenInv /\ CountInv

-----------------------------------------------------------------------------
\* What is not in use stays empty.
LEMMA EmptyStep ==
  ASSUME Known, [Next]_vars
  PROVE  EmptyInv'
<1> DEFINE Goal == EmptyInv
<1> SUFFICES Goal'
  BY Zenon
<1>t. /\ state \in State /\ confirm.st \in State /\ op.st \in State
      /\ pending.undo \in State
  BY Zenon DEF Known, TypeOK
<1>n. /\ ~NoSwitch.on /\ \A at : Timer(at).st = NoState
      /\ \A at : Timer(at).at = at
  BY Zenon DEF NoSwitch, Timer
<1> USE DEF Known, EmptyInv
<1>1. CASE Boot
  BY <1>1, Zenon DEF Boot
<1>2. CASE LaunchBase
  BY <1>2, Zenon DEF LaunchBase
<1>3. CASE LaunchRevert
  <2>1. state'.on
    BY <1>3, <1>t, Zenon DEF LaunchRevert, Reverted, State
  <2> QED
    BY <1>3, <2>1, Zenon DEF LaunchRevert
<1>4. CASE LaunchStaged
  <2>1. state'.on
    BY <1>4, <1>t, WrittenFields, Zenon DEF LaunchStaged
  <2> QED
    BY <1>4, <1>n, <2>1, Zenon DEF LaunchStaged, Exec, Fresh
<1>5. CASE StartUp
  <2>1. confirm = Timer("off")
    BY <1>5, Zenon DEF StartUp, QuietInv, Serving
  <2> QED
    BY <1>5, <1>n, <2>1, Zenon DEF StartUp
<1>6. CASE BadExit
  BY <1>6, <1>n, Zenon DEF BadExit, Die, Fresh
<1>7. CASE ConfirmLoad
  BY <1>7, <1>n, Zenon DEF ConfirmLoad
<1>8. CASE ConfirmSave
  <2>1. state'.on
    BY <1>8, <1>t, WrittenFields DEF ConfirmSave, RecordInv
  <2> QED
    BY <1>8, <1>n, <2>1, Zenon DEF ConfirmSave
<1>9. CASE SwitchLoad
  BY <1>9, Zenon DEF SwitchLoad
<1>10. CASE SwitchSave
  <2>1. state'.on
    BY ZenonT(60), <1>10, <1>t, WrittenFields DEF SwitchSave
  <2> QED
    BY <1>10, <2>1, Zenon DEF SwitchSave
<1>11. CASE SwitchPend
  BY <1>11, Zenon DEF SwitchPend
<1>12. CASE Stop
  BY <1>12, Zenon DEF Stop
<1>13. CASE FinishPlain
  BY <1>13, <1>n, Zenon DEF FinishPlain, Die, Fresh
<1>14. CASE Abort
  <2>1. state.on => state'.on
    BY <1>14, <1>t, Zenon DEF Abort, Undone, State
  <2> QED
    BY <1>14, <1>n, <2>1, Zenon DEF Abort, Fresh
<1>15. CASE FinishExec
  BY <1>15, <1>n, Zenon DEF FinishExec, Exec, Fresh
<1>16. CASE LaunchFails
  <2>1. [state EXCEPT !.attempts = @ + 1].on = state.on
    BY <1>t, WrittenFields, Zenon
  <2> QED
    BY ZenonT(60), <1>16, <2>1 DEF LaunchFails
<1>17. CASE ConfirmSaveFails
  BY <1>17, <1>n, Zenon DEF ConfirmSaveFails
<1>18. CASE SwitchFails
  BY <1>18, Zenon DEF SwitchFails
<1>19. CASE FinishFails
  BY <1>19, <1>n, Zenon DEF FinishFails, Die, Fresh
<1>20. CASE Crash
  BY <1>20, <1>n, Zenon DEF Crash, Die, Fresh
<1>21. CASE Signal
  BY <1>21, Zenon DEF Signal
<1>22. CASE Discard
  BY <1>22, Zenon DEF Discard
<1>23. CASE StateDeleted
  BY <1>23, Zenon DEF StateDeleted
<1>24. CASE Rollback
  BY <1>24, Zenon DEF Rollback
<1>25. ASSUME NEW v \in Version, Apply(v) PROVE Goal'
  BY <1>25, Zenon DEF Apply
<1>26. ASSUME NEW v \in Version, FileLost(v) PROVE Goal'
  BY <1>26, Zenon DEF FileLost
<1>27. CASE UNCHANGED vars
  BY <1>27, Zenon DEF vars
<1> QED
  BY <1>1, <1>2, <1>3, <1>4, <1>5, <1>6, <1>7, <1>8, <1>9, <1>10, <1>11,
     <1>12, <1>13, <1>14, <1>15, <1>16, <1>17, <1>18, <1>19, <1>20, <1>21,
     <1>22, <1>23, <1>24, <1>25, <1>26, <1>27, Zenon
    DEF Next, Startup, Confirming, Switching, Finishing

-----------------------------------------------------------------------------
\* While no save and no exec fails, the installed binary runs only when
\* state.json says so, and a switch leaves the version that runs.
LEMMA BaseStep ==
  ASSUME "early" \notin Faults, "exec" \notin Faults, "save" \notin Faults,
         Known, [Next]_vars
  PROVE  BaseInv'
<1> DEFINE Goal == BaseInv
<1> SUFFICES Goal'
  BY Zenon
<1>t. /\ state \in State /\ confirm.st \in State /\ op.st \in State
      /\ pending.undo \in State
  BY Zenon DEF Known, TypeOK
<1>n. /\ NoOp.at = "idle" /\ ~NoSwitch.on /\ Down.at = "down"
  BY Zenon DEF NoOp, NoSwitch, Down
<1>a. op.at # "idle" => ~pending.on
  BY Zenon DEF Known, RecordInv
<1>b. proc.at \in {"init", "up", "stopping"} /\ op.at # "saved" /\ ~pending.on
        /\ state.on => state.active = proc.ver
  BY Zenon DEF Known, RecordInv, BaseInv, Launched
<1> USE DEF Known, BaseInv, Launched
<1>1. CASE Boot
  <2>1. proc'.at = "launch"
    BY <1>1, Zenon DEF Boot
  <2>2. op = NoOp
    BY <1>1, Zenon DEF Boot, QuietInv, Serving
  <2> QED
    BY <1>1, <1>n, <2>1, <2>2, Zenon DEF Boot
<1>2. CASE LaunchBase
  <2>1. op = NoOp
    BY <1>2, Zenon DEF LaunchBase, QuietInv, Serving
  <2> QED
    BY <1>2, <1>n, <2>1, Zenon DEF LaunchBase
<1>3. CASE LaunchRevert
  <2>1. op = NoOp
    BY <1>3, Zenon DEF LaunchRevert, QuietInv, Serving
  <2> QED
    BY <1>3, <1>n, <2>1, Zenon DEF LaunchRevert
<1>4. CASE LaunchStaged
  <2>1. proc'.ver # Base
    BY <1>4, Zenon DEF LaunchStaged, Exec
  <2> QED
    BY <1>4, <1>n, <2>1, Zenon DEF LaunchStaged, Exec, Fresh
<1>5. CASE StartUp
  <2>1. op = NoOp
    BY <1>5, Zenon DEF StartUp, QuietInv, Serving
  <2>2. proc' = Down \/ proc'.ver = proc.ver
    BY <1>5, Zenon DEF StartUp, TypeOK
  <2> QED
    BY <1>5, <1>n, <2>1, <2>2, Zenon DEF StartUp
<1>6. CASE BadExit
  BY <1>6, <1>n, Zenon DEF BadExit, Die, Fresh
<1>7. CASE ConfirmLoad
  BY <1>7, Zenon DEF ConfirmLoad
<1>8. CASE ConfirmSave
  BY <1>8, Zenon DEF ConfirmSave, ConfirmInv
<1>9. CASE SwitchLoad
  <2>1. /\ op'.at = "loaded" /\ op'.target = op.target
        /\ op'.st = [state EXCEPT !.on = TRUE]
    BY <1>9, Zenon DEF SwitchLoad, TypeOK
  <2>2. op'.st.active = state.active
    BY <2>1, <1>t, WrittenFields
  <2>3. state.active \in {proc.ver, Base}
    <3>1. CASE state.on
      BY <1>9, <1>a, <1>b, <3>1, Zenon DEF SwitchLoad, Serving
    <3>2. CASE ~state.on
      BY <3>2 DEF EmptyInv, NoState
    <3> QED
      BY <3>1, <3>2, Zenon
  <2> QED
    BY <1>9, <2>1, <2>2, <2>3, Zenon DEF SwitchLoad
<1>10. CASE SwitchSave
  <2>1. op'.at = "saved" /\ op'.target = op.target /\ op'.st = op.st
    BY ZenonT(60), <1>10 DEF SwitchSave, TypeOK
  <2> QED
    BY <1>10, <2>1, Zenon DEF SwitchSave
<1>11. CASE SwitchPend
  <2>1. pending'.on
    BY <1>11, Zenon DEF SwitchPend
  <2> QED
    BY <1>11, <1>n, <2>1, Zenon DEF SwitchPend
<1>12. CASE Stop
  <2>1. proc'.ver = proc.ver /\ proc.at \in {"init", "up", "stopping"}
    BY <1>12, Zenon DEF Stop, TypeOK, Serving
  <2> QED
    BY <1>12, <2>1, Zenon DEF Stop
<1>13. CASE FinishPlain
  BY <1>13, <1>n, Zenon DEF FinishPlain, Die, Fresh
<1>14. CASE Abort
  BY <1>14, <1>n, Zenon DEF Abort, Fresh
<1>15. CASE FinishExec
  <2>1. proc'.ver # Base \/ proc'.at = "launch"
    BY <1>15, Zenon DEF FinishExec, Exec
  <2> QED
    BY <1>15, <1>n, <2>1, Zenon DEF FinishExec, Exec, Fresh
<1>16. CASE LaunchFails
  BY <1>16, Zenon DEF LaunchFails
<1>17. CASE ConfirmSaveFails
  BY <1>17, Zenon DEF ConfirmSaveFails
<1>18. CASE SwitchFails
  BY <1>18, Zenon DEF SwitchFails
<1>19. CASE FinishFails
  BY <1>19, Zenon DEF FinishFails
<1>20. CASE Crash
  BY <1>20, <1>n, Zenon DEF Crash, Die, Fresh
<1>21. CASE Signal
  <2>1. proc'.ver = proc.ver /\ proc.at \in {"init", "up", "stopping"}
    BY <1>21, Zenon DEF Signal, TypeOK, Serving
  <2> QED
    BY <1>21, <2>1, Zenon DEF Signal
<1>22. CASE Discard
  <2>1. op = NoOp
    BY <1>22, Zenon DEF Discard, QuietInv, Serving
  <2> QED
    BY <1>22, <1>n, <2>1, Zenon DEF Discard
<1>23. CASE StateDeleted
  <2>1. ~state'.on
    BY <1>23, Zenon DEF StateDeleted, NoState
  <2> QED
    BY <1>23, <2>1, Zenon DEF StateDeleted
<1>24. CASE Rollback
  <2>1. op'.at = "staged" /\ op'.target = state.previous
    BY <1>24, Zenon DEF Rollback, Staged, NoOp
  <2>2. state.active = proc.ver
    BY <1>24, <1>b, Zenon DEF Rollback, Begin
  <2>3. state.previous \in Version => state.previous # state.active
    BY Zenon DEF ProvenInv, Proven
  <2> QED
    BY <1>24, <2>1, <2>2, <2>3, Zenon DEF Rollback, Begin
<1>25. ASSUME NEW v \in Version, Apply(v) PROVE Goal'
  <2>1. op'.at = "staged" /\ op'.target = v
    BY <1>25, Zenon DEF Apply, Staged, NoOp
  <2>2. v # proc.ver
    BY <1>25, UpgradeAssumption DEF Apply, TypeOK, Base
  <2> QED
    BY <1>25, <2>1, <2>2, Zenon DEF Apply, Begin
<1>26. ASSUME NEW v \in Version, FileLost(v) PROVE Goal'
  BY <1>26, Zenon DEF FileLost
<1>27. CASE UNCHANGED vars
  BY <1>27, Zenon DEF vars
<1> QED
  BY ZenonT(60), <1>1, <1>2, <1>3, <1>4, <1>5, <1>6, <1>7, <1>8, <1>9, <1>10, <1>11,
     <1>12, <1>13, <1>14, <1>15, <1>16, <1>17, <1>18, <1>19, <1>20, <1>21,
     <1>22, <1>23, <1>24, <1>25, <1>26, <1>27
    DEF Next, Startup, Confirming, Switching, Finishing

-----------------------------------------------------------------------------
\* While no save and no exec fails and nobody asks early, rollback targets and
\* confirmed versions are versions that stayed up.
LEMMA ProvenStep ==
  ASSUME "early" \notin Faults, "exec" \notin Faults, "save" \notin Faults,
         Known, [Next]_vars
  PROVE  ProvenInv'
<1> DEFINE Goal == ProvenInv
<1> SUFFICES Goal'
  BY Zenon
<1>t. /\ state \in State /\ confirm.st \in State /\ op.st \in State
      /\ pending.undo \in State
  BY Zenon DEF Known, TypeOK
<1>g. stayed \in [Version -> BOOLEAN] /\ proc.ver \in Version \cup {Base}
  BY Zenon DEF Known, TypeOK
<1>n. /\ NoOp.at = "idle" /\ ~NoSwitch.on /\ Down.at = "down"
      /\ \A at : Timer(at).at = at /\ Timer(at).st = NoState
  BY Zenon DEF NoOp, NoSwitch, Down, Timer
<1>e. Proven(NoState, stayed) /\ Proven(NoState, stayed')
  BY ProvenNone, Zenon
<1> USE DEF Known, ProvenInv, Launched, Serving
<1>1. CASE Boot
  <2>1. op = NoOp /\ confirm = Timer("off") /\ pending = NoSwitch
    BY <1>1, Zenon DEF Boot, QuietInv
  <2>2. proc'.at = "launch"
    BY <1>1, Zenon DEF Boot
  <2> QED
    BY SMTT(60), <1>1, <1>n, <2>1, <2>2 DEF Boot
<1>2. CASE LaunchBase
  <2>1. op = NoOp /\ confirm = Timer("off") /\ pending = NoSwitch
    BY <1>2, Zenon DEF LaunchBase, QuietInv
  <2>2. proc'.at = "init"
    BY <1>2, Zenon DEF LaunchBase, TypeOK
  <2> QED
    BY <1>2, <1>n, <2>1, <2>2 DEF LaunchBase
<1>3. CASE LaunchRevert
  <2>1. op = NoOp /\ confirm = Timer("off") /\ pending = NoSwitch
    BY <1>3, Zenon DEF LaunchRevert, QuietInv
  <2>2. Proven(state', stayed)
    BY <1>3, <1>t, ProvenReverted, Zenon DEF LaunchRevert
  <2> QED
    BY <1>3, <1>n, <2>1, <2>2, Zenon DEF LaunchRevert
<1>4. CASE LaunchStaged
  <2>1. Proven(state', stayed)
    BY ZenonT(60), <1>4, <1>t, ProvenUpdate DEF LaunchStaged
  <2>2. proc'.at \in {"launch", "init"}
    BY <1>4, Zenon DEF LaunchStaged, Exec
  <2> QED
    BY <1>4, <1>n, <1>e, <2>1, <2>2, Zenon DEF LaunchStaged, Exec, Fresh
<1>5. CASE StartUp
  <2>1. op = NoOp /\ confirm = Timer("off") /\ pending = NoSwitch
    BY <1>5, Zenon DEF StartUp, QuietInv
  <2>2. CASE Launched /\ ~state.on
    BY <1>5, <1>n, <2>1, <2>2 DEF StartUp
  <2>3. CASE ~(Launched /\ ~state.on)
    <3>1. proc'.ver = proc.ver
      BY <1>5, <2>3, Zenon DEF StartUp, TypeOK
    <3>2. confirm' = Timer(IF Launched THEN "armed" ELSE "off")
      BY <1>5, <2>3, Zenon DEF StartUp
    <3> QED
      BY <1>5, <1>n, <1>e, <2>1, <3>1, <3>2 DEF StartUp
  <2> QED
    BY <2>2, <2>3, Zenon
<1>6. CASE BadExit
  BY <1>6, <1>n, <1>e, Zenon DEF BadExit, Die, Fresh
<1>7. CASE ConfirmLoad
  <2>1. Launched /\ op.at = "idle" /\ ~pending.on
    BY <1>7, Zenon DEF ConfirmLoad, ConfirmInv
  <2>2. proc.ver \in Version /\ stayed' = [stayed EXCEPT ![proc.ver] = TRUE]
    BY <1>7, <1>g, <2>1, Zenon DEF ConfirmLoad
  <2>3. stayed'[proc.ver]
    BY <1>g, <2>2, Zenon
  <2>4. Proven(state, stayed')
    BY ZenonT(60), <1>t, <1>g, <2>2, ProvenGrow
  <2>5. /\ confirm'.st \in {state, NoState}
        /\ confirm'.at \in {"loaded", "done"}
    BY <1>7, <1>n, Zenon DEF ConfirmLoad
  <2> QED
    BY <1>7, <1>e, <2>1, <2>3, <2>4, <2>5, Zenon DEF ConfirmLoad
<1>8. CASE ConfirmSave
  <2>1. confirm.st.active = proc.ver /\ stayed[proc.ver]
    BY <1>8, Zenon DEF ConfirmSave, RecordInv
  <2>2. Proven(state', stayed)
    BY ZenonT(60), <1>8, <1>t, <2>1, ProvenConfirmed DEF ConfirmSave
  <2> QED
    BY <1>8, <1>n, <1>e, <2>2 DEF ConfirmSave
<1>9. CASE SwitchLoad
  <2>1. /\ op'.at = "loaded" /\ op'.st = [state EXCEPT !.on = TRUE]
    BY <1>9, Zenon DEF SwitchLoad, TypeOK
  <2>2. op'.st.active = state.active
    BY <2>1, <1>t, WrittenFields
  <2>3. Proven(op'.st, stayed)
    BY ZenonT(60), <2>1, <1>t, ProvenUpdate
  <2>4. state.active \in Version => stayed[state.active]
    <3>1. CASE state.on /\ Launched
      <4>1. state.active = proc.ver
        BY <1>9, <3>1, Zenon DEF SwitchLoad, RecordInv
      <4>2. confirm.at = "done"
        BY <1>9, <3>1, Zenon DEF SwitchLoad, ConfirmInv, TypeOK
      <4> QED
        BY <4>1, <4>2, Zenon
    <3>2. CASE state.on /\ ~Launched
      <4>1. state.active = Base
        BY <1>9, <3>2, Zenon DEF SwitchLoad, BaseInv, RecordInv
      <4> QED
        BY ZenonT(60), <4>1, UpgradeAssumption
    <3>3. CASE ~state.on
      <4>1. state.active = Base
        BY <3>3 DEF EmptyInv, NoState
      <4> QED
        BY ZenonT(60), <4>1, UpgradeAssumption
    <3> QED
      BY <3>1, <3>2, <3>3, Zenon
  <2> QED
    BY <1>9, <2>1, <2>2, <2>3, <2>4, Zenon DEF SwitchLoad
<1>10. CASE SwitchSave
  <2>1. /\ op'.at = "saved" /\ op'.target = op.target /\ op'.st = op.st
        /\ op.target \in Version \cup {Base} /\ ~pending.on
    BY ZenonT(60), <1>10 DEF SwitchSave, TypeOK, RecordInv
  <2>2. confirm.at \notin {"armed", "loaded"} /\ confirm.st = NoState
    BY <1>10, Zenon DEF SwitchSave, ConfirmInv, EmptyInv
  <2>3. /\ Proven(op.st, stayed)
        /\ op.st.active \in Version => stayed[op.st.active]
    BY <1>10, Zenon DEF SwitchSave
  <2>4. CASE op.target = Base
    <3>1. stayed' = stayed
      BY <1>10, <2>4, Zenon DEF SwitchSave
    <3>2. Proven(state', stayed)
      BY <1>10, <1>t, <2>3, <2>4, ProvenSwitchedBase, Zenon DEF SwitchSave
    <3>3. ProvenBefore(op.st, Base, op'.was, stayed)
      BY <1>t, <2>3, BeforeSwitchedBase, Zenon
    <3> QED
      BY <1>10, <2>1, <2>4, <3>1, <3>2, <3>3, Zenon DEF SwitchSave
  <2>5. CASE op.target # Base
    <3>1. op.target \in Version /\ op.target # proc.ver
      BY <1>10, <2>1, <2>5, Zenon DEF SwitchSave, BaseInv
    <3>2. op.st.active # op.target
      BY <1>10, <2>5, <3>1, Zenon DEF SwitchSave, BaseInv
    <3>3. stayed' = [stayed EXCEPT ![op.target] = FALSE]
      BY <1>10, <2>5, Zenon DEF SwitchSave
    <3>4. op'.was = stayed[op.target]
      BY ZenonT(60), <1>10, <2>5 DEF SwitchSave, TypeOK
    <3>5. Proven(state', stayed')
      BY ZenonT(60), <1>10, <1>t, <1>g, <2>3, <3>1, <3>2, <3>3, ProvenSwitched
        DEF SwitchSave
    <3>6. ProvenBefore(op.st, op.target, op'.was, stayed')
      BY ZenonT(60), <1>t, <1>g, <2>3, <3>1, <3>2, <3>3, <3>4, BeforeSwitched
    <3>7. confirm.at = "done" => Launched /\ stayed'[proc.ver]
      BY <1>g, <3>1, <3>3, Zenon
    <3> QED
      BY <1>10, <1>e, <2>1, <2>2, <3>5, <3>6, <3>7, Zenon DEF SwitchSave
  <2> QED
    BY <2>4, <2>5, Zenon
<1>11. CASE SwitchPend
  <2>1. /\ pending'.target = op.target /\ pending'.undo = op.st
        /\ pending'.was = op.was
    BY <1>11, Zenon DEF SwitchPend
  <2> QED
    BY <1>11, <1>n, <2>1, Zenon DEF SwitchPend
<1>12. CASE Stop
  <2>1. proc'.ver = proc.ver
    BY <1>12, Zenon DEF Stop, TypeOK
  <2> QED
    BY <1>12, <2>1, Zenon DEF Stop
<1>13. CASE FinishPlain
  BY <1>13, <1>n, <1>e, Zenon DEF FinishPlain, Die, Fresh
<1>14. CASE Abort
  <2>1. ProvenBefore(pending.undo, pending.target, pending.was, stayed)
    BY <1>14, Zenon DEF Abort
  <2>2. /\ pending.target \in Version \cup {Base} /\ pending.was \in BOOLEAN
        /\ state.on \in BOOLEAN
    BY <1>t, StateFields, Zenon DEF TypeOK
  <2>3. Proven([pending.undo EXCEPT !.on = state.on], stayed')
    <3>1. CASE pending.target = Base
      <4>1. stayed' = stayed
        BY <1>14, <3>1, Zenon DEF Abort
      <4> QED
        BY <1>t, <2>1, <2>2, <3>1, <4>1, BeforeUndoneBase, Zenon
    <3>2. CASE pending.target # Base
      <4>1. stayed' = [stayed EXCEPT ![pending.target] = pending.was]
        BY <1>14, <3>2, Zenon DEF Abort
      <4> QED
        BY ZenonT(60), <1>t, <1>g, <2>1, <2>2, <3>2, <4>1, BeforeUndone
    <3> QED
      BY <3>1, <3>2, Zenon
  <2>4. Proven(state', stayed')
    BY <1>14, <1>e, <2>3, Zenon DEF Abort, Undone, EmptyInv
  <2> QED
    BY <1>14, <1>n, <1>e, <2>4, Zenon DEF Abort, Fresh
<1>15. CASE FinishExec
  <2>1. proc'.at \in {"launch", "init"}
    BY <1>15, Zenon DEF FinishExec, Exec
  <2> QED
    BY <1>15, <1>n, <1>e, <2>1, Zenon DEF FinishExec, Exec, Fresh
<1>16. CASE LaunchFails
  BY <1>16, Zenon DEF LaunchFails
<1>17. CASE ConfirmSaveFails
  BY <1>17, Zenon DEF ConfirmSaveFails
<1>18. CASE SwitchFails
  BY <1>18, Zenon DEF SwitchFails
<1>19. CASE FinishFails
  BY <1>19, Zenon DEF FinishFails
<1>20. CASE Crash
  BY <1>20, <1>n, <1>e, Zenon DEF Crash, Die, Fresh
<1>21. CASE Signal
  <2>1. proc'.ver = proc.ver
    BY <1>21, Zenon DEF Signal, TypeOK
  <2> QED
    BY <1>21, <2>1, Zenon DEF Signal
<1>22. CASE Discard
  BY <1>22, <1>e, Zenon DEF Discard
<1>23. CASE StateDeleted
  BY <1>23, <1>e, Zenon DEF StateDeleted
<1>24. CASE Rollback
  <2>1. op'.at = "staged"
    BY <1>24, Zenon DEF Rollback, Staged, NoOp
  <2> QED
    BY <1>24, <2>1, Zenon DEF Rollback
<1>25. ASSUME NEW v \in Version, Apply(v) PROVE Goal'
  <2>1. op'.at = "staged"
    BY <1>25, Zenon DEF Apply, Staged, NoOp
  <2> QED
    BY <1>25, <2>1, Zenon DEF Apply
<1>26. ASSUME NEW v \in Version, FileLost(v) PROVE Goal'
  BY <1>26, Zenon DEF FileLost
<1>27. CASE UNCHANGED vars
  BY <1>27, Zenon DEF vars
<1> QED
  BY ZenonT(60), <1>1, <1>2, <1>3, <1>4, <1>5, <1>6, <1>7, <1>8, <1>9, <1>10, <1>11,
     <1>12, <1>13, <1>14, <1>15, <1>16, <1>17, <1>18, <1>19, <1>20, <1>21,
     <1>22, <1>23, <1>24, <1>25, <1>26, <1>27
    DEF Next, Startup, Confirming, Switching, Finishing

-----------------------------------------------------------------------------
\* Every step counts a start before it happens.
LEMMA CountStep ==
  ASSUME "early" \notin Faults, "exec" \notin Faults, "save" \notin Faults,
         Known, [Next]_vars
  PROVE  CountInv'
<1> DEFINE Goal == CountInv
<1> SUFFICES Goal'
  BY Zenon
<1>t. /\ state \in State /\ confirm.st \in State /\ op.st \in State
      /\ pending.undo \in State
  BY Zenon DEF Known, TypeOK
<1>g. /\ stayed \in [Version -> BOOLEAN] /\ starts \in [Version -> Nat]
      /\ state.attempts \in Nat /\ Base \notin Version
  BY ZenonT(60), <1>t, StateFields, UpgradeAssumption DEF Known, TypeOK
<1>n. NoOp.at = "idle" /\ ~NoSwitch.on
  BY Zenon DEF NoOp, NoSwitch
<1>o. ~NoState.on
  BY Zenon DEF NoState
<1> USE DEF Known, CountInv
<1>1. CASE Boot
  BY <1>1, Zenon DEF Boot
<1>2. CASE LaunchBase
  BY <1>2, Zenon DEF LaunchBase
<1>3. CASE LaunchRevert
  <2>1. op = NoOp /\ pending = NoSwitch
    BY <1>3, Zenon DEF LaunchRevert, QuietInv, Serving
  <2>2. state'.active = IF state.previous = None THEN Base ELSE state.previous
    BY <1>3, <1>t, Zenon DEF LaunchRevert, Reverted, State
  <2>3. state'.active \in Version => stayed[state'.active]
    BY <1>g, <2>2, Zenon DEF ProvenInv, Proven
  <2> QED
    BY <1>3, <1>n, <2>1, <2>3, Zenon DEF LaunchRevert
<1>4. CASE LaunchStaged
  <2>1. state.active \in Version /\ state.on
    BY <1>4, <1>t, StateFields, Zenon DEF LaunchStaged
  <2>2. starts' = [starts EXCEPT ![state.active] = @ + 1] /\ stayed' = stayed
    BY <1>4, Zenon DEF LaunchStaged, Exec
  <2>3. state'.active = state.active
    BY <1>4, <1>t, WrittenFields, Zenon DEF LaunchStaged
  <2>4. state'.attempts = state.attempts + 1
    BY <1>4, <1>t, Zenon DEF LaunchStaged, State
  <2>5. starts'[state.active] = starts[state.active] + 1
    BY <1>g, <2>1, <2>2, Zenon
  <2>6. ~stayed[state.active] => starts[state.active] <= state.attempts
    BY <2>1, Zenon
  <2>7. starts[state.active] \in Nat
    BY <1>g, <2>1, Zenon
  <2>8. ~stayed'[state'.active] => starts'[state'.active] <= state'.attempts
    BY <1>g, <2>2, <2>3, <2>4, <2>5, <2>6, <2>7
  <2> QED
    BY <1>4, <1>n, <2>8, Zenon DEF LaunchStaged, Exec, Fresh
<1>5. CASE StartUp
  BY <1>5, Zenon DEF StartUp
<1>6. CASE BadExit
  BY <1>6, <1>n, Zenon DEF BadExit, Die, Fresh
<1>7. CASE ConfirmLoad
  <2>1. proc.ver \in Version /\ stayed' = [stayed EXCEPT ![proc.ver] = TRUE]
    BY <1>7, Zenon DEF ConfirmLoad, ConfirmInv, Launched, TypeOK
  <2>2. \A v \in Version : ~stayed'[v] => ~stayed[v]
    BY <1>g, <2>1, Zenon
  <2> QED
    BY <1>7, <2>2, Zenon DEF ConfirmLoad
<1>8. CASE ConfirmSave
  <2>1. confirm.st.active = proc.ver /\ stayed[proc.ver]
    BY <1>8, Zenon DEF ConfirmSave, RecordInv, ProvenInv
  <2>2. state'.active = proc.ver
    BY <1>8, <1>t, <2>1, WrittenFields, Zenon DEF ConfirmSave
  <2>3. op.at = "idle" /\ ~pending.on
    BY <1>8, Zenon DEF ConfirmSave, ConfirmInv
  <2> QED
    BY <1>8, <2>1, <2>2, <2>3, Zenon DEF ConfirmSave
<1>9. CASE SwitchLoad
  <2>1. op'.at = "loaded"
    BY <1>9, Zenon DEF SwitchLoad, TypeOK
  <2> QED
    BY <1>9, <2>1, Zenon DEF SwitchLoad
<1>10. CASE SwitchSave
  <2>1. /\ op'.target = op.target /\ ~pending.on
        /\ op.target \in Version \cup {Base}
    BY ZenonT(60), <1>10 DEF SwitchSave, TypeOK, RecordInv
  <2>2. /\ state'.active = op.target
        /\ state'.attempts = IF op.target = Base THEN 0 ELSE 1
    BY <1>10, Zenon DEF SwitchSave, Switched
  <2>3. op.target \in Version => starts'[op.target] = 0
    BY <1>10, <1>g, Zenon DEF SwitchSave
  <2> QED
    BY <1>10, <1>g, <2>1, <2>2, <2>3 DEF SwitchSave
<1>11. CASE SwitchPend
  <2>1. pending'.target = op.target
    BY <1>11, Zenon DEF SwitchPend
  <2> QED
    BY <1>11, <1>n, <2>1, Zenon DEF SwitchPend
<1>12. CASE Stop
  BY <1>12, Zenon DEF Stop
<1>13. CASE FinishPlain
  BY <1>13, <1>n, Zenon DEF FinishPlain, Die, Fresh
<1>14. CASE Abort
  <2>1. ProvenBefore(pending.undo, pending.target, pending.was, stayed)
    BY <1>14, Zenon DEF Abort, ProvenInv
  <2>2. pending.undo.active \in Version =>
          stayed'[pending.undo.active] = stayed[pending.undo.active]
    BY <1>14, <1>g, <2>1, Zenon DEF Abort, ProvenBefore, TypeOK
  <2>3. state'.on => state'.active = pending.undo.active
    BY <1>14, <1>t, StateFields, WrittenFields DEF Abort, Undone
  <2>4. state'.active \in Version /\ state'.on => stayed'[state'.active]
    BY <2>1, <2>2, <2>3, Zenon DEF ProvenBefore
  <2> QED
    BY <1>14, <1>n, <2>4, Zenon DEF Abort, Fresh
<1>15. CASE FinishExec
  <2>1. state.on => state.active = pending.target
    BY <1>15, Zenon DEF FinishExec, RecordInv
  <2>2. pending.target \in Version =>
          starts' = [starts EXCEPT ![pending.target] = @ + 1]
    BY <1>15, <1>g, Zenon DEF FinishExec, Exec
  <2>3. pending.target \in Version => starts'[pending.target] = 1
    BY <1>15, <1>g, <2>2 DEF FinishExec
  <2>4. pending.target \in Version /\ state.on => state.attempts >= 1
    BY <1>15, Zenon DEF FinishExec
  <2> QED
    BY <1>15, <1>g, <1>n, <2>1, <2>3, <2>4, Zenon DEF FinishExec, Exec, Fresh
<1>16. CASE LaunchFails
  BY <1>16, Zenon DEF LaunchFails
<1>17. CASE ConfirmSaveFails
  BY <1>17, Zenon DEF ConfirmSaveFails
<1>18. CASE SwitchFails
  BY <1>18, Zenon DEF SwitchFails
<1>19. CASE FinishFails
  BY <1>19, Zenon DEF FinishFails
<1>20. CASE Crash
  BY <1>20, <1>n, Zenon DEF Crash, Die, Fresh
<1>21. CASE Signal
  BY <1>21, Zenon DEF Signal
<1>22. CASE Discard
  BY <1>22, <1>o, Zenon DEF Discard
<1>23. CASE StateDeleted
  BY <1>23, <1>o, Zenon DEF StateDeleted
<1>24. CASE Rollback
  <2>1. op'.at = "staged"
    BY <1>24, Zenon DEF Rollback, Staged, NoOp
  <2> QED
    BY <1>24, <2>1, Zenon DEF Rollback
<1>25. ASSUME NEW v \in Version, Apply(v) PROVE Goal'
  <2>1. op'.at = "staged"
    BY <1>25, Zenon DEF Apply, Staged, NoOp
  <2> QED
    BY <1>25, <2>1, Zenon DEF Apply
<1>26. ASSUME NEW v \in Version, FileLost(v) PROVE Goal'
  BY <1>26, Zenon DEF FileLost
<1>27. CASE UNCHANGED vars
  BY <1>27, Zenon DEF vars
<1> QED
  BY ZenonT(60), <1>1, <1>2, <1>3, <1>4, <1>5, <1>6, <1>7, <1>8, <1>9, <1>10, <1>11,
     <1>12, <1>13, <1>14, <1>15, <1>16, <1>17, <1>18, <1>19, <1>20, <1>21,
     <1>22, <1>23, <1>24, <1>25, <1>26, <1>27
    DEF Next, Startup, Confirming, Switching, Finishing

-----------------------------------------------------------------------------
\* No step starts a version once too often.
LEMMA DropStep ==
  ASSUME "early" \notin Faults, "exec" \notin Faults, "save" \notin Faults,
         Known, DroppedAfterTwo, [Next]_vars
  PROVE  DroppedAfterTwo'
<1> DEFINE Goal == DroppedAfterTwo
<1> SUFFICES Goal'
  BY Zenon
<1>g. /\ stayed \in [Version -> BOOLEAN] /\ starts \in [Version -> Nat]
      /\ state \in State /\ MaxAttempts \in Nat \ {0} /\ Base \notin Version
  BY ZenonT(60), UpgradeAssumption DEF Known, TypeOK
<1> USE DEF Known, DroppedAfterTwo
<1>1. CASE Boot
  BY <1>1, Zenon DEF Boot
<1>2. CASE LaunchBase
  BY <1>2, Zenon DEF LaunchBase
<1>3. CASE LaunchRevert
  BY <1>3, Zenon DEF LaunchRevert
<1>4. CASE LaunchStaged
  <2>1. state.active \in Version /\ state.on /\ state.attempts \in Nat
    BY <1>4, <1>g, StateFields, Zenon DEF LaunchStaged
  <2>2. starts' = [starts EXCEPT ![state.active] = @ + 1] /\ stayed' = stayed
    BY <1>4, Zenon DEF LaunchStaged, Exec
  <2>3. ~stayed[state.active] => state.attempts < MaxAttempts
    BY <1>4, <1>g, <2>1 DEF LaunchStaged, Dropped, ProvenInv, Proven
  <2>4. ~stayed[state.active] => starts[state.active] <= state.attempts
    BY <2>1, Zenon DEF CountInv
  <2>5. ~stayed[state.active] => starts[state.active] + 1 <= MaxAttempts
    BY <1>g, <2>1, <2>3, <2>4
  <2> QED
    BY <1>g, <2>1, <2>2, <2>5, Zenon
<1>5. CASE StartUp
  BY <1>5, Zenon DEF StartUp
<1>6. CASE BadExit
  BY <1>6, Zenon DEF BadExit, Die
<1>7. CASE ConfirmLoad
  <2>1. proc.ver \in Version /\ stayed' = [stayed EXCEPT ![proc.ver] = TRUE]
    BY <1>7, Zenon DEF ConfirmLoad, ConfirmInv, Launched, TypeOK
  <2>2. \A v \in Version : ~stayed'[v] => ~stayed[v]
    BY <1>g, <2>1, Zenon
  <2> QED
    BY <1>7, <2>2, Zenon DEF ConfirmLoad
<1>8. CASE ConfirmSave
  BY <1>8, Zenon DEF ConfirmSave
<1>9. CASE SwitchLoad
  BY <1>9, Zenon DEF SwitchLoad
<1>10. CASE SwitchSave
  <2>1. CASE op.target = Base
    BY <1>10, <2>1, Zenon DEF SwitchSave
  <2>2. CASE op.target # Base
    <3>1. /\ starts' = [starts EXCEPT ![op.target] = 0]
          /\ stayed' = [stayed EXCEPT ![op.target] = FALSE]
      BY <1>10, <2>2, Zenon DEF SwitchSave
    <3> QED
      BY <1>g, <3>1
  <2> QED
    BY <2>1, <2>2, Zenon
<1>11. CASE SwitchPend
  BY <1>11, Zenon DEF SwitchPend
<1>12. CASE Stop
  BY <1>12, Zenon DEF Stop
<1>13. CASE FinishPlain
  BY <1>13, Zenon DEF FinishPlain, Die
<1>14. CASE Abort
  <2>1. pending.target \in Version => starts[pending.target] = 0
    BY <1>14, Zenon DEF Abort, CountInv
  <2> QED
    BY <1>14, <1>g, <2>1 DEF Abort, TypeOK
<1>15. CASE FinishExec
  <2>1. pending.target \in Version => starts[pending.target] = 0
    BY <1>15, Zenon DEF FinishExec, CountInv
  <2>2. CASE pending.target = Base
    BY <1>15, <2>2, Zenon DEF FinishExec, Exec
  <2>3. CASE pending.target # Base
    <3>1. /\ starts' = [starts EXCEPT ![pending.target] = @ + 1]
          /\ stayed' = stayed /\ pending.target \in Version
      BY <1>15, <2>3, Zenon DEF FinishExec, Exec, TypeOK
    <3> QED
      BY <1>g, <2>1, <3>1
  <2> QED
    BY <2>2, <2>3, Zenon
<1>16. CASE LaunchFails
  BY <1>16, Zenon DEF LaunchFails
<1>17. CASE ConfirmSaveFails
  BY <1>17, Zenon DEF ConfirmSaveFails
<1>18. CASE SwitchFails
  BY <1>18, Zenon DEF SwitchFails
<1>19. CASE FinishFails
  BY <1>19, Zenon DEF FinishFails, Die
<1>20. CASE Crash
  BY <1>20, Zenon DEF Crash, Die
<1>21. CASE Signal
  BY <1>21, Zenon DEF Signal
<1>22. CASE Discard
  BY <1>22, Zenon DEF Discard
<1>23. CASE StateDeleted
  BY <1>23, Zenon DEF StateDeleted
<1>24. CASE Rollback
  BY <1>24, Zenon DEF Rollback
<1>25. ASSUME NEW v \in Version, Apply(v) PROVE Goal'
  BY <1>25, Zenon DEF Apply
<1>26. ASSUME NEW v \in Version, FileLost(v) PROVE Goal'
  BY <1>26, Zenon DEF FileLost
<1>27. CASE UNCHANGED vars
  BY <1>27, Zenon DEF vars
<1> QED
  BY ZenonT(60), <1>1, <1>2, <1>3, <1>4, <1>5, <1>6, <1>7, <1>8, <1>9, <1>10, <1>11,
     <1>12, <1>13, <1>14, <1>15, <1>16, <1>17, <1>18, <1>19, <1>20, <1>21,
     <1>22, <1>23, <1>24, <1>25, <1>26, <1>27
    DEF Next, Startup, Confirming, Switching, Finishing

\* What the invariants read of an initial state.
LEMMA InitFields ==
  ASSUME Init
  PROVE  /\ state = NoState /\ ~state.on
         /\ proc.at = "down" /\ proc.ver = Base
         /\ confirm.at = "off" /\ confirm.st = NoState
         /\ op.at = "idle" /\ pending = NoSwitch /\ ~pending.on
BY Zenon DEF Init, NoState, Timer, NoOp, NoSwitch

\* What the two theorems below rest on holds in every state.
LEMMA KnownInvariant ==
  ASSUME "early" \notin Faults, "exec" \notin Faults, "save" \notin Faults
  PROVE  Spec => []Known
<1>1. Init => Known
  <2>1. Init => ConfirmInv /\ RecordInv
    BY RecordInit, Zenon
  <2>2. Init => BaseInv /\ EmptyInv
    BY InitFields, Zenon DEF BaseInv, EmptyInv
  <2>3. Init => ProvenInv
    BY InitFields, ProvenNone, Zenon DEF ProvenInv, Serving, Launched
  <2>4. Init => CountInv
    BY InitFields, Zenon DEF CountInv
  <2> QED
    BY <2>1, <2>2, <2>3, <2>4, TypeInit, QuietInit, Zenon DEF Known
<1>2. Known /\ [Next]_vars => Known'
  <2> SUFFICES ASSUME Known, [Next]_vars PROVE Known'
    BY Zenon
  <2>1. TypeOK /\ QuietInv /\ ConfirmInv /\ RecordInv
    BY Zenon DEF Known
  <2>2. TypeOK' /\ QuietInv' /\ ConfirmInv' /\ RecordInv'
    BY <2>1, TypeStep, QuietStep, RecordStep, Zenon
  <2>3. BaseInv' /\ EmptyInv' /\ ProvenInv' /\ CountInv'
    BY BaseStep, EmptyStep, ProvenStep, CountStep, Zenon
  <2> QED
    BY <2>2, <2>3, Zenon DEF Known
<1> QED
  BY <1>1, <1>2, PTL DEF Spec

\* While nobody asks for a switch in the first seconds of a version and no
\* save and no exec fails, Relaunch starts a version that has not stayed up
\* since it was chosen at most MaxAttempts times, however crashes, signals,
\* lost files, a deleted state, reverts and aborted switches interleave.
THEOREM DropsAfterMaxAttempts ==
  ASSUME "early" \notin Faults, "exec" \notin Faults, "save" \notin Faults
  PROVE  Spec => []DroppedAfterTwo
<1>1. Init => DroppedAfterTwo
  BY UpgradeAssumption DEF Init, DroppedAfterTwo
<1>2. Known /\ DroppedAfterTwo /\ [Next]_vars => DroppedAfterTwo'
  BY DropStep, Zenon
<1> QED
  BY <1>1, <1>2, KnownInvariant, PTL DEF Spec

-----------------------------------------------------------------------------
\* While nobody deletes state.json, a switch starts from what runs.
LEMMA RanStep ==
  ASSUME "early" \notin Faults, "exec" \notin Faults, "save" \notin Faults,
         "delete" \notin Faults, Known, RanInv, [Next]_vars
  PROVE  RanInv'
<1> DEFINE Goal == RanInv
<1> SUFFICES Goal'
  BY Zenon
<1>t. /\ state \in State /\ confirm.st \in State /\ op.st \in State
      /\ pending.undo \in State
  BY Zenon DEF Known, TypeOK
<1>n. /\ NoOp.at = "idle" /\ ~NoSwitch.on /\ Down.ver = Base
  BY Zenon DEF NoOp, NoSwitch, Down
<1> USE DEF Known, RanInv, Launched
<1>1. CASE Boot
  <2>1. /\ proc'.ver = Base /\ op = NoOp /\ pending = NoSwitch
    BY <1>1, Zenon DEF Boot, QuietInv, Serving, TypeOK
  <2> QED
    BY ZenonT(60), <1>1, <1>n, <2>1 DEF Boot
<1>2. CASE LaunchBase
  <2>1. /\ proc'.ver = Base /\ op = NoOp /\ pending = NoSwitch
    BY <1>2, Zenon DEF LaunchBase, QuietInv, Serving, TypeOK
  <2> QED
    BY <1>2, <1>n, <2>1, Zenon DEF LaunchBase
<1>3. CASE LaunchRevert
  <2>1. /\ proc'.ver = Base /\ op = NoOp /\ pending = NoSwitch
    BY <1>3, Zenon DEF LaunchRevert, QuietInv, Serving, TypeOK
  <2> QED
    BY <1>3, <1>n, <2>1, Zenon DEF LaunchRevert
<1>4. CASE LaunchStaged
  <2>1. state'.on
    BY <1>4, <1>t, WrittenFields DEF LaunchStaged
  <2> QED
    BY <1>4, <1>n, <2>1, Zenon DEF LaunchStaged, Exec, Fresh
<1>5. CASE StartUp
  <2>1. op = NoOp /\ pending = NoSwitch
    BY <1>5, Zenon DEF StartUp, QuietInv, Serving
  <2>2. proc' = Down \/ proc'.ver = proc.ver
    BY <1>5, Zenon DEF StartUp, TypeOK
  <2> QED
    BY <1>5, <1>n, <2>1, <2>2, Zenon DEF StartUp
<1>6. CASE BadExit
  BY ZenonT(60), <1>6, <1>n DEF BadExit, Die, Fresh
<1>7. CASE ConfirmLoad
  BY <1>7, Zenon DEF ConfirmLoad
<1>8. CASE ConfirmSave
  <2>1. state'.on
    BY <1>8, <1>t, WrittenFields, Zenon DEF ConfirmSave, RecordInv
  <2> QED
    BY <1>8, <2>1, Zenon DEF ConfirmSave
<1>9. CASE SwitchLoad
  <2>1. op'.at = "loaded" /\ op'.st = [state EXCEPT !.on = TRUE]
    BY <1>9, Zenon DEF SwitchLoad, TypeOK
  <2>2. op'.st.active = state.active
    BY <2>1, <1>t, WrittenFields
  <2>3. state.active = proc.ver
    <3>1. CASE state.on
      BY <1>9, <3>1 DEF SwitchLoad, Serving, RecordInv, BaseInv
    <3>2. CASE ~state.on
      <4>1. state.active = Base
        BY <3>2 DEF EmptyInv, NoState
      <4> QED
        BY <3>2, <4>1, Zenon
    <3> QED
      BY <3>1, <3>2, Zenon
  <2> QED
    BY <1>9, <2>1, <2>2, <2>3, Zenon DEF SwitchLoad
<1>10. CASE SwitchSave
  <2>1. op'.st = op.st
    BY ZenonT(60), <1>10 DEF SwitchSave, TypeOK
  <2>2. state'.on
    BY ZenonT(60), <1>10, <1>t, WrittenFields DEF SwitchSave
  <2> QED
    BY <1>10, <2>1, <2>2, Zenon DEF SwitchSave
<1>11. CASE SwitchPend
  <2>1. pending'.undo = op.st
    BY <1>11, Zenon DEF SwitchPend
  <2> QED
    BY <1>11, <1>n, <2>1, Zenon DEF SwitchPend
<1>12. CASE Stop
  <2>1. proc'.ver = proc.ver
    BY <1>12, Zenon DEF Stop, TypeOK
  <2> QED
    BY <1>12, <2>1, Zenon DEF Stop
<1>13. CASE FinishPlain
  BY <1>13, <1>n, Zenon DEF FinishPlain, Die, Fresh
<1>14. CASE Abort
  BY <1>14, <1>n, Zenon DEF Abort, Fresh
<1>15. CASE FinishExec
  BY <1>15, <1>n, Zenon DEF FinishExec, Exec, Fresh
<1>16. CASE LaunchFails
  BY <1>16, Zenon DEF LaunchFails
<1>17. CASE ConfirmSaveFails
  BY <1>17, Zenon DEF ConfirmSaveFails
<1>18. CASE SwitchFails
  BY <1>18, Zenon DEF SwitchFails
<1>19. CASE FinishFails
  BY <1>19, Zenon DEF FinishFails
<1>20. CASE Crash
  BY <1>20, <1>n, Zenon DEF Crash, Die, Fresh
<1>21. CASE Signal
  <2>1. proc'.ver = proc.ver
    BY <1>21, Zenon DEF Signal, TypeOK
  <2> QED
    BY <1>21, <2>1, Zenon DEF Signal
<1>22. CASE Discard
  BY <1>22, Zenon DEF Discard
<1>23. CASE StateDeleted
  BY <1>23, Zenon DEF StateDeleted
<1>24. CASE Rollback
  <2>1. op'.at = "staged"
    BY <1>24, Zenon DEF Rollback, Staged, NoOp
  <2>2. op.at = "idle"
    BY <1>24, Zenon DEF Rollback, Begin
  <2> QED
    BY <1>24, <2>1, <2>2, Zenon DEF Rollback
<1>25. ASSUME NEW v \in Version, Apply(v) PROVE Goal'
  <2>1. op'.at = "staged"
    BY <1>25, Zenon DEF Apply, Staged, NoOp
  <2>2. op.at = "idle"
    BY <1>25, Zenon DEF Apply, Begin
  <2> QED
    BY <1>25, <2>1, <2>2, Zenon DEF Apply
<1>26. ASSUME NEW v \in Version, FileLost(v) PROVE Goal'
  BY <1>26, Zenon DEF FileLost
<1>27. CASE UNCHANGED vars
  BY <1>27, Zenon DEF vars
<1> QED
  BY ZenonT(60), <1>1, <1>2, <1>3, <1>4, <1>5, <1>6, <1>7, <1>8, <1>9, <1>10, <1>11,
     <1>12, <1>13, <1>14, <1>15, <1>16, <1>17, <1>18, <1>19, <1>20, <1>21,
     <1>22, <1>23, <1>24, <1>25, <1>26, <1>27
    DEF Next, Startup, Confirming, Switching, Finishing

\* RanInv holds in every state.
LEMMA RanInvariant ==
  ASSUME "early" \notin Faults, "exec" \notin Faults, "save" \notin Faults,
         "delete" \notin Faults
  PROVE  Spec => []RanInv
<1>1. Init => RanInv
  BY InitFields, Zenon DEF RanInv, Launched
<1>2. Known /\ RanInv /\ [Next]_vars => RanInv'
  BY RanStep, Zenon
<1> QED
  BY <1>1, <1>2, KnownInvariant, PTL DEF Spec

\* Under the same conditions, and while nobody deletes state.json, switchTo
\* makes the version that runs the rollback target, also after any number of
\* reverts, crashes and aborted switches.
THEOREM SwitchRemembersWhatRan ==
  ASSUME "early" \notin Faults, "exec" \notin Faults, "save" \notin Faults,
         "delete" \notin Faults
  PROVE  Spec => RemembersWhatRan
<1>1. Known /\ RanInv /\ [Next]_vars =>
        [SwitchSave => state'.previous = proc.ver]_vars
  <2> SUFFICES ASSUME Known, RanInv, SwitchSave
               PROVE  state'.previous = proc.ver
    BY Zenon
  <2> QED
    BY Zenon DEF RanInv, SwitchSave, Switched
<1> QED
  BY <1>1, KnownInvariant, RanInvariant, PTL DEF Spec, RemembersWhatRan

\* Under the same conditions Abort puts back the version that runs.
THEOREM AbortRestoresWhatRuns ==
  ASSUME "early" \notin Faults, "exec" \notin Faults, "save" \notin Faults,
         "delete" \notin Faults
  PROVE  Spec => AbortKeepsCurrent
<1>1. Known /\ RanInv /\ [Next]_vars =>
        [Abort /\ state.on => state'.active = proc.ver]_vars
  <2> SUFFICES ASSUME Known, RanInv, Abort, state.on
               PROVE  state'.active = proc.ver
    BY Zenon
  <2>1. pending.undo \in State /\ state.on \in BOOLEAN
    BY StateFields, Zenon DEF Known, TypeOK
  <2>2. state' = [pending.undo EXCEPT !.on = state.on]
    BY Zenon DEF Abort, Undone
  <2>3. state'.active = pending.undo.active
    BY <2>1, <2>2, WrittenFields, Zenon
  <2> QED
    BY <2>3, Zenon DEF RanInv, Abort
<1> QED
  BY <1>1, KnownInvariant, RanInvariant, PTL DEF Spec, AbortKeepsCurrent
=============================================================================
