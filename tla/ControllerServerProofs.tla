---------------------- MODULE ControllerServerProofs ----------------------
(***************************************************************************)
(* Proofs about ControllerServer, for any number of goals and plugins.     *)
(***************************************************************************)
EXTENDS ControllerServer, TLAPS

LivePlaces == {"begin", "wait_map", "setup", "loop", "pose", "compute",
               "reached", "stop_succeeded", "stop_aborted", "succeed", "abort"}

(* A goal has a thread exactly from the moment handle_accepted detached it, *)
(* and between handle_goal and that moment it already holds the lock.       *)
ThreadStarts ==
  \A g \in Goal :
    /\ pc[g] = "none" <=> status[g] \in {"unknown", "rejected", "accepted"}
    /\ status[g] = "accepted" => holder = g

(* Before its last steps a thread has not given a verdict; after them it    *)
(* has, unless the process was shut down meanwhile.                         *)
VerdictPlace ==
  \A g \in Goal :
    /\ pc[g] \in LivePlaces => status[g] \in {"executing", "canceling"}
    /\ pc[g] = "stop_canceled" => status[g] = "canceled"
    /\ pc[g] \in {"stop_again", "unlock", "done"} /\ process = "running"
         => status[g] \in {"canceled", "aborted", "succeeded"}

(* The drone moves only for a goal whose thread still has to stop it. *)
FlyingPlace ==
  process = "running" =>
    \A g \in Goal : commanded = g => pc[g] \in FlyingPlaces

(* end_pose_ is the goal's from its first step on. *)
EndPosePlace == \A g \in Goal : pc[g] \in {"wait_map", "setup"} => end_pose = g

(* A thread on its way to abort() knows the exception that sent it there. *)
AbortPlace ==
  \A g \in Goal : pc[g] \in {"stop_aborted", "abort"} => failure[g] \in ExceptionKinds

(* The inductive invariant. *)
IInv ==
  /\ TypeOK
  /\ OneCommander
  /\ LockNotLeaked
  /\ ThreadStarts
  /\ VerdictPlace
  /\ AbortPlace
  /\ EndPosePlace
  /\ OwnPath
  /\ FlyingPlace

LEMMA FindIdFinds ==
  ASSUME NEW plugins, NEW name
  PROVE  FindId(plugins, name) \subseteq plugins
BY DEF FindId

LEMMA ErrorCodes ==
  ASSUME NEW k PROVE k \in ExceptionKinds => ErrorCode[k] \in 0..5
BY DEF ErrorCode, ExceptionKinds

LEMMA InitInvariant == Init => IInv
<1> SUFFICES ASSUME Init PROVE IInv
  OBVIOUS
<1> USE DEF Init
<1>1. TypeOK
  <2>1. loaded \in [controllers : SUBSET ControllerIds,
                   checkers : SUBSET GoalCheckerIds, progress : BOOLEAN]
    OBVIOUS
  <2>2. status \in [Goal -> Statuses] /\ pc \in [Goal -> Places]
    BY DEF Statuses, Places
  <2>3. /\ request \in [Goal -> Requests \cup {None}]
        /\ plan \in [ControllerIds -> Goal \cup {None}]
        /\ failure \in [Goal -> ExceptionKinds \cup {None}]
    OBVIOUS
  <2>4. result \in [Goal -> 0..5]
    OBVIOUS
  <2>5. check_xy \in [GoalCheckerIds -> BOOLEAN] /\ arrived \in [Goal -> BOOLEAN]
    OBVIOUS
  <2> QED BY <2>1, <2>2, <2>3, <2>4, <2>5 DEF TypeOK
<1>2. OneCommander /\ LockNotLeaked /\ EndPosePlace /\ OwnPath
  BY ControllerServerAssumption DEF OneCommander, LockNotLeaked, EndPosePlace, OwnPath
<1>3. ThreadStarts /\ VerdictPlace /\ AbortPlace /\ FlyingPlace
  BY ControllerServerAssumption
     DEF ThreadStarts, VerdictPlace, AbortPlace, FlyingPlace, LivePlaces
<1> QED BY <1>1, <1>2, <1>3 DEF IInv

LEMMA LockStep == IInv /\ [Next]_vars => (OneCommander /\ LockNotLeaked /\ ThreadStarts)'
<1> SUFFICES ASSUME IInv, [Next]_vars
             PROVE  (OneCommander /\ LockNotLeaked /\ ThreadStarts)'
  OBVIOUS
<1> USE ControllerServerAssumption DEF IInv, OneCommander, LockNotLeaked, ThreadStarts
<1> DEFINE Goal1 == (OneCommander /\ LockNotLeaked /\ ThreadStarts)'
<1>1. CASE Startup
  BY <1>1 DEF Startup
<1>2. ASSUME NEW g \in Goal, NEW r \in Requests, NEW e \in BOOLEAN, HandleGoal(g, r, e)
      PROVE  Goal1
  BY <1>2 DEF HandleGoal, TypeOK
<1>3. ASSUME NEW g \in Goal, HandleAccepted(g)
      PROVE  Goal1
  BY <1>3 DEF HandleAccepted, TypeOK
<1>4. ASSUME NEW g \in Goal, HandleCancel(g)
      PROVE  Goal1
  BY <1>4 DEF HandleCancel, TypeOK
<1>5. CASE OdomBegin \/ OdomEnd
  BY <1>5 DEF OdomBegin, OdomEnd
<1>6. CASE MapChanges \/ Shutdown \/ Exit \/ Ended \/ UNCHANGED vars
  BY <1>6 DEF MapChanges, Shutdown, Exit, ProcessBecomes, Ended, vars
<1>7. ASSUME NEW g \in Goal, Execute(g)
      PROVE  Goal1
  <2>1. CASE Begin(g)
    BY <2>1 DEF Begin, Goto, TypeOK
  <2>2. CASE WaitMap(g) \/ Setup(g) \/ SetupThrows(g)
    BY <2>2 DEF WaitMap, Setup, SetupThrows, Goto, TypeOK
  <2>3. CASE SetupEndsProcess(g) \/ CheckProgressThrows(g)
    BY <2>3 DEF SetupEndsProcess, CheckProgressThrows, EscapesThread, ProcessBecomes
  <2>4. CASE LoopTop(g)
    BY <2>4 DEF LoopTop, Goto, TypeOK
  <2>5. CASE CheckProgress(g) \/ Compute(g) \/ ComputeThrows(g)
    BY <2>5 DEF CheckProgress, Compute, ComputeThrows, Goto, TypeOK
  <2>6. CASE CheckGoal(g) \/ CheckGoalWithoutPose(g)
    BY <2>6 DEF CheckGoal, CheckGoalWithoutPose, Goto, TypeOK
  <2>7. CASE StopDrone(g)
    BY <2>7 DEF StopDrone, Goto, TypeOK
  <2>8. CASE Succeed(g) \/ Abort(g)
    BY <2>8 DEF Succeed, Abort, Goto, VerdictPlace, LivePlaces, TypeOK
  <2>9. CASE Unlock(g)
    BY <2>9 DEF Unlock, Goto, TypeOK
  <2> QED BY <1>7, <2>1, <2>2, <2>3, <2>4, <2>5, <2>6, <2>7, <2>8, <2>9 DEF Execute
<1> QED BY <1>1, <1>2, <1>3, <1>4, <1>5, <1>6, <1>7 DEF Next, Callback

LEMMA VerdictStep == IInv /\ [Next]_vars => VerdictPlace'
<1> SUFFICES ASSUME IInv, [Next]_vars PROVE VerdictPlace'
  OBVIOUS
<1> USE DEF IInv, VerdictPlace, LivePlaces
<1>1. CASE Startup \/ OdomBegin \/ OdomEnd
  BY <1>1 DEF Startup, OdomBegin, OdomEnd
<1>2. ASSUME NEW g \in Goal, NEW r \in Requests, NEW e \in BOOLEAN, HandleGoal(g, r, e)
      PROVE  VerdictPlace'
  BY <1>2 DEF HandleGoal, ThreadStarts, TypeOK, Places, FlyingPlaces
<1>3. ASSUME NEW g \in Goal, HandleAccepted(g)
      PROVE  VerdictPlace'
  BY <1>3 DEF HandleAccepted, ThreadStarts, TypeOK
<1>4. ASSUME NEW g \in Goal, HandleCancel(g)
      PROVE  VerdictPlace'
  BY <1>4 DEF HandleCancel, TakesCallback, TypeOK
<1>5. CASE MapChanges \/ Shutdown \/ Exit \/ Ended \/ UNCHANGED vars
  BY <1>5 DEF MapChanges, Shutdown, Exit, ProcessBecomes, Ended, executorVars, vars
<1>6. ASSUME NEW g \in Goal, Execute(g)
      PROVE  VerdictPlace'
  <2> USE DEF Goto, TypeOK, executorVars
  <2>1. CASE Begin(g) \/ WaitMap(g)
    BY <2>1 DEF Begin, WaitMap
  <2>2. CASE Setup(g) \/ SetupThrows(g)
    BY <2>2 DEF Setup, SetupThrows
  <2>3. CASE SetupEndsProcess(g) \/ CheckProgressThrows(g)
    BY <2>3 DEF SetupEndsProcess, CheckProgressThrows, EscapesThread, ProcessBecomes
  <2>4. CASE LoopTop(g)
    BY <2>4 DEF LoopTop
  <2>5. CASE CheckProgress(g) \/ Compute(g) \/ ComputeThrows(g)
    BY <2>5 DEF CheckProgress, Compute, ComputeThrows
  <2>6. CASE CheckGoal(g) \/ CheckGoalWithoutPose(g)
    BY <2>6 DEF CheckGoal, CheckGoalWithoutPose
  <2>7. CASE StopDrone(g)
    BY <2>7 DEF StopDrone
  <2>8. CASE Succeed(g)
    BY <2>8 DEF Succeed
  <2>9. CASE Abort(g) \/ Unlock(g)
    BY <2>9 DEF Abort, Unlock
  <2> QED BY <1>6, <2>1, <2>2, <2>3, <2>4, <2>5, <2>6, <2>7, <2>8, <2>9 DEF Execute
<1> QED BY <1>1, <1>2, <1>3, <1>4, <1>5, <1>6 DEF Next, Callback

LEMMA AbortStep == IInv /\ [Next]_vars => AbortPlace'
<1> SUFFICES ASSUME IInv, [Next]_vars PROVE AbortPlace'
  OBVIOUS
<1> USE DEF IInv, AbortPlace, outcomeVars
<1>1. CASE Startup \/ OdomBegin \/ OdomEnd
  BY <1>1 DEF Startup, OdomBegin, OdomEnd
<1>2. ASSUME NEW g \in Goal,
             \/ \E r \in Requests, e \in BOOLEAN : HandleGoal(g, r, e)
             \/ HandleAccepted(g)
             \/ HandleCancel(g)
      PROVE  AbortPlace'
  BY <1>2 DEF HandleGoal, HandleAccepted, HandleCancel, TypeOK
<1>3. CASE MapChanges \/ Shutdown \/ Exit \/ Ended \/ UNCHANGED vars
  BY <1>3 DEF MapChanges, Shutdown, Exit, ProcessBecomes, Ended, vars
<1>4. ASSUME NEW g \in Goal, Execute(g)
      PROVE  AbortPlace'
  <2> USE DEF Goto, TypeOK
  <2>1. CASE Begin(g) \/ WaitMap(g) \/ Setup(g)
    BY <2>1 DEF Begin, WaitMap, Setup
  <2>2. CASE SetupThrows(g) \/ ComputeThrows(g)
    BY <2>2, ControllerServerAssumption DEF SetupThrows, ComputeThrows, ExceptionKinds
  <2>3. CASE SetupEndsProcess(g) \/ CheckProgressThrows(g)
    BY <2>3 DEF SetupEndsProcess, CheckProgressThrows, EscapesThread, ProcessBecomes
  <2>4. CASE LoopTop(g) \/ CheckProgress(g) \/ Compute(g)
    BY <2>4 DEF LoopTop, CheckProgress, Compute
  <2>5. CASE CheckGoal(g) \/ CheckGoalWithoutPose(g)
    BY <2>5 DEF CheckGoal, CheckGoalWithoutPose
  <2>6. CASE StopDrone(g) \/ Succeed(g) \/ Abort(g) \/ Unlock(g)
    BY <2>6 DEF StopDrone, Succeed, Abort, Unlock
  <2> QED BY <1>4, <2>1, <2>2, <2>3, <2>4, <2>5, <2>6 DEF Execute
<1> QED BY <1>1, <1>2, <1>3, <1>4 DEF Next, Callback

LEMMA PathStep == IInv /\ [Next]_vars => (EndPosePlace /\ OwnPath)'
<1> SUFFICES ASSUME IInv, [Next]_vars PROVE (EndPosePlace /\ OwnPath)'
  OBVIOUS
<1> USE DEF IInv, EndPosePlace, OwnPath, pluginVars
<1>1. CASE Startup \/ OdomBegin \/ OdomEnd
  BY <1>1 DEF Startup, OdomBegin, OdomEnd
<1>2. ASSUME NEW g \in Goal,
             \/ \E r \in Requests, e \in BOOLEAN : HandleGoal(g, r, e)
             \/ HandleAccepted(g)
             \/ HandleCancel(g)
      PROVE  (EndPosePlace /\ OwnPath)'
  BY <1>2 DEF HandleGoal, HandleAccepted, HandleCancel, TypeOK
<1>3. CASE MapChanges \/ Shutdown \/ Exit \/ Ended \/ UNCHANGED vars
  BY <1>3 DEF MapChanges, Shutdown, Exit, ProcessBecomes, Ended, vars
<1>4. ASSUME NEW g \in Goal, Execute(g)
      PROVE  (EndPosePlace /\ OwnPath)'
  <2> USE DEF Goto, TypeOK
  <2>1. ASSUME NEW h \in Goal, pc[g] \notin {"none", "done"}, pc[h] \notin {"none", "done"}
        PROVE  h = g
    BY <2>1 DEF OneCommander
  <2>2. CASE Begin(g)
    BY <2>1, <2>2 DEF Begin
  <2>3. CASE Setup(g)
    <3>1. PICK c \in FindId(loaded.controllers, request[g].controller) :
            current_controller' = c /\ plan' = [plan EXCEPT ![c] = g]
      BY <2>3 DEF Setup, SelectPlugins
    <3>2. c \in ControllerIds
      BY <3>1, FindIdFinds
    <3>3. plan'[current_controller'] = g
      BY <3>1, <3>2
    <3>4. ASSUME NEW h \in Goal, pc'[h] \notin {"none", "done"}
          PROVE  h = g
      BY <2>1, <2>3, <3>4 DEF Setup
    <3>5. end_pose' = g
      BY <2>3 DEF Setup
    <3>6. pc'[g] = "loop"
      BY <2>3 DEF Setup
    <3> QED BY <3>3, <3>4, <3>5, <3>6
  <2>4. CASE SetupThrows(g)
    BY <2>1, <2>4 DEF SetupThrows
  <2>5. CASE SetupEndsProcess(g) \/ CheckProgressThrows(g)
    BY <2>5 DEF SetupEndsProcess, CheckProgressThrows, EscapesThread, ProcessBecomes
  <2>6. CASE WaitMap(g) \/ LoopTop(g) \/ CheckProgress(g) \/ Compute(g) \/ ComputeThrows(g)
    BY <2>6 DEF WaitMap, LoopTop, CheckProgress, Compute, ComputeThrows
  <2>7. CASE CheckGoal(g) \/ CheckGoalWithoutPose(g)
    BY <2>7 DEF CheckGoal, CheckGoalWithoutPose
  <2>8. CASE StopDrone(g) \/ Succeed(g) \/ Abort(g) \/ Unlock(g)
    BY <2>8 DEF StopDrone, Succeed, Abort, Unlock
  <2> QED BY <1>4, <2>2, <2>3, <2>4, <2>5, <2>6, <2>7, <2>8 DEF Execute
<1> QED BY <1>1, <1>2, <1>3, <1>4 DEF Next, Callback

LEMMA FlyingStep == IInv /\ [Next]_vars => FlyingPlace'
<1> SUFFICES ASSUME IInv, [Next]_vars PROVE FlyingPlace'
  OBVIOUS
<1> USE ControllerServerAssumption DEF IInv, FlyingPlace, FlyingPlaces, executorVars
<1>1. CASE Startup \/ OdomBegin \/ OdomEnd
  BY <1>1 DEF Startup, OdomBegin, OdomEnd
<1>2. ASSUME NEW g \in Goal,
             \/ \E r \in Requests, e \in BOOLEAN : HandleGoal(g, r, e)
             \/ HandleAccepted(g)
             \/ HandleCancel(g)
      PROVE  FlyingPlace'
  BY <1>2 DEF HandleGoal, HandleAccepted, HandleCancel, ThreadStarts, TypeOK
<1>3. CASE MapChanges \/ Shutdown \/ Exit \/ Ended \/ UNCHANGED vars
  BY <1>3 DEF MapChanges, Shutdown, Exit, ProcessBecomes, Ended, Alive, vars
<1>4. ASSUME NEW g \in Goal, Execute(g)
      PROVE  FlyingPlace'
  <2> USE DEF Goto, TypeOK
  <2>1. CASE Begin(g) \/ WaitMap(g) \/ Setup(g) \/ SetupThrows(g)
    BY <2>1 DEF Begin, WaitMap, Setup, SetupThrows
  <2>2. CASE SetupEndsProcess(g) \/ CheckProgressThrows(g)
    BY <2>2 DEF SetupEndsProcess, CheckProgressThrows, EscapesThread, ProcessBecomes
  <2>3. CASE LoopTop(g) \/ CheckProgress(g) \/ ComputeThrows(g)
    BY <2>3 DEF LoopTop, CheckProgress, ComputeThrows
  <2>4. CASE Compute(g)
    <3>1. process = "running" => commanded' = g
      BY <2>4 DEF Compute, Publish, OwnPath
    <3> QED BY <2>4, <3>1 DEF Compute
  <2>5. CASE CheckGoal(g) \/ CheckGoalWithoutPose(g)
    BY <2>5 DEF CheckGoal, CheckGoalWithoutPose
  <2>6. CASE StopDrone(g)
    BY <2>6 DEF StopDrone, Publish
  <2>7. CASE Succeed(g) \/ Abort(g) \/ Unlock(g)
    BY <2>7 DEF Succeed, Abort, Unlock
  <2> QED BY <1>4, <2>1, <2>2, <2>3, <2>4, <2>5, <2>6, <2>7 DEF Execute
<1> QED BY <1>1, <1>2, <1>3, <1>4 DEF Next, Callback

LEMMA TypeStep == IInv /\ [Next]_vars => TypeOK'
<1> SUFFICES ASSUME IInv, [Next]_vars PROVE TypeOK'
  OBVIOUS
<1> USE ControllerServerAssumption
        DEF IInv, TypeOK, Statuses, Places, FlyingPlaces, executorVars, pluginVars,
            checkerVars, outcomeVars
<1>1. CASE Startup
  BY <1>1 DEF Startup
<1>2. ASSUME NEW g \in Goal, NEW r \in Requests, NEW e \in BOOLEAN, HandleGoal(g, r, e)
      PROVE  TypeOK'
  BY <1>2 DEF HandleGoal
<1>3. ASSUME NEW g \in Goal, HandleAccepted(g) \/ HandleCancel(g)
      PROVE  TypeOK'
  BY <1>3 DEF HandleAccepted, HandleCancel
<1>4. CASE OdomBegin \/ OdomEnd
  BY <1>4 DEF OdomBegin, OdomEnd
<1>5. CASE MapChanges
  BY <1>5 DEF MapChanges
<1>6. CASE Shutdown \/ Exit \/ Ended \/ UNCHANGED vars
  BY <1>6 DEF Shutdown, Exit, ProcessBecomes, Ended, vars
<1>7. ASSUME NEW g \in Goal, Execute(g)
      PROVE  TypeOK'
  <2> USE DEF Goto
  <2>1. CASE Begin(g) \/ WaitMap(g)
    BY <2>1 DEF Begin, WaitMap
  <2>2. ASSUME SelectPlugins(g)
        PROVE  /\ current_controller' \in ControllerIds \cup {None}
               /\ current_goal_checker' \in GoalCheckerIds \cup {None}
               /\ plan' \in [ControllerIds -> Goal \cup {None}]
    BY <2>2, FindIdFinds DEF SelectPlugins
  <2>3. CASE Setup(g)
    BY <2>2, <2>3 DEF Setup
  <2>4. CASE SetupThrows(g)
    BY <2>2, <2>4 DEF SetupThrows, ExceptionKinds
  <2>5. CASE SetupEndsProcess(g)
    BY <2>5 DEF SetupEndsProcess, EscapesThread, ProcessBecomes, ExceptionKinds
  <2>6. CASE CheckProgressThrows(g)
    BY <2>6 DEF CheckProgressThrows, EscapesThread, ProcessBecomes, ExceptionKinds
  <2>7. CASE LoopTop(g)
    BY <2>7 DEF LoopTop
  <2>8. CASE CheckProgress(g)
    <3>1. baseline_pose_set' \in BOOLEAN
      BY <2>8 DEF CheckProgress
    <3> QED BY <2>8, <3>1 DEF CheckProgress
  <2>14. CASE Compute(g)
    <3>1. commanded' \in Goal \cup {None}
      BY <2>14 DEF Compute, Publish, OwnPath
    <3> QED BY <2>14, <3>1 DEF Compute
  <2>9. CASE ComputeThrows(g)
    BY <2>9 DEF ComputeThrows
  <2>10. CASE CheckGoal(g)
    <3>1. PICK near \in BOOLEAN, arrives \in BOOLEAN :
            /\ check_xy' = [check_xy EXCEPT ![current_goal_checker] =
                              check_xy[current_goal_checker] /\ ~(near /\ Stateful)]
            /\ arrived' = [arrived EXCEPT ![g] = arrived[g] \/ arrives]
      <4>1. PICK near \in BOOLEAN, transformed \in {TRUE, ~TransformMayFail} :
              /\ check_xy' = [check_xy EXCEPT ![current_goal_checker] =
                                check_xy[current_goal_checker] /\ ~(near /\ Stateful)]
              /\ arrived' = [arrived EXCEPT ![g] = arrived[g] \/ (near /\ transformed)]
        BY <2>10, Zenon DEF CheckGoal
      <4>2. (near /\ transformed) \in BOOLEAN
        OBVIOUS
      <4> QED BY <4>1, <4>2, Zenon
    <3>2. ASSUME NEW S, NEW f \in [S -> BOOLEAN], NEW x, NEW b \in BOOLEAN
          PROVE  [f EXCEPT ![x] = b] \in [S -> BOOLEAN]
      OBVIOUS
    <3>3. check_xy' \in [GoalCheckerIds -> BOOLEAN]
      <4>1. (check_xy[current_goal_checker] /\ ~(near /\ Stateful)) \in BOOLEAN
        BY Zenon
      <4> QED BY <3>1, <3>2, <4>1, Zenon
    <3>4. arrived' \in [Goal -> BOOLEAN]
      <4>1. (arrived[g] \/ arrives) \in BOOLEAN
        BY Zenon
      <4> QED BY <3>1, <3>2, <4>1, Zenon
    <3> QED BY <2>10, <3>3, <3>4 DEF CheckGoal
  <2>11. CASE CheckGoalWithoutPose(g) \/ StopDrone(g)
    BY <2>11 DEF CheckGoalWithoutPose, StopDrone, Publish
  <2>12. CASE Succeed(g) \/ Unlock(g)
    BY <2>12 DEF Succeed, Unlock
  <2>13. CASE Abort(g)
    BY <2>13, ErrorCodes DEF Abort, AbortPlace
  <2> QED BY <1>7, <2>1, <2>3, <2>4, <2>5, <2>6, <2>7, <2>8, <2>9, <2>10, <2>11,
             <2>12, <2>13, <2>14 DEF Execute
<1> QED BY <1>1, <1>2, <1>3, <1>4, <1>5, <1>6, <1>7 DEF Next, Callback

-----------------------------------------------------------------------------
(* The invariants of every behaviour *)

LEMMA InductiveInvariant == Spec => []IInv
<1>1. IInv /\ [Next]_vars => IInv'
  BY TypeStep, LockStep, VerdictStep, AbortStep, PathStep, FlyingStep DEF IInv
<1> QED BY InitInvariant, <1>1, PTL DEF Spec

(* Every variable keeps to its values. *)
THEOREM TypeCorrect == Spec => []TypeOK
<1>1. IInv => TypeOK
  BY DEF IInv
<1> QED BY InductiveInvariant, <1>1, PTL

(* server_mutex admits one goal at a time, whatever goals are sent. *)
THEOREM MutualExclusion == Spec => []OneCommander
<1>1. IInv => OneCommander
  BY DEF IInv
<1> QED BY InductiveInvariant, <1>1, PTL

(* No return path of execute() forgets the lock. *)
THEOREM LockAccounted == Spec => []LockNotLeaked
<1>1. IInv => LockNotLeaked
  BY DEF IInv
<1> QED BY InductiveInvariant, <1>1, PTL

(* No control loop runs on another goal's path. *)
THEOREM PathOwned == Spec => []OwnPath
<1>1. IInv => OwnPath
  BY DEF IInv
<1> QED BY InductiveInvariant, <1>1, PTL

(* Without a goal that holds the lock, the drone stands still. *)
THEOREM DroneFollowsHolder == Spec => []FollowsHolder
<1>1. IInv => FollowsHolder
  BY DEF IInv, TypeOK, FlyingPlace, FlyingPlaces, OneCommander, FollowsHolder
<1> QED BY InductiveInvariant, <1>1, PTL

(* A goal reported as succeeded or aborted no longer moves the drone. *)
THEOREM DroneStopped == Spec => []StoppedWhenReported
<1>1. IInv => StoppedWhenReported
  BY DEF IInv, TypeOK, FlyingPlace, FlyingPlaces, VerdictPlace, LivePlaces,
         StoppedWhenReported
<1> QED BY InductiveInvariant, <1>1, PTL

(* No step takes a verdict back. *)
LEMMA VerdictKept ==
  IInv /\ [Next]_vars => [\A g \in Goal : status[g] \in Terminal => status'[g] = status[g]]_vars
<1> SUFFICES ASSUME IInv, [Next]_vars, NEW h \in Goal, status[h] \in Terminal
             PROVE  status'[h] = status[h]
  OBVIOUS
<1> USE DEF IInv, TypeOK, Terminal
<1>1. CASE Startup \/ OdomBegin \/ OdomEnd
  BY <1>1 DEF Startup, OdomBegin, OdomEnd
<1>2. ASSUME NEW g \in Goal,
             \/ \E r \in Requests, e \in BOOLEAN : HandleGoal(g, r, e)
             \/ HandleAccepted(g)
             \/ HandleCancel(g)
      PROVE  status'[h] = status[h]
  BY <1>2 DEF HandleGoal, HandleAccepted, HandleCancel
<1>3. CASE MapChanges \/ Shutdown \/ Exit \/ Ended \/ UNCHANGED vars
  BY <1>3 DEF MapChanges, Shutdown, Exit, ProcessBecomes, Ended, vars
<1>4. ASSUME NEW g \in Goal, Execute(g)
      PROVE  status'[h] = status[h]
  <2> USE DEF Goto, VerdictPlace, LivePlaces
  <2>1. CASE Begin(g) \/ LoopTop(g)
    BY <2>1 DEF Begin, LoopTop
  <2>2. CASE Succeed(g) \/ Abort(g)
    BY <2>2 DEF Succeed, Abort
  <2>3. CASE SetupEndsProcess(g) \/ CheckProgressThrows(g)
    BY <2>3 DEF SetupEndsProcess, CheckProgressThrows, EscapesThread, ProcessBecomes
  <2>4. CASE WaitMap(g) \/ Setup(g) \/ SetupThrows(g) \/ CheckProgress(g)
    BY <2>4 DEF WaitMap, Setup, SetupThrows, CheckProgress
  <2>5. CASE Compute(g) \/ ComputeThrows(g) \/ CheckGoal(g) \/ CheckGoalWithoutPose(g)
    BY <2>5 DEF Compute, ComputeThrows, CheckGoal, CheckGoalWithoutPose
  <2>6. CASE StopDrone(g) \/ Unlock(g)
    BY <2>6 DEF StopDrone, Unlock
  <2> QED BY <1>4, <2>1, <2>2, <2>3, <2>4, <2>5, <2>6 DEF Execute
<1> QED BY <1>1, <1>2, <1>3, <1>4 DEF Next, Callback

(* A client that was told the end of its goal can rely on it. *)
THEOREM VerdictsFinal == Spec => VerdictIsFinal
<1> QED BY InductiveInvariant, VerdictKept, PTL DEF Spec, VerdictIsFinal

-----------------------------------------------------------------------------
(* Success is near the goal, with goal checkers that keep no state and a tf  *)
(* that answers: the assumptions of ControllerLiveness.cfg                   *)

(* No checker has skipped its test of the position. *)
NothingSkipped == \A k \in GoalCheckerIds : check_xy[k] = TRUE

(* The control loop runs with a goal checker of the server. *)
CheckerSelected ==
  \A g \in Goal :
    pc[g] \in {"loop", "pose", "compute", "reached"} => current_goal_checker \in GoalCheckerIds

(* A thread on its way to succeed() while the server runs got there because  *)
(* the drone was near.                                                       *)
ArrivedPlace ==
  \A g \in Goal :
    process = "running" /\ pc[g] \in {"stop_succeeded", "succeed"} => arrived[g]

NearInv == NothingSkipped /\ CheckerSelected /\ ArrivedPlace /\ SuccessNearGoal

LEMMA NearInit == Init => NearInv
BY DEF Init, NearInv, NothingSkipped, CheckerSelected, ArrivedPlace, SuccessNearGoal

(* A step that neither starts a flight nor checks one. *)
NothingChecked ==
  /\ UNCHANGED <<check_xy, arrived, current_goal_checker>>
  /\ process' = "running" => process = "running"
  /\ \A h \in Goal :
       /\ status'[h] = "succeeded" =>
            status[h] = "succeeded" \/ (process = "running" /\ pc[h] = "succeed")
       /\ pc'[h] \in {"loop", "pose", "compute", "reached"}
            => pc[h] \in {"loop", "pose", "compute", "reached"}
       /\ process' = "running" /\ pc'[h] \in {"stop_succeeded", "succeed"}
            => pc[h] \in {"stop_succeeded", "succeed"}

LEMMA NearKept == NearInv /\ NothingChecked => NearInv'
BY DEF NearInv, NothingChecked, NothingSkipped, CheckerSelected, ArrivedPlace, SuccessNearGoal

LEMMA NearSetup ==
  ASSUME IInv, NearInv, NEW g \in Goal, Setup(g)
  PROVE  NearInv'
<1> USE DEF Setup, Goto, IInv, TypeOK
<1>1. PICK k \in FindId(loaded.checkers, request[g].checker) : current_goal_checker' = k
  BY DEF SelectPlugins
<1>2. current_goal_checker' \in GoalCheckerIds
  BY <1>1, FindIdFinds
<1>3. (NothingSkipped /\ CheckerSelected)'
  BY <1>2 DEF NearInv, NothingSkipped, CheckerSelected
<1>4. (ArrivedPlace /\ SuccessNearGoal)'
  BY DEF NearInv, ArrivedPlace, SuccessNearGoal, executorVars
<1> QED BY <1>3, <1>4 DEF NearInv

LEMMA NearSelect ==
  ASSUME IInv, NearInv, NEW g \in Goal, SetupThrows(g)
  PROVE  NearInv'
<1> USE DEF SetupThrows, Goto, IInv, TypeOK, checkerVars, executorVars
<1>1. \A h \in Goal : pc'[h] \notin {"loop", "pose", "compute", "reached"}
  BY ControllerServerAssumption DEF OneCommander
<1> QED BY <1>1 DEF NearInv, NothingSkipped, CheckerSelected, ArrivedPlace, SuccessNearGoal

(* The one reading that ends the flight finds the drone near. *)
LEMMA NearCheck ==
  ASSUME Stateful = FALSE, TransformMayFail = FALSE,
         IInv, NearInv, NEW g \in Goal, CheckGoal(g)
  PROVE  NearInv'
<1>1. PICK near \in BOOLEAN, aligned \in BOOLEAN, stopped \in BOOLEAN :
        /\ Goto(g, "reached",
                IF Reached(current_goal_checker, near, aligned, stopped)
                  THEN "stop_succeeded" ELSE "loop")
        /\ check_xy' = [check_xy EXCEPT ![current_goal_checker] =
                          @ /\ ~(near /\ Stateful)]
        /\ arrived' = [arrived EXCEPT ![g] = @ \/ (near /\ TRUE)]
        /\ UNCHANGED <<executorVars, status, current_goal_checker>>
  BY DEF CheckGoal, pluginVars
<1>2. current_goal_checker \in GoalCheckerIds
  BY <1>1 DEF Goto, NearInv, CheckerSelected
<1>3. check_xy[current_goal_checker] = TRUE
  BY <1>2 DEF NearInv, NothingSkipped
<1>4. \A k \in GoalCheckerIds : check_xy'[k] = TRUE
  <2>1. (check_xy[current_goal_checker] /\ ~(near /\ Stateful)) = TRUE
    BY <1>3
  <2>2. check_xy' = [check_xy EXCEPT ![current_goal_checker] = TRUE]
    BY <1>1, <2>1
  <2> QED BY <2>2 DEF IInv, TypeOK, NearInv, NothingSkipped
<1>5. Reached(current_goal_checker, near, aligned, stopped) => near
  BY <1>3 DEF Reached
<1>6. near => arrived'[g]
  BY <1>1 DEF IInv, TypeOK
<1>7. ASSUME NEW h \in Goal, arrived[h] PROVE arrived'[h]
  BY <1>1, <1>7 DEF IInv, TypeOK
<1>8. \A h \in Goal : pc'[h] = IF h = g
                                THEN IF Reached(current_goal_checker, near, aligned, stopped)
                                       THEN "stop_succeeded" ELSE "loop"
                                ELSE pc[h]
  BY <1>1 DEF Goto, IInv, TypeOK
<1>9. UNCHANGED <<process, status, current_goal_checker>>
  BY <1>1 DEF executorVars
<1>10. CheckerSelected'
  BY <1>2, <1>9 DEF CheckerSelected
<1>11. ArrivedPlace'
  BY <1>5, <1>6, <1>7, <1>8, <1>9 DEF NearInv, ArrivedPlace
<1>12. SuccessNearGoal'
  BY <1>7, <1>9 DEF NearInv, SuccessNearGoal
<1> QED BY <1>4, <1>10, <1>11, <1>12 DEF NearInv, NothingSkipped

LEMMA QuietStep ==
  ASSUME IInv, [Next]_vars
  PROVE  NothingChecked \/ \E g \in Goal : Setup(g) \/ SetupThrows(g) \/ CheckGoal(g)
<1> USE DEF NothingChecked, Goto, IInv, TypeOK, executorVars, pluginVars, checkerVars
<1>1. CASE Startup \/ OdomBegin \/ OdomEnd
  BY <1>1 DEF Startup, OdomBegin, OdomEnd
<1>2. ASSUME NEW g \in Goal,
             \/ \E r \in Requests, e \in BOOLEAN : HandleGoal(g, r, e)
             \/ HandleAccepted(g)
             \/ HandleCancel(g)
      PROVE  NothingChecked
  BY <1>2 DEF HandleGoal, HandleAccepted, HandleCancel
<1>3. CASE MapChanges \/ Shutdown \/ Exit \/ Ended \/ UNCHANGED vars
  BY <1>3 DEF MapChanges, Shutdown, Exit, ProcessBecomes, Ended, vars
<1>4. ASSUME NEW g \in Goal, Execute(g), ~(Setup(g) \/ SetupThrows(g) \/ CheckGoal(g))
      PROVE  NothingChecked
  <2>1. CASE Begin(g) \/ WaitMap(g)
    BY <2>1 DEF Begin, WaitMap
  <2>2. CASE SetupEndsProcess(g) \/ CheckProgressThrows(g)
    BY <2>2 DEF SetupEndsProcess, CheckProgressThrows, EscapesThread, ProcessBecomes
  <2>3. CASE LoopTop(g)
    BY <2>3 DEF LoopTop
  <2>4. CASE CheckProgress(g) \/ Compute(g) \/ ComputeThrows(g) \/ CheckGoalWithoutPose(g)
    BY <2>4 DEF CheckProgress, Compute, ComputeThrows, CheckGoalWithoutPose
  <2>5. CASE StopDrone(g)
    BY <2>5 DEF StopDrone
  <2>6. CASE Succeed(g)
    BY <2>6 DEF Succeed
  <2>7. CASE Abort(g) \/ Unlock(g)
    BY <2>7 DEF Abort, Unlock
  <2> HIDE DEF NothingChecked
  <2> QED BY <1>4, <2>1, <2>2, <2>3, <2>4, <2>5, <2>6, <2>7 DEF Execute
<1> HIDE DEF NothingChecked
<1> QED BY <1>1, <1>2, <1>3, <1>4 DEF Next, Callback

LEMMA NearStep ==
  ASSUME Stateful = FALSE, TransformMayFail = FALSE, IInv, NearInv, [Next]_vars
  PROVE  NearInv'
<1>1. CASE NothingChecked
  BY <1>1, NearKept
<1>2. ASSUME NEW g \in Goal, Setup(g) PROVE NearInv'
  BY <1>2, NearSetup
<1>3. ASSUME NEW g \in Goal, SetupThrows(g) PROVE NearInv'
  BY <1>3, NearSelect
<1>4. ASSUME NEW g \in Goal, CheckGoal(g) PROVE NearInv'
  BY <1>4, NearCheck
<1> QED BY <1>1, <1>2, <1>3, <1>4, QuietStep

(* With goal checkers that are not stateful and a tf that answers, a goal    *)
(* succeeds only near the end of its own path, however many were flown       *)
(* before it.                                                                *)
THEOREM SuccessIsNear ==
  ASSUME Stateful = FALSE, TransformMayFail = FALSE
  PROVE  Spec => []SuccessNearGoal
<1>1. IInv /\ NearInv /\ [Next]_vars => NearInv'
  BY NearStep
<1>2. NearInv => SuccessNearGoal
  BY DEF NearInv
<1> QED BY InductiveInvariant, NearInit, <1>1, <1>2, PTL DEF Spec

-----------------------------------------------------------------------------
(* The server implements its contract *)

(* Steps that neither client nor drone can tell from standing still. *)
LEMMA InvisibleStep ==
  ASSUME UNCHANGED <<process, status, holder, commanded>>
  PROVE  UNCHANGED Contract!contractVars
BY DEF Contract!contractVars

(* A change of a goal's status is a change of its client's view. *)
LEMMA Told ==
  ASSUME NEW g \in Goal, NEW s \in Statuses, status \in [Goal -> Statuses],
         status' = [status EXCEPT ![g] = s]
  PROVE  Contract!Tell(g, ClientView(s))
BY DEF Contract!Tell

LEMMA ContractInitially == Init => Contract!ContractInit
BY DEF Init, Contract!ContractInit, ClientView

LEMMA ContractStep == IInv /\ [Next]_vars => [Contract!ContractNext]_(Contract!contractVars)
<1> SUFFICES ASSUME IInv, [Next]_vars
             PROVE  Contract!ContractNext \/ UNCHANGED Contract!contractVars
  OBVIOUS
<1> DEFINE Goal1 == Contract!ContractNext \/ UNCHANGED Contract!contractVars
<1> USE ControllerServerAssumption
<1>1. CASE process # "running"
  <2>1. process' # "running"
    <3>1. CASE \E g \in Goal : Execute(g)
      BY <1>1, <3>1 DEF Execute, Begin, WaitMap, Setup, SetupThrows, SetupEndsProcess,
            LoopTop, CheckProgress, CheckProgressThrows, Compute, ComputeThrows, CheckGoal,
            CheckGoalWithoutPose, StopDrone, Succeed, Abort, Unlock, EscapesThread,
            ProcessBecomes, executorVars
    <3>2. CASE Callback
      BY <1>1, <3>2 DEF Callback, Startup, HandleGoal, HandleAccepted, HandleCancel,
            OdomBegin, OdomEnd, executorVars
    <3>3. CASE MapChanges \/ Shutdown \/ Exit \/ Ended \/ UNCHANGED vars
      BY <1>1, <3>3 DEF MapChanges, Shutdown, Exit, ProcessBecomes, Ended, executorVars, vars
    <3> QED BY <3>1, <3>2, <3>3 DEF Next
  <2> QED BY <1>1, <2>1 DEF Contract!ContractNext, Contract!Down
<1>2. CASE process = "running" /\ process' # "running"
  <2>1. UNCHANGED <<status, holder, commanded>>
    <3>1. CASE \E g \in Goal : Execute(g)
      BY <1>2, <3>1 DEF Execute, Begin, WaitMap, Setup, SetupThrows, SetupEndsProcess,
            LoopTop, CheckProgress, CheckProgressThrows, Compute, ComputeThrows, CheckGoal,
            CheckGoalWithoutPose, StopDrone, Succeed, Abort, Unlock, EscapesThread,
            ProcessBecomes, executorVars
    <3>2. CASE Callback
      BY <1>2, <3>2 DEF Callback, Startup, HandleGoal, HandleAccepted, HandleCancel,
            OdomBegin, OdomEnd, executorVars
    <3>3. CASE MapChanges \/ Shutdown \/ Exit \/ Ended \/ UNCHANGED vars
      BY <1>2, <3>3 DEF MapChanges, Shutdown, Exit, ProcessBecomes, Ended, executorVars, vars
    <3> QED BY <3>1, <3>2, <3>3 DEF Next
  <2> QED BY <1>2, <2>1 DEF Contract!ContractNext, Contract!GoDown
<1>3. CASE process = "running" /\ process' = "running"
  <2> USE <1>3
  <2>1. ASSUME NEW g \in Goal,
               \/ Contract!Refuse(g) \/ Contract!Admit(g) \/ Contract!RequestCancel(g)
               \/ Contract!Fly(g) \/ Contract!Halt(g) \/ Contract!Release(g)
               \/ \E verdict \in Contract!Verdicts : Contract!Conclude(g, verdict)
        PROVE  Contract!ContractNext
    BY <2>1 DEF Contract!ContractNext, Contract!Serve
  <2>2. CASE Callback
    <3> USE DEF IInv, TypeOK, ClientView
    <3>1. CASE Startup \/ OdomBegin \/ OdomEnd
      BY <3>1, InvisibleStep DEF Startup, OdomBegin, OdomEnd
    <3>2. ASSUME NEW g \in Goal, NEW r \in Requests, NEW e \in BOOLEAN, HandleGoal(g, r, e)
          PROVE  Goal1
      <4>1. CASE e \/ holder # None
        <5>1. Contract!Tell(g, "rejected")
          BY <3>2, <4>1, Told DEF HandleGoal, Statuses
        <5>2. Contract!Refuse(g)
          BY <3>2, <4>1, <5>1 DEF HandleGoal, Contract!Refuse
        <5> QED BY <2>1, <5>2
      <4>2. CASE ~(e \/ holder # None)
        <5>1. Contract!Tell(g, "executing")
          BY <3>2, <4>2, Told DEF HandleGoal, Statuses
        <5>2. Contract!Admit(g)
          BY <3>2, <4>2, <5>1 DEF HandleGoal, Contract!Admit
        <5> QED BY <2>1, <5>2
      <4> QED BY <4>1, <4>2
    <3>3. ASSUME NEW g \in Goal, HandleAccepted(g)
          PROVE  Goal1
      BY <3>3 DEF HandleAccepted, Contract!contractVars
    <3>4. ASSUME NEW g \in Goal, HandleCancel(g)
          PROVE  Goal1
      <4>1. Contract!RequestCancel(g)
        BY <3>4 DEF HandleCancel, Contract!RequestCancel, Contract!Tell
      <4> QED BY <2>1, <4>1
    <3> QED BY <2>2, <3>1, <3>2, <3>3, <3>4 DEF Callback
  <2>3. ASSUME NEW g \in Goal, Execute(g)
        PROVE  Goal1
    <3> USE DEF IInv, TypeOK, ClientView, Goto
    <3>1. pc[g] \notin {"none", "done"} => holder = g
      BY DEF OneCommander
    <3>2. CASE Begin(g) \/ LoopTop(g)
      <4>1. holder = g /\ UNCHANGED <<process, holder, commanded>>
        BY <3>1, <3>2 DEF Begin, LoopTop, executorVars
      <4>2. CASE UNCHANGED status
        BY <4>1, <4>2, InvisibleStep
      <4>3. CASE status[g] = "canceling" /\ status' = [status EXCEPT ![g] = "canceled"]
        <5>1. Contract!Tell(g, "canceled")
          BY <4>3, Told DEF Statuses
        <5>2. Contract!Conclude(g, "canceled")
          BY <4>1, <4>3, <5>1 DEF Contract!Conclude, Contract!Live
        <5> QED BY <2>1, <5>2 DEF Contract!Verdicts
      <4> QED BY <3>2, <4>2, <4>3 DEF Begin, LoopTop
    <3>3. CASE WaitMap(g) \/ Setup(g) \/ SetupThrows(g) \/ CheckProgress(g)
      BY <3>3, InvisibleStep DEF WaitMap, Setup, SetupThrows, CheckProgress
    <3>4. CASE SetupEndsProcess(g) \/ CheckProgressThrows(g)
      BY <3>4 DEF SetupEndsProcess, CheckProgressThrows, EscapesThread, ProcessBecomes
    <3>5. CASE Compute(g)
      <4>1. Contract!Fly(g)
        BY <3>1, <3>5 DEF Compute, Publish, OwnPath, VerdictPlace, LivePlaces,
              Contract!Fly, Contract!Live
      <4> QED BY <2>1, <4>1
    <3>6. CASE ComputeThrows(g) \/ CheckGoal(g) \/ CheckGoalWithoutPose(g)
      BY <3>6, InvisibleStep DEF ComputeThrows, CheckGoal, CheckGoalWithoutPose
    <3>7. CASE StopDrone(g)
      <4>1. Contract!Halt(g)
        BY <3>1, <3>7 DEF StopDrone, Publish, Contract!Halt
      <4> QED BY <2>1, <4>1
    <3>8. CASE Succeed(g) \/ Abort(g)
      <4>1. commanded = None
        BY <3>1, <3>8 DEF Succeed, Abort, FlyingPlace, FlyingPlaces, OneCommander
      <4>2. status[g] \in {"executing", "canceling"}
        BY <3>8 DEF Succeed, Abort, VerdictPlace, LivePlaces
      <4>3. PICK v \in {"succeeded", "aborted"} : status' = [status EXCEPT ![g] = v]
        BY <3>8 DEF Succeed, Abort
      <4>4. Contract!Tell(g, v)
        <5>1. ClientView(v) = v
          OBVIOUS
        <5>2. Contract!Tell(g, ClientView(v))
          <6> HIDE DEF ClientView
          <6> QED BY <4>3, Told DEF Statuses
        <5> HIDE DEF ClientView
        <5> QED BY <5>1, <5>2
      <4>5. holder = g /\ UNCHANGED <<holder, commanded>>
        BY <3>1, <3>8 DEF Succeed, Abort
      <4>6. ClientView(status[g]) \in Contract!Live
        BY <4>2 DEF Contract!Live
      <4>7. Contract!Conclude(g, v)
        BY <4>1, <4>3, <4>4, <4>5, <4>6 DEF Contract!Conclude
      <4> QED BY <2>1, <4>7 DEF Contract!Verdicts
    <3>9. CASE Unlock(g)
      <4>1. commanded = None
        BY <3>9 DEF Unlock, FlyingPlace, FlyingPlaces, OneCommander
      <4>2. Contract!Release(g)
        BY <3>1, <3>9, <4>1 DEF Unlock, VerdictPlace, Contract!Release, Contract!Verdicts
      <4> QED BY <2>1, <4>2
    <3> QED BY <2>3, <3>2, <3>3, <3>4, <3>5, <3>6, <3>7, <3>8, <3>9 DEF Execute
  <2>4. CASE MapChanges \/ Shutdown \/ Exit \/ Ended \/ UNCHANGED vars
    BY <2>4, InvisibleStep DEF MapChanges, Shutdown, Exit, ProcessBecomes, Ended,
          executorVars, vars
  <2> QED BY <2>2, <2>3, <2>4 DEF Next
<1> QED BY <1>1, <1>2, <1>3

(* Clients and drone get from the server what FollowPathContract promises. *)
THEOREM ContractKept == Spec => KeepsContract
<1> QED BY InductiveInvariant, ContractInitially, ContractStep, PTL
        DEF Spec, KeepsContract, Contract!ContractSpec
-----------------------------------------------------------------------------
(* A goal that was asked to cancel, or that has its verdict, is on its way out *)

OnItsWayOut(g) ==
  pc[g] # "done" /\ (status[g] = "canceling" \/ status[g] \in Terminal \ {"rejected"})

(* How many steps the thread of such a goal has left at most: those to the    *)
(* next test of the cancel flag, and the branch that ends there or before.    *)
StepsLeft(place) ==
  CASE place = "begin" -> 2
    [] place = "wait_map" -> 10
    [] place = "setup" -> 9
    [] place = "pose" -> 8
    [] place = "compute" -> 7
    [] place = "reached" -> 6
    [] place = "loop" -> 5
    [] place = "stop_succeeded" -> 4
    [] place \in {"succeed", "stop_aborted"} -> 3
    [] place \in {"stop_again", "stop_canceled", "abort"} -> 2
    [] place = "unlock" -> 1
    [] OTHER -> 0

(* Its thread alone moves it on, and each step brings it nearer to its unlock *)
(* or ends the process; the goal stays asked to cancel until it has a verdict, *)
(* and when no step is left it has one and has given the lock back.           *)
WindsDown ==
  \A g \in Goal :
    OnItsWayOut(g) =>
      /\ pc'[g] = "done" \/ OnItsWayOut(g)'
      /\ pc'[g] # pc[g] => Execute(g) /\ StepsLeft(pc'[g]) < StepsLeft(pc[g])
      /\ Execute(g) => pc'[g] # pc[g] \/ ~Alive'
      /\ pc'[g] = "done" => holder' # g /\ (process' = "running" => status'[g] \in Terminal)

(* The steps of the goal's own thread. *)
LEMMA OwnStep ==
  ASSUME IInv, NEW g \in Goal, OnItsWayOut(g), Execute(g)
  PROVE  /\ status'[g] = status[g] \/ status'[g] \in {"canceled", "aborted", "succeeded"}
         /\ \/ StepsLeft(pc'[g]) < StepsLeft(pc[g])
            \/ pc' = pc /\ ~Alive'
<1> USE DEF IInv, TypeOK, Goto
<1>1. CASE Begin(g) \/ LoopTop(g)
  <2>1. pc[g] \in {"begin", "loop"} => status[g] = "canceling"
    BY DEF VerdictPlace, LivePlaces, OnItsWayOut, Terminal
  <2>2. \/ pc[g] = "begin" /\ pc'[g] = "unlock"
        \/ pc[g] = "loop" /\ pc'[g] \in {"stop_succeeded", "stop_canceled"}
    BY <1>1, <2>1 DEF Begin, LoopTop
  <2>3. status'[g] = status[g] \/ status'[g] = "canceled"
    BY <1>1 DEF Begin, LoopTop
  <2>4. QED BY <2>2, <2>3 DEF StepsLeft
<1>2. CASE WaitMap(g) \/ Setup(g) \/ SetupThrows(g)
  <2>1. /\ UNCHANGED status
        /\ \/ pc[g] = "wait_map" /\ pc'[g] = "setup"
           \/ pc[g] = "setup" /\ pc'[g] \in {"loop", "abort"}
    BY <1>2 DEF WaitMap, Setup, SetupThrows
  <2>2. QED BY <2>1 DEF StepsLeft
<1>3. CASE SetupEndsProcess(g) \/ CheckProgressThrows(g)
  <2>1. UNCHANGED <<status, pc>> /\ process' = "terminated"
    BY <1>3 DEF SetupEndsProcess, CheckProgressThrows, EscapesThread, ProcessBecomes
  <2>2. QED BY <2>1 DEF Alive
<1>4. CASE CheckProgress(g) \/ Compute(g) \/ ComputeThrows(g) \/ CheckGoal(g) \/ CheckGoalWithoutPose(g)
  <2>1. /\ UNCHANGED status
        /\ \/ pc[g] = "pose" /\ pc'[g] = "compute"
           \/ pc[g] = "compute" /\ pc'[g] \in {"reached", "stop_aborted"}
           \/ pc[g] = "reached" /\ pc'[g] \in {"loop", "stop_succeeded"}
    BY <1>4 DEF CheckProgress, Compute, ComputeThrows, CheckGoal, CheckGoalWithoutPose
  <2>2. QED BY <2>1 DEF StepsLeft
<1>5. CASE StopDrone(g) \/ Unlock(g)
  <2>1. /\ UNCHANGED status
        /\ \/ pc[g] = "stop_succeeded" /\ pc'[g] = "succeed"
           \/ pc[g] \in {"stop_again", "stop_canceled"} /\ pc'[g] = "unlock"
           \/ pc[g] = "stop_aborted" /\ pc'[g] = "abort"
           \/ pc[g] = "unlock" /\ pc'[g] = "done"
    BY <1>5 DEF StopDrone, Unlock
  <2>2. QED BY <2>1 DEF StepsLeft
<1>6. CASE Succeed(g) \/ Abort(g)
  <2>1. \/ pc[g] = "succeed" /\ pc'[g] = "stop_again"
        \/ pc[g] = "abort" /\ pc'[g] = "unlock"
    BY <1>6 DEF Succeed, Abort
  <2>2. status'[g] = status[g] \/ status'[g] \in {"aborted", "succeeded"}
    BY <1>6 DEF Succeed, Abort
  <2>3. QED BY <2>1, <2>2 DEF StepsLeft
<1> HIDE DEF IInv, TypeOK
<1>7. QED BY <1>1, <1>2, <1>3, <1>4, <1>5, <1>6 DEF Execute

(* The steps of the others. *)
LEMMA OthersStep ==
  ASSUME IInv, [Next]_vars, NEW g \in Goal, OnItsWayOut(g), ~Execute(g)
  PROVE  pc'[g] = pc[g] /\ status'[g] = status[g]
<1> USE DEF IInv, TypeOK
<1>0. status[g] \notin {"unknown", "accepted", "executing"}
  BY DEF OnItsWayOut, Terminal
<1>1. CASE Startup \/ OdomBegin \/ OdomEnd
  BY <1>1 DEF Startup, OdomBegin, OdomEnd
<1>2. ASSUME NEW h \in Goal,
             \/ \E r \in Requests, e \in BOOLEAN : HandleGoal(h, r, e)
             \/ HandleAccepted(h)
             \/ HandleCancel(h)
      PROVE  pc'[g] = pc[g] /\ status'[g] = status[g]
  BY <1>0, <1>2 DEF HandleGoal, HandleAccepted, HandleCancel
<1>3. CASE MapChanges \/ Shutdown \/ Exit \/ Ended \/ UNCHANGED vars
  BY <1>3 DEF MapChanges, Shutdown, Exit, ProcessBecomes, Ended, vars
<1>4. ASSUME NEW h \in Goal \ {g}, Execute(h)
      PROVE  pc'[g] = pc[g] /\ status'[g] = status[g]
  <2> USE DEF Goto
  <2>1. CASE Begin(h) \/ LoopTop(h)
    BY <2>1 DEF Begin, LoopTop
  <2>2. CASE Succeed(h) \/ Abort(h)
    BY <2>2 DEF Succeed, Abort
  <2>3. CASE SetupEndsProcess(h) \/ CheckProgressThrows(h)
    BY <2>3 DEF SetupEndsProcess, CheckProgressThrows, EscapesThread, ProcessBecomes
  <2>4. CASE WaitMap(h) \/ Setup(h) \/ SetupThrows(h) \/ CheckProgress(h)
    BY <2>4 DEF WaitMap, Setup, SetupThrows, CheckProgress
  <2>5. CASE Compute(h) \/ ComputeThrows(h) \/ CheckGoal(h) \/ CheckGoalWithoutPose(h)
    BY <2>5 DEF Compute, ComputeThrows, CheckGoal, CheckGoalWithoutPose
  <2>6. CASE StopDrone(h) \/ Unlock(h)
    BY <2>6 DEF StopDrone, Unlock
  <2> QED BY <1>4, <2>1, <2>2, <2>3, <2>4, <2>5, <2>6 DEF Execute
<1> HIDE DEF IInv, TypeOK
<1>5. QED BY <1>1, <1>2, <1>3, <1>4 DEF Next, Callback

(* A goal that was asked to cancel begins no further turn of the control loop, *)
(* and has at most ten steps to go once the map is current, the publish of the *)
(* zero velocity, the verdict and the unlock among them, whatever the other    *)
(* threads do meanwhile (controller_server.cpp:245, 284).                      *)
THEOREM CancelWindsDown == Spec => [][WindsDown]_vars
<1>1. ASSUME IInv, IInv', [Next]_vars PROVE WindsDown
  <2> SUFFICES ASSUME NEW g \in Goal, OnItsWayOut(g)
               PROVE  /\ pc'[g] = "done" \/ OnItsWayOut(g)'
                      /\ pc'[g] # pc[g] => Execute(g) /\ StepsLeft(pc'[g]) < StepsLeft(pc[g])
                      /\ Execute(g) => pc'[g] # pc[g] \/ ~Alive'
                      /\ pc'[g] = "done" =>
                           holder' # g /\ (process' = "running" => status'[g] \in Terminal)
    BY DEF WindsDown
  <2>1. pc'[g] = "done" \/ OnItsWayOut(g)'
    BY <1>1, OwnStep, OthersStep DEF OnItsWayOut, Terminal
  <2>2. pc'[g] # pc[g] => Execute(g) /\ StepsLeft(pc'[g]) < StepsLeft(pc[g])
    BY <1>1, OwnStep, OthersStep
  <2>3. Execute(g) => pc'[g] # pc[g] \/ ~Alive'
    <3>1. \A p : StepsLeft(p) \in Nat BY DEF StepsLeft
    <3>2. QED BY <1>1, <3>1, OwnStep
  <2>4. ASSUME pc'[g] = "done"
        PROVE  holder' # g /\ (process' = "running" => status'[g] \in Terminal)
    BY <1>1, <2>4 DEF IInv, LockNotLeaked, ThreadStarts, VerdictPlace, Terminal
  <2>5. QED BY <2>1, <2>2, <2>3, <2>4
<1>2. QED BY InductiveInvariant, <1>1, PTL DEF Spec
=============================================================================
