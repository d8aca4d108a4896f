------------------------- MODULE ControllerServer -------------------------
(***************************************************************************)
(* The FollowPath action server of nav2_drone_controller:                  *)
(* controller_server.cpp with the goal and progress checkers it drives.    *)
(*                                                                         *)
(* One executor thread (rclcpp::spin in main.cpp) runs the callbacks:      *)
(* init, handle_goal + handle_accepted, handle_cancel and odom_callback.   *)
(* handle_accepted detaches one thread per accepted goal, which runs       *)
(* execute.  server_mutex admits one goal at a time: handle_goal takes it, *)
(* execute gives it back on each of its return paths.  An exception that   *)
(* leaves execute leaves the detached thread, and std::terminate ends the  *)
(* process.                                                                *)
(*                                                                         *)
(* A velocity is abstracted to the goal whose controller computed it; None *)
(* stands for the zero velocity.  A pose is abstracted to the answers of   *)
(* the tests the code makes on it, chosen anew at every reading since the  *)
(* drone, the map and the transforms move between two readings.            *)
(***************************************************************************)
EXTENDS Naturals, FiniteSets

CONSTANTS
  Goal,              \* FollowPath goals, each sent at most once
  None,              \* no goal; as a velocity, the zero velocity
  ControllerIds,     \* parameter controller_plugins
  GoalCheckerIds,    \* parameter goal_checker_plugins
  StoppedCheckerIds, \* those of type StoppedGoalChecker, the others are Simple
  Stateful,          \* parameter stateful of the goal checkers
  EmptyName,         \* the empty plugin id in a goal message
  Requests,          \* the [controller, checker] ids a client may ask for
  ControllerErrors,  \* exceptions the controller plugins may throw
  TransformMayFail   \* may tf refuse to transform the end pose?

ExceptionKinds == {"DroneException", "ControllerTFError", "NoValidControl",
                   "FailedToMakeProgress", "PatienceExceeded", "InvalidPath",
                   "ControllerException"}

ASSUME ControllerServerAssumption ==
  /\ None \notin Goal
  /\ None \notin ControllerIds
  /\ None \notin GoalCheckerIds
  /\ StoppedCheckerIds \subseteq GoalCheckerIds
  /\ Stateful \in BOOLEAN
  /\ TransformMayFail \in BOOLEAN
  /\ ControllerErrors \subseteq ExceptionKinds

VARIABLES
  process,              \* the life of the server process
  executor,             \* what the executor thread is in the middle of
  loaded,               \* the plugins init() managed to create
  status,               \* rclcpp_action's state of each goal
  holder,               \* server_mutex: the goal it is locked for
  pc,                   \* where the thread of each goal is in execute()
  mapCurrent,           \* costmap_ros_->isCurrent()
  request,              \* the goal messages: plugin ids asked for
  end_pose,             \* end_pose_, by the goal whose last pose it is
  current_controller,
  current_goal_checker,
  plan,                 \* the path each controller plugin was given, by goal
  check_xy,             \* check_xy_ of each goal checker
  baseline_pose_set,    \* of the progress checker
  last_velocity,        \* last_velocity_: "stopped", "moving", or half written
  commanded,            \* the velocity last published on drone/cmd_vel
  failure,              \* the exception that ended each goal
  result,               \* result->error_code
  arrived               \* history: was a pose near the end of this goal seen?

executorVars == <<process, executor, loaded>>
pluginVars   == <<end_pose, current_controller, current_goal_checker, plan>>
checkerVars  == <<check_xy, baseline_pose_set, arrived>>
outcomeVars  == <<failure, result>>
vars == <<executorVars, status, holder, pc, mapCurrent, request, pluginVars,
          checkerVars, last_velocity, commanded, outcomeVars>>

-----------------------------------------------------------------------------
(* The values *)

Statuses == {"unknown", "rejected", "accepted", "executing", "canceling",
             "canceled", "aborted", "succeeded"}
Terminal == {"rejected", "canceled", "aborted", "succeeded"}

(* The places of execute() between two steps another thread can see. *)
FlyingPlaces == {"loop", "pose", "compute", "reached", "stop_succeeded",
                 "stop_canceled", "stop_aborted"}
Places == FlyingPlaces \cup
          {"none", "begin", "wait_map", "setup", "succeed", "stop_again",
           "abort", "unlock", "done"}

(* FollowPath.action: the codes execute() reports; DroneException leaves 0. *)
ErrorCode ==
  [k \in ExceptionKinds |->
     CASE k = "ControllerTFError"    -> 1
       [] k = "NoValidControl"       -> 2
       [] k = "FailedToMakeProgress" -> 3
       [] k = "PatienceExceeded"     -> 4
       [] k = "InvalidPath"          -> 5
       [] OTHER                      -> 0]

(* Faulty: takes any name for that of a plugin. *)
FindId_Unchecked(plugins, name) == {name}

(* findControllerId and findGoalCheckerId: the plugin a name stands for, as  *)
(* a set that is empty when there is none.                                   *)
FindId(plugins, name) ==
  IF name \in plugins THEN {name}
  ELSE IF name = EmptyName /\ Cardinality(plugins) = 1 THEN plugins
  ELSE {}

TypeOK ==
  /\ process \in {"running", "shutdown", "terminated", "exited"}
  /\ executor \in {"starting", "idle", "accepting", "odom"}
  /\ loaded \in [controllers : SUBSET ControllerIds,
                 checkers : SUBSET GoalCheckerIds,
                 progress : BOOLEAN]
  /\ status \in [Goal -> Statuses]
  /\ holder \in Goal \cup {None}
  /\ pc \in [Goal -> Places]
  /\ mapCurrent \in BOOLEAN
  /\ request \in [Goal -> Requests \cup {None}]
  /\ end_pose \in Goal \cup {None}
  /\ current_controller \in ControllerIds \cup {None}
  /\ current_goal_checker \in GoalCheckerIds \cup {None}
  /\ plan \in [ControllerIds -> Goal \cup {None}]
  /\ check_xy \in [GoalCheckerIds -> BOOLEAN]
  /\ baseline_pose_set \in BOOLEAN
  /\ last_velocity \in {"stopped", "moving", "torn"}
  /\ commanded \in Goal \cup {None}
  /\ failure \in [Goal -> ExceptionKinds \cup {None}]
  /\ result \in [Goal -> 0..5]
  /\ arrived \in [Goal -> BOOLEAN]

Init ==
  /\ process = "running"
  /\ executor = "starting"
  /\ loaded = [controllers |-> {}, checkers |-> {}, progress |-> FALSE]
  /\ status = [g \in Goal |-> "unknown"]
  /\ holder = None
  /\ pc = [g \in Goal |-> "none"]
  /\ mapCurrent = FALSE
  /\ request = [g \in Goal |-> None]
  /\ end_pose = None
  /\ current_controller = None
  /\ current_goal_checker = None
  /\ plan = [c \in ControllerIds |-> None]
  /\ check_xy = [k \in GoalCheckerIds |-> TRUE]
  /\ baseline_pose_set = FALSE
  /\ last_velocity = "stopped"
  /\ commanded = None
  /\ failure = [g \in Goal |-> None]
  /\ result = [g \in Goal |-> 0]
  /\ arrived = [g \in Goal |-> FALSE]

-----------------------------------------------------------------------------
(* The executor thread *)

Alive == process \in {"running", "shutdown"}

(* spin() takes another callback only while the context is valid. *)
TakesCallback == process = "running" /\ executor = "idle"

(* init(): a plugin that cannot be created is logged and left out; the       *)
(* action server starts all the same.                                        *)
Startup ==
  /\ process = "running" /\ executor = "starting"
  /\ executor' = "idle"
  /\ \E C \in SUBSET ControllerIds, K \in SUBSET GoalCheckerIds, p \in BOOLEAN :
       loaded' = [controllers |-> C, checkers |-> K, progress |-> p]
  /\ UNCHANGED <<process, status, holder, pc, mapCurrent, request, pluginVars,
                 checkerVars, last_velocity, commanded, outcomeVars>>

(* Faulty: server_mutex.lock() forgotten, only the path is looked at. *)
HandleGoal_NoTryLock(g, r, emptyPath) ==
  /\ TakesCallback
  /\ status[g] = "unknown"
  /\ status' = [status EXCEPT ![g] = IF emptyPath THEN "rejected" ELSE "accepted"]
  /\ holder' = IF emptyPath THEN holder ELSE g
  /\ executor' = IF emptyPath THEN executor ELSE "accepting"
  /\ request' = [request EXCEPT ![g] = r]
  /\ UNCHANGED <<process, loaded, pc, mapCurrent, pluginVars, checkerVars,
                 last_velocity, commanded, outcomeVars>>

(* handle_goal(): an empty path and a busy drone are refused. *)
HandleGoal(g, r, emptyPath) ==
  /\ TakesCallback
  /\ status[g] = "unknown"
  /\ IF emptyPath \/ holder # None
       THEN /\ status' = [status EXCEPT ![g] = "rejected"]
            /\ UNCHANGED <<executor, holder, request>>
       ELSE /\ status' = [status EXCEPT ![g] = "accepted"]
            /\ holder' = g
            /\ executor' = "accepting"
            /\ request' = [request EXCEPT ![g] = r]
  /\ UNCHANGED <<process, loaded, pc, mapCurrent, pluginVars, checkerVars,
                 last_velocity, commanded, outcomeVars>>

(* Still in the goal callback: rclcpp_action moves the goal to executing and *)
(* calls handle_accepted(), which detaches the goal's thread.                *)
HandleAccepted(g) ==
  /\ Alive /\ executor = "accepting"
  /\ status[g] = "accepted"
  /\ status' = [status EXCEPT ![g] = "executing"]
  /\ pc' = [pc EXCEPT ![g] = "begin"]
  /\ executor' = "idle"
  /\ UNCHANGED <<process, loaded, holder, mapCurrent, request, pluginVars,
                 checkerVars, last_velocity, commanded, outcomeVars>>

(* handle_cancel() accepts; rclcpp_action moves a live goal to canceling. *)
HandleCancel(g) ==
  /\ TakesCallback
  /\ status[g] = "executing"
  /\ status' = [status EXCEPT ![g] = "canceling"]
  /\ UNCHANGED <<executorVars, holder, pc, mapCurrent, request, pluginVars,
                 checkerVars, last_velocity, commanded, outcomeVars>>

(* odom_callback() copies the message without a lock: a goal thread reading  *)
(* last_velocity_ meanwhile may find any mixture of the old and the new one. *)
OdomBegin ==
  /\ TakesCallback
  /\ executor' = "odom"
  /\ last_velocity' = "torn"
  /\ UNCHANGED <<process, loaded, status, holder, pc, mapCurrent, request,
                 pluginVars, checkerVars, commanded, outcomeVars>>

OdomEnd ==
  /\ Alive /\ executor = "odom"
  /\ executor' = "idle"
  /\ last_velocity' \in {"stopped", "moving"}
  /\ UNCHANGED <<process, loaded, status, holder, pc, mapCurrent, request,
                 pluginVars, checkerVars, commanded, outcomeVars>>

-----------------------------------------------------------------------------
(* The process and its surroundings *)

MapChanges ==
  /\ Alive
  /\ mapCurrent' = ~mapCurrent
  /\ UNCHANGED <<executorVars, status, holder, pc, request, pluginVars,
                 checkerVars, last_velocity, commanded, outcomeVars>>

ProcessBecomes(p) ==
  /\ process' = p
  /\ UNCHANGED <<executor, loaded, status, holder, pc, mapCurrent, request,
                 pluginVars, checkerVars, last_velocity, commanded>>

(* SIGINT invalidates the context: rclcpp::ok() is false from here on. *)
Shutdown == process = "running" /\ ProcessBecomes("shutdown") /\ UNCHANGED outcomeVars

(* main() returns once spin() has, and detached threads end with it. *)
Exit ==
  /\ process = "shutdown" /\ executor \in {"starting", "idle"}
  /\ ProcessBecomes("exited") /\ UNCHANGED outcomeVars

-----------------------------------------------------------------------------
(* The thread of goal g in execute() *)

Goto(g, from, to) ==
  /\ Alive
  /\ pc[g] = from
  /\ pc' = [pc EXCEPT ![g] = to]

(* No catch clause of execute() takes this exception. *)
EscapesThread(g, from, kind) ==
  /\ Alive /\ pc[g] = from
  /\ ProcessBecomes("terminated")
  /\ failure' = [failure EXCEPT ![g] = kind]
  /\ UNCHANGED result

(* A publish after shutdown reaches nobody: rclcpp drops it. *)
Publish(v) == commanded' = IF process = "running" THEN v ELSE commanded

(* Faulty: reports the cancel but goes on, for want of a return. *)
Begin_NoReturn(g) ==
  /\ end_pose' = g
  /\ Goto(g, "begin", "wait_map")
  /\ status' = [status EXCEPT ![g] = IF @ = "canceling" THEN "canceled" ELSE @]
  /\ UNCHANGED <<executorVars, holder, mapCurrent, request, current_controller,
                 current_goal_checker, plan, checkerVars, last_velocity,
                 commanded, outcomeVars>>

(* Faulty: returns from the early cancel with the lock held. *)
Begin_KeepsLock(g) ==
  /\ end_pose' = g
  /\ Goto(g, "begin", IF status[g] = "canceling" THEN "done" ELSE "wait_map")
  /\ status' = [status EXCEPT ![g] = IF @ = "canceling" THEN "canceled" ELSE @]
  /\ UNCHANGED <<executorVars, holder, mapCurrent, request, current_controller,
                 current_goal_checker, plan, checkerVars, last_velocity,
                 commanded, outcomeVars>>

(* The first lines: the one cancel check before the map is awaited. *)
Begin(g) ==
  /\ end_pose' = g
  /\ \/ /\ status[g] = "canceling"
        /\ status' = [status EXCEPT ![g] = "canceled"]
        /\ Goto(g, "begin", "unlock")
     \/ /\ status[g] # "canceling"
        /\ Goto(g, "begin", "wait_map")
        /\ UNCHANGED status
  /\ UNCHANGED <<executorVars, holder, mapCurrent, request, current_controller,
                 current_goal_checker, plan, checkerVars, last_velocity,
                 commanded, outcomeVars>>

(* while (!isCurrent()) sleep: neither a cancel nor a shutdown is looked at. *)
WaitMap(g) ==
  /\ mapCurrent
  /\ Goto(g, "wait_map", "setup")
  /\ UNCHANGED <<executorVars, status, holder, mapCurrent, request, pluginVars,
                 checkerVars, last_velocity, commanded, outcomeVars>>

(* Faulty: setPath() is not called, the controller keeps its last path. *)
SelectPlugins_KeepsPath(g) ==
  \E c \in FindId(loaded.controllers, request[g].controller),
     k \in FindId(loaded.checkers, request[g].checker) :
    /\ current_controller' = c
    /\ current_goal_checker' = k
    /\ UNCHANGED plan

(* Both plugins are found and selected; setPath() hands over the path. *)
SelectPlugins(g) ==
  \E c \in FindId(loaded.controllers, request[g].controller),
     k \in FindId(loaded.checkers, request[g].checker) :
    /\ current_controller' = c
    /\ current_goal_checker' = k
    /\ plan' = [plan EXCEPT ![c] = g]

(* progress_checker_->reset() is the last call before the control loop; the  *)
(* goal checker has a reset() too, which nothing calls.                      *)
Setup(g) ==
  /\ loaded.progress
  /\ Goto(g, "setup", "loop")
  /\ SelectPlugins(g)
  /\ baseline_pose_set' = FALSE
  /\ UNCHANGED <<executorVars, status, holder, mapCurrent, request, end_pose,
                 check_xy, arrived, last_velocity, commanded, outcomeVars>>

(* setPath() or updateMap() throws a DroneException: the outer catch aborts  *)
(* at once, without stopping the drone.                                      *)
SetupThrows(g) ==
  /\ "DroneException" \in ControllerErrors
  /\ Goto(g, "setup", "abort")
  /\ SelectPlugins(g)
  /\ failure' = [failure EXCEPT ![g] = "DroneException"]
  /\ UNCHANGED <<executorVars, status, holder, mapCurrent, request, end_pose,
                 checkerVars, last_velocity, commanded, result>>

(* What ends the process here: a plugin name nobody loaded (InvalidController *)
(* or ControllerException), an exception of setPath() or updateMap() that is  *)
(* no DroneException, and reset() through a null pointer when init() could    *)
(* not create the progress checker.                                           *)
SetupEndsProcess(g) ==
  \E kind \in ExceptionKinds \cup {None} :
    /\ EscapesThread(g, "setup", kind)
    /\ LET found == /\ FindId(loaded.controllers, request[g].controller) # {}
                    /\ FindId(loaded.checkers, request[g].checker) # {}
       IN \/ ~found /\ kind = "ControllerException"
          \/ found /\ kind \in ControllerErrors \ {"DroneException"}
          \/ found /\ kind = None /\ ~loaded.progress

(* Faulty: the cancel flag is not looked at in the loop. *)
LoopTop_IgnoresCancel(g) ==
  /\ Goto(g, "loop", IF process = "running" THEN "pose" ELSE "stop_succeeded")
  /\ UNCHANGED <<executorVars, status, holder, mapCurrent, request, pluginVars,
                 checkerVars, last_velocity, commanded, outcomeVars>>

(* Top of the control loop: rclcpp::ok(), then the goal's cancel flag. *)
LoopTop(g) ==
  /\ \/ /\ process # "running"
        /\ Goto(g, "loop", "stop_succeeded")
        /\ UNCHANGED status
     \/ /\ process = "running" /\ status[g] = "canceling"
        /\ status' = [status EXCEPT ![g] = "canceled"]
        /\ Goto(g, "loop", "stop_canceled")
     \/ /\ process = "running" /\ status[g] # "canceling"
        /\ Goto(g, "loop", "pose")
        /\ UNCHANGED status
  /\ UNCHANGED <<executorVars, holder, mapCurrent, request, pluginVars,
                 checkerVars, last_velocity, commanded, outcomeVars>>

(* getRobotPose() and SimpleProgressChecker::check() both succeed: the first *)
(* pose after a reset becomes the baseline, a pose far enough from it the     *)
(* next one, and the others are in time.                                      *)
CheckProgress(g) ==
  /\ Goto(g, "pose", "compute")
  /\ baseline_pose_set' = TRUE
  /\ UNCHANGED <<executorVars, status, holder, mapCurrent, request, pluginVars,
                 check_xy, arrived, last_velocity, commanded, outcomeVars>>

(* Thrown outside the inner try: no pose of the drone, or no progress within *)
(* the time allowance.                                                       *)
CheckProgressThrows(g) ==
  \/ EscapesThread(g, "pose", "ControllerTFError")
  \/ baseline_pose_set /\ EscapesThread(g, "pose", "FailedToMakeProgress")

(* computeVelocityCommands() returned: publish what the controller computed  *)
(* from the path it was given last.                                          *)
Compute(g) ==
  /\ Goto(g, "compute", "reached")
  /\ Publish(plan[current_controller])
  /\ UNCHANGED <<executorVars, status, holder, mapCurrent, request, pluginVars,
                 checkerVars, last_velocity, outcomeVars>>

(* Faulty: the catch clauses abort without publishZeroVelocity(). *)
ComputeThrows_NoStop(g) ==
  /\ \E kind \in ControllerErrors \ {"DroneException"} :
       /\ Goto(g, "compute", "abort")
       /\ failure' = [failure EXCEPT ![g] = kind]
  /\ UNCHANGED <<executorVars, status, holder, mapCurrent, request, pluginVars,
                 checkerVars, last_velocity, commanded, result>>

(* The inner catch clauses: a DroneException is logged and the loop goes on  *)
(* with the previous command, every ControllerException ends the goal.       *)
ComputeThrows(g) ==
  /\ \/ /\ "DroneException" \in ControllerErrors
        /\ Goto(g, "compute", "reached")
        /\ UNCHANGED failure
     \/ \E kind \in ControllerErrors \ {"DroneException"} :
          /\ Goto(g, "compute", "stop_aborted")
          /\ failure' = [failure EXCEPT ![g] = kind]
  /\ UNCHANGED <<executorVars, status, holder, mapCurrent, request, pluginVars,
                 checkerVars, last_velocity, commanded, result>>

(* The velocities isGoalReached() may read as stopped. *)
ReadsStopped(stopped) ==
  \/ last_velocity = "torn"
  \/ stopped <=> last_velocity = "stopped"

(* Faulty: tests the heading only. *)
Reached_AnyPosition(k, near, aligned, stopped) ==
  aligned /\ (k \in StoppedCheckerIds => stopped)

(* SimpleGoalChecker::isGoalReached(), near and aligned being its two tests: *)
(* the xy test is skipped once it has passed; StoppedGoalChecker adds a test *)
(* of the velocity.                                                          *)
Reached(k, near, aligned, stopped) ==
  /\ check_xy[k] => near
  /\ aligned
  /\ k \in StoppedCheckerIds => stopped

(* isGoalReached() with a pose.  When tf refuses, the end pose compared with *)
(* is a default one, so that near says nothing about the goal.               *)
CheckGoal(g) ==
  \E near, aligned, stopped \in BOOLEAN, transformed \in {TRUE, ~TransformMayFail} :
    LET k == current_goal_checker IN
    /\ ReadsStopped(stopped)
    /\ Goto(g, "reached",
            IF Reached(k, near, aligned, stopped) THEN "stop_succeeded" ELSE "loop")
    /\ check_xy' = [check_xy EXCEPT ![k] = @ /\ ~(near /\ Stateful)]
    /\ arrived' = [arrived EXCEPT ![g] = @ \/ (near /\ transformed)]
    /\ UNCHANGED <<executorVars, status, holder, mapCurrent, request, pluginVars,
                   baseline_pose_set, last_velocity, commanded, outcomeVars>>

CheckGoalWithoutPose(g) ==
  /\ Goto(g, "reached", "loop")
  /\ UNCHANGED <<executorVars, status, holder, mapCurrent, request, pluginVars,
                 checkerVars, last_velocity, commanded, outcomeVars>>

(* Faulty: the cancel branch leaves the drone its last command. *)
StopDrone_NotOnCancel(g) ==
  /\ \/ Goto(g, "stop_succeeded", "succeed")
     \/ Goto(g, "stop_again", "unlock")
     \/ Goto(g, "stop_canceled", "unlock")
     \/ Goto(g, "stop_aborted", "abort")
  /\ Publish(IF pc[g] = "stop_canceled" THEN commanded ELSE None)
  /\ UNCHANGED <<executorVars, status, holder, mapCurrent, request, pluginVars,
                 checkerVars, last_velocity, outcomeVars>>

(* publishZeroVelocity(), and where each of its callers goes on. *)
StopDrone(g) ==
  /\ \/ Goto(g, "stop_succeeded", "succeed")
     \/ Goto(g, "stop_again", "unlock")
     \/ Goto(g, "stop_canceled", "unlock")
     \/ Goto(g, "stop_aborted", "abort")
  /\ Publish(None)
  /\ UNCHANGED <<executorVars, status, holder, mapCurrent, request, pluginVars,
                 checkerVars, last_velocity, outcomeVars>>

(* After the loop: no result is given once rclcpp::ok() is false. *)
Succeed(g) ==
  /\ Goto(g, "succeed", "stop_again")
  /\ status' = IF process = "running" THEN [status EXCEPT ![g] = "succeeded"] ELSE status
  /\ UNCHANGED <<executorVars, holder, mapCurrent, request, pluginVars,
                 checkerVars, last_velocity, commanded, outcomeVars>>

Abort(g) ==
  /\ Goto(g, "abort", "unlock")
  /\ status' = [status EXCEPT ![g] = "aborted"]
  /\ result' = [result EXCEPT ![g] = ErrorCode[failure[g]]]
  /\ UNCHANGED <<executorVars, holder, mapCurrent, request, pluginVars,
                 checkerVars, last_velocity, commanded, failure>>

(* server_mutex.unlock(), the last statement of every way out. *)
Unlock(g) ==
  /\ Goto(g, "unlock", "done")
  /\ holder' = None
  /\ UNCHANGED <<executorVars, status, mapCurrent, request, pluginVars,
                 checkerVars, last_velocity, commanded, outcomeVars>>

-----------------------------------------------------------------------------
(* The specification *)

Execute(g) ==
  \/ Begin(g) \/ WaitMap(g)
  \/ Setup(g) \/ SetupThrows(g) \/ SetupEndsProcess(g)
  \/ LoopTop(g)
  \/ CheckProgress(g) \/ CheckProgressThrows(g)
  \/ Compute(g) \/ ComputeThrows(g)
  \/ CheckGoal(g) \/ CheckGoalWithoutPose(g)
  \/ StopDrone(g) \/ Succeed(g) \/ Abort(g) \/ Unlock(g)

Callback ==
  \/ Startup
  \/ \E g \in Goal :
       \/ \E r \in Requests, emptyPath \in BOOLEAN : HandleGoal(g, r, emptyPath)
       \/ HandleAccepted(g)
       \/ HandleCancel(g)
  \/ OdomBegin \/ OdomEnd

(* The process is gone and nothing more happens. *)
Ended == ~Alive /\ UNCHANGED vars

Next ==
  \/ Callback
  \/ \E g \in Goal : Execute(g)
  \/ MapChanges \/ Shutdown \/ Exit
  \/ Ended

(* Threads are scheduled: the callback in progress finishes and the thread   *)
(* of each goal goes on.  Nobody has to send, cancel or shut down, and the   *)
(* map need not become current.                                              *)
Fairness ==
  /\ WF_vars(OdomEnd \/ \E g \in Goal : HandleAccepted(g))
  /\ \A g \in Goal : WF_vars(Execute(g))

Spec == Init /\ [][Next]_vars /\ Fairness

-----------------------------------------------------------------------------
(* Properties *)

(* At most one goal is between handle_accepted and its unlock, and it is the *)
(* one server_mutex is locked for ("Only allow one Action Server to address  *)
(* the drone at a time", controller_server.hpp).                             *)
OneCommander == \A g \in Goal : pc[g] \notin {"none", "done"} => holder = g

(* The lock is never left behind: a goal that holds it is being accepted or  *)
(* its thread has yet to reach its unlock.                                   *)
LockNotLeaked ==
  \A g \in Goal : holder = g => status[g] = "accepted" \/ pc[g] \notin {"none", "done"}

(* While the control loop runs for a goal, the shared members end_pose_ and  *)
(* current_controller_ and the plugin's path are those of that goal.         *)
OwnPath ==
  \A g \in Goal :
    pc[g] \in {"loop", "pose", "compute", "reached"} =>
      /\ end_pose = g
      /\ plan[current_controller] = g

(* While the server runs, the drone moves for nobody but the goal that holds *)
(* the lock: whoever releases it leaves the drone stopped.                   *)
FollowsHolder == process = "running" => commanded \in {holder, None}

(* A goal told that it succeeded or was aborted no longer moves the drone.   *)
StoppedWhenReported ==
  \A g \in Goal :
    process = "running" /\ status[g] \in {"aborted", "succeeded"} => commanded # g

(* A goal succeeds only if some pose read while it was executed lay within   *)
(* the xy tolerance of the end of its own path.                              *)
SuccessNearGoal == \A g \in Goal : status[g] = "succeeded" => arrived[g]

(* What a client was told of a goal in the end is never taken back.          *)
VerdictIsFinal ==
  [][\A g \in Goal : status[g] \in Terminal => status'[g] = status[g]]_vars

(* A goal that has its verdict gives the lock back, so that a next goal can  *)
(* be accepted, unless the process ends first.                               *)
LockReleased ==
  \A g \in Goal : (holder = g /\ status[g] \in Terminal) ~> (holder # g \/ ~Alive)

(* A goal asked to cancel reaches a verdict if the map is current from some  *)
(* time on, unless the process goes down.                                    *)
CancelAnswered ==
  <>[]mapCurrent =>
    \A g \in Goal : status[g] = "canceling" ~> (status[g] \in Terminal \/ process # "running")

(* The server keeps the contract: a goal just accepted counts as executing.  *)
ClientView(s) == CASE s = "unknown" -> "idle"
                   [] s = "accepted" -> "executing"
                   [] OTHER -> s

Contract == INSTANCE FollowPathContract WITH
  state <- [g \in Goal |-> ClientView(status[g])],
  commander <- holder,
  up <- process = "running"

KeepsContract == Contract!ContractSpec

(* Of FollowPath.action: FAILED_TO_MAKE_PROGRESS=3.  A goal for which no     *)
(* progress was made is aborted with that code.                              *)
ProgressFailureReported ==
  \A g \in Goal :
    failure[g] = "FailedToMakeProgress" ~>
      \/ status[g] = "aborted" /\ result[g] = 3
      \/ process \in {"shutdown", "exited"}
=============================================================================
