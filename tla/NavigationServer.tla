-------------------------- MODULE NavigationServer --------------------------
(***************************************************************************)
(* The NavigateToPose action server (navigate_to_pose.cpp), the trees it   *)
(* runs and the FollowPath server these fly the drone with.                *)
(*                                                                         *)
(* Every goal is accepted and gets a detached thread with a tree of its    *)
(* own (thread[n]): any number of trees are ticked side by side.  The tree *)
(* is that of navigate.xml: BatteryOK, in a ReactiveSequence, before a     *)
(* Sequence that reads the goal, has a path computed and follows it.  As   *)
(* it stands, it also uses a node type that execute() does not register    *)
(* (Wait; simple.xml, FollowWaypoints): see Load.  The voltage is whatever *)
(* the battery topic said before a tick.                                   *)
(*                                                                         *)
(* The FollowPath server is its contract, and stays up; so is the          *)
(* FollowPath node of each tree, which a tree starts once.  The two meet   *)
(* in the state of the goal.  Of ComputePathToPose only the status is      *)
(* kept.                                                                   *)
(* BehaviorTree.CPP is external: Sequence, ReactiveSequence, and a tree    *)
(* that halts its nodes before it destroys them.                           *)
(***************************************************************************)
EXTENDS Naturals

CONSTANTS
  Navigations, \* bound: the number of NavigateToPose goals
  None         \* not a goal

(* Goals, numbered as they come; each sends one FollowPath goal at most. *)
Navigation == 1 .. Navigations

ASSUME NavigationServerAssumption ==
  /\ Navigations \in Nat
  /\ None \notin Navigation

VARIABLES
  goal_handle,  \* the state of each NavigateToPose goal
  thread,       \* where each execute() is
  root,         \* what the last tick of the tree returned
  compute,      \* node status of ComputePathToPose
  follow,       \* node status of FollowPath
  worker,       \* the thread of FollowPath's tick()
  halted,       \* how the FollowPath node was halted
  process,      \* of the navigation server: "up", "stopping" (rclcpp::ok() is false) or "gone"
  abandoned,    \* history: navigations that ended with their worker at work, or after an early halt
  state, commander, commanded   \* the FollowPath server's, see FollowPathContract

nodeVars   == <<compute, follow, worker, halted>>
serverVars == <<state, commander, commanded>>
vars == <<goal_handle, thread, root, nodeVars, process, abandoned, serverVars>>

FollowPath == INSTANCE FollowPathContract WITH Goal <- Navigation, up <- TRUE
FollowNode == INSTANCE ActionNodeContract WITH
  Node <- Navigation, nodeStatus <- follow, inForce <- TRUE

(* The worker is at work. *)
WorkerRuns(n) == worker[n] \in {"start", "poll"}

NodeStatus == {"IDLE", "RUNNING", "SUCCESS", "FAILURE"}

TypeOK ==
  /\ goal_handle \in [Navigation -> {"none", "executing", "canceling", "canceled", "succeeded"}]
  /\ thread \in [Navigation -> {"none", "load", "tick", "look", "conclude", "join", "over"}]
  /\ root \in [Navigation -> NodeStatus]
  /\ compute \in [Navigation -> NodeStatus]
  /\ follow \in [Navigation -> NodeStatus]
  /\ worker \in [Navigation -> {"none", "start", "poll", "done", "threw"}]
  /\ \A n \in Navigation : follow[n] = "RUNNING" => WorkerRuns(n)
  /\ halted \in [Navigation -> {"none", "early", "late"}]
  /\ process \in {"up", "stopping", "gone"}
  /\ abandoned \subseteq Navigation
  /\ FollowPath!ContractTypeOK

Init ==
  /\ goal_handle = [n \in Navigation |-> "none"]
  /\ thread = [n \in Navigation |-> "none"]
  /\ root = [n \in Navigation |-> "IDLE"]
  /\ compute = [n \in Navigation |-> "IDLE"]
  /\ process = "up"
  /\ abandoned = {}
  /\ FollowPath!ContractInit
  /\ FollowNode!NodeInit

-----------------------------------------------------------------------------
(* Callbacks of the navigation server, and its process *)

(* handle_goal() accepts whatever comes; handle_accepted() starts a thread. *)
HandleGoal(n) ==
  /\ process = "up" /\ goal_handle[n] = "none"
  /\ \A earlier \in 1 .. n - 1 : goal_handle[earlier] # "none"
  /\ goal_handle' = [goal_handle EXCEPT ![n] = "executing"]
  /\ thread' = [thread EXCEPT ![n] = "load"]
  /\ UNCHANGED <<root, nodeVars, process, abandoned, serverVars>>

HandleCancel(n) ==
  /\ process = "up" /\ goal_handle[n] = "executing"
  /\ goal_handle' = [goal_handle EXCEPT ![n] = "canceling"]
  /\ UNCHANGED <<thread, root, nodeVars, process, abandoned, serverVars>>

Shutdown ==
  /\ process = "up"
  /\ process' = "stopping"
  /\ UNCHANGED <<goal_handle, thread, root, nodeVars, abandoned, serverVars>>

-----------------------------------------------------------------------------
(* execute() of navigation n *)

Goto(n, from, to) ==
  /\ thread[n] = from
  /\ thread' = [thread EXCEPT ![n] = to]

(* createTreeFromFile() makes the tree the client names.  It throws for a *)
(* node type it does not know, and nothing catches it.                    *)
Load(n) ==
  /\ \/ Goto(n, "load", "tick") /\ UNCHANGED process
     \/ thread[n] = "load" /\ process' = "gone" /\ UNCHANGED thread
  /\ UNCHANGED <<goal_handle, root, nodeVars, abandoned, serverVars>>

(* A node that runs is halted, and IDLE after that; so are the others. *)
HaltNodes(n) ==
  /\ compute' = [compute EXCEPT ![n] = "IDLE"]
  /\ \/ FollowNode!Halt(n) \/ FollowNode!Collect(n)
     \/ follow[n] = "IDLE" /\ UNCHANGED <<follow, worker, halted, state>>

(* An action node that is IDLE is started in a thread of its own. *)
StartCompute(n) ==
  compute' = [compute EXCEPT ![n] = "RUNNING"] /\ UNCHANGED <<follow, worker, halted>>

StartFollow(n) == FollowNode!Start(n) /\ UNCHANGED compute

(* The nodes after one tick of the tree, and its answer.  ReadGoal always     *)
(* succeeds at once, and the battery is looked at in every tick.              *)
TickTree(n, answer) ==
  \E batteryOK \in BOOLEAN :
    \/ ~batteryOK /\ answer = "FAILURE" /\ HaltNodes(n)
    \/ /\ batteryOK
       /\ \/ compute[n] = "IDLE" /\ answer = "RUNNING" /\ StartCompute(n)
          \/ compute[n] = "RUNNING" /\ answer = "RUNNING" /\ UNCHANGED nodeVars
          \/ compute[n] = "FAILURE" /\ answer = "FAILURE" /\ HaltNodes(n)
          \/ /\ compute[n] = "SUCCESS"
             /\ \/ answer = "RUNNING" /\ StartFollow(n)
                \/ follow[n] = "RUNNING" /\ answer = "RUNNING" /\ UNCHANGED nodeVars
                \/ follow[n] \in {"SUCCESS", "FAILURE"} /\ answer = follow[n] /\ HaltNodes(n)

(* The condition of the loop: tree.tickRoot() and rclcpp::ok(). *)
TickRoot(n) ==
  /\ \E answer \in NodeStatus :
       /\ Goto(n, "tick", IF answer = "RUNNING" /\ process = "up" THEN "look" ELSE "conclude")
       /\ TickTree(n, answer)
       /\ root' = [root EXCEPT ![n] = answer]
  /\ UNCHANGED <<goal_handle, process, abandoned, serverVars>>

(* What the FollowPath node has thrown comes out of its next tick, and so out *)
(* of tickRoot(); nothing catches it.                                         *)
Rethrow(n) ==
  /\ thread[n] = "tick" /\ compute[n] = "SUCCESS" /\ worker[n] = "threw"
  /\ process' = "gone"
  /\ UNCHANGED <<goal_handle, thread, root, nodeVars, abandoned, serverVars>>

(* Faulty: the cancel is not looked at. *)
LookForCancel_Ignored(n) ==
  /\ Goto(n, "look", "tick")
  /\ UNCHANGED <<goal_handle, root, nodeVars, process, abandoned, serverVars>>

(* The end of execute() destroys the tree, which first halts its nodes. *)
Destroy(n) == HaltNodes(n) /\ root' = [root EXCEPT ![n] = "IDLE"]

(* The body of the loop: a cancel is confirmed and ends the thread. *)
LookForCancel(n) ==
  /\ IF goal_handle[n] = "canceling"
       THEN /\ Goto(n, "look", "join")
            /\ goal_handle' = [goal_handle EXCEPT ![n] = "canceled"]
            /\ Destroy(n)
       ELSE Goto(n, "look", "tick") /\ UNCHANGED <<goal_handle, root, nodeVars>>
  /\ UNCHANGED <<process, abandoned, serverVars>>

(* Faulty: the tree goes without halting its nodes. *)
Conclude_NoHalt(n) ==
  /\ Goto(n, "conclude", "over")
  /\ goal_handle' = IF process = "up" THEN [goal_handle EXCEPT ![n] = "succeeded"] ELSE goal_handle
  /\ UNCHANGED <<root, nodeVars, process, abandoned, serverVars>>

(* succeed(), whatever the tree said, unless ROS is shutting down. *)
Conclude(n) ==
  /\ Goto(n, "conclude", "join")
  /\ goal_handle' = IF process = "up" THEN [goal_handle EXCEPT ![n] = "succeeded"] ELSE goal_handle
  /\ Destroy(n)
  /\ UNCHANGED <<process, abandoned, serverVars>>

(* A node's members are gone before its base waits for the worker.  In time, *)
(* the worker has done its work; else it uses what is gone: it may still     *)
(* succeed, or stop without having asked for a cancel, or the process ends.  *)
Join(n) ==
  /\ \/ Goto(n, "join", "over") /\ UNCHANGED process
     \/ thread[n] = "join" /\ WorkerRuns(n) /\ process' = "gone" /\ UNCHANGED thread
  /\ worker' = [worker EXCEPT ![n] = IF WorkerRuns(n) THEN "done" ELSE @]
  /\ abandoned' = IF WorkerRuns(n) \/ halted[n] = "early" THEN abandoned \cup {n} ELSE abandoned
  /\ halted' = [halted EXCEPT ![n] = "none"]
  /\ follow' = [follow EXCEPT ![n] = "IDLE"]
  /\ UNCHANGED <<goal_handle, root, compute, serverVars>>

Execute(n) ==
  /\ process # "gone"
  /\ \/ Load(n) \/ TickRoot(n) \/ Rethrow(n) \/ LookForCancel(n) \/ Conclude(n)
     \/ Join(n)

-----------------------------------------------------------------------------
(* The action nodes of navigation n, and the FollowPath server *)

(* The result comes from the executor, which runs while the process is up. *)
ComputeEnds(n) ==
  /\ process = "up" /\ compute[n] = "RUNNING"
  /\ \E s \in {"SUCCESS", "FAILURE"} : compute' = [compute EXCEPT ![n] = s]
  /\ UNCHANGED <<goal_handle, thread, root, follow, worker, halted, process, abandoned, serverVars>>

(* A request for the cancel is a step of the server as well. *)
Worker(n) ==
  /\ process # "gone"
  /\ \/ FollowNode!Tick(n) /\ UNCHANGED serverVars
     \/ FollowNode!RequestCancel(n) /\ FollowPath!RequestCancel(n)
  /\ UNCHANGED <<goal_handle, thread, root, compute, process, abandoned>>

(* The FollowPath server serves the goals it was sent.  It is asked to cancel *)
(* a goal by the node alone.  What it does after this process has ended is    *)
(* not followed.                                                              *)
FollowPathServer ==
  /\ process # "gone"
  /\ \E n \in Navigation :
       \/ FollowNode!Sent(n) /\ (FollowPath!Refuse(n) \/ FollowPath!Admit(n))
       \/ FollowPath!Fly(n) \/ FollowPath!Halt(n) \/ FollowPath!Release(n)
       \/ \E verdict \in FollowPath!Verdicts : FollowPath!Conclude(n, verdict)
  /\ UNCHANGED <<goal_handle, thread, root, nodeVars, process, abandoned>>

-----------------------------------------------------------------------------
Next ==
  \/ \E n \in Navigation : HandleGoal(n) \/ HandleCancel(n) \/ Execute(n) \/ ComputeEnds(n) \/ Worker(n)
  \/ Shutdown \/ FollowPathServer

(* The threads of execute() are scheduled. *)
Spec == Init /\ [][Next]_vars /\ \A n \in Navigation : WF_vars(Execute(n))

-----------------------------------------------------------------------------
(* Properties *)

(* A tree reports success only of a path the drone has flown to its end, as   *)
(* the FollowPath server says: not of a goal that was refused because the     *)
(* server flies for another navigation, aborted, or canceled.                 *)
SuccessIsFlown ==
  \A n \in Navigation : root[n] = "SUCCESS" => state[n] = "succeeded"

(* The drone does not fly on for a navigation whose thread is over, unless it *)
(* is about to be stopped: the server was asked for the cancel.  Excused are  *)
(* (see Join) the worker that lost its node, and the halt that came before    *)
(* the node polled, which may be forgotten (follow_path.cpp:70).              *)
NoFlightLeft ==
  \A n \in Navigation \ abandoned :
    thread[n] = "over" /\ commanded = n => state[n] \in {"canceling", "canceled"}

(* A cancel that was accepted is answered: the goal is canceled, or it was    *)
(* just about to end by itself, or the server stops.                          *)
CancelAnswered ==
  \A n \in Navigation :
    goal_handle[n] = "canceling" ~>
      (goal_handle[n] \in {"canceled", "succeeded"} \/ process # "up")
=============================================================================
