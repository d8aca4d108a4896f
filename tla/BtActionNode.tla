--------------------------- MODULE BtActionNode ---------------------------
(***************************************************************************)
(* The behavior tree nodes that call an action server: FollowPath,         *)
(* ComputePathToPose and FollowWaypoints of nav2_drone_bt_navigator.  The  *)
(* three share one protocol and differ in how they read a result (kind).   *)
(*                                                                         *)
(* Three threads touch the members of a node without a lock:               *)
(*   - the thread of the tree ticks and halts the node;                    *)
(*   - BT::AsyncActionNode runs tick() in a thread of its own each time    *)
(*     the node is ticked while IDLE: run r below;                         *)
(*   - the executor of the ROS node runs the response and result callbacks *)
(*     of the goals the runs have sent.                                    *)
(* halt() overrides the one of AsyncActionNode, so it does not wait for    *)
(* the thread of the run, and nothing tells a callback which run it is of. *)
(*                                                                         *)
(* BT::AsyncActionNode and the action server are external: the first as it *)
(* is used by these nodes (BehaviorTree.CPP 3), the second as any server   *)
(* that answers each goal.                                                 *)
(***************************************************************************)
EXTENDS Naturals, Sequences

CONSTANTS
  Kinds,     \* the nodes looked at: "FollowPath", "ComputePathToPose", ...
  MaxRuns    \* bound on the ticks of an IDLE node

ASSUME BtActionNodeAssumption ==
  /\ Kinds \subseteq {"FollowPath", "ComputePathToPose", "FollowWaypoints"}
  /\ MaxRuns \in Nat \ {0}

Runs == 1..MaxRuns

VARIABLES
  kind,            \* which of the nodes this is
  tree,            \* where the tree's thread is in ticking or halting the node
  nodeStatus,      \* BT::TreeNode's status of the node
  run,             \* the last run started
  place,           \* where each run is in tick()
  _halt_requested,
  action_status,
  future,          \* future_goal_handle_: the run whose goal it stands for
  awaited,         \* the goal each run waits for in cleanup()
  returned_path,   \* the runs whose paths were written to the stream, in order
  output,          \* the text on the blackboard, as the runs whose paths it holds
  server,          \* the server's state of the goal of each run
  cancelAsked,     \* the goals the server was asked to cancel
  delivered,       \* which callbacks have run for the goal of each run
  halted,          \* history: where each run was when it was halted
  overlapped       \* history: the runs that began before an earlier one ended

treeVars   == <<kind, tree, nodeStatus, run>>
goalVars   == <<future, awaited>>
pathVars   == <<returned_path, output>>
serverVars == <<server, cancelAsked, delivered>>
history    == <<halted, overlapped>>
vars == <<treeVars, place, _halt_requested, action_status, goalVars, pathVars,
          serverVars, history>>

(* action_status.h *)
ActionStatus == {"VIRGIN", "REJECTED", "PROCESSING", "SUCCEEDED", "FAILED",
                 "ABORTED", "CANCELED", "UNKNOWN"}

(* A goal may succeed without what it was for: an empty path was computed,   *)
(* or waypoints were missed.                                                 *)
Outcomes == {"succeeded", "succeeded_for_nothing", "aborted", "canceled"}

ThreadPlaces == {"none", "begin", "send", "sent", "poll", "cleanup", "get",
                 "return", "return_success", "return_failure", "done", "threw"}
OverPlaces == {"none", "done", "threw"}

TypeOK ==
  /\ kind \in Kinds
  /\ tree \in {"idle", "starting", "halting", "halted", "gone"}
  /\ nodeStatus \in {"IDLE", "RUNNING", "SUCCESS", "FAILURE"}
  /\ run \in 0..MaxRuns
  /\ place \in [Runs -> ThreadPlaces]
  /\ _halt_requested \in BOOLEAN
  /\ action_status \in ActionStatus
  /\ future \in 0..MaxRuns
  /\ awaited \in [Runs -> 0..MaxRuns]
  /\ \A r \in Runs : place[r] = "get" => awaited[r] \in Runs
  /\ returned_path \in Seq(Runs)
  /\ output \in Seq(Runs)
  /\ server \in [Runs -> {"none", "sent", "rejected", "executing"} \cup Outcomes]
  /\ cancelAsked \subseteq Runs
  /\ delivered \in [Runs -> {"nothing", "response", "half", "result"}]
  /\ halted \in [Runs -> {"none", "early", "polling", "late"}]
  /\ overlapped \subseteq Runs

(* The members start uninitialized.  action_status is set before it is read; *)
(* of _halt_requested any value may stand there.                             *)
Init ==
  /\ kind \in Kinds
  /\ tree = "idle"
  /\ nodeStatus = "IDLE"
  /\ run = 0
  /\ place = [r \in Runs |-> "none"]
  /\ _halt_requested \in BOOLEAN
  /\ action_status = "VIRGIN"
  /\ future = 0
  /\ awaited = [r \in Runs |-> 0]
  /\ returned_path = <<>>
  /\ output = <<>>
  /\ server = [r \in Runs |-> "none"]
  /\ cancelAsked = {}
  /\ delivered = [r \in Runs |-> "nothing"]
  /\ halted = [r \in Runs |-> "none"]
  /\ overlapped = {}

-----------------------------------------------------------------------------
(* The tree's thread *)

Overlaps(r) == \E q \in Runs : q < r /\ place[q] \notin OverPlaces

(* exptr_: a tick() has thrown and no executeTick() has found out. *)
Threw == \E r \in Runs : place[r] = "threw"

(* executeTick() of an IDLE node: RUNNING first, then the new thread. *)
Tick ==
  /\ tree = "idle" /\ nodeStatus = "IDLE" /\ run < MaxRuns /\ ~Threw
  /\ nodeStatus' = "RUNNING"
  /\ run' = run + 1
  /\ place' = [place EXCEPT ![run + 1] = "begin"]
  /\ tree' = "starting"
  /\ overlapped' = IF Overlaps(run + 1) THEN overlapped \cup {run + 1} ELSE overlapped
  /\ UNCHANGED <<kind, _halt_requested, action_status, goalVars, pathVars, serverVars, halted>>

(* Storing the future of the new thread waits for the end of the old one. *)
Started ==
  /\ tree = "starting"
  /\ ~Overlaps(run)
  /\ tree' = "idle"
  /\ UNCHANGED <<kind, nodeStatus, run, place, _halt_requested, action_status,
                 goalVars, pathVars, serverVars, history>>

(* executeTick() rethrows what tick() threw.  No caller up to the thread of  *)
(* the navigator catches it: the process ends.                               *)
Rethrow ==
  /\ tree = "idle" /\ Threw
  /\ tree' = "gone"
  /\ UNCHANGED <<kind, nodeStatus, run, place, _halt_requested, action_status,
                 goalVars, pathVars, serverVars, history>>

(* The parent takes the status the node has and makes it IDLE again. *)
Collect ==
  /\ tree = "idle" /\ ~Threw
  /\ nodeStatus \in {"SUCCESS", "FAILURE"}
  /\ nodeStatus' = "IDLE"
  /\ UNCHANGED <<kind, tree, run, place, _halt_requested, action_status, goalVars,
                 pathVars, serverVars, history>>

HaltedAt(p) == IF p \in {"begin", "send", "sent"} THEN "early" ELSE IF p = "poll" THEN "polling" ELSE "late"

(* halt() of a RUNNING node, in its two stores; then the parent's haltChild *)
(* makes the node IDLE.                                                     *)
Halt ==
  /\ tree = "idle" /\ nodeStatus = "RUNNING"
  /\ _halt_requested' = TRUE
  /\ halted' = [halted EXCEPT ![run] = HaltedAt(place[run])]
  /\ tree' = "halting"
  /\ UNCHANGED <<kind, nodeStatus, run, place, action_status, goalVars, pathVars,
                 serverVars, overlapped>>

HaltStatus ==
  /\ tree = "halting"
  /\ action_status' = "CANCELED"
  /\ tree' = "halted"
  /\ UNCHANGED <<kind, nodeStatus, run, place, _halt_requested, goalVars, pathVars,
                 serverVars, history>>

HaltChild ==
  /\ tree = "halted"
  /\ nodeStatus' = "IDLE"
  /\ tree' = "idle"
  /\ UNCHANGED <<kind, run, place, _halt_requested, action_status, goalVars, pathVars,
                 serverVars, history>>

-----------------------------------------------------------------------------
(* tick() of run r *)

Goto(r, from, to) ==
  /\ place[r] = from
  /\ place' = [place EXCEPT ![r] = to]

(* Faulty: the status an earlier run ended with stays there. *)
Begin_KeepsStatus(r) ==
  /\ Goto(r, "begin", "send")
  /\ UNCHANGED <<treeVars, _halt_requested, action_status, goalVars, pathVars, serverVars, history>>

Begin(r) ==
  /\ Goto(r, "begin", "send")
  /\ action_status' = "VIRGIN"
  /\ UNCHANGED <<treeVars, _halt_requested, goalVars, pathVars, serverVars, history>>

(* No input to send, or one that cannot be read (Readable): the exception   *)
(* goes to exptr_, and the thread makes the node IDLE.                      *)
InputMissing(r) ==
  /\ Goto(r, "begin", "threw")
  /\ action_status' = "VIRGIN"
  /\ nodeStatus' = "IDLE"
  /\ UNCHANGED <<kind, tree, run, _halt_requested, goalVars, pathVars, serverVars, history>>

(* Faulty: drops the future of the goal. *)
Send_NoFuture(r) ==
  /\ Goto(r, "send", "sent")
  /\ server' = [server EXCEPT ![r] = "sent"]
  /\ UNCHANGED <<treeVars, _halt_requested, action_status, goalVars, pathVars,
                 cancelAsked, delivered, history>>

(* wait_for_action_server() has no timeout, and the server is there.  *)
Send(r) ==
  /\ Goto(r, "send", "sent")
  /\ server' = [server EXCEPT ![r] = "sent"]
  /\ future' = r
  /\ UNCHANGED <<treeVars, _halt_requested, action_status, awaited, pathVars,
                 cancelAsked, delivered, history>>

(* Faulty: the halt of an earlier run is still in the flag. *)
ClearHalt_Omitted(r) ==
  /\ Goto(r, "sent", "poll")
  /\ UNCHANGED <<treeVars, _halt_requested, action_status, goalVars, pathVars, serverVars, history>>

(* _halt_requested.store(false), which comes after the goal is on its way. *)
ClearHalt(r) ==
  /\ Goto(r, "sent", "poll")
  /\ _halt_requested' = FALSE
  /\ UNCHANGED <<treeVars, action_status, goalVars, pathVars, serverVars, history>>

(* Faulty: waits for the result even when the goal was rejected. *)
LeaveLoop_NotOnRejected(r) ==
  /\ _halt_requested \/ action_status \notin {"VIRGIN", "PROCESSING", "REJECTED"}
  /\ Goto(r, "poll", "cleanup")
  /\ output' = IF kind = "ComputePathToPose" THEN returned_path ELSE output
  /\ UNCHANGED <<treeVars, _halt_requested, action_status, goalVars, returned_path,
                 serverVars, history>>

(* The polling loop ends on a halt or on a status the callbacks left.        *)
(* ComputePathToPose then puts on the blackboard all its stream holds.       *)
LeaveLoop(r) ==
  /\ _halt_requested \/ action_status \notin {"VIRGIN", "PROCESSING"}
  /\ Goto(r, "poll", "cleanup")
  /\ output' = IF kind = "ComputePathToPose" THEN returned_path ELSE output
  /\ UNCHANGED <<treeVars, _halt_requested, action_status, goalVars, returned_path,
                 serverVars, history>>

(* cleanup() of a node that was halted waits for the goal handle to cancel. *)
Cleanup(r) ==
  /\ IF _halt_requested
       THEN Goto(r, "cleanup", "get") /\ awaited' = [awaited EXCEPT ![r] = future]
       ELSE Goto(r, "cleanup", "return") /\ UNCHANGED awaited
  /\ UNCHANGED <<treeVars, _halt_requested, action_status, future, pathVars,
                 serverVars, history>>

(* Faulty: waits for the goal handle and leaves it at that. *)
CancelGoal_NotAsked(r) ==
  /\ Goto(r, "get", "return")
  /\ server[awaited[r]] # "sent"
  /\ awaited' = [awaited EXCEPT ![r] = 0]
  /\ UNCHANGED <<treeVars, _halt_requested, action_status, future, pathVars, serverVars, history>>

(* The client forgets the handle of a goal whose result it has: the          *)
(* exception of async_cancel_goal() is caught and logged.  The handle of a   *)
(* rejected goal is null, and async_cancel_goal() reads through it: no catch *)
(* clause helps, the process ends.                                           *)
CancelGoal(r) ==
  /\ Goto(r, "get", "return")
  /\ server[awaited[r]] # "sent"
  /\ tree' = IF server[awaited[r]] = "rejected" THEN "gone" ELSE tree
  /\ cancelAsked' =
       IF server[awaited[r]] = "rejected" \/ delivered[awaited[r]] \in {"half", "result"}
         THEN cancelAsked ELSE cancelAsked \cup {awaited[r]}
  /\ awaited' = [awaited EXCEPT ![r] = 0]
  /\ UNCHANGED <<kind, nodeStatus, run, _halt_requested, action_status, future, pathVars,
                 server, delivered, history>>

(* tick() returns what action_status says now. *)
ReadStatus(r) ==
  /\ Goto(r, "return", IF action_status = "SUCCEEDED" THEN "return_success" ELSE "return_failure")
  /\ UNCHANGED <<treeVars, _halt_requested, action_status, goalVars, pathVars,
                 serverVars, history>>

(* The thread of AsyncActionNode sets the node's status to what tick()     *)
(* returned, whatever the node has become meanwhile.                       *)
SetStatus(r) ==
  /\ \/ Goto(r, "return_success", "done") /\ nodeStatus' = "SUCCESS"
     \/ Goto(r, "return_failure", "done") /\ nodeStatus' = "FAILURE"
  /\ UNCHANGED <<kind, tree, run, _halt_requested, action_status, goalVars, pathVars,
                 serverVars, history>>

-----------------------------------------------------------------------------
(* The action server *)

ServerMoves(r, from, to) ==
  /\ server[r] = from
  /\ server' = [server EXCEPT ![r] = to]
  /\ UNCHANGED <<treeVars, place, _halt_requested, action_status, goalVars, pathVars,
                 cancelAsked, delivered, history>>

Respond(r) ==
  \/ ServerMoves(r, "sent", "rejected")
  \/ ServerMoves(r, "sent", "executing")

Finish(r) ==
  \E o \in Outcomes :
    /\ o = "canceled" => r \in cancelAsked
    /\ o = "succeeded_for_nothing" => kind # "FollowPath"
    /\ ServerMoves(r, "executing", o)

-----------------------------------------------------------------------------
(* The callbacks of the goal of run r *)

Callback(r, from, to, status) ==
  /\ delivered[r] = from
  /\ delivered' = [delivered EXCEPT ![r] = to]
  /\ action_status' = status
  /\ UNCHANGED <<treeVars, place, _halt_requested, goalVars, output, server,
                 cancelAsked, history>>

GoalResponseCallback(r) ==
  /\ \/ server[r] = "rejected" /\ Callback(r, "nothing", "result", "REJECTED")
     \/ /\ server[r] \in {"executing"} \cup Outcomes
        /\ Callback(r, "nothing", "response", "PROCESSING")
  /\ UNCHANGED returned_path

(* Faulty: the path of the result is left out of the stream. *)
ResultCallback_NoPath(r) ==
  /\ \/ server[r] = "succeeded" /\ Callback(r, "response", "result", "SUCCEEDED")
     \/ server[r] = "succeeded_for_nothing" /\ Callback(r, "response", "half", "FAILED")
     \/ server[r] = "aborted" /\ Callback(r, "response", "result", "ABORTED")
     \/ server[r] = "canceled" /\ Callback(r, "response", "result", "CANCELED")
  /\ UNCHANGED returned_path

(* FollowWaypoints fails on missed waypoints; ComputePathToPose sets FAILED  *)
(* for an empty path, and then falls through to SUCCEEDED.  It writes the    *)
(* path it was given to the stream, which nothing ever empties: after what   *)
(* is there, with no separator between the two paths (Readable).             *)
ResultCallback(r) ==
  \/ /\ server[r] = "succeeded"
     /\ Callback(r, "response", "result", "SUCCEEDED")
     /\ returned_path' =
          IF kind = "ComputePathToPose" THEN Append(returned_path, r) ELSE returned_path
  \/ /\ \/ /\ server[r] = "succeeded_for_nothing"
           /\ Callback(r, "response", IF kind = "ComputePathToPose" THEN "half" ELSE "result", "FAILED")
        \/ server[r] = "aborted" /\ Callback(r, "response", "result", "ABORTED")
        \/ server[r] = "canceled" /\ Callback(r, "response", "result", "CANCELED")
     /\ UNCHANGED returned_path

ResultFallsThrough(r) ==
  Callback(r, "half", "result", "SUCCEEDED") /\ UNCHANGED returned_path

-----------------------------------------------------------------------------
TickThread(r) ==
  /\ tree # "gone"
  /\ \/ Begin(r) \/ InputMissing(r) \/ Send(r) \/ ClearHalt(r) \/ LeaveLoop(r)
     \/ Cleanup(r) \/ CancelGoal(r) \/ ReadStatus(r) \/ SetStatus(r)

Callbacks(r) ==
  /\ tree # "gone"
  /\ GoalResponseCallback(r) \/ ResultCallback(r) \/ ResultFallsThrough(r)

TreeThread == Tick \/ Started \/ Rethrow \/ Collect \/ Halt \/ HaltStatus \/ HaltChild

Next ==
  \/ TreeThread
  \/ \E r \in Runs : TickThread(r) \/ Respond(r) \/ Finish(r) \/ Callbacks(r)

(* Threads and executor run, the tree finishes a halt it began and the server  *)
(* responds to each goal.  It need not finish a goal, nor the tree go on.      *)
Fairness ==
  /\ WF_vars(Started \/ HaltStatus \/ HaltChild)
  /\ \A r \in Runs : WF_vars(TickThread(r)) /\ WF_vars(Respond(r)) /\ WF_vars(Callbacks(r))

Spec == Init /\ [][Next]_vars /\ Fairness

-----------------------------------------------------------------------------
(* Properties *)

Ended(r) == server[r] \in Outcomes \cup {"rejected"}
NeverHalted == \A r \in Runs : halted[r] = "none"
NoEmptyPath == kind = "ComputePathToPose" => \A r \in Runs : server[r] # "succeeded_for_nothing"

(* A run that follows none that was halted, and none that was sent an empty  *)
(* path, whose callback may have stopped between FAILED and SUCCEEDED.       *)
Undisturbed(r) ==
  \A q \in Runs : q < r =>
    /\ halted[q] = "none"
    /\ kind = "ComputePathToPose" => server[q] # "succeeded_for_nothing"

(* The goal ended as tick() has to tell SUCCESS of.  ComputePathToPose takes  *)
(* an empty path for one (compute_path_to_pose.cpp:156).                      *)
Succeeded(r) ==
  server[r] = "succeeded" \/ (kind = "ComputePathToPose" /\ server[r] = "succeeded_for_nothing")

(* While no halt has disturbed the node, and the planner has returned no     *)
(* empty path, what the parent is told of a run is what the server said of   *)
(* the goal of that very run: success of a goal that succeeded (with every   *)
(* waypoint, for FollowWaypoints), failure of any other.                     *)
AnswerIsOwn ==
  NeverHalted /\ NoEmptyPath =>
    /\ nodeStatus = "SUCCESS" => server[run] = "succeeded"
    /\ nodeStatus = "FAILURE" => server[run] \in (Outcomes \ {"succeeded"}) \cup {"rejected"}

(* Whatever halts there were, no success is made up: some goal of this node  *)
(* has succeeded.  It is that of the run the parent has waited for, halted   *)
(* or not, or of an earlier one, if a run before this one was disturbed.     *)
SuccessIsReal ==
  nodeStatus = "SUCCESS" =>
    \E q \in Runs : q <= run /\ Succeeded(q) /\ (q = run \/ ~Undisturbed(run))

(* All the goals of a node report to one action_status, in callbacks that do *)
(* not know their run; the parent is told the truth nevertheless, as far as  *)
(* the two say (follow_path.cpp:77, 135).                                    *)
ReportIsOwn == AnswerIsOwn /\ SuccessIsReal

(* A cancel is sent only for the goal of a run that was halted, or of one    *)
(* that a halted run reaches through an unbroken chain of runs, each of them *)
(* begun before the end of an earlier one.  halt() does not wait for the     *)
(* thread of the run, and a late one cancels the goal of its successor: this *)
(* says how far such a cancel may stray (follow_path.cpp:83-88).             *)
CancelsHaltedGoal ==
  \A r \in cancelAsked :
    \E q \in Runs :
      /\ q <= r /\ halted[q] # "none"
      /\ \A p \in Runs : q < p /\ p <= r => p \in overlapped

(* A halt that finds the run polling makes cleanup() cancel the goal of the  *)
(* run, unless the goal ends by itself, the node is ticked again before, or  *)
(* the process ends.                                                         *)
HaltWhilePollingCancels ==
  \A r \in Runs :
    halted[r] = "polling" ~> (r \in cancelAsked \/ Ended(r) \/ run > r \/ tree = "gone")

(* A run whose goal has ended returns from tick(): whatever the goal ended   *)
(* with makes the polling loop end.  Excused are a run that was followed by  *)
(* another before, or that was disturbed: a callback of the goal of an       *)
(* earlier run may still come in and write PROCESSING over its result.       *)
RunReturns ==
  \A r \in Runs :
    (place[r] = "poll" /\ Ended(r)) ~>
      (place[r] = "done" \/ run > r \/ tree = "gone" \/ ~Undisturbed(r))

(* follow_path.cpp: "Cleaning up after a halt()" is to "Request a            *)
(* cancellation".  The goal of a halted run does not go on for ever with     *)
(* nobody asking the server to cancel it.                                    *)
HaltCancels ==
  \A r \in Runs :
    (halted[r] # "none" /\ server[r] = "executing")
      ~> (r \in cancelAsked \/ Ended(r) \/ tree = "gone")

(* A text is read as poses of four fields each, with | between them          *)
(* (pose_3D.h:41-53).  The stream gets a | between the poses of one result,  *)
(* but none between two results (compute_path_to_pose.cpp:130-133): the last *)
(* pose of the first and the first of the second make one of seven fields,   *)
(* for which the reader throws.                                              *)
Readable(path) == Len(path) = 1

(* No run hands on the path of another for its own: what a ComputePathToPose *)
(* run has put out when it succeeds is the path computed for it, if it can   *)
(* be read at all.  The first run to succeed hands on one that can: the      *)
(* stream is written before the status that ends the polling loop            *)
(* (compute_path_to_pose.cpp:156).  No later one does.                       *)
HandsOnOwnPath ==
  NeverHalted /\ NoEmptyPath /\ kind = "ComputePathToPose" /\ nodeStatus = "SUCCESS" =>
    /\ Readable(output) => output = <<run>>
    /\ (\A q \in Runs : q < run => server[q] # "succeeded") => Readable(output)

-----------------------------------------------------------------------------
(* The refinement mapping.  The contract is about the first run of the node, *)
(* and about plans that are not empty.  A node whose halt() is under way is  *)
(* halted; where the thread is in tick() matters up to the polling loop; and *)
(* a goal that succeeded for nothing is as good as aborted.                  *)
Worker(r) ==
  CASE place[r] \in {"begin", "send", "sent"} -> "start"
    [] place[r] \in {"none", "done", "threw"} -> place[r]
    [] OTHER -> "poll"

GoalState(r) ==
  CASE server[r] \in {"none", "sent"} -> "idle"
    [] server[r] = "executing" -> IF r \in cancelAsked THEN "canceling" ELSE "executing"
    [] server[r] = "succeeded_for_nothing" -> "aborted"
    [] OTHER -> server[r]

InForce == run <= 1 /\ NoEmptyPath /\ tree # "gone"

Contract == INSTANCE ActionNodeContract WITH
  Node <- {1},
  nodeStatus <- [r \in {1} |-> IF tree \in {"halting", "halted"} THEN "IDLE" ELSE nodeStatus],
  worker <- [r \in {1} |-> Worker(r)],
  halted <- [r \in {1} |-> IF halted[r] \in {"polling", "late"} THEN "late" ELSE halted[r]],
  state <- [r \in {1} |-> GoalState(r)],
  inForce <- InForce

(* The node keeps what it promises, in every interleaving of the tree, the   *)
(* thread of tick() and the callbacks: success and failure are the server's  *)
(* even if a halt writes CANCELED in between, and of a goal whose node was   *)
(* halted the cancel is asked for, unless the halt came too early            *)
(* (follow_path.cpp:70).                                                     *)
KeepsNodeContract == Contract!NodeSpec
=============================================================================
