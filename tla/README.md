# nav_drone: a TLA+ verification project

`nav_drone` is a ROS 2 navigation stack for a drone. A navigation server runs a
behavior tree for every goal; the nodes of the tree call action servers that
plan a path and fly it. This directory holds TLA+ models of the parts of the
stack whose correctness depends on the order of events, the TLC configurations
that check them on small instances, and proofs, checked by TLAPS, of what holds
for any number of goals and plugins.

All paths below are relative to the root of the repository.

## 1. The system

| Component | Source | State it keeps | Operations | Talks to |
|---|---|---|---|---|
| Controller server | `nav2_drone_controller/src`, `plugins/` | `server_mutex`, loaded plugins, `end_pose_`, `current_controller_`, `last_velocity_`, the flags of the goal and progress checkers | `init`, `handle_goal`, `handle_cancel`, `handle_accepted`, `odom_callback`, `execute` (a detached thread per goal) | FollowPath clients, costmap, controller plugin, topic `drone/cmd_vel` |
| Action client nodes | `nav2_drone_bt_navigator/src/action` | `_halt_requested`, `action_status`, `future_goal_handle_`, `returned_path` | `tick` (a thread per tick of an IDLE node), `cleanup`, `halt`, response and result callbacks | the tree, an action server |
| Control nodes | `nav2_drone_bt_navigator/src/control` | retry, failure and child counters | `tick`, `halt` | parent and children in the tree |
| RateController | `.../src/decorator` | `start_`, `first_time_` | `tick` | its child, the clock |
| NavigationServer | `.../src/navigate_to_pose.cpp` | battery voltage; a tree per goal | goal callbacks, `execute` (a detached thread per goal) | the tree |
| PlannerServer | `nav2_drone_planner` | loaded planners | goal callbacks, `execute` | ComputePathToPose clients |
| BtNavigator, NavigatorMuxer | `.../src/bt_navigator.cpp`, `nav2_drone_core/.../behavior_tree_navigator.hpp` | navigators, the name of the one that navigates | lifecycle callbacks, start/stopNavigating | navigator plugins |
| NodeThread | `nav2_drone_util/src/node_thread.cpp` | a thread, an executor, `running_` | constructor, `stop`, destructor | the executor |
| Costmap publisher and server | `nav2_drone_costmap_3d` | octree, `octomap_received_` under `costmap_mutex_` | octomap, odometry, timer callbacks | map topics |
| MPC controller, Histogram | `nav2_drone_mpc_controller` | path, map, histogram bins | `setPath`, `computeVelocityCommands` | controller server |
| DumbPlanner, utilities, launch helpers, messages | `nav2_drone_dumb_planner`, `nav2_drone_util`, `nav2_drone_common`, `nav2_drone_msgs` | next to none | | |

What is hard in it:

* **Threads without locks.** The controller server's goal threads share
  members with each other and with the executor; an action node's members are
  written by the tree's thread, by the threads of its own `tick()` and by the
  callbacks of all the goals it has sent.
* **A lock that changes hands.** `server_mutex` is taken in the executor's goal
  callback and given back by the goal's thread, on nine return paths.
* **Races of halts, cancels, results and shutdowns**, each of which may come
  before, after or in the middle of any other.
* **Exceptions** that leave a detached thread end the process.
* **State that outlives a goal**: flags of the checkers, the path stream of
  ComputePathToPose, the counters of the control nodes.

What makes each part correct:

* Controller server: one goal at a time flies the drone, on its own path; a
  goal gets one verdict; success means that the drone is there; whoever stops
  flying leaves the drone stopped and the lock free; cancels are answered.
* Action client nodes: the parent is told what the server said of this run's
  goal; a halt cancels that goal and, where it does not, strays no further than
  to runs that overlap; a run whose goal ended returns.
* Control nodes: the answer follows from the children's answers as the header
  says; no child is left running; the loop in `tick()` ends.
* RateController: its child is not executed twice in a period.
* NavigationServer: a tree succeeds only of a path that was flown for it; no
  flight outlives its navigation; an accepted cancel is answered.
* MPC controller: the drone is not held in the middle of its path, and gets to
  the end of it.
* BtNavigator: the navigators, the bond and the tf buffer are those of its
  lifecycle state, whatever a navigator refuses or throws; it can be configured
  again.
* NodeThread: `running_` tells the truth; `stop()` returns, and nothing of the
  thread is left then.
* CostmapPublisher: meta data is published of a map that came.

`PROJECT.json` lists all components, modelled or not, and the hazards at their
lines with the properties that cover them.

## 2. The modules

| Module | What it is |
|---|---|
| `ControllerServer` | the FollowPath action server |
| `FollowPathContract` | what that server promises, without plugins, threads or lock |
| `MCControllerServer` | constants and symmetry for TLC |
| `BtActionNode` | the action client nodes of the behavior tree |
| `ControlNodes` | RecoveryNode, RoundRobin, PipelineSequence and RateController |
| `ActionNodeContract` | what such a node promises its tree and its server, without flags, futures and callbacks |
| `NavigationServer` | navigations and their trees, composed with `ActionNodeContract` and `FollowPathContract` |
| `PathFollowing` | the carrot of MPCController, DumbPlanner, the distances they use |
| `BtNavigator` | the lifecycle node with its vector of navigators |
| `CostmapPublisher` | the callbacks of the costmap node |
| `NodeThread` | the thread that spins that node, and its owner; extends `CostmapPublisher` |
| `ControllerServerProofs`, `BtActionNodeProofs`, `ControlNodesProofs`, `NavigationServerProofs`, `BtNavigatorProofs`, `NodeThreadProofs`, `PathFollowingProofs` | the theorems about the module each is named after, and their proofs |
| `BtActionNodeRefinement` | the proof that `BtActionNode` implements `ActionNodeContract`; extends `BtActionNodeProofs` |

Operators named `X_Something` with a comment that begins "Faulty:" are mutated
forms of the operator `X`, used by no specification: each shows that some
property fails when the code has that bug (`PROJECT.json`, "mutants").

### ControllerServer

One executor thread runs the callbacks, hence `executor`; one thread per goal
runs `execute()`, hence `pc`. A step is what one thread does between two points
where another thread, the map or the process can change what it sees next.

| Code | Action |
|---|---|
| `init()` | `Startup`: any subset of the plugins is created |
| `handle_goal`, then `handle_accepted` in the same callback | `HandleGoal`, `HandleAccepted` |
| `handle_cancel` | `HandleCancel` |
| `odom_callback`, two assignments | `OdomBegin`, `OdomEnd`; `"torn"` in between |
| `execute()` up to the map | `Begin`, `WaitMap` |
| plugin lookup, `setPath`, `updateMap`, `reset` | `Setup`, `SetupThrows`, `SetupEndsProcess` |
| the control loop | `LoopTop`, `CheckProgress`, `CheckProgressThrows`, `Compute`, `ComputeThrows`, `CheckGoal`, `CheckGoalWithoutPose` |
| `publishZeroVelocity`, verdict, `unlock` | `StopDrone`, `Succeed`, `Abort`, `Unlock` |
| `main` | `Shutdown`, `Exit` |

`commanded` is the velocity the drone was last sent, as the goal whose
controller computed it; `None` is the zero velocity. A pose is abstracted to the
answers of the tests made on it (near, aligned, stopped, enough progress), chosen
anew at every reading. A controller plugin may compute any velocity and throw
any exception of `ControllerErrors`. `failure` and `arrived` are history.

`setPath` and `updateMap` are taken together with the plugin lookup: the lock
keeps every other thread from these members (which is what `OneCommander` shows).

`FollowPathContract` is the abstract specification: goals are refused or
admitted one at a time, only the admitted goal moves the drone, success and abort
are told only of a stopped drone, and the next goal is admitted after verdict and
stop. A cancel may be confirmed before the stop, as in the code. It promises
nothing once the process goes down. The refinement mapping `Contract` of
`ControllerServer` maps `holder` to the admitted goal and takes an accepted goal
for an executing one.

### BtActionNode

`tree` is the thread that ticks and halts the node, `place[r]` the thread of the
node's r-th `tick()`, `delivered[r]` the callbacks of that run's goal.
`BT::AsyncActionNode` and the server are external: a node is started only when
IDLE, the future of a new thread is stored after the old thread ended, an
exception is rethrown to the tree at the next tick. `halt()` of these nodes
overrides the one of AsyncActionNode and does not wait for the thread. The three
nodes differ in the result callback and in the path ComputePathToPose hands on.
The action server is assumed to be reachable (`wait_for_action_server()` returns)
and to respond to each goal; it need not finish one. `halted[r]` is history: where
the thread was when run r was halted, before the polling loop (`"early"`), in it,
or after it (`"late"`); `overlapped` is the runs that began before an earlier one
had ended, as happens after a halt.

`returned_path` is the runs whose paths are in the stream of ComputePathToPose,
which nothing empties. `|` is written between the poses of one result, not between
two results, so that the text of two runs has a pose of seven fields in the
middle, and whoever reads it (`getInput` in `follow_path.cpp`) gets an exception:
`Readable` says when that does not happen, and `InputMissing` is that exception
in the reading node. The goal handle of a rejected goal is null, and `cleanup()`
of a halted node hands it to `async_cancel_goal()`, which reads through it:
`CancelGoal` ends the process then.

`ActionNodeContract` is the abstract specification: a node sends one goal when it
is started, tells success only of a goal that has succeeded, failure only of one
that ended otherwise, and a goal whose node was halted while or after it polled
has ended or is asked to cancel by the time `tick()` returns. The refinement
mapping `Contract` of `BtActionNode` keeps of the thread whether it polls yet
(`Worker`), of the goal what the server has decided (`GoalState`), and shows the
tree an IDLE node from the first store of `halt()` on. The contract is about the
first start of the node, about paths that are not empty, and about a process that
runs (`InForce`): the node does not keep it any longer when it is started again
after a halt, since the old run's callbacks and thread write the members of the
new one. What holds of later runs is what the other properties say.

### ControlNodes

One step per child of the loop in `tick()`. An asynchronous child answers with
the status it has unless it is IDLE, and ends in the background; a synchronous
child is evaluated anew. `passed`, `answer`, `failures` and `used` are history.
A halted child is taken to stay IDLE (`BtActionNode` is about those that do not).

RateController is a node with one child here. It is a decorator, and those of
BehaviorTree.CPP 3 make a child that has ended IDLE after every tick, executed or
not (`StartRate`, `Rate`): an answer an asynchronous child gives between two ticks
is lost if the second does not execute it. Its clock is abstracted to `due`,
whether the period since `start_` has elapsed (`Elapse`); `served` is history.

### NavigationServer

| Code | Action |
|---|---|
| `handle_goal`, `handle_accepted` | `HandleGoal` |
| `handle_cancel` | `HandleCancel` |
| `execute()` up to the loop | `Load`, which may end the process |
| `tickRoot()` and `rclcpp::ok()` | `TickRoot`, with the tree in `TickTree` |
| the loop's body | `LookForCancel` |
| `succeed()` and the end of `execute()` | `Conclude` with `Destroy`, then `Join` |
| an exception out of `tick()`, at the next `tickRoot()` | `Rethrow` |
| the FollowPath node of a tree | `StartFollow`, `HaltNodes`, `Worker`: steps of `ActionNodeContract` |
| the FollowPath server | `FollowPathServer`, steps of `FollowPathContract` |

This is the composition. `ControllerServer` implements `FollowPathContract` and
`BtActionNode` implements `ActionNodeContract` (both model-checked and proved),
and `NavigationServer` uses nothing of the server and of the node but these
contracts: the server's stays up, and a tree starts its FollowPath node once. So
what holds here holds with the detailed node and server in their places, for as
long as the server runs and no action node ends the navigator's process (a null
goal handle, see `CancelGoal`). The two contracts meet in `state`, what the
server says of the goal: the node's request for a cancel is one step of both
(`Worker`), and the server refuses or admits a goal only once the node may have
sent it. The tree is that of `navigate.xml` without `Wait`; ReadGoal ends at
once and the voltage is any at every tick. What happens to a `tick()` thread
whose node is destroyed under it is undefined: `Join` lets it finish in time,
get lost or end the process. `abandoned` is history: the navigations whose
thread got lost, or whose node was halted before it polled.

### PathFollowing

A controller whose parameters were read: as it stands `configure()` uses
`node_`, which nothing sets (`mpc_controller.cpp:37`). `SetPath` is a new goal,
`ComputeVelocityCommands` picks the carrot, and `Fly` moves the drone one unit
along each axis towards it, which stands for the control law of dlib. Space is a
grid, and distances are compared by their squares, which preserves their order.

### BtNavigator

| Code | Action |
|---|---|
| `on_configure` | `on_configure`: `CreateAll`, `CreateRefused(k)` (the k-th navigator returns false), `CreateThrows(k)` (it throws, and `on_cleanup` follows) |
| `on_activate` | `on_activate`: `ActivateAll`, `ActivateFails(k, last)`, which ends with `on_deactivate` |
| `on_deactivate`, `on_cleanup` | operators on the vector as it is at the call, used by `Deactivate`, `Cleanup` and from within the other callbacks |
| `on_shutdown` | `on_shutdown`, which changes nothing but the lifecycle state |
| a method of a null `bt_action_server_` | `Crash`: the process is gone |

The executor runs one lifecycle callback at a time, so that each is one step;
what a loop over the navigators did before it ended early is in `LoopTo`. Which
navigator refuses, and whether its server was switched by then, is any choice
(`BehaviorTreeNavigator::on_activate` is `server->on_activate() && activate()`).
`faults` is history: what was refused or thrown and not made up for since; the
invariants say under which of them they are excused. The primary states, and
that a callback that returns FAILURE leaves the node where it was, are
rclcpp_lifecycle's. The definitions of `bt_navigator.cpp` are modelled; the
header names the class `DroneBtNavigator`.

### NodeThread and CostmapPublisher

The controller server runs its costmap node in a NodeThread
(`controller_server.cpp:68-70`). `owner` is where the one who constructs, stops
and destroys it is, `thread` where the thread's function is. `Construct` is the
constructor up to the thread's start and `Constructed` its return, so that the
thread may be over in between; `Cancel` and `Join` are the two statements of
`stop()` and of a destructor without one, `Destroy` a destructor after `stop()`.
`AddNode`, `EnterSpin`, `LeaveSpin`, `RemoveNode` and `End` are the statements of
the thread, `Throw` an exception out of any of them, `Callback` a callback of
the costmap node within `spin()`. The executor is external: `spin()` goes on
while its flag is set and the context is valid, and `cancel()` clears the flag,
which does nothing to a `spin()` that has not begun. `lost` remembers that.

The callbacks of CostmapPublisher hold `costmap_mutex_` and are one step each.
A message either makes an OcTree or does not. `published` says that the last
step was a publication.

## 3. The runs

| Run | Expected | What it shows | Bounds |
|---|---|---|---|
| `controller_server` | pass | exclusion, lock, own path, stop, final verdicts, refinement of the contract | 2 goals (symmetric), 1 controller, 2 checkers (one that wants the drone stopped), 3 requests of which one names no plugin, every exception of `ControllerErrors`, and those that the outer catch clauses take or none takes |
| `controller_liveness` | pass | the lock comes back, cancels are answered, success is near the goal | 2 goals; goal checkers not stateful, tf works |
| `progress_failure` | violation | no progress ends the server instead of the goal | 1 goal |
| `second_goal` | violation | with stateful checkers (the default) a later goal succeeds anywhere | 2 goals |
| `bt_action_node` | pass | reports, the first path handed on, how far a cancel strays, returns of runs under any halt; refinement of `ActionNodeContract` for the first run | 2 runs of ComputePathToPose or FollowWaypoints |
| `lost_halt` | violation | a halt before `_halt_requested.store(false)` is lost | 1 run |
| `control_nodes` | pass | verdicts, order, no child left, fresh answers, the rate, loops end | 3 children, 2 retries, every mixture of kinds of children |
| `navigation_server` | pass | a tree's success is a flown path, no flight is left behind, cancels are answered, whatever node and server do within their contracts | 2 navigations |
| `path_following` | pass | the drone rests at the end of its path alone and gets there if the path is short | space 3 x 2 x 2, every path of up to 3 poses, lookahead 2, scaled 1 to 2 |
| `carrot_behind` | violation | the drone is sent back to the start of a two-pose path | a line of 4 |
| `bt_navigator` | pass | vector, bond and tf buffer agree with the lifecycle state, if navigators refuse in any callback or throw while they are created or configured; why the process may die | 2 navigators, 3 configurations |
| `node_thread` | pass | `running_` is true to the thread, stop returns and leaves nothing behind, a map is there to be published | none: both constructors, one NodeThread |

Why the bounds are enough. *Two goals*: every property of the controller server
is about one goal or about a goal and the one before it, since the lock lets
nothing of a third into the shared members; the proofs drop the bound for
safety. *One controller and two checkers*: the lookup distinguishes a known
name, an empty name with one plugin and an empty name with several, and an
unknown name. *Two runs*: what a run may inherit, it inherits from the one
before it: a late thread, a late callback, the path stream. One case that takes
a third run, an empty path two runs before, is excused by `RunReturns`, and the
theorems, which hold for any number of runs, leave no other for the invariants.
FollowPath does what FollowWaypoints does except that it has no partial success,
so that the two nodes of `bt_action_node` cover the three. *Three children*: the
least number for which a pipeline has a child that is neither first nor last and
a round robin can begin in the middle. *Two navigations*: a FollowPath server
that flies for another is all that a navigation sees of the others. *A space 2
wide, and 1 high*: the lookahead distance, its least value and a vertical path
fit in; *a line of 4* leaves room for a pose out of reach on both sides. A grid
has no holes, which one unit of flight could end in, and room for the two poses
of a DumbPlanner path (`PathFollowingAssumption`). *Two retries*: the least for
which the count matters after the first recovery. *Two navigators*: a loop that
ends early has one on each side of where it ends. *Three configurations*: the
second meets what a failed one left in the vector, and the third what both did.

`ControllerLiveness` takes `Stateful = FALSE` and `TransformMayFail = FALSE`
because `SuccessNearGoal` does not hold otherwise: the first is the finding of
`second_goal`, the second is the dropped Boolean of `transformPose()`.

The `BtActionNode`, `NavigationServer`, `BtNavigator` and `NodeThread`
configurations do not check for deadlock: the specification ends when the bound
on runs, navigations or configurations is used up, when the process is gone or
the node finalized, and when the NodeThread is destroyed and the context shut
down.

### Fairness

* `ControllerServer`: weak fairness of each goal's thread and of the callback in
  progress, which is what an operating system gives threads that never block on
  one another (the mutex is only tried). Nobody has to send a goal, cancel one
  or shut down, and the map need not become current; `CancelAnswered` says so.
* `BtActionNode`: weak fairness of the tick() threads, of the callbacks and of
  a halt in progress; the server responds to each goal. A goal need not finish
  and the tree need not tick again.
* `ControlNodes`: weak fairness of the tick in progress alone.
* `NavigationServer`: weak fairness of the threads of `execute()`, which sleep
  but wait for nobody before the tree is destroyed. Nothing is assumed of the
  nodes' threads, the planner or the FollowPath server.
* `NodeThread`: the thread's function goes from one statement to the next, and
  the owner's `join()` returns when the thread is over. Nobody has to stop the
  thread or shut the context down; no callback and no message need come.
* `BtNavigator`: none, there is no liveness in it.
* `PathFollowing`: the control loop goes on (`ComputeVelocityCommands`), and
  the drone follows what it is told (`Fly`).

### What the violations show

1. `progress_failure`: `FailedToMakeProgress` is thrown before the inner `try`
   of `execute()`; its handler there is out of reach, the outer handlers do not
   take it, and the process ends with the last velocity still in force.
2. `second_goal`: nothing calls `reset()` of the goal checker.
3. `lost_halt`: the flag is cleared after the goal was sent.
4. `carrot_behind`: the search for the carrot begins at the start of the plan
   at every call, so that a pose the drone has left behind is picked once it is
   out of reach. On a path that fits in a box whose ground diagonal is below the
   least lookahead distance no pose ever is (`CompactCutShort`): the drone is sent
   to the end of it from the first call on.

What the passing properties excuse is also worth a reviewer's time. Each excuse
stands for something the code does:

* `AnswerIsOwn`, the first part of `ReportIsOwn`, and `HandsOnOwnPath` leave out
  an empty path (`NoEmptyPath`): FAILED is set and then overwritten by SUCCEEDED
  in one callback (`compute_path_to_pose.cpp:123` and `156`), so that the node
  succeeds without a path. They leave out halts as well: the result of a halted
  run may come in late and be taken for that of the next one
  (`follow_path.cpp:135`). `SuccessIsReal`, the second part, excuses neither: the
  success is then still that of some goal the node has sent.
* `RunReturns` leaves out a run that follows one that was halted, or that was sent
  an empty path: the callback of the earlier goal may still write PROCESSING over
  the result of the later one, and the loop (`follow_path.cpp:71`) then waits for
  ever. After an empty path this takes three runs, after a halt two.
* `HandsOnOwnPath` cannot say that a run hands on its own path: from the second
  success of a ComputePathToPose node on, the text it puts out is no path.
  `compute_path_to_pose.cpp:127` says of the poses that they are "seperated by |",
  lines 130-133 write the `|` for `i > 0` alone, into a stream that still holds the
  old path, and `pose_3D.h:47-50` throws for a pose of more than four fields. What
  is left, and holds, is that the first success hands on a path that can be read,
  and that a text which can be read is the run's own path and never an older one.
* `CancelsHaltedGoal` excuses nothing, and says less than one would like: a halted
  run's thread that is late cancels the goal of its successor
  (`follow_path.cpp:87`). Such a cancel goes along runs that overlap, no further.
* `RateLimited` says nothing of the answers that `StartRate` drops, nor of the rate
  after a failure, when the timer is not restarted (`rate_controller.cpp:50-55`).
* `NoFlightLeft` leaves out a thread whose node was destroyed under it, and a node
  that was halted before it polled: that halt may be forgotten (`lost_halt`).
* `KeepsNodeContract` leaves out the same early halts, and empty paths.
* `StopReturns` leaves out a `cancel()` that comes before `spin()`, while the
  context is valid: the join then waits for ever (`node_thread.cpp:59`).
* `PublishesMap` leaves out a message that was no OcTree: `octree_` becomes null
  and the flag stays (`costmap_publisher.cpp:53`).
* `ActiveMeansServing` and `CleanSlate` leave out a navigator that refused to be
  configured: it stays in the vector, with those before it, and is activated
  beside those of the next attempt (`bt_navigator.cpp:119`).

## 4. The proofs

Every proof is checked by TLAPS to the last leaf and holds for all values of the
constants that satisfy the assumption named in the module (`...Assumption`).
Each module proves one inductive invariant `IInv` and draws its theorems from it;
what a theorem needs beyond it has an invariant of its own, on top of `IInv`.

| Module | Theorem | States | For any |
|---|---|---|---|
| `ControllerServerProofs` | `TypeCorrect` | `Spec => []TypeOK` | goals, plugins, requests, exceptions |
| | `MutualExclusion` | `Spec => []OneCommander` | |
| | `LockAccounted` | `Spec => []LockNotLeaked` | |
| | `PathOwned` | `Spec => []OwnPath` | |
| | `DroneFollowsHolder` | `Spec => []FollowsHolder` | |
| | `DroneStopped` | `Spec => []StoppedWhenReported` | |
| | `VerdictsFinal` | `Spec => VerdictIsFinal` | |
| | `SuccessIsNear` | `Spec => []SuccessNearGoal`, if `Stateful` and `TransformMayFail` are FALSE | |
| | `ContractKept` | `Spec => KeepsContract` | |
| | `CancelWindsDown` | `Spec => [][WindsDown]_vars` | |
| `BtActionNodeProofs` | `TypeCorrect` | `Spec => []TypeOK` | number of runs |
| | `OwnReport` | `Spec => []ReportIsOwn` | |
| | `CancelsOnlyHalted` | `Spec => []CancelsHaltedGoal` | |
| | `OwnPathHandedOn` | `Spec => []HandsOnOwnPath` | |
| | `LoopIsLeft` | `Spec => []LoopEnds` | |
| | `PollingHaltHeeded` | `Spec => []HaltHeeded` | |
| `BtActionNodeRefinement` | `NodeContractKept` | `Spec => KeepsNodeContract` | |
| `ControlNodesProofs` | `TypeCorrect` | `Spec => []TypeOK` | number of children and retries |
| | `VerdictsEarned` | `Spec => []VerdictEarned` | |
| | `PipelineInOrder` | `Spec => []PipelineOrder` | |
| | `ChildrenHalted` | `Spec => []NoChildLeft` | |
| | `RateKept` | `Spec => []RateLimited` | |
| | `NeverStale` | `Spec => []FreshAnswers` | |
| | `TicksRunOut` | `Spec => []TicksBounded /\ [][TickCounts /\ TickOwnsCounters]_vars` | |
| `NavigationServerProofs` | `TypeCorrect` | `Spec => []TypeOK` | number of navigations |
| | `SuccessFlown` | `Spec => []SuccessIsFlown` | |
| | `NothingLeftFlying` | `Spec => []NoFlightLeft` | |
| | `CancelsHeeded` | `Spec => []AnswerToCome /\ [][CancelHeeded]_vars` | |
| `BtNavigatorProofs` | `TypeCorrect` | `Spec => []TypeOK` | number of navigators and configurations |
| | `ActiveServes` | `Spec => []ActiveMeansServing` | |
| | `InactiveIsQuiet` | `Spec => []QuietUnlessActive` | |
| | `Reconfigurable` | `Spec => []CleanSlate` | |
| | `CrashExplained` | `Spec => []DiesOfHalfBuilt` | |
| `NodeThreadProofs` | `TypeCorrect` | `Spec => []TypeOK` | constructors |
| | `RunningTold` | `Spec => []RunningIsTold` | |
| | `MapPublished` | `Spec => []PublishesMap` | |
| | `QuietAfterStop` | `Spec => NothingAfterStop` | |
| | `StopHeeded` | `Spec => []WayToEnd /\ [][TowardsEnd]_vars` | |
| `PathFollowingProofs` | `TypeCorrect` | `Spec => []TypeOK` | grid, paths, lookahead distances |
| | `HeldOnlyAtGoal` | `Spec => []RestsOnlyAtGoal` | |
| | `StaysInBox` | `Spec => []FliesInBox` | |
| | `CompactCutShort` | `Spec => []FliesToEnd` | |
| | `CompactFlown` | `Spec => [][NearsEnd]_vars` | |

### ControllerServer

`OneCommander` and `LockNotLeaked` are inductive together once it
is known when a thread starts (`ThreadStarts`: a goal has no thread until it was
accepted), so that the step that starts a thread is the step after the one that
took the lock. Given exclusion, no other thread writes what a flying goal reads,
and `OwnPath` follows from `EndPosePlace` (the end pose is the goal's own from
`Begin` on). `FollowsHolder` is not inductive: that the drone is stopped when the
lock is given back depends on where the holder's thread is. `FlyingPlace` says
where the drone may follow a goal: only while that goal's thread is between the
first `Compute` and the `StopDrone` of its branch. `VerdictPlace` and `AbortPlace`
say which verdicts a goal can have at each place, which gives
`StoppedWhenReported` and, as an action property, `VerdictIsFinal`. There is one
lemma per conjunct or group of conjuncts of `IInv`, with a case per action.
`ContractKept` uses `IInv` to show that each step maps to a step of the contract
or to a stutter.

`SuccessIsNear` has an invariant of its own, `NearInv`, on top of `IInv`: no goal
checker has skipped its test of the position (`NothingSkipped`, which is what the
state of a stateful checker breaks), the control loop runs with a goal checker of
the server, and a thread that is about to succeed has arrived.

`CancelWindsDown` counts the steps the thread of a goal has left once it was asked
to cancel or has its verdict (`StepsLeft`, ten at most, the wait for the map
among them): each step of the thread (`OwnStep`) lowers the count or ends the
process, no other step touches it (`OthersStep`), and at its end the goal has a
verdict and not the lock.

### BtActionNode

Which callback may still come, and which thread may still write, is in `Places`
and `OneRun`; `Alone` says that without halts the thread of a run is over before
the next begins. `StatusTold` relates `action_status` to what the callbacks of
the current run have delivered, and `PathKept` the stream to the goals that
succeeded so far, from which `AnswerIsOwn` and `HandsOnOwnPath` follow. That holds
while nobody halts the node.

`SuccessIsReal` and `CancelsHaltedGoal` are about halted nodes too, and have
invariants of their own. `Real` says that SUCCEEDED, in `action_status` or in
what the node or a thread tells of it, comes from a goal that succeeded, and
`OwnSuccess` that this goal is the run's own if the run is undisturbed.
`ChainInv` follows the flag and the future: the goal a halted thread is about to
cancel (`ChainToFuture`), or waits for (`ChainToAwaited`), is one that a `Chain`
of overlapping runs leads to from a halted run. That takes two facts about a
node that is halted and started again and again: a run that overlaps another has
such a chain behind it (`ChainBehind`), and the threads at work, and the future
they see, belong to runs with nothing but overlaps between them (`ActiveLinked`,
`FutureLinked`).

`NodeContractKept` needs to know what `_halt_requested` says when `cleanup()` reads
it, which depends on where the thread was when the halt came. `FirstRun`, on top of
`IInv`, says it for a node that was started once: from the polling loop to
`cleanup()` the flag is set if and only if the halt came in the loop or later; a
thread that left the loop of such a node returns only after its goal has ended or
a cancel was sent (`LateHaltHeeded`); and a success is the server's own. With this
each step is shown to be one step of the contract or none, one lemma per thread
(`TreeSimulated`, `TickThreadSimulated`, `ServerSimulated`, `CallbackSimulated`)
and, under them, one per action of the contract. A second start or an empty path
is a `Lapse`.

`LoopIsLeft` and `PollingHaltHeeded` are about later runs too. `Heard` says of a run
before which none was disturbed that no callback of an earlier goal is left to come
(`OthersAreOver`), so that `action_status` stays at what the end of its own goal
wrote. The proof attempt of an earlier form, which did not excuse empty paths, had
a counterexample with three runs, one more than TLC is given: a callback stopped
between FAILED and SUCCEEDED lets a run leave its loop with its own goal not yet
accepted, and the PROCESSING of that goal then overwrites the result of the run
after it. `HaltPlace` says that a node which is RUNNING has no thread of an earlier
run left, once the new one is stored: the old thread would have set the status as
it ended. So a halt that meets the polling loop meets the flag and the future of
that very run, whatever came before.

### ControlNodes

The properties are about what a node has been told since its tick began, so
`IInv` says what the counters remember of it at each turn of the loop: `Shape`
and `Turn` where the loop is, `RecoveryLog` how many failures the retries stand
for, `RoundLog` how far the round robin is from where it started (`Distance`),
`PipelineLog` which children have passed, `RateLog` when the child of the rate
controller was last served.

`TicksLeft` counts how often the loop of a tick may still go round: for
RecoveryNode from the retries left and the child that is due, for the others from
the children. `TicksRunOut` says that it is a natural number which each turn of the
loop lowers and no other step changes.

### NavigationServer

`FlownFor` and `FlownToTheEnd` relate a node's status to the state of the flight
at the server; `WorkerPlace` and `ThreadPlace` say at which place which of them
may still change. Of the server only `FollowPathContract` is known and of the node
only `ActionNodeContract`, which is why each step of a goal's state is a step that
both allow. `ContractKept` and `NodeContractKept` show that the detailed modules
implement the two, so that the theorems hold of the composition with them.

`AnswerToCome` says that a goal without an answer still has a thread before the end
of `execute()`; with it `CancelsHeeded` follows the thread of a goal that was asked
to cancel over the four steps it has at most (`StepsLeft`).

### BtNavigator, NodeThread, PathFollowing

The invariants of `BtNavigator` are inductive with the type, once the lifecycle
state is tied to the vector: `NullPlace` says that a vector with a null server
waits for its next configuration after a refused cleanup alone, `InactivePlace`
and `ActivePlace` what the vector holds in those states. Each callback is one
step, and the lemmas are about the vector a loop leaves.

`NodeThreadProofs` ties the owner's place to the thread's (`JoinedPlace`,
`NodePlace`). `StopHeeded` adds that the executor's flag is of no `spin()` but
the present one (`FlagOfSpin`): a thread that is being joined, and was not
missed by `cancel()`, can always take its next step (`GoesOn`), of five at most
(`CallsLeft`).

`PathFollowingProofs` proves that the lookahead distance is never zero
(`DistancePositive`), that a nonempty set of poses has a first one
(`FirstExists`; by the library's theorem that inclusion of finite sets is
well-founded, in place of an induction), and hence that the drone's own
position is never the carrot but as the last pose (`CarrotOut`). The type
invariant rests on a grid without holes (`StepWithin`, `StaysInGrid`).
`FliesInBox` says that a box that holds the poses of the plan holds the drone
while it flies; it is inductive because a unit towards a pose of the plan does not
pass it. `FliesToEnd` says that the carrot is the last pose while the plan is
`Compact`, in a box whose ground diagonal is below the least lookahead distance:
from within the box nothing is out of reach (`CompactInReach`, with `SquareGrows`
for the comparison of squares), so that the drone flies straight to the end of the
path, whatever lies between.

`CompactFlown` adds that each move then lowers what is left to go along the
three axes (`ToGo`).

### Only model-checked

Liveness under fairness, which is beyond the prover: `LockReleased`,
`CancelAnswered` of both servers, `HaltWhilePollingCancels`, `RunReturns`,
`TickReturns`, `StopReturns`, `ReachesShortPlan`. What each of them needs besides
fairness is proved, as a count that runs out or as an invariant that keeps the way
out open:

| Liveness | Proved of it | Left to TLC |
|---|---|---|
| `LockReleased`, `CancelAnswered` (`ControllerServer`) | `CancelWindsDown` | that the next step can be taken |
| `RunReturns` | `LoopIsLeft` | that callbacks and thread go on |
| `HaltWhilePollingCancels` | `PollingHaltHeeded` | that the thread goes on |
| `TickReturns` | `TicksRunOut` | that the loop goes on |
| `CancelAnswered` (`NavigationServer`) | `CancelsHeeded` | that the next step can be taken |
| `StopReturns` | `StopHeeded` | that the thread and `join()` go on |
| `ReachesShortPlan` | `CompactFlown`, for plans that fit in a box | that calls and moves go on; short plans that do not fit in one |

Every invariant and every action property that a passing run checks is proved.

## 5. Not modelled

Numeric data: poses, velocities, costs, the control law, the contents of maps.
Messages, launch files and parameters beyond those named as constants. The
components marked `not_modelled` in `PROJECT.json` keep no state.

Of the modelled components: the battery topic, feedback and `Wait` of the
navigation server; the planners' `execute`, which hands on an empty path; the
thresholds of the odometry; the control law, and all of MPCController after the
first `return` of `getLookAheadPoint()`, which is never reached; of BtNavigator
the parameters and the exceptions out of a lifecycle callback, which
rclcpp_lifecycle takes to `on_error`; of CostmapPublisher the odometry, which
nothing reads.

Not used by anything under `src/`, and so without a behaviour to model:
`NavigatorMuxer::startNavigating` and `stopNavigating`, `HolddownTimer`,
`ExecutionTimer`. Not buildable as they stand, since their `.cpp` files define
classes their headers do not declare: `costmap_server.cpp`, `costmap_3d.cpp`.

That a goal whose tree failed is reported as succeeded
(`navigate_to_pose.cpp:230-234`) is in the model (`Conclude`) and no run states
it: `SuccessIsFlown` is about what the tree says.

## 6. Further work

1. The planner server as a module of its own once its `execute` plans
   something: its goal callbacks would compose with `NavigationServer` as
   `FollowPathContract` does.
2. `NavigatorMuxer` against an abstract lock, once navigators call it.
