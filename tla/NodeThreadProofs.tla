-------------------------- MODULE NodeThreadProofs --------------------------
(***************************************************************************)
(* The safety properties of NodeThread and of the CostmapPublisher it      *)
(* spins.  They rest on where the thread is when the owner is through      *)
(* (JoinedPlace), on what it left the executor with (NodePlace), and on    *)
(* what the costmap node's flag says of its map (MapFlag).                 *)
(* What StopReturns needs besides fairness is proved as StopHeeded.        *)
(***************************************************************************)
EXTENDS NodeThread, Naturals, TLAPS

JoinedPlace ==
  /\ owner = "none" <=> thread = "none"
  /\ owner \in {"stopped", "destroyed"} => thread = "done"

NodePlace == thread \in {"end", "done"} /\ constructor = "node" /\ added => thrown

MapFlag ==
  /\ octomap_received_ => map_seen
  /\ map_seen => map_message # "none"
  /\ map_message = "OcTree" => octree_

IInv == TypeOK /\ RunningIsTold /\ JoinedPlace /\ NodePlace /\ MapFlag /\ PublishesMap

LEMMA Initially == Init => IInv
BY NodeThreadAssumption
   DEF Init, CostmapInit, IInv, TypeOK, CostmapTypeOK, Owners, Threads, MapMessages,
       RunningIsTold, JoinedPlace, NodePlace, MapFlag, PublishesMap

(* The part of the invariant that is about the owner and the thread alone. *)
ThreadTyped ==
  /\ constructor \in Constructors
  /\ owner \in Owners
  /\ thread \in Threads
  /\ running_ \in BOOLEAN
  /\ spinning \in BOOLEAN
  /\ added \in BOOLEAN
  /\ valid \in BOOLEAN
  /\ lost \in BOOLEAN
  /\ thrown \in BOOLEAN

ThreadInv == ThreadTyped /\ RunningIsTold /\ JoinedPlace /\ NodePlace

(* The steps of the owner and of the context. *)
LEMMA OwnerKeeps ==
  ASSUME ThreadInv, Construct \/ Constructed \/ Cancel \/ Join \/ Destroy \/ Shutdown
  PROVE  ThreadInv'
<1>a. ASSUME Cancel PROVE lost' \in BOOLEAN
  <2>1. lost' = (thread \in {"add", "spin"}) BY <1>a DEF Cancel
  <2>2. QED BY ONLY <2>1
<1> USE DEF ThreadInv
<1>1. ThreadTyped'
  <2>1. constructor' \in Constructors /\ owner' \in Owners /\ thread' \in Threads
    BY NodeThreadAssumption
    DEF ThreadTyped, Owners, Threads, Construct, Constructed, Cancel, Join, Destroy, Shutdown
  <2>2. running_' \in BOOLEAN /\ spinning' \in BOOLEAN /\ valid' \in BOOLEAN
    BY DEF ThreadTyped, Construct, Constructed, Cancel, Join, Destroy, Shutdown
  <2>3. lost' \in BOOLEAN /\ added' \in BOOLEAN /\ thrown' \in BOOLEAN
    BY <1>a DEF ThreadTyped, Construct, Constructed, Cancel, Join, Destroy, Shutdown
  <2>4. QED BY <2>1, <2>2, <2>3 DEF ThreadTyped
<1>2. RunningIsTold'
  BY DEF ThreadTyped, RunningIsTold, JoinedPlace, Construct, Constructed, Cancel, Join, Destroy,
         Shutdown
<1>3. JoinedPlace'
  BY DEF ThreadTyped, JoinedPlace, Construct, Constructed, Cancel, Join, Destroy, Shutdown
<1>4. NodePlace' BY DEF NodePlace, Construct, Constructed, Cancel, Join, Destroy, Shutdown
<1>5. QED BY <1>1, <1>2, <1>3, <1>4

(* The steps of the thread. *)
LEMMA RunKeeps ==
  ASSUME ThreadInv, Runs \/ Throw
  PROVE  ThreadInv'
<1> USE DEF ThreadInv, Runs
<1>1. ThreadTyped'
  BY DEF ThreadTyped, Threads, Throw, AddNode, EnterSpin, LeaveSpin, RemoveNode, End
<1>2. RunningIsTold'
  BY DEF ThreadTyped, RunningIsTold, JoinedPlace, Throw, AddNode, EnterSpin, LeaveSpin,
         RemoveNode, End
<1>3. JoinedPlace'
  BY DEF ThreadTyped, JoinedPlace, Throw, AddNode, EnterSpin, LeaveSpin, RemoveNode, End
<1>4. NodePlace'
  BY DEF ThreadTyped, NodePlace, Throw, AddNode, EnterSpin, LeaveSpin, RemoveNode, End
<1>5. QED BY <1>1, <1>2, <1>3, <1>4

LEMMA ThreadStepKeeps ==
  ASSUME IInv, ThreadStep, published' = FALSE, UNCHANGED costmapVars
  PROVE  IInv'
<1>1. ThreadInv BY DEF IInv, TypeOK, ThreadInv, ThreadTyped
<1>2. ThreadInv' BY <1>1, OwnerKeeps, RunKeeps DEF ThreadStep
<1>3. CostmapTypeOK' /\ MapFlag'
  BY DEF IInv, TypeOK, CostmapTypeOK, MapFlag, costmapVars
<1>4. published' \in BOOLEAN /\ PublishesMap' BY DEF PublishesMap
<1>5. TypeOK' BY <1>2, <1>3, <1>4 DEF ThreadInv, ThreadTyped, TypeOK
<1>6. QED BY <1>2, <1>3, <1>4, <1>5 DEF ThreadInv, IInv

(* The callbacks of the costmap node. *)
LEMMA CallbackKeeps ==
  ASSUME IInv, Callback
  PROVE  IInv'
<1> USE DEF IInv, TypeOK, CostmapTypeOK, RunningIsTold, JoinedPlace, NodePlace, MapFlag,
            PublishesMap, threadVars, costmapVars, MapMessages
<1>1. UNCHANGED threadVars BY DEF Callback
<1>2. ASSUME NEW message \in MapMessages, published' = FALSE, handle_octomap(message)
      PROVE  IInv'
  BY <1>1, <1>2 DEF handle_octomap
<1>3. CASE handle_timer(published')
  <2>1. PICK posed \in BOOLEAN : published' = (octomap_received_ /\ posed)
    BY <1>3 DEF handle_timer, get_drone_pose
  <2>2. UNCHANGED costmapVars BY <1>3 DEF handle_timer
  <2>3. published' \in BOOLEAN /\ (published' => octomap_received_) BY <2>1
  <2>4. QED BY <1>1, <2>2, <2>3
<1>4. QED BY <1>2, <1>3 DEF Callback

LEMMA Inductive == Init /\ [][Next]_vars => []IInv
<1>1. IInv /\ UNCHANGED vars => IInv'
  BY DEF vars, threadVars, costmapVars, IInv, TypeOK, CostmapTypeOK, RunningIsTold,
         JoinedPlace, NodePlace, MapFlag, PublishesMap
<1>2. IInv /\ [Next]_vars => IInv'
  BY <1>1, ThreadStepKeeps, CallbackKeeps DEF Next
<1>3. QED BY <1>2, Initially, PTL

-----------------------------------------------------------------------------
(* Every variable keeps its type. *)
THEOREM TypeCorrect == Spec => []TypeOK
BY Inductive, PTL DEF Spec, IInv

(* is_running() tells whether the thread runs (node_thread.cpp:15, 31). *)
THEOREM RunningTold == Spec => []RunningIsTold
BY Inductive, PTL DEF Spec, IInv

(* Meta data is published of a map that came (costmap_publisher.cpp:53). *)
THEOREM MapPublished == Spec => []PublishesMap
BY Inductive, PTL DEF Spec, IInv

(* After stop() the thread leaves everything alone (node_thread.cpp:63). *)
THEOREM QuietAfterStop == Spec => NothingAfterStop
<1>1. IInv /\ [Next]_vars => [LeavesNodeAlone]_vars
  <2> SUFFICES ASSUME IInv, Next, owner \in {"stopped", "destroyed"}
               PROVE  /\ UNCHANGED <<thread, added, costmapVars>>
                      /\ ~published'
                      /\ constructor = "executor" \/ ~added \/ thrown
    BY DEF LeavesNodeAlone
  <2>1. thread = "done" BY DEF IInv, JoinedPlace
  <2>2. ~Callback BY <2>1 DEF Callback, Spins
  <2>3. ThreadStep /\ published' = FALSE /\ UNCHANGED costmapVars BY <2>2 DEF Next
  <2>4. UNCHANGED <<thread, added>>
    BY <2>1, <2>3 DEF ThreadStep, Construct, Constructed, Cancel, Join, Destroy, Throw, Runs,
       AddNode, EnterSpin, LeaveSpin, RemoveNode, End, Shutdown
  <2>5. constructor = "executor" \/ ~added \/ thrown
    BY <2>1, NodeThreadAssumption DEF IInv, TypeOK, NodePlace
  <2>6. QED BY <2>3, <2>4, <2>5
<1>2. QED BY <1>1, Inductive, PTL DEF Spec, NothingAfterStop
-----------------------------------------------------------------------------
(* The owner waits in join(), and its cancel() met a thread that had reached *)
(* spin(), or the context is shut down: the case StopReturns is about.       *)
Stopping == owner = "joining" /\ (~lost \/ ~valid)

(* The executor's flag is of no spin() but the present one, and a cancel()   *)
(* that was not lost has cleared it with no spin() to come.                  *)
FlagOfSpin ==
  /\ spinning => thread = "spinning"
  /\ owner = "joining" /\ ~lost => ~spinning /\ thread \notin {"add", "spin"}

(* The guard of one of the thread's own steps holds. *)
GoesOn ==
  \/ thread \in {"add", "remove", "end"}
  \/ thread = "spin" /\ ~spinning
  \/ thread = "spinning" /\ ~(valid /\ spinning)

CallsLeft ==
  CASE thread = "add" -> 5
    [] thread = "spin" -> 4
    [] thread = "spinning" -> 3
    [] thread = "remove" -> 2
    [] thread = "end" -> 1
    [] OTHER -> 0

WayToEnd == Stopping => thread = "done" \/ GoesOn

(* No callback runs, every step of the thread takes it nearer to its end, and *)
(* the owner leaves join() only once it is there.                             *)
TowardsEnd ==
  Stopping =>
    /\ UNCHANGED costmapVars /\ ~published'
    /\ Stopping' \/ (owner' = "stopped" /\ thread = "done")
    /\ thread' # thread \/ Runs => CallsLeft' < CallsLeft

LEMMA FlagKept == ASSUME IInv, FlagOfSpin, [Next]_vars PROVE FlagOfSpin'
<1>1. CASE Callback \/ UNCHANGED vars
  <2>1. UNCHANGED threadVars BY <1>1 DEF Callback, vars
  <2>2. QED BY <2>1 DEF FlagOfSpin, threadVars
<1>2. CASE Construct \/ Constructed \/ Join \/ Destroy \/ Shutdown
  BY <1>2 DEF Construct, Constructed, Join, Destroy, Shutdown, FlagOfSpin, IInv, JoinedPlace
<1>3. CASE Cancel
  <2>1. lost' <=> thread \in {"add", "spin"} BY <1>3 DEF Cancel
  <2>2. ~spinning' /\ thread' = thread BY <1>3 DEF Cancel
  <2>3. QED BY <2>1, <2>2 DEF FlagOfSpin
<1>4. CASE Runs \/ Throw
  BY <1>4 DEF Runs, Throw, AddNode, EnterSpin, LeaveSpin, RemoveNode, End, FlagOfSpin, IInv,
              TypeOK
<1>5. QED BY <1>1, <1>2, <1>3, <1>4 DEF Next, ThreadStep

(* A stop() that is not forgotten (node_thread.cpp:59) has only the thread's  *)
(* own steps to wait for: one of them can be taken until the thread is over,  *)
(* and there are no more than five of them.                                   *)
THEOREM StopHeeded == Spec => []WayToEnd /\ [][TowardsEnd]_vars
<1>1. Init => FlagOfSpin BY DEF Init, FlagOfSpin
<1>2. Spec => []FlagOfSpin BY Inductive, FlagKept, <1>1, PTL DEF Spec
<1>3. IInv /\ FlagOfSpin => WayToEnd
  BY DEF IInv, TypeOK, Threads, JoinedPlace, FlagOfSpin, WayToEnd, Stopping, GoesOn
<1>4. IInv /\ FlagOfSpin /\ [Next]_vars => [TowardsEnd]_vars
  <2> SUFFICES ASSUME IInv, FlagOfSpin, Next, Stopping
               PROVE  /\ UNCHANGED costmapVars /\ ~published'
                      /\ Stopping' \/ (owner' = "stopped" /\ thread = "done")
                      /\ thread' # thread \/ Runs => CallsLeft' < CallsLeft
    BY DEF TowardsEnd
  <2>1. ~Callback BY DEF Callback, Spins, FlagOfSpin, Stopping
  <2>2. ThreadStep /\ published' = FALSE /\ UNCHANGED costmapVars BY <2>1 DEF Next
  <2>3. CASE Construct \/ Constructed \/ Cancel \/ Join \/ Destroy \/ Shutdown
    <3>1. ~(Construct \/ Constructed \/ Cancel \/ Destroy)
      BY DEF Construct, Constructed, Cancel, Destroy, Stopping
    <3>2. Join \/ Shutdown BY <2>3, <3>1
    <3>3. ~Runs /\ thread' = thread
      BY <3>2 DEF Join, Shutdown, Runs, AddNode, EnterSpin, LeaveSpin, RemoveNode, End
    <3>4. Stopping' \/ (owner' = "stopped" /\ thread = "done")
      BY <3>2 DEF Join, Shutdown, Stopping
    <3>5. QED BY <2>2, <3>3, <3>4
  <2>4. CASE Runs \/ Throw
    <3>1. UNCHANGED <<owner, lost, valid>>
      BY <2>4 DEF Runs, Throw, AddNode, EnterSpin, LeaveSpin, RemoveNode, End
    <3>2. Stopping' BY <3>1, Zenon DEF Stopping
    <3>3. \/ thread = "add" /\ thread' \in {"spin", "end"}
          \/ thread = "spin" /\ thread' \in {"spinning", "end"}
          \/ thread = "spinning" /\ thread' \in {"remove", "end"}
          \/ thread = "remove" /\ thread' = "end"
          \/ thread = "end" /\ thread' = "done"
      BY <2>4 DEF Runs, Throw, AddNode, EnterSpin, LeaveSpin, RemoveNode, End
    <3>4. CallsLeft' < CallsLeft BY <3>3 DEF CallsLeft
    <3>5. QED BY <2>2, <3>2, <3>4
  <2>5. QED BY <2>2, <2>3, <2>4 DEF ThreadStep
<1>5. QED BY <1>2, <1>3, <1>4, Inductive, PTL DEF Spec
=============================================================================
