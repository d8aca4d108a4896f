----------------------------- MODULE NodeThread -----------------------------
(***************************************************************************)
(* NodeThread of nav2_drone_util, and the CostmapPublisher that the        *)
(* controller server runs in one: a thread that spins a node, and its      *)
(* owner, who constructs the NodeThread, stops and destroys it.            *)
(*                                                                         *)
(* A step is one call of the thread's function (add_node, spin, a callback *)
(* within spin, remove_node, the store of running_) or one statement of    *)
(* the owner (the constructor's body, cancel(), join()).                   *)
(*                                                                         *)
(* External, as rclcpp has it: spin() throws when it is spinning already,  *)
(* sets `spinning` and goes on while the context is valid and `spinning`   *)
(* is set; cancel() clears `spinning`, which nobody looks at outside of    *)
(* spin().  A callback may throw anything.                                 *)
(***************************************************************************)
EXTENDS CostmapPublisher

CONSTANT Constructors  \* "node": given a node; "executor": given an executor

ASSUME NodeThreadAssumption == Constructors \subseteq {"node", "executor"}

VARIABLES
  constructor,  \* which constructor is used
  owner,        \* where the owner is
  thread,       \* where the thread is
  running_,
  spinning,     \* the executor's flag
  added,        \* is the node added to the executor?
  valid,        \* the context: rclcpp::ok()
  published,    \* did the last step publish meta data?
  lost,         \* history: cancel() came before spin()
  thrown        \* history: the thread's function has caught an exception

threadVars == <<constructor, owner, thread, running_, spinning, added, valid, lost, thrown>>
vars == <<threadVars, costmapVars, published>>

Owners  == {"none", "constructing", "up", "joining", "stopped", "destroyed"}
Threads == {"none", "add", "spin", "spinning", "remove", "end", "done"}

Init ==
  /\ constructor \in Constructors
  /\ owner = "none"
  /\ thread = "none"
  /\ running_ = FALSE
  /\ spinning = FALSE
  /\ added = (constructor = "executor")
  /\ valid = TRUE
  /\ published = FALSE
  /\ lost = FALSE
  /\ thrown = FALSE
  /\ CostmapInit

(***************************************************************************)
(* The owner.                                                              *)
(***************************************************************************)
(* running_ = true comes first, and the thread may be over before the      *)
(* constructor is.                                                         *)
Construct ==
  /\ owner = "none"
  /\ owner' = "constructing"
  /\ running_' = TRUE
  /\ thread' = IF constructor = "node" THEN "add" ELSE "spin"
  /\ UNCHANGED <<constructor, spinning, added, valid, lost, thrown>>

(* Faulty: running_ is set once the thread is there. *)
Constructed_SetsRunning ==
  /\ owner = "constructing"
  /\ owner' = "up"
  /\ running_' = TRUE
  /\ UNCHANGED <<constructor, thread, spinning, added, valid, lost, thrown>>

Constructed ==
  /\ owner = "constructing"
  /\ owner' = "up"
  /\ UNCHANGED <<constructor, thread, running_, spinning, added, valid, lost, thrown>>

(* Faulty: nothing tells the executor. *)
Cancel_Omitted ==
  /\ owner = "up"
  /\ owner' = "joining"
  /\ UNCHANGED <<constructor, thread, running_, spinning, added, valid, lost, thrown>>

(* stop(), or the destructor: executor_->cancel(). *)
Cancel ==
  /\ owner = "up"
  /\ owner' = "joining"
  /\ spinning' = FALSE
  /\ lost' = (thread \in {"add", "spin"})
  /\ UNCHANGED <<constructor, thread, running_, added, valid, thrown>>

(* Faulty: the thread is detached. *)
Join_Detaches ==
  /\ owner = "joining"
  /\ owner' = "stopped"
  /\ running_' = FALSE
  /\ UNCHANGED <<constructor, thread, spinning, added, valid, lost, thrown>>

(* thread_->join(), running_ = false. *)
Join ==
  /\ owner = "joining"
  /\ thread = "done"
  /\ owner' = "stopped"
  /\ running_' = FALSE
  /\ UNCHANGED <<constructor, thread, spinning, added, valid, lost, thrown>>

(* The destructor after stop(): the thread is no longer joinable. *)
Destroy ==
  /\ owner = "stopped"
  /\ owner' = "destroyed"
  /\ spinning' = FALSE
  /\ running_' = FALSE
  /\ UNCHANGED <<constructor, thread, added, valid, lost, thrown>>

(***************************************************************************)
(* The thread.                                                             *)
(***************************************************************************)
(* An exception goes to the catch clauses, past remove_node(). *)
Throw ==
  /\ thread \in {"add", "spin", "spinning", "remove"}
  /\ thread' = "end"
  /\ spinning' = IF thread = "spinning" THEN FALSE ELSE spinning
  /\ thrown' = TRUE
  /\ UNCHANGED <<constructor, owner, running_, added, valid, lost>>

AddNode ==
  /\ thread = "add"
  /\ thread' = "spin"
  /\ added' = TRUE
  /\ UNCHANGED <<constructor, owner, running_, spinning, valid, lost, thrown>>

EnterSpin ==
  /\ thread = "spin"
  /\ ~spinning
  /\ thread' = "spinning"
  /\ spinning' = TRUE
  /\ UNCHANGED <<constructor, owner, running_, added, valid, lost, thrown>>

Spins == thread = "spinning" /\ valid /\ spinning

LeaveSpin ==
  /\ thread = "spinning"
  /\ ~(valid /\ spinning)
  /\ thread' = IF constructor = "node" THEN "remove" ELSE "end"
  /\ spinning' = FALSE
  /\ UNCHANGED <<constructor, owner, running_, added, valid, lost, thrown>>

RemoveNode ==
  /\ thread = "remove"
  /\ thread' = "end"
  /\ added' = FALSE
  /\ UNCHANGED <<constructor, owner, running_, spinning, valid, lost, thrown>>

End ==
  /\ thread = "end"
  /\ thread' = "done"
  /\ running_' = FALSE
  /\ UNCHANGED <<constructor, owner, spinning, added, valid, lost, thrown>>

(* A callback of the costmap node within spin(). *)
Callback ==
  /\ Spins
  /\ \/ published' = FALSE /\ \E message \in MapMessages : handle_octomap(message)
     \/ handle_timer(published')
  /\ UNCHANGED threadVars

(* SIGINT, or rclcpp::shutdown() of main(). *)
Shutdown ==
  /\ valid
  /\ valid' = FALSE
  /\ UNCHANGED <<constructor, owner, thread, running_, spinning, added, lost, thrown>>

Runs == AddNode \/ EnterSpin \/ LeaveSpin \/ RemoveNode \/ End

ThreadStep ==
  \/ Construct \/ Constructed \/ Cancel \/ Join \/ Destroy
  \/ Throw \/ Runs \/ Shutdown

Next ==
  \/ ThreadStep /\ published' = FALSE /\ UNCHANGED costmapVars
  \/ Callback

(* The thread runs on, and so does an owner whose join() can return. *)
Fairness ==
  /\ WF_vars(Runs /\ published' = FALSE /\ UNCHANGED costmapVars)
  /\ WF_vars(Join /\ published' = FALSE /\ UNCHANGED costmapVars)

Spec == Init /\ [][Next]_vars /\ Fairness

-----------------------------------------------------------------------------
TypeOK ==
  /\ constructor \in Constructors
  /\ owner \in Owners
  /\ thread \in Threads
  /\ running_ \in BOOLEAN
  /\ spinning \in BOOLEAN
  /\ added \in BOOLEAN
  /\ valid \in BOOLEAN
  /\ published \in BOOLEAN
  /\ lost \in BOOLEAN
  /\ thrown \in BOOLEAN
  /\ CostmapTypeOK

(* is_running() says whether the thread runs, also when it has ended by    *)
(* itself, and even before the constructor returned (node_thread.cpp:15).  *)
RunningIsTold == owner # "none" => (running_ <=> thread # "done")

(* No step of the thread, of a callback or of the executor on the node. *)
LeavesNodeAlone ==
  owner \in {"stopped", "destroyed"} =>
    /\ UNCHANGED <<thread, added, costmapVars>>
    /\ ~published'
    /\ constructor = "executor" \/ ~added \/ thrown

(* Once stop() or the destructor has returned, the thread uses nothing of  *)
(* the NodeThread any more, to whose members it refers (node_thread.cpp:17, *)
(* 63): it is over, no callback runs, and the node is off the executor     *)
(* unless the thread met an exception.                                     *)
NothingAfterStop == [][LeavesNodeAlone]_vars

(* Meta data is published of a map that came: octree_ is there, unless a   *)
(* later message that was no OcTree has taken it away, which               *)
(* octomap_received_ does not show (costmap_publisher.cpp:53).             *)
PublishesMap == published => map_seen /\ (octree_ \/ map_message = "other")

(* stop() and the destructor return (node_thread.cpp:62) if cancel() met a *)
(* thread that had reached spin(), or once the context is shut down, as in *)
(* main() (main.cpp:11), where rclcpp::shutdown() precedes the destructor. *)
(* A cancel() that comes earlier is forgotten.                             *)
StopReturns == owner = "joining" /\ (~lost \/ ~valid) ~> owner = "stopped"
=============================================================================
