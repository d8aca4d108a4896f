------------------------ MODULE ActionNodeContract ------------------------
(***************************************************************************)
(* What an action client node of the behavior tree promises the tree and   *)
(* its action server, without flag, status, future or callbacks: it sends  *)
(* one goal when it is started, tells success only of a goal that the      *)
(* server says has succeeded, failure only of one that has ended           *)
(* otherwise, and a goal whose node was halted is not left executing       *)
(* without a request for its cancel.  The last promise has an exception:   *)
(* after a halt that came before the node polls (early), the thread of     *)
(* tick() may stop at once, and the goal goes on.                          *)
(*                                                                         *)
(* A contract is about one start of the node and is in force until the     *)
(* node is started again, or the process ends.                             *)
(***************************************************************************)
CONSTANT Node

VARIABLES
  nodeStatus,  \* what the tree sees of each node
  worker,      \* how far the thread of tick() is
  halted,      \* was the node halted, and was that early?
  state,       \* what the server says of the goal
  inForce      \* is the contract in force?

nodeVars == <<nodeStatus, worker, halted, state>>

Verdicts == {"canceled", "aborted", "succeeded"}

NodeInit ==
  /\ nodeStatus = [n \in Node |-> "IDLE"]
  /\ worker = [n \in Node |-> "none"]
  /\ halted = [n \in Node |-> "none"]
  /\ state = [n \in Node |-> "idle"]
  /\ inForce = TRUE

-----------------------------------------------------------------------------
(* The tree *)

(* Faulty: there is no thread. *)
Start_NoThread(n) ==
  /\ nodeStatus[n] = "IDLE" /\ worker[n] = "none"
  /\ nodeStatus' = [nodeStatus EXCEPT ![n] = "RUNNING"]
  /\ UNCHANGED <<worker, halted, state>>

Start(n) ==
  /\ nodeStatus[n] = "IDLE" /\ worker[n] = "none"
  /\ nodeStatus' = [nodeStatus EXCEPT ![n] = "RUNNING"]
  /\ worker' = [worker EXCEPT ![n] = "start"]
  /\ UNCHANGED <<halted, state>>

(* The node of a tick() that has returned or thrown is not halted any more. *)
Halt(n) ==
  /\ nodeStatus[n] = "RUNNING"
  /\ nodeStatus' = [nodeStatus EXCEPT ![n] = "IDLE"]
  /\ halted' = [halted EXCEPT ![n] = IF worker[n] = "start" THEN "early" ELSE "late"]
  /\ UNCHANGED <<worker, state>>

Collect(n) ==
  /\ nodeStatus[n] \in {"SUCCESS", "FAILURE"}
  /\ nodeStatus' = [nodeStatus EXCEPT ![n] = "IDLE"]
  /\ UNCHANGED <<worker, halted, state>>

-----------------------------------------------------------------------------
(* tick() *)

Proceed(n, from, to) ==
  /\ worker[n] = from
  /\ worker' = [worker EXCEPT ![n] = to]

(* Without its input, tick() throws before it sends anything. *)
Throw(n) ==
  /\ Proceed(n, "start", "threw")
  /\ state[n] = "idle"
  /\ nodeStatus' = [nodeStatus EXCEPT ![n] = "IDLE"]
  /\ UNCHANGED <<halted, state>>

(* The goal is sent.  A halt that came before is forgotten, or not: see Return. *)
Poll(n) == Proceed(n, "start", "poll") /\ UNCHANGED <<nodeStatus, halted, state>>

(* Once polling, the thread of a node that was halted has the goal canceled. *)
RequestCancel(n) ==
  /\ worker[n] = "poll" /\ halted[n] = "late" /\ state[n] = "executing"
  /\ state' = [state EXCEPT ![n] = "canceling"]
  /\ UNCHANGED <<nodeStatus, worker, halted>>

(* Faulty: a rejected goal counts as one that has succeeded. *)
Return_Rejected(n, s) ==
  /\ Proceed(n, "poll", "done")
  /\ s = "SUCCESS" => state[n] \in {"succeeded", "rejected"}
  /\ halted[n] = "none" /\ s = "FAILURE" => state[n] \in {"rejected", "aborted", "canceled"}
  /\ halted[n] = "late" => state[n] \notin {"idle", "executing"}
  /\ \/ nodeStatus' = [nodeStatus EXCEPT ![n] = s]
     \/ halted[n] # "none" /\ UNCHANGED nodeStatus
  /\ UNCHANGED <<halted, state>>

(* tick() returns s.  A node that was halted may take over this status when *)
(* the halt is over.                                                        *)
Return(n, s) ==
  /\ Proceed(n, "poll", "done")
  /\ s = "SUCCESS" => state[n] = "succeeded"
  /\ halted[n] = "none" /\ s = "FAILURE" => state[n] \in {"rejected", "aborted", "canceled"}
  /\ halted[n] = "late" => state[n] \notin {"idle", "executing"}
  /\ \/ nodeStatus' = [nodeStatus EXCEPT ![n] = s]
     \/ halted[n] # "none" /\ UNCHANGED nodeStatus
  /\ UNCHANGED <<halted, state>>

Tick(n) ==
  \/ Throw(n) \/ Poll(n)
  \/ \E s \in {"SUCCESS", "FAILURE"} : Return(n, s)

-----------------------------------------------------------------------------
(* The server has the goal at some time before the node polls. *)
Sent(n) == worker[n] \in {"start", "poll", "done"}

Serve(n) ==
  /\ Sent(n)
  /\ \/ state[n] = "idle" /\ state' \in {[state EXCEPT ![n] = s] : s \in {"rejected", "executing"}}
     \/ state[n] = "executing" /\ state' \in {[state EXCEPT ![n] = s] : s \in {"aborted", "succeeded"}}
     \/ state[n] = "canceling" /\ state' \in {[state EXCEPT ![n] = s] : s \in Verdicts}
  /\ UNCHANGED <<nodeStatus, worker, halted>>

-----------------------------------------------------------------------------
Perform ==
  /\ inForce /\ UNCHANGED inForce
  /\ \E n \in Node : Start(n) \/ Halt(n) \/ Collect(n) \/ Tick(n) \/ RequestCancel(n) \/ Serve(n)

Lapse == inForce /\ ~inForce'

Lapsed == ~inForce /\ ~inForce'

NodeNext == Perform \/ Lapse \/ Lapsed

NodeSpec == NodeInit /\ [][NodeNext]_<<nodeVars, inForce>>
=============================================================================
