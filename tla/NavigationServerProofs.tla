----------------------- MODULE NavigationServerProofs -----------------------
(***************************************************************************)
(* The safety properties of NavigationServer, for every number of          *)
(* navigations side by side.  Of the FollowPath server and of the node     *)
(* that calls it nothing is used but their contracts.  What is told of the *)
(* flight of a navigation rests on how far the node's worker is: which     *)
(* states of the goal its place allows (WorkerPlace), where the thread of  *)
(* execute() can be by then (ThreadPlace), and whom the server flies for   *)
(* (FlownFor).                                                             *)
(***************************************************************************)
EXTENDS NavigationServer, TLAPS

(* A worker that returned has had an answer and does not leave the goal *)
(* executing, but after an early halt.                                  *)
WorkerPlace ==
  \A n \in Navigation :
    /\ worker[n] \in {"none", "threw"} => state[n] = "idle"
    /\ worker[n] = "done" /\ halted[n] # "early" /\ n \notin abandoned =>
         state[n] \notin {"idle", "executing"}

(* A tree that is ticked has not been halted, and starts its node once. *)
ThreadPlace ==
  \A n \in Navigation :
    /\ goal_handle[n] = "none" => thread[n] = "none"
    /\ thread[n] \in {"none", "load", "tick", "look"} =>
         halted[n] = "none" /\ (follow[n] = "IDLE" => worker[n] \in {"none", "threw"})
    /\ thread[n] \in {"join", "over"} \/ halted[n] # "none" => follow[n] # "RUNNING"
    /\ thread[n] = "over" => halted[n] = "none" /\ ~WorkerRuns(n)

FlownFor ==
  \A n \in Navigation :
    commanded = n => commander = n /\ state[n] \in {"executing", "canceling", "canceled"}

(* FollowPath succeeds only when the server says so, and the tree with it. *)
FlownToTheEnd ==
  \A n \in Navigation : follow[n] = "SUCCESS" \/ root[n] = "SUCCESS" => state[n] = "succeeded"

IInv == TypeOK /\ WorkerPlace /\ ThreadPlace /\ FlownFor /\ FlownToTheEnd

LEMMA Initially == Init => IInv
<1> SUFFICES ASSUME Init PROVE IInv OBVIOUS
<1>1. TypeOK
  BY NavigationServerAssumption
  DEF Init, TypeOK, NodeStatus, FollowPath!ContractInit, FollowPath!ContractTypeOK, FollowNode!NodeInit
<1>2. WorkerPlace /\ ThreadPlace /\ FlownFor /\ FlownToTheEnd
  BY NavigationServerAssumption
  DEF Init, WorkerPlace, ThreadPlace, WorkerRuns, FlownFor, FlownToTheEnd,
      FollowPath!ContractInit, FollowNode!NodeInit
<1>3. QED BY <1>1, <1>2 DEF IInv

(* All nodes of a tree are IDLE after its halt, and a halt is noted only of a *)
(* node that was running.                                                     *)
LEMMA HaltedNodes ==
  ASSUME TypeOK, NEW n \in Navigation, HaltNodes(n)
  PROVE  /\ compute' = [compute EXCEPT ![n] = "IDLE"]
         /\ follow' = [follow EXCEPT ![n] = "IDLE"]
         /\ UNCHANGED <<worker, state>>
         /\ \/ UNCHANGED halted
            \/ follow[n] = "RUNNING" /\ \E h \in {"early", "late"} : halted' = [halted EXCEPT ![n] = h]
<1> USE DEF TypeOK, HaltNodes
<1>1. CASE FollowNode!Halt(n) BY <1>1 DEF FollowNode!Halt
<1>2. CASE FollowNode!Collect(n) BY <1>2 DEF FollowNode!Collect
<1>3. CASE follow[n] = "IDLE" /\ UNCHANGED <<follow, worker, halted, state>> BY <1>3
<1>4. QED BY <1>1, <1>2, <1>3

-----------------------------------------------------------------------------
(* The steps of the navigation server that leave the trees alone *)

LEMMA HandleGoalKeeps == ASSUME IInv, NEW n \in Navigation, HandleGoal(n) PROVE IInv'
<1> USE DEF IInv, HandleGoal, nodeVars, serverVars
<1>1. TypeOK' BY DEF TypeOK, WorkerRuns, FollowPath!ContractTypeOK
<1>2. WorkerPlace' /\ FlownFor' /\ FlownToTheEnd' BY DEF WorkerPlace, FlownFor, FlownToTheEnd
<1>3. ThreadPlace' BY DEF TypeOK, ThreadPlace, WorkerRuns
<1>4. QED BY <1>1, <1>2, <1>3

LEMMA HandleCancelKeeps == ASSUME IInv, NEW n \in Navigation, HandleCancel(n) PROVE IInv'
<1> USE DEF IInv, HandleCancel, nodeVars, serverVars
<1>1. TypeOK' BY DEF TypeOK, WorkerRuns, FollowPath!ContractTypeOK
<1>2. WorkerPlace' /\ FlownFor' /\ FlownToTheEnd' BY DEF WorkerPlace, FlownFor, FlownToTheEnd
<1>3. ThreadPlace' BY DEF TypeOK, ThreadPlace, WorkerRuns
<1>4. QED BY <1>1, <1>2, <1>3

LEMMA ShutdownKeeps == ASSUME IInv, Shutdown PROVE IInv'
<1> USE DEF IInv, Shutdown, nodeVars, serverVars
<1>1. TypeOK' BY DEF TypeOK, WorkerRuns, FollowPath!ContractTypeOK
<1>2. WorkerPlace' /\ ThreadPlace' /\ FlownFor' /\ FlownToTheEnd'
  BY DEF WorkerPlace, ThreadPlace, WorkerRuns, FlownFor, FlownToTheEnd
<1>3. QED BY <1>1, <1>2

LEMMA LoadKeeps == ASSUME IInv, NEW n \in Navigation, Load(n) PROVE IInv'
<1> USE DEF IInv, Load, Goto, nodeVars, serverVars
<1>1. TypeOK' BY DEF TypeOK, WorkerRuns, FollowPath!ContractTypeOK
<1>2. WorkerPlace' /\ FlownFor' /\ FlownToTheEnd' BY DEF WorkerPlace, FlownFor, FlownToTheEnd
<1>3. ThreadPlace' BY DEF TypeOK, ThreadPlace, WorkerRuns
<1>4. QED BY <1>1, <1>2, <1>3

LEMMA RethrowKeeps == ASSUME IInv, NEW n \in Navigation, Rethrow(n) PROVE IInv'
<1> USE DEF IInv, Rethrow, nodeVars, serverVars
<1>1. TypeOK' BY DEF TypeOK, WorkerRuns, FollowPath!ContractTypeOK
<1>2. WorkerPlace' /\ ThreadPlace' /\ FlownFor' /\ FlownToTheEnd'
  BY DEF WorkerPlace, ThreadPlace, WorkerRuns, FlownFor, FlownToTheEnd
<1>3. QED BY <1>1, <1>2

LEMMA ComputeEndsKeeps == ASSUME IInv, NEW n \in Navigation, ComputeEnds(n) PROVE IInv'
<1> USE DEF IInv, ComputeEnds, serverVars
<1>1. TypeOK' BY DEF TypeOK, WorkerRuns, FollowPath!ContractTypeOK, NodeStatus
<1>2. WorkerPlace' /\ ThreadPlace' /\ FlownFor' /\ FlownToTheEnd'
  BY DEF WorkerPlace, ThreadPlace, WorkerRuns, FlownFor, FlownToTheEnd
<1>3. QED BY <1>1, <1>2

-----------------------------------------------------------------------------
(* The steps of execute() that tick or destroy the tree *)

LEMMA TickRootKeeps == ASSUME IInv, NEW n \in Navigation, TickRoot(n) PROVE IInv'
<1> USE DEF IInv
<1>1. PICK answer \in NodeStatus :
        /\ TickTree(n, answer)
        /\ root' = [root EXCEPT ![n] = answer]
        /\ Goto(n, "tick", IF answer = "RUNNING" /\ process = "up" THEN "look" ELSE "conclude")
  BY DEF TickRoot
<1>2. UNCHANGED <<goal_handle, process, abandoned, state, commander, commanded>>
  BY DEF TickRoot, serverVars
<1>3. /\ thread[n] = "tick"
      /\ thread' = [thread EXCEPT ![n] = IF answer = "RUNNING" /\ process = "up" THEN "look" ELSE "conclude"]
  BY <1>1 DEF Goto
<1>4. \/ HaltNodes(n) /\ answer # "RUNNING" /\ (answer = "SUCCESS" => follow[n] = "SUCCESS")
      \/ StartCompute(n) /\ answer = "RUNNING"
      \/ StartFollow(n) /\ answer = "RUNNING"
      \/ UNCHANGED nodeVars /\ answer = "RUNNING"
  BY <1>1 DEF TickTree
<1>5. /\ thread' \in [Navigation -> {"none", "load", "tick", "look", "conclude", "join", "over"}]
      /\ root' \in [Navigation -> NodeStatus]
  BY <1>1, <1>3 DEF TypeOK
<1> DEFINE Kept == TypeOK' /\ WorkerPlace' /\ ThreadPlace' /\ FlownToTheEnd'
<1>6. ASSUME HaltNodes(n) /\ answer # "RUNNING" /\ (answer = "SUCCESS" => follow[n] = "SUCCESS") PROVE Kept
  <2>1. /\ compute' = [compute EXCEPT ![n] = "IDLE"] /\ follow' = [follow EXCEPT ![n] = "IDLE"]
        /\ UNCHANGED <<worker, state>>
        /\ \/ UNCHANGED halted
           \/ follow[n] = "RUNNING" /\ \E h \in {"early", "late"} : halted' = [halted EXCEPT ![n] = h]
    BY <1>6, HaltedNodes
  <2>2. thread' = [thread EXCEPT ![n] = "conclude"] BY <1>3, <1>6
  <2>3. halted' \in [Navigation -> {"none", "early", "late"}] /\ \A m \in Navigation \ {n} : halted'[m] = halted[m]
    BY <2>1 DEF TypeOK
  <2>4. TypeOK'
    <3>1. compute' \in [Navigation -> NodeStatus] /\ follow' \in [Navigation -> NodeStatus]
      BY <2>1 DEF TypeOK, NodeStatus
    <3>2. \A m \in Navigation : follow'[m] = "RUNNING" => WorkerRuns(m)'
      BY <2>1 DEF TypeOK, WorkerRuns
    <3>3. QED BY <1>2, <1>5, <2>1, <2>3, <3>1, <3>2 DEF TypeOK, FollowPath!ContractTypeOK
  <2>5. WorkerPlace' BY <1>2, <2>1, <2>3 DEF TypeOK, WorkerPlace, WorkerRuns
  <2>6. ThreadPlace' BY <1>2, <1>3, <2>1, <2>2, <2>3 DEF TypeOK, ThreadPlace, WorkerRuns
  <2>7. FlownToTheEnd' BY <1>1, <1>2, <1>6, <2>1 DEF TypeOK, FlownToTheEnd
  <2>8. QED BY <2>4, <2>5, <2>6, <2>7
<1>7. ASSUME StartCompute(n) /\ answer = "RUNNING" PROVE Kept
  <2>1. compute' = [compute EXCEPT ![n] = "RUNNING"] /\ UNCHANGED <<follow, worker, halted>>
    BY <1>7 DEF StartCompute
  <2>2. TypeOK' BY <1>2, <1>5, <2>1 DEF TypeOK, WorkerRuns, NodeStatus, FollowPath!ContractTypeOK
  <2>3. WorkerPlace' /\ ThreadPlace' /\ FlownToTheEnd'
    BY <1>1, <1>2, <1>3, <1>7, <2>1 DEF TypeOK, WorkerPlace, ThreadPlace, WorkerRuns, FlownToTheEnd
  <2>4. QED BY <2>2, <2>3
<1>8. ASSUME StartFollow(n) /\ answer = "RUNNING" PROVE Kept
  <2>1. /\ follow[n] = "IDLE" /\ worker[n] = "none"
        /\ follow' = [follow EXCEPT ![n] = "RUNNING"] /\ worker' = [worker EXCEPT ![n] = "start"]
        /\ UNCHANGED <<compute, halted>>
    BY <1>8 DEF StartFollow, FollowNode!Start
  <2>2. TypeOK' BY <1>2, <1>5, <2>1 DEF TypeOK, WorkerRuns, NodeStatus, FollowPath!ContractTypeOK
  <2>3. WorkerPlace' /\ FlownToTheEnd'
    BY <1>1, <1>2, <1>8, <2>1 DEF TypeOK, WorkerPlace, FlownToTheEnd
  <2>4. ThreadPlace' BY <1>2, <1>3, <2>1 DEF TypeOK, ThreadPlace, WorkerRuns
  <2>5. QED BY <2>2, <2>3, <2>4
<1>9. ASSUME UNCHANGED nodeVars /\ answer = "RUNNING" PROVE Kept
  <2>1. UNCHANGED <<compute, follow, worker, halted>> BY <1>9 DEF nodeVars
  <2>2. TypeOK' BY <1>2, <1>5, <2>1 DEF TypeOK, WorkerRuns, FollowPath!ContractTypeOK
  <2>3. WorkerPlace' /\ ThreadPlace' /\ FlownToTheEnd'
    BY <1>1, <1>2, <1>3, <1>9, <2>1 DEF TypeOK, WorkerPlace, ThreadPlace, WorkerRuns, FlownToTheEnd
  <2>4. QED BY <2>2, <2>3
<1>10. Kept BY <1>4, <1>6, <1>7, <1>8, <1>9
<1>11. FlownFor' BY <1>2 DEF FlownFor
<1>12. QED BY <1>10, <1>11

(* The tree is gone, and its nodes were halted before. *)
LEMMA Destroyed ==
  ASSUME IInv, NEW n \in Navigation, Destroy(n),
         thread[n] \in {"look", "conclude"}, thread' = [thread EXCEPT ![n] = "join"],
         goal_handle' \in [Navigation -> {"none", "executing", "canceling", "canceled", "succeeded"}],
         \A m \in Navigation : goal_handle'[m] = "none" => goal_handle[m] = "none",
         UNCHANGED <<process, abandoned, commander, commanded>>
  PROVE  IInv'
<1> USE DEF IInv
<1>1. /\ compute' = [compute EXCEPT ![n] = "IDLE"] /\ follow' = [follow EXCEPT ![n] = "IDLE"]
      /\ UNCHANGED <<worker, state>>
      /\ \/ UNCHANGED halted
         \/ follow[n] = "RUNNING" /\ \E h \in {"early", "late"} : halted' = [halted EXCEPT ![n] = h]
  BY HaltedNodes DEF Destroy
<1>2. root' = [root EXCEPT ![n] = "IDLE"] BY DEF Destroy
<1>3. halted' \in [Navigation -> {"none", "early", "late"}] /\ \A m \in Navigation \ {n} : halted'[m] = halted[m]
  BY <1>1 DEF TypeOK
<1>4. TypeOK'
  <2>1. /\ compute' \in [Navigation -> NodeStatus] /\ follow' \in [Navigation -> NodeStatus]
        /\ root' \in [Navigation -> NodeStatus]
    BY <1>1, <1>2 DEF TypeOK, NodeStatus
  <2>2. \A m \in Navigation : follow'[m] = "RUNNING" => WorkerRuns(m)'
    BY <1>1 DEF TypeOK, WorkerRuns
  <2>3. thread' \in [Navigation -> {"none", "load", "tick", "look", "conclude", "join", "over"}]
    BY DEF TypeOK
  <2>4. QED BY <1>1, <1>3, <2>1, <2>2, <2>3 DEF TypeOK, FollowPath!ContractTypeOK
<1>5. WorkerPlace' BY <1>1, <1>3 DEF TypeOK, WorkerPlace, WorkerRuns
<1>6. ThreadPlace' BY <1>1, <1>3 DEF TypeOK, ThreadPlace, WorkerRuns
<1>7. FlownFor' /\ FlownToTheEnd' BY <1>1, <1>2 DEF TypeOK, FlownFor, FlownToTheEnd
<1>8. QED BY <1>4, <1>5, <1>6, <1>7

LEMMA LookForCancelKeeps == ASSUME IInv, NEW n \in Navigation, LookForCancel(n) PROVE IInv'
<1>1. CASE goal_handle[n] = "canceling"
  <2>1. /\ Destroy(n) /\ thread[n] = "look" /\ thread' = [thread EXCEPT ![n] = "join"]
        /\ goal_handle' = [goal_handle EXCEPT ![n] = "canceled"]
        /\ UNCHANGED <<process, abandoned, commander, commanded>>
    BY <1>1 DEF LookForCancel, Goto, serverVars
  <2>2. /\ goal_handle' \in [Navigation -> {"none", "executing", "canceling", "canceled", "succeeded"}]
        /\ \A m \in Navigation : goal_handle'[m] = "none" => goal_handle[m] = "none"
    BY <2>1 DEF IInv, TypeOK
  <2>3. QED BY <2>1, <2>2, Destroyed
<1>2. CASE goal_handle[n] # "canceling"
  <2>1. /\ thread[n] = "look" /\ thread' = [thread EXCEPT ![n] = "tick"]
        /\ UNCHANGED <<goal_handle, root, compute, follow, worker, halted, process, abandoned,
                       state, commander, commanded>>
    BY <1>2 DEF LookForCancel, Goto, nodeVars, serverVars
  <2>2. TypeOK' BY <2>1 DEF IInv, TypeOK, WorkerRuns, FollowPath!ContractTypeOK
  <2>3. WorkerPlace' /\ ThreadPlace' /\ FlownFor' /\ FlownToTheEnd'
    BY <2>1 DEF IInv, TypeOK, WorkerPlace, ThreadPlace, WorkerRuns, FlownFor, FlownToTheEnd
  <2>4. QED BY <2>2, <2>3 DEF IInv
<1>3. QED BY <1>1, <1>2

LEMMA ConcludeKeeps == ASSUME IInv, NEW n \in Navigation, Conclude(n) PROVE IInv'
<1>1. /\ Destroy(n) /\ thread[n] = "conclude" /\ thread' = [thread EXCEPT ![n] = "join"]
      /\ goal_handle' = IF process = "up" THEN [goal_handle EXCEPT ![n] = "succeeded"] ELSE goal_handle
      /\ UNCHANGED <<process, abandoned, commander, commanded>>
  BY DEF Conclude, Goto, serverVars
<1>2. /\ goal_handle' \in [Navigation -> {"none", "executing", "canceling", "canceled", "succeeded"}]
      /\ \A m \in Navigation : goal_handle'[m] = "none" => goal_handle[m] = "none"
  BY <1>1 DEF IInv, TypeOK
<1>3. QED BY <1>1, <1>2, Destroyed

(* A worker that has not returned is given up, and the navigation with it. *)
LEMMA JoinKeeps == ASSUME IInv, NEW n \in Navigation, Join(n) PROVE IInv'
<1> USE DEF IInv, Join, Goto, WorkerRuns, serverVars
<1>1. TypeOK'
  <2>1. /\ worker' \in [Navigation -> {"none", "start", "poll", "done", "threw"}]
        /\ \A m \in Navigation \ {n} : worker'[m] = worker[m]
    BY DEF TypeOK
  <2>2. /\ follow' \in [Navigation -> NodeStatus] /\ halted' \in [Navigation -> {"none", "early", "late"}]
        /\ \A m \in Navigation : follow'[m] = "RUNNING" => m # n /\ follow[m] = "RUNNING"
    BY DEF TypeOK, NodeStatus
  <2>3. thread' \in [Navigation -> {"none", "load", "tick", "look", "conclude", "join", "over"}]
    BY DEF TypeOK
  <2>4. process' \in {"up", "stopping", "gone"} /\ abandoned' \subseteq Navigation BY DEF TypeOK
  <2>5. UNCHANGED <<goal_handle, root, compute, state, commander, commanded>> OBVIOUS
  <2> HIDE DEF Join, Goto
  <2>6. QED BY <2>1, <2>2, <2>3, <2>4, <2>5 DEF TypeOK, FollowPath!ContractTypeOK
<1>2. WorkerPlace' BY DEF TypeOK, WorkerPlace
<1>3. ThreadPlace' BY DEF TypeOK, ThreadPlace
<1>4. FlownFor' /\ FlownToTheEnd' BY DEF TypeOK, FlownFor, FlownToTheEnd
<1>5. QED BY <1>1, <1>2, <1>3, <1>4

-----------------------------------------------------------------------------
(* The steps of the node and of the FollowPath server *)

LEMMA ThrowKeeps ==
  ASSUME IInv, NEW n \in Navigation, FollowNode!Throw(n),
         UNCHANGED <<goal_handle, thread, root, compute, process, abandoned, serverVars>>
  PROVE  IInv'
<1> USE DEF IInv, FollowNode!Throw, FollowNode!Proceed, serverVars
<1>1. TypeOK' BY DEF TypeOK, WorkerRuns, NodeStatus, FollowPath!ContractTypeOK
<1>2. WorkerPlace' BY DEF TypeOK, WorkerPlace
<1>3. ThreadPlace' BY DEF TypeOK, ThreadPlace, WorkerRuns
<1>4. FlownFor' /\ FlownToTheEnd' BY DEF TypeOK, FlownFor, FlownToTheEnd
<1>5. QED BY <1>1, <1>2, <1>3, <1>4

LEMMA PollKeeps ==
  ASSUME IInv, NEW n \in Navigation, FollowNode!Poll(n),
         UNCHANGED <<goal_handle, thread, root, compute, process, abandoned, serverVars>>
  PROVE  IInv'
<1> USE DEF IInv, FollowNode!Poll, FollowNode!Proceed, serverVars
<1>1. TypeOK' BY DEF TypeOK, WorkerRuns, FollowPath!ContractTypeOK
<1>2. WorkerPlace' BY DEF TypeOK, WorkerPlace
<1>3. ThreadPlace' BY DEF TypeOK, ThreadPlace, WorkerRuns
<1>4. FlownFor' /\ FlownToTheEnd' BY DEF FlownFor, FlownToTheEnd
<1>5. QED BY <1>1, <1>2, <1>3, <1>4

LEMMA ReturnKeeps ==
  ASSUME IInv, NEW n \in Navigation, NEW s \in {"SUCCESS", "FAILURE"}, FollowNode!Return(n, s),
         UNCHANGED <<goal_handle, thread, root, compute, process, abandoned, serverVars>>
  PROVE  IInv'
<1> USE DEF IInv, serverVars
<1>1. /\ worker[n] = "poll" /\ worker' = [worker EXCEPT ![n] = "done"]
      /\ s = "SUCCESS" => state[n] = "succeeded"
      /\ halted[n] # "early" => state[n] \notin {"idle", "executing"}
      /\ \/ follow' = [follow EXCEPT ![n] = s]
         \/ halted[n] # "none" /\ UNCHANGED follow
      /\ UNCHANGED halted
  BY DEF FollowNode!Return, FollowNode!Proceed, TypeOK
<1>2. TypeOK'
  <2>1. follow' \in [Navigation -> NodeStatus] /\ \A m \in Navigation \ {n} : follow'[m] = follow[m]
    BY <1>1 DEF TypeOK, NodeStatus
  <2>2. worker' \in [Navigation -> {"none", "start", "poll", "done", "threw"}] BY <1>1 DEF TypeOK
  <2>3. halted[n] # "none" => follow[n] # "RUNNING" BY DEF ThreadPlace
  <2>4. follow'[n] # "RUNNING" BY <1>1, <2>3 DEF TypeOK
  <2>5. QED BY <1>1, <2>1, <2>2, <2>4 DEF TypeOK, WorkerRuns, FollowPath!ContractTypeOK
<1>3. WorkerPlace' BY <1>1 DEF TypeOK, WorkerPlace
<1>4. ThreadPlace' BY <1>1 DEF TypeOK, ThreadPlace, WorkerRuns
<1>5. FlownFor' /\ FlownToTheEnd' BY <1>1 DEF TypeOK, FlownFor, FlownToTheEnd
<1>6. QED BY <1>2, <1>3, <1>4, <1>5

LEMMA RequestCancelKeeps ==
  ASSUME IInv, NEW n \in Navigation, FollowNode!RequestCancel(n), FollowPath!RequestCancel(n),
         UNCHANGED <<goal_handle, thread, root, compute, process, abandoned>>
  PROVE  IInv'
<1> USE DEF IInv
<1>1. /\ state[n] = "executing" /\ state' = [state EXCEPT ![n] = "canceling"]
      /\ UNCHANGED <<follow, worker, halted, commander, commanded>>
  BY DEF FollowNode!RequestCancel, FollowPath!RequestCancel
<1>2. TypeOK' BY <1>1 DEF TypeOK, WorkerRuns, FollowPath!ContractTypeOK, FollowPath!Live
<1>3. WorkerPlace' BY <1>1 DEF TypeOK, WorkerPlace, FollowPath!ContractTypeOK
<1>4. ThreadPlace' BY <1>1 DEF ThreadPlace, WorkerRuns
<1>5. FlownFor' /\ FlownToTheEnd'
  BY <1>1 DEF TypeOK, FlownFor, FlownToTheEnd, FollowPath!ContractTypeOK
<1>6. QED BY <1>2, <1>3, <1>4, <1>5

LEMMA WorkerKeeps == ASSUME IInv, NEW n \in Navigation, Worker(n) PROVE IInv'
BY ThrowKeeps, PollKeeps, ReturnKeeps, RequestCancelKeeps DEF Worker, FollowNode!Tick

(* A goal is admitted only after it was sent, and what has ended stays so. *)
LEMMA FollowPathServerKeeps == ASSUME IInv, FollowPathServer PROVE IInv'
<1> USE DEF IInv
<1>1. UNCHANGED <<goal_handle, thread, root, compute, follow, worker, halted, process, abandoned>>
  BY DEF FollowPathServer, nodeVars
<1>2. PICK n \in Navigation :
        \/ FollowNode!Sent(n) /\ (FollowPath!Refuse(n) \/ FollowPath!Admit(n))
        \/ FollowPath!Fly(n) \/ FollowPath!Halt(n) \/ FollowPath!Release(n)
        \/ \E verdict \in FollowPath!Verdicts : FollowPath!Conclude(n, verdict)
  BY DEF FollowPathServer
<1>3. /\ state \in [Navigation -> {"idle", "rejected"} \cup FollowPath!Live \cup FollowPath!Verdicts]
      /\ commander \in Navigation \cup {None} /\ commanded \in Navigation \cup {None}
  BY DEF TypeOK, FollowPath!ContractTypeOK
<1> DEFINE Kept == FollowPath!ContractTypeOK' /\ WorkerPlace' /\ FlownFor' /\ FlownToTheEnd'
<1>4. ASSUME FollowNode!Sent(n), FollowPath!Refuse(n) PROVE Kept
  BY <1>1, <1>3, <1>4
  DEF TypeOK, FollowPath!ContractTypeOK, WorkerPlace, FlownFor, FlownToTheEnd, FollowNode!Sent,
      FollowPath!Refuse, FollowPath!Tell, FollowPath!Live, FollowPath!Verdicts
<1>5. ASSUME FollowNode!Sent(n), FollowPath!Admit(n) PROVE Kept
  <2>1. /\ state[n] = "idle" /\ commander = None
        /\ state' = [state EXCEPT ![n] = "executing"]
        /\ commander' = n /\ UNCHANGED commanded
    BY <1>5 DEF FollowPath!Admit, FollowPath!Tell
  <2>2. FollowPath!ContractTypeOK'
    BY <1>3, <2>1 DEF TypeOK, FollowPath!ContractTypeOK, FollowPath!Live
  <2>3. WorkerPlace' BY <1>1, <1>3, <1>5, <2>1 DEF WorkerPlace, FollowNode!Sent
  <2>4. FlownFor' BY <1>3, <2>1, NavigationServerAssumption DEF FlownFor
  <2>5. FlownToTheEnd' BY <1>1, <1>3, <2>1 DEF FlownToTheEnd
  <2>6. QED BY <2>2, <2>3, <2>4, <2>5
<1>6. ASSUME FollowPath!Fly(n) \/ FollowPath!Halt(n) \/ FollowPath!Release(n) PROVE Kept
  <2>1. /\ UNCHANGED state /\ commander = n
        /\ commander' = commander \/ (commander' = None /\ commanded' = None)
        /\ \/ commanded' = None
           \/ commanded' = n /\ state[n] \in {"executing", "canceling"}
    BY <1>3, <1>6 DEF FollowPath!Fly, FollowPath!Halt, FollowPath!Release, FollowPath!Live
  <2>2. FollowPath!ContractTypeOK' BY <1>3, <2>1 DEF TypeOK, FollowPath!ContractTypeOK
  <2>3. WorkerPlace' /\ FlownToTheEnd' BY <1>1, <2>1 DEF WorkerPlace, FlownToTheEnd
  <2>4. FlownFor' BY <1>3, <2>1, NavigationServerAssumption DEF FlownFor
  <2>5. QED BY <2>2, <2>3, <2>4
<1>7. ASSUME NEW verdict \in FollowPath!Verdicts, FollowPath!Conclude(n, verdict)
      PROVE  Kept
  <2>1. /\ commander = n /\ state[n] \in {"executing", "canceling"}
        /\ verdict # "canceled" => commanded = None
        /\ UNCHANGED <<commander, commanded>>
        /\ state' = [state EXCEPT ![n] = verdict]
    BY <1>7 DEF FollowPath!Conclude, FollowPath!Tell, FollowPath!Live
  <2>2. verdict \in {"canceled", "aborted", "succeeded"} BY DEF FollowPath!Verdicts
  <2>3. FollowPath!ContractTypeOK'
    BY <1>3, <2>1, <2>2 DEF TypeOK, FollowPath!ContractTypeOK, FollowPath!Verdicts
  <2>4. WorkerPlace' BY <1>1, <1>3, <2>1, <2>2 DEF WorkerPlace
  <2>5. FlownFor' BY <1>3, <2>1, <2>2, NavigationServerAssumption DEF FlownFor
  <2>6. FlownToTheEnd' BY <1>1, <1>3, <2>1, <2>2 DEF FlownToTheEnd
  <2>7. QED BY <2>3, <2>4, <2>5, <2>6
<1>8. Kept BY <1>2, <1>4, <1>5, <1>6, <1>7
<1>9. ThreadPlace' BY <1>1 DEF ThreadPlace, WorkerRuns
<1>10. TypeOK' BY <1>1, <1>8 DEF TypeOK, WorkerRuns
<1>11. QED BY <1>8, <1>9, <1>10

-----------------------------------------------------------------------------
LEMMA Inductive == Init /\ [][Next]_vars => []IInv
<1>1. IInv /\ UNCHANGED vars => IInv'
  BY DEF vars, nodeVars, serverVars, IInv, TypeOK, FollowPath!ContractTypeOK,
         WorkerPlace, ThreadPlace, WorkerRuns, FlownFor, FlownToTheEnd
<1>2. IInv /\ [Next]_vars => IInv'
  BY <1>1, HandleGoalKeeps, HandleCancelKeeps, ShutdownKeeps, LoadKeeps, ComputeEndsKeeps,
     TickRootKeeps, RethrowKeeps, LookForCancelKeeps, ConcludeKeeps, JoinKeeps, WorkerKeeps,
     FollowPathServerKeeps
  DEF Next, Execute
<1>3. QED BY <1>2, Initially, PTL

(* Every variable keeps its type. *)
THEOREM TypeCorrect == Spec => []TypeOK
BY Inductive, PTL DEF Spec, IInv

(* A tree reports success only of a path that was flown to its end            *)
(* (follow_path.cpp, navigate_to_pose.cpp).                                   *)
THEOREM SuccessFlown == Spec => []SuccessIsFlown
<1>1. IInv => SuccessIsFlown BY DEF IInv, FlownToTheEnd, SuccessIsFlown
<1>2. QED BY <1>1, Inductive, PTL DEF Spec

(* A navigation whose thread is over leaves no flight behind that nobody is   *)
(* about to stop, except that of a worker that lost its node and that of a    *)
(* halt that came too early.                                                  *)
THEOREM NothingLeftFlying == Spec => []NoFlightLeft
<1>1. ASSUME IInv PROVE NoFlightLeft
  <2> SUFFICES ASSUME NEW n \in Navigation, n \notin abandoned, thread[n] = "over", commanded = n
               PROVE  state[n] \in {"canceling", "canceled"}
    BY DEF NoFlightLeft
  <2>1. worker[n] \in {"none", "done", "threw"} /\ halted[n] = "none"
    BY <1>1 DEF IInv, TypeOK, ThreadPlace, WorkerRuns
  <2>2. state[n] \in {"executing", "canceling", "canceled"} BY <1>1 DEF IInv, FlownFor
  <2>3. state[n] # "executing" BY <1>1, <2>1, <2>2 DEF IInv, WorkerPlace
  <2>4. QED BY <2>2, <2>3
<1>2. QED BY <1>1, Inductive, PTL DEF Spec
-----------------------------------------------------------------------------
(* A navigation is not left without an answer: while the server runs, a goal  *)
(* that has none has a thread that still looks at cancels or concludes.        *)
AnswerToCome ==
  process = "up" =>
    \A n \in Navigation :
      goal_handle[n] \in {"executing", "canceling"} => thread[n] \in {"load", "tick", "look", "conclude"}

StepsLeft(place) ==
  CASE place = "load" -> 4
    [] place = "tick" -> 3
    [] place \in {"look", "conclude"} -> 2
    [] place = "join" -> 1
    [] OTHER -> 0

(* The thread of a goal that was asked to cancel goes straight to its end.     *)
CancelHeeded ==
  \A n \in Navigation :
    goal_handle[n] = "canceling" =>
      /\ goal_handle'[n] # "canceling" =>
           \/ LookForCancel(n) /\ goal_handle'[n] = "canceled"
           \/ Conclude(n) /\ goal_handle'[n] = "succeeded"
      /\ thread'[n] # thread[n] => Execute(n) /\ StepsLeft(thread'[n]) < StepsLeft(thread[n])
      /\ Execute(n) => thread'[n] # thread[n] \/ process' = "gone"

(* What the steps of navigation m do to its handle and its thread, and to no   *)
(* other's.                                                                    *)
LEMMA OwnSteps ==
  ASSUME IInv, NEW m \in Navigation, Execute(m)
  PROVE  /\ \A n \in Navigation \ {m} : goal_handle'[n] = goal_handle[n] /\ thread'[n] = thread[n]
         /\ \/ thread[m] = "load" /\ thread'[m] = "tick" /\ UNCHANGED goal_handle
            \/ thread[m] = "tick" /\ thread'[m] \in {"look", "conclude"} /\ UNCHANGED goal_handle
            \/ /\ LookForCancel(m) /\ thread[m] = "look"
               /\ \/ /\ goal_handle[m] = "canceling"
                     /\ thread'[m] = "join" /\ goal_handle'[m] = "canceled"
                  \/ /\ goal_handle[m] # "canceling"
                     /\ thread'[m] = "tick" /\ goal_handle'[m] = goal_handle[m]
            \/ /\ Conclude(m) /\ thread[m] = "conclude" /\ thread'[m] = "join"
               /\ \/ process = "up" /\ goal_handle'[m] = "succeeded"
                  \/ process # "up" /\ goal_handle'[m] = goal_handle[m]
            \/ thread[m] = "join" /\ thread'[m] = "over" /\ UNCHANGED goal_handle
            \/ UNCHANGED <<thread, goal_handle>> /\ process' = "gone"
         /\ process' # "gone" => process' = process
<1> USE DEF IInv, TypeOK, Goto
<1>1. CASE Load(m) \/ Rethrow(m) BY <1>1 DEF Load, Rethrow
<1>2. CASE TickRoot(m) BY <1>2 DEF TickRoot
<1>3. CASE LookForCancel(m) BY <1>3 DEF LookForCancel
<1>4. CASE Conclude(m) BY <1>4 DEF Conclude
<1>5. CASE Join(m) BY <1>5 DEF Join
<1>6. QED BY <1>1, <1>2, <1>3, <1>4, <1>5 DEF Execute

(* The other steps: callbacks, nodes and servers. *)
LEMMA OtherSteps ==
  ASSUME IInv, [Next]_vars, ~ \E m \in Navigation : Execute(m)
  PROVE  /\ process' = "up" => process = "up"
         /\ \A n \in Navigation :
              \/ goal_handle'[n] = goal_handle[n] /\ thread'[n] = thread[n]
              \/ goal_handle[n] = "none" /\ goal_handle'[n] = "executing" /\ thread'[n] = "load"
              \/ goal_handle[n] = "executing" /\ goal_handle'[n] = "canceling" /\ thread'[n] = thread[n]
<1> USE DEF IInv, TypeOK
<1>1. ASSUME NEW m \in Navigation, HandleGoal(m) \/ HandleCancel(m)
      PROVE  /\ process' = process
             /\ \A n \in Navigation :
                  \/ goal_handle'[n] = goal_handle[n] /\ thread'[n] = thread[n]
                  \/ goal_handle[n] = "none" /\ goal_handle'[n] = "executing" /\ thread'[n] = "load"
                  \/ goal_handle[n] = "executing" /\ goal_handle'[n] = "canceling" /\ thread'[n] = thread[n]
  BY <1>1 DEF HandleGoal, HandleCancel
<1>2. CASE \/ Shutdown \/ FollowPathServer \/ UNCHANGED vars
           \/ \E m \in Navigation : ComputeEnds(m) \/ Worker(m)
  <2>1. UNCHANGED <<goal_handle, thread>> /\ (process' = "up" => process = "up")
    BY <1>2 DEF Shutdown, FollowPathServer, ComputeEnds, Worker, vars
  <2>2. QED BY <2>1
<1>3. QED BY <1>1, <1>2 DEF Next

(* Whoever asks for the cancel of a navigation is answered by a thread that    *)
(* ticks the tree once more at most, unless the server goes down, and every    *)
(* navigation has its answer before its thread leaves execute()                *)
(* (navigate_to_pose.cpp:208, 232).                                            *)
THEOREM CancelsHeeded == Spec => []AnswerToCome /\ [][CancelHeeded]_vars
<1>1. Init => AnswerToCome BY DEF Init, AnswerToCome
<1>2. ASSUME IInv, AnswerToCome, [Next]_vars PROVE AnswerToCome'
  <2> SUFFICES ASSUME process' = "up", NEW n \in Navigation,
                      goal_handle'[n] \in {"executing", "canceling"}
               PROVE  thread'[n] \in {"load", "tick", "look", "conclude"}
    BY DEF AnswerToCome
  <2>1. CASE \E m \in Navigation : Execute(m)
    <3>1. PICK m \in Navigation : Execute(m) BY <2>1
    <3>2. process = "up" BY <3>1, <1>2, OwnSteps
    <3>3. CASE m = n BY <1>2, <3>1, <3>2, <3>3, OwnSteps DEF AnswerToCome
    <3>4. CASE m # n BY <1>2, <3>1, <3>2, <3>4, OwnSteps DEF AnswerToCome
    <3>5. QED BY <3>3, <3>4
  <2>2. CASE ~ \E m \in Navigation : Execute(m)
    BY <1>2, <2>2, OtherSteps DEF AnswerToCome
  <2>3. QED BY <2>1, <2>2
<1>3. ASSUME IInv, [Next]_vars PROVE CancelHeeded
  <2> SUFFICES ASSUME NEW n \in Navigation, goal_handle[n] = "canceling"
               PROVE  /\ goal_handle'[n] # "canceling" =>
                           \/ LookForCancel(n) /\ goal_handle'[n] = "canceled"
                           \/ Conclude(n) /\ goal_handle'[n] = "succeeded"
                      /\ thread'[n] # thread[n] =>
                           Execute(n) /\ StepsLeft(thread'[n]) < StepsLeft(thread[n])
                      /\ Execute(n) => thread'[n] # thread[n] \/ process' = "gone"
    BY DEF CancelHeeded
  <2>1. CASE Execute(n)
    BY <1>3, <2>1, OwnSteps DEF StepsLeft
  <2>2. CASE ~Execute(n)
    <3>1. CASE \E m \in Navigation : Execute(m)
      BY <1>3, <2>2, <3>1, OwnSteps
    <3>2. CASE ~ \E m \in Navigation : Execute(m)
      BY <1>3, <3>2, OtherSteps
    <3>3. QED BY <2>2, <3>1, <3>2
  <2>3. QED BY <2>1, <2>2
<1>4. QED BY Inductive, <1>1, <1>2, <1>3, PTL DEF Spec
=============================================================================
