----------------------- MODULE BtActionNodeRefinement -----------------------
(***************************************************************************)
(* The action client nodes implement ActionNodeContract: the tree, the     *)
(* thread of tick(), the callbacks and the server, with all that they      *)
(* share, take one step of the contract or none (Simulated).               *)
(*                                                                         *)
(* While the node has been started once, the flag, the future and          *)
(* action_status are the first run's, halted or not (FirstRun).  That is   *)
(* what tells a halt in the polling loop, or later, from one that came too *)
(* early: the first finds its _halt_requested still set when cleanup()     *)
(* reads it, and a goal handle to cancel.                                  *)
(***************************************************************************)
EXTENDS BtActionNodeProofs

OnlyRun == run <= 1 /\ NoEmptyPath

HaltedLate == halted[1] \in {"polling", "late"}

Returned == {"return", "return_success", "return_failure", "done"}

(* A late halt, and no other, has the goal canceled that has not ended. *)
LateHaltHeeded ==
  /\ HaltedLate => place[1] \in {"poll"} \cup Left
  /\ place[1] \in {"poll", "cleanup"} => (_halt_requested <=> HaltedLate)
  /\ place[1] = "get" => HaltedLate
  /\ HaltedLate /\ place[1] \in Returned => Ended(1) \/ 1 \in cancelAsked

RunsOnce ==
  /\ overlapped = {}
  /\ \A r \in Runs : r > run => halted[r] = "none"
  /\ nodeStatus = "RUNNING" => place[1] \notin OverPlaces
  /\ nodeStatus = "RUNNING" /\ tree \notin {"halting", "halted", "gone"} => NeverHalted
  /\ 1 \in cancelAsked => server[1] \notin {"none", "sent"}
  /\ action_status = "SUCCEEDED" \/ place[1] = "return_success" => server[1] = "succeeded"
  /\ LateHaltHeeded

FirstRun == OnlyRun => RunsOnce

LEMMA RunOne == 1 \in Runs /\ Runs \subseteq Nat /\ \A r \in Runs : r >= 1
BY BtActionNodeAssumption DEF Runs

(* A run at work is the first, as long as there is no other. *)
LEMMA OnlyOne ==
  ASSUME IInv, OnlyRun, NEW r \in Runs, place[r] # "none" \/ server[r] # "none"
  PROVE  r = 1 /\ run = 1
BY RunOne DEF IInv, Places, OnlyRun, Unsent, TypeOK

(* Neither a second run nor an empty path is ever undone. *)
LEMMA OnlyRunWas == ASSUME IInv, Next, OnlyRun' PROVE OnlyRun
<1>1. run \in Nat /\ run' \in Nat /\ run' >= run
  <2>1. run \in Nat BY DEF IInv, TypeOK
  <2>2. UNCHANGED run \/ run' = run + 1
    BY DEF Next, TreeThread, Tick, Started, Rethrow, Collect, Halt, HaltStatus, HaltChild,
           TickThread, Begin, InputMissing, Send, ClearHalt, LeaveLoop, Cleanup, CancelGoal,
           ReadStatus, SetStatus, Respond, Finish, ServerMoves, Callbacks, GoalResponseCallback,
           ResultCallback, ResultFallsThrough, Callback, treeVars
  <2>3. QED BY <2>1, <2>2
<1>2. UNCHANGED kind
  BY DEF Next, TreeThread, Tick, Started, Rethrow, Collect, Halt, HaltStatus, HaltChild,
         TickThread, Begin, InputMissing, Send, ClearHalt, LeaveLoop, Cleanup, CancelGoal,
         ReadStatus, SetStatus, Respond, Finish, ServerMoves, Callbacks, GoalResponseCallback,
         ResultCallback, ResultFallsThrough, Callback, treeVars
<1>3. \A q \in Runs : server[q] = "succeeded_for_nothing" => server'[q] = "succeeded_for_nothing"
  <2>1. \/ UNCHANGED server
        \/ \E r \in Runs : Send(r)
        \/ \E r \in Runs : Respond(r) \/ Finish(r)
    BY DEF Next, TreeThread, Tick, Started, Rethrow, Collect, Halt, HaltStatus, HaltChild,
           TickThread, Begin, InputMissing, ClearHalt, LeaveLoop, Cleanup, CancelGoal,
           ReadStatus, SetStatus, Callbacks, GoalResponseCallback,
           ResultCallback, ResultFallsThrough, Callback, serverVars
  <2>2. ASSUME NEW r \in Runs, Send(r) 
        PROVE  \A q \in Runs : server[q] = "succeeded_for_nothing" => server'[q] = server[q]
    BY <2>2 DEF Send, Goto, IInv, Places, Unsent, TypeOK
  <2>3. ASSUME NEW r \in Runs, Respond(r) \/ Finish(r)
        PROVE  \A q \in Runs : server[q] = "succeeded_for_nothing" => server'[q] = server[q]
    BY <2>3 DEF Respond, Finish, ServerMoves, IInv, TypeOK
  <2>4. QED BY <2>1, <2>2, <2>3
<1>4. NoEmptyPath' => NoEmptyPath
  <2>1. ASSUME NEW q \in Runs, server'[q] # "succeeded_for_nothing"
        PROVE  server[q] # "succeeded_for_nothing"
    BY <1>3, <2>1
  <2>2. QED BY <1>2, <2>1 DEF NoEmptyPath
<1>5. QED BY <1>1, <1>4 DEF OnlyRun
-----------------------------------------------------------------------------
(* FirstRun is kept by every step *)

LEMMA TickOnce == ASSUME IInv, FirstRun, OnlyRun', OnlyRun, Tick PROVE RunsOnce'
<1> USE RunOne DEF Tick, serverVars, goalVars, pathVars
<1>1. run = 0 /\ run' = 1 BY DEF OnlyRun, IInv, TypeOK
<1>2. RunsOnce BY DEF FirstRun
<1>3. NeverHalted BY <1>1, <1>2 DEF RunsOnce, NeverHalted
<1>4. ~Overlaps(1) BY DEF Overlaps
<1>5. /\ place' = [place EXCEPT ![1] = "begin"]
      /\ UNCHANGED <<halted, cancelAsked, server, action_status>>
  BY <1>1
<1>6. overlapped' = {} BY <1>1, <1>2, <1>4 DEF RunsOnce
<1>7. place'[1] = "begin" BY <1>5 DEF IInv, TypeOK
<1>8. NeverHalted' BY <1>3, <1>5 DEF NeverHalted
<1>9. ~HaltedLate' BY <1>3, <1>5 DEF NeverHalted, HaltedLate
<1>10. QED BY <1>1, <1>2, <1>5, <1>6, <1>7, <1>8, <1>9 DEF RunsOnce, LateHaltHeeded, NeverHalted, OverPlaces

LEMMA TreeOnce ==
  ASSUME IInv, FirstRun, OnlyRun, Started \/ Rethrow \/ Collect \/ HaltStatus \/ HaltChild
  PROVE  RunsOnce'
<1> USE DEF Started, Rethrow, Collect, HaltStatus, HaltChild, serverVars, goalVars, pathVars, history
<1>1. RunsOnce BY DEF FirstRun
<1>2. /\ UNCHANGED <<run, place, _halt_requested, server, cancelAsked, halted, overlapped>>
      /\ action_status' \in {action_status, "CANCELED"}
      /\ nodeStatus' \in {nodeStatus, "IDLE"}
      /\ nodeStatus' = "RUNNING" /\ tree' \notin {"halting", "halted", "gone"} =>
           nodeStatus = "RUNNING" /\ tree \notin {"halting", "halted", "gone"}
  OBVIOUS
<1>3. UNCHANGED <<NeverHalted, HaltedLate, Ended(1)>> BY <1>2 DEF NeverHalted, HaltedLate, Ended
<1> HIDE DEF Started, Rethrow, Collect, HaltStatus, HaltChild
<1>4. LateHaltHeeded' BY <1>1, <1>2, <1>3 DEF RunsOnce, LateHaltHeeded
<1>5. QED BY <1>1, <1>2, <1>3, <1>4 DEF RunsOnce

LEMMA HaltOnce == ASSUME IInv, FirstRun, OnlyRun, Halt PROVE RunsOnce'
<1> USE RunOne DEF Halt, serverVars, goalVars, pathVars
<1>1. RunsOnce BY DEF FirstRun
<1>2. run = 1 BY DEF OnlyRun, IInv, TypeOK, Places
<1>3. NeverHalted BY <1>1 DEF RunsOnce
<1>4. place[1] \in Left => Ended(1)
  <2>1. Clean BY <1>3 DEF Clean, OnlyRun
  <2>2. QED BY <2>1 DEF IInv, StatusTold, Places, Ended
<1>5. place'[1] = place[1] /\ place[1] \in ThreadPlaces \ OverPlaces
  BY <1>1 DEF RunsOnce, IInv, TypeOK
<1>6. _halt_requested' /\ (HaltedLate' <=> place[1] \notin {"begin", "send", "sent"})
  BY <1>2 DEF HaltedLate, HaltedAt, IInv, TypeOK
<1>7. LateHaltHeeded'
  BY <1>4, <1>5, <1>6 DEF LateHaltHeeded, Ended, ThreadPlaces, OverPlaces, Left, Returned
<1>8. QED BY <1>1, <1>2, <1>7 DEF RunsOnce, IInv, TypeOK

(* What a step of tick() leaves alone. *)
LEMMA ThreadOnce ==
  ASSUME IInv, FirstRun, OnlyRun, NEW p \in ThreadPlaces, place' = [place EXCEPT ![1] = p],
         UNCHANGED <<kind, run, server, halted, overlapped>>, tree' \in {tree, "gone"},
         nodeStatus' \in {nodeStatus, "IDLE", "SUCCESS", "FAILURE"},
         p \in OverPlaces => nodeStatus' # "RUNNING",
         1 \in cancelAsked' => 1 \in cancelAsked \/ server[1] \notin {"none", "sent"},
         action_status' = "SUCCEEDED" \/ p = "return_success" =>
           action_status = "SUCCEEDED" \/ place[1] = "return_success",
         LateHaltHeeded'
  PROVE  RunsOnce'
<1>1. RunsOnce BY DEF FirstRun
<1>2. place'[1] = p BY RunOne DEF IInv, TypeOK
<1>3. UNCHANGED NeverHalted BY DEF NeverHalted
<1>4. QED BY <1>1, <1>2, <1>3 DEF RunsOnce

LEMMA TickThreadOnce ==
  ASSUME IInv, FirstRun, OnlyRun, NEW r \in Runs, TickThread(r)
  PROVE  RunsOnce'
<1> DEFINE Kept == RunsOnce'
<1> SUFFICES Kept OBVIOUS
<1> USE DEF treeVars, serverVars, goalVars, pathVars, history, Goto
<1>0. RunsOnce /\ 1 \in Runs /\ place \in [Runs -> ThreadPlaces] /\ overlapped = {} /\ LateHaltHeeded
  BY RunOne DEF FirstRun, RunsOnce, IInv, TypeOK
<1> HIDE DEF Kept, OverPlaces
<1>1. ASSUME Begin(r) PROVE Kept
  <2>1. r = 1 BY <1>1, OnlyOne DEF Begin
  <2>2. ~HaltedLate' /\ place'[1] = "send"
    BY <1>0, <1>1, <2>1 DEF Begin, LateHaltHeeded, HaltedLate, Left
  <2>3. LateHaltHeeded' BY <2>2 DEF LateHaltHeeded
  <2>4. QED BY <1>1, <2>1, <2>3, ThreadOnce DEF Begin, Kept, ThreadPlaces, OverPlaces
<1>2. ASSUME InputMissing(r) PROVE Kept
  <2>1. r = 1 BY <1>2, OnlyOne DEF InputMissing
  <2>2. ~HaltedLate' /\ place'[1] = "threw"
    BY <1>0, <1>2, <2>1 DEF InputMissing, LateHaltHeeded, HaltedLate, Left
  <2>3. LateHaltHeeded' BY <2>2 DEF LateHaltHeeded
  <2>4. QED BY <1>2, <2>1, <2>3, ThreadOnce DEF InputMissing, Kept, ThreadPlaces, OverPlaces
<1>3. ASSUME Send(r) PROVE Kept
  <2>1. r = 1 BY <1>3, OnlyOne DEF Send
  <2>2. ~HaltedLate' BY <1>0, <1>3, <2>1 DEF Send, LateHaltHeeded, HaltedLate, Left
  <2>3. server[1] = "none" BY <1>3, <2>1 DEF Send, IInv, Places, Unsent
  <2>4. place'[1] = "sent" /\ UNCHANGED <<run, tree, nodeStatus, halted, overlapped, cancelAsked, action_status>>
    BY <1>0, <1>3, <2>1 DEF Send
  <2>5. 1 \notin cancelAsked /\ action_status # "SUCCEEDED" BY <1>0, <2>3 DEF RunsOnce
  <2>6. QED BY <1>0, <2>2, <2>4, <2>5 DEF RunsOnce, LateHaltHeeded, NeverHalted, OverPlaces, Kept
<1>4. ASSUME ClearHalt(r) PROVE Kept
  <2>1. r = 1 BY <1>4, OnlyOne DEF ClearHalt
  <2>2. ~HaltedLate' /\ ~_halt_requested' /\ place'[1] = "poll"
    BY <1>0, <1>4, <2>1 DEF ClearHalt, LateHaltHeeded, HaltedLate, Left
  <2>3. LateHaltHeeded' BY <2>2 DEF LateHaltHeeded
  <2>4. QED BY <1>4, <2>1, <2>3, ThreadOnce DEF ClearHalt, Kept, ThreadPlaces, OverPlaces
<1>5. ASSUME LeaveLoop(r) PROVE Kept
  <2>1. r = 1 BY <1>5, OnlyOne DEF LeaveLoop
  <2>2. place[1] = "poll" /\ place'[1] = "cleanup" /\ UNCHANGED <<_halt_requested, halted>>
    BY <1>0, <1>5, <2>1 DEF LeaveLoop
  <2>3. LateHaltHeeded' BY <1>0, <2>2 DEF LateHaltHeeded, HaltedLate, Left, Returned
  <2>4. QED BY <1>5, <2>1, <2>3, ThreadOnce DEF LeaveLoop, Kept, ThreadPlaces, OverPlaces
<1>6. ASSUME Cleanup(r) PROVE Kept
  <2>1. r = 1 BY <1>6, OnlyOne DEF Cleanup
  <2>2. PICK p \in {"get", "return"} :
          /\ place[1] = "cleanup" /\ place' = [place EXCEPT ![1] = p]
          /\ p = "get" <=> _halt_requested
    BY <1>6, <2>1 DEF Cleanup
  <2>3. place'[1] = p /\ UNCHANGED <<_halt_requested, halted>> BY <1>0, <1>6, <2>2 DEF Cleanup
  <2>4. LateHaltHeeded' BY <1>0, <2>2, <2>3 DEF LateHaltHeeded, HaltedLate, Left, Returned
  <2>5. p \in ThreadPlaces /\ p \notin OverPlaces \cup {"return_success"} BY DEF ThreadPlaces, OverPlaces
  <2>6. UNCHANGED <<kind, run, tree, nodeStatus, server, halted, overlapped, cancelAsked, action_status>>
    BY <1>6 DEF Cleanup
  <2>7. QED BY <2>2, <2>4, <2>5, <2>6, ThreadOnce DEF Kept, OverPlaces
<1>7. ASSUME CancelGoal(r) PROVE Kept
  <2>1. r = 1 BY <1>7, OnlyOne DEF CancelGoal
  <2>2. awaited[1] = 1 BY <1>0, <1>7, <2>1 DEF CancelGoal, IInv, Alone
  <2>3. server[1] \notin {"none", "sent"} BY <1>7, <2>1, <2>2 DEF CancelGoal, IInv, Places, Unsent
  <2>4. 1 \in cancelAsked' \/ Ended(1)
    <3>1. delivered[1] \in {"half", "result"} => Ended(1)
      BY <1>0 DEF IInv, Places, Ended, Outcomes
    <3>2. QED BY <1>7, <2>1, <2>2, <3>1 DEF CancelGoal, Ended
  <2>5. place[1] = "get" /\ place' = [place EXCEPT ![1] = "return"] /\ place'[1] = "return"
    BY <1>0, <1>7, <2>1 DEF CancelGoal
  <2>6. UNCHANGED <<kind, run, nodeStatus, server, halted, overlapped, action_status>> /\ tree' \in {tree, "gone"}
    BY <1>7 DEF CancelGoal
  <2>7. LateHaltHeeded' BY <2>4, <2>5, <2>6 DEF LateHaltHeeded, Ended, Left, Returned
  <2>8. QED BY <2>3, <2>5, <2>6, <2>7, ThreadOnce DEF Kept, ThreadPlaces, OverPlaces
<1>8. ASSUME ReadStatus(r) PROVE Kept
  <2>1. r = 1 BY <1>8, OnlyOne DEF ReadStatus
  <2>2. PICK p \in {"return_success", "return_failure"} :
          /\ place[1] = "return" /\ place' = [place EXCEPT ![1] = p]
          /\ p = "return_success" => action_status = "SUCCEEDED"
    BY <1>8, <2>1 DEF ReadStatus
  <2>3. UNCHANGED <<kind, run, tree, nodeStatus, server, halted, overlapped, cancelAsked, action_status>>
    BY <1>8 DEF ReadStatus
  <2>4. place'[1] = p BY <1>0, <2>2
  <2>5. LateHaltHeeded'
    BY <1>0, <2>2, <2>3, <2>4 DEF LateHaltHeeded, HaltedLate, Ended, Left, Returned
  <2>6. p \in ThreadPlaces /\ p \notin OverPlaces BY DEF ThreadPlaces, OverPlaces
  <2>7. QED BY <2>2, <2>3, <2>5, <2>6, ThreadOnce DEF Kept, OverPlaces
<1>9. ASSUME SetStatus(r) PROVE Kept
  <2>1. r = 1 BY <1>9, OnlyOne DEF SetStatus
  <2>2. /\ place[1] \in {"return_success", "return_failure"}
        /\ place' = [place EXCEPT ![1] = "done"] /\ place'[1] = "done"
        /\ nodeStatus' \in {"SUCCESS", "FAILURE"}
        /\ UNCHANGED <<kind, run, tree, server, halted, overlapped, cancelAsked, action_status>>
    BY <1>0, <1>9, <2>1 DEF SetStatus
  <2>3. LateHaltHeeded' BY <1>0, <2>2 DEF LateHaltHeeded, HaltedLate, Ended, Left, Returned
  <2>4. QED BY <2>2, <2>3, ThreadOnce DEF Kept, ThreadPlaces, OverPlaces
<1>10. QED
  BY <1>1, <1>2, <1>3, <1>4, <1>5, <1>6, <1>7, <1>8, <1>9 DEF TickThread

LEMMA ServerOnce ==
  ASSUME IInv, FirstRun, OnlyRun, NEW r \in Runs, Respond(r) \/ Finish(r)
  PROVE  RunsOnce'
<1>1. RunsOnce BY DEF FirstRun
<1>2. PICK s : ServerMoves(r, server[r], s) /\ server[r] \in {"sent", "executing"}
               /\ s \in {"rejected", "executing"} \cup Outcomes
  BY DEF Respond, Finish, ServerMoves
<1>3. r = 1 BY <1>2, OnlyOne
<1>4. server[1] # "succeeded" /\ ~Ended(1) BY <1>2, <1>3 DEF Ended, Outcomes
<1>5. server'[1] = s /\ s \notin {"none", "sent"}
  BY <1>2, <1>3, RunOne DEF ServerMoves, Outcomes, IInv, TypeOK
<1>6. UNCHANGED <<run, tree, nodeStatus, place, _halt_requested, action_status, cancelAsked,
                  halted, overlapped>>
  BY <1>2 DEF ServerMoves, treeVars, history
<1>7. UNCHANGED <<NeverHalted, HaltedLate>> BY <1>6 DEF NeverHalted, HaltedLate
<1>8. LateHaltHeeded' BY <1>1, <1>4, <1>6, <1>7 DEF RunsOnce, LateHaltHeeded
<1>9. QED BY <1>1, <1>4, <1>5, <1>6, <1>7, <1>8 DEF RunsOnce

LEMMA CallbackOnce ==
  ASSUME IInv, FirstRun, OnlyRun, NEW r \in Runs, Callbacks(r)
  PROVE  RunsOnce'
<1> USE DEF Callbacks, GoalResponseCallback, ResultCallback, ResultFallsThrough, Callback
<1>1. RunsOnce BY DEF FirstRun
<1>2. r = 1
  <2>1. server[r] # "none" BY DEF IInv, Places, Outcomes
  <2>2. QED BY <2>1, OnlyOne
<1>3. UNCHANGED <<run, tree, nodeStatus, place, _halt_requested, server, cancelAsked, halted, overlapped>>
  BY DEF treeVars, history
<1>4. action_status' = "SUCCEEDED" => server[1] = "succeeded"
  <2>1. delivered[r] # "half" BY DEF IInv, Places, OnlyRun, NoEmptyPath
  <2>2. QED BY <1>2, <2>1
<1>5. UNCHANGED <<NeverHalted, HaltedLate, Ended(1)>> BY <1>3 DEF NeverHalted, HaltedLate, Ended
<1> HIDE DEF Callbacks
<1>6. LateHaltHeeded' BY <1>1, <1>3, <1>5 DEF RunsOnce, LateHaltHeeded
<1>7. QED BY <1>1, <1>3, <1>4, <1>5, <1>6 DEF RunsOnce

LEMMA FirstRunInductive == Init /\ [][Next]_vars => [](IInv /\ FirstRun)
<1>1. Init => FirstRun
  <2> SUFFICES ASSUME Init PROVE RunsOnce BY DEF FirstRun
  <2>1. halted[1] = "none" BY RunOne DEF Init
  <2>2. QED BY <2>1 DEF Init, RunsOnce, LateHaltHeeded, HaltedLate
<1>2. IInv /\ FirstRun /\ [Next]_vars => FirstRun'
  <2> SUFFICES ASSUME IInv, FirstRun, [Next]_vars PROVE FirstRun' OBVIOUS
  <2>1. CASE Next
    <3> SUFFICES ASSUME OnlyRun' PROVE RunsOnce' BY DEF FirstRun
    <3>1. OnlyRun BY <2>1, OnlyRunWas
    <3>2. QED
      BY <2>1, <3>1, TickOnce, TreeOnce, HaltOnce, TickThreadOnce, ServerOnce, CallbackOnce
      DEF Next, TreeThread
  <2>2. CASE UNCHANGED vars
    BY <2>2
    DEF vars, treeVars, serverVars, history, FirstRun, OnlyRun, NoEmptyPath, RunsOnce,
        LateHaltHeeded, HaltedLate, NeverHalted, Ended
  <2>3. QED BY <2>1, <2>2
<1>3. QED BY <1>1, <1>2, Inductive, PTL
-----------------------------------------------------------------------------
(* The steps of the contract, told by what they show of run 1 *)

Shown == IF tree \in {"halting", "halted"} THEN "IDLE" ELSE nodeStatus
HaltSeen == IF HaltedLate THEN "late" ELSE halted[1]

contractView == <<Shown, Worker(1), HaltSeen, GoalState(1)>>

Simulated == Contract!NodeNext \/ UNCHANGED Contract!nodeVars

LEMMA Stutters == ASSUME UNCHANGED contractView PROVE Simulated
<1>1. /\ [r \in {1} |-> Shown'] = [r \in {1} |-> Shown]
      /\ [r \in {1} |-> Worker(r)'] = [r \in {1} |-> Worker(r)]
      /\ [r \in {1} |-> HaltSeen'] = [r \in {1} |-> HaltSeen]
      /\ [r \in {1} |-> GoalState(r)'] = [r \in {1} |-> GoalState(r)]
  BY DEF contractView
<1>2. UNCHANGED Contract!nodeVars
  BY <1>1 DEF Contract!nodeVars, Shown, HaltSeen, HaltedLate
<1>3. QED BY <1>2 DEF Simulated

LEMMA Starts ==
  ASSUME InForce, InForce', Shown = "IDLE", Worker(1) = "none",
         Shown' = "RUNNING", Worker(1)' = "start", UNCHANGED <<HaltSeen, GoalState(1)>>
  PROVE  Simulated
<1>1. Contract!Start(1) BY DEF Contract!Start, Shown, HaltSeen, HaltedLate
<1>2. QED BY <1>1 DEF Simulated, Contract!NodeNext, Contract!Perform

LEMMA Halts ==
  ASSUME InForce, InForce', Shown = "RUNNING", Shown' = "IDLE",
         HaltSeen' = IF Worker(1) = "start" THEN "early" ELSE "late",
         UNCHANGED <<Worker(1), GoalState(1)>>
  PROVE  Simulated
<1>1. Contract!Halt(1) BY DEF Contract!Halt, Shown, HaltSeen, HaltedLate
<1>2. QED BY <1>1 DEF Simulated, Contract!NodeNext, Contract!Perform

LEMMA Collects ==
  ASSUME InForce, InForce', Shown \in {"SUCCESS", "FAILURE"}, Shown' = "IDLE",
         UNCHANGED <<Worker(1), HaltSeen, GoalState(1)>>
  PROVE  Simulated
<1>1. Contract!Collect(1) BY DEF Contract!Collect, Shown, HaltSeen, HaltedLate
<1>2. QED BY <1>1 DEF Simulated, Contract!NodeNext, Contract!Perform

LEMMA Throws ==
  ASSUME InForce, InForce', Worker(1) = "start", Worker(1)' = "threw", Shown' = "IDLE",
         GoalState(1) = "idle", UNCHANGED <<HaltSeen, GoalState(1)>>
  PROVE  Simulated
<1>1. Contract!Throw(1)
  BY DEF Contract!Throw, Contract!Proceed, Shown, HaltSeen, HaltedLate
<1>2. QED BY <1>1 DEF Simulated, Contract!NodeNext, Contract!Perform, Contract!Tick

LEMMA Polls ==
  ASSUME InForce, InForce', Worker(1) = "start", Worker(1)' = "poll",
         UNCHANGED <<Shown, HaltSeen, GoalState(1)>>
  PROVE  Simulated
<1>1. Contract!Poll(1)
  BY DEF Contract!Poll, Contract!Proceed, Shown, HaltSeen, HaltedLate
<1>2. QED BY <1>1 DEF Simulated, Contract!NodeNext, Contract!Perform, Contract!Tick

LEMMA Requests ==
  ASSUME InForce, InForce', Worker(1) = "poll", HaltSeen = "late", GoalState(1) = "executing",
         GoalState(1)' = "canceling", UNCHANGED <<Shown, Worker(1), HaltSeen>>
  PROVE  Simulated
<1>1. Contract!RequestCancel(1) BY DEF Contract!RequestCancel, Shown, HaltSeen, HaltedLate
<1>2. QED BY <1>1 DEF Simulated, Contract!NodeNext, Contract!Perform

LEMMA Returns ==
  ASSUME InForce, InForce', NEW s \in {"SUCCESS", "FAILURE"},
         Worker(1) = "poll", Worker(1)' = "done",
         s = "SUCCESS" => GoalState(1) = "succeeded",
         HaltSeen = "none" /\ s = "FAILURE" => GoalState(1) \in {"rejected", "aborted", "canceled"},
         HaltSeen = "late" => GoalState(1) \notin {"idle", "executing"},
         Shown' = s \/ (HaltSeen # "none" /\ UNCHANGED Shown),
         UNCHANGED <<HaltSeen, GoalState(1)>>
  PROVE  Simulated
<1>1. Contract!Return(1, s)
  BY DEF Contract!Return, Contract!Proceed, Shown, HaltSeen, HaltedLate
<1>2. QED BY <1>1 DEF Simulated, Contract!NodeNext, Contract!Perform, Contract!Tick

LEMMA Serves ==
  ASSUME InForce, InForce', Worker(1) \in {"start", "poll", "done"},
         \/ GoalState(1) = "idle" /\ GoalState(1)' \in {"rejected", "executing"}
         \/ GoalState(1) = "executing" /\ GoalState(1)' \in {"aborted", "succeeded"}
         \/ GoalState(1) = "canceling" /\ GoalState(1)' \in {"canceled", "aborted", "succeeded"},
         UNCHANGED <<Shown, Worker(1), HaltSeen>>
  PROVE  Simulated
<1>1. Contract!Serve(1)
  BY DEF Contract!Serve, Contract!Sent, Contract!Verdicts, Shown, HaltSeen, HaltedLate
<1>2. QED BY <1>1 DEF Simulated, Contract!NodeNext, Contract!Perform
-----------------------------------------------------------------------------
(* Every step of the node is one of these, or shows nothing *)

LEMMA ViewKept ==
  ASSUME UNCHANGED <<Shown, Worker(1), halted, server, cancelAsked>>
  PROVE  Simulated
<1>1. UNCHANGED <<HaltSeen, GoalState(1)>> BY DEF HaltSeen, HaltedLate, GoalState
<1>2. QED BY <1>1, Stutters DEF contractView

LEMMA TreeSimulated ==
  ASSUME IInv, FirstRun, InForce, InForce', TreeThread
  PROVE  Simulated
<1> USE DEF treeVars, serverVars, goalVars, pathVars, history
<1> DEFINE Mapped == Simulated
<1> SUFFICES Mapped OBVIOUS
<1>0. RunsOnce /\ OnlyRun /\ TypeOK /\ Places BY DEF FirstRun, OnlyRun, InForce, IInv
<1> HIDE DEF Mapped
<1>1. ASSUME Tick PROVE Mapped
  <2>1. run = 0 /\ run' = 1
    BY <1>1 DEF Tick, InForce, TypeOK, IInv
  <2>2. place[1] = "none" /\ place'[1] = "begin"
    BY <1>0, <1>1, <2>1, RunOne DEF Tick, Places, TypeOK
  <2>3. Worker(1) = "none" /\ Worker(1)' = "start" BY <2>2 DEF Worker
  <2>4. Shown = "IDLE" /\ Shown' = "RUNNING" BY <1>1 DEF Tick, Shown
  <2>5. UNCHANGED <<HaltSeen, GoalState(1)>>
    BY <1>1 DEF Tick, HaltSeen, HaltedLate, GoalState
  <2>6. QED BY <2>3, <2>4, <2>5, Starts DEF Mapped
<1>2. ASSUME Started \/ HaltStatus \/ HaltChild PROVE Mapped
  <2>1. UNCHANGED <<place, halted, server, cancelAsked>>
    BY <1>2 DEF Started, HaltStatus, HaltChild
  <2>2. UNCHANGED Shown BY <1>2 DEF Started, HaltStatus, HaltChild, Shown
  <2>3. UNCHANGED Worker(1) BY <2>1 DEF Worker
  <2>4. QED BY <2>1, <2>2, <2>3, ViewKept DEF Mapped
<1>3. ~Rethrow BY DEF Rethrow, InForce
<1>4. ASSUME Collect PROVE Mapped
  <2>1. Shown \in {"SUCCESS", "FAILURE"} /\ Shown' = "IDLE" BY <1>4 DEF Collect, Shown
  <2>2. UNCHANGED <<place, halted, server, cancelAsked>> BY <1>4 DEF Collect
  <2>3. UNCHANGED <<Worker(1), HaltSeen, GoalState(1)>>
    BY <2>2 DEF Worker, HaltSeen, HaltedLate, GoalState
  <2>4. QED BY <2>1, <2>3, Collects DEF Mapped
<1>5. ASSUME Halt PROVE Mapped
  <2>1. Shown = "RUNNING" /\ Shown' = "IDLE" BY <1>5 DEF Halt, Shown
  <2>2. run = 1 BY <1>0, <1>5, RunOne DEF Halt, Places, OnlyRun, TypeOK
  <2>3. place[1] \in ThreadPlaces \ OverPlaces
    BY <1>0, <1>5, RunOne DEF Halt, RunsOnce, TypeOK
  <2>4. halted'[1] = HaltedAt(place[1]) BY <1>0, <1>5, <2>2, RunOne DEF Halt, TypeOK
  <2>5. HaltSeen' = IF Worker(1) = "start" THEN "early" ELSE "late"
    BY <2>3, <2>4 DEF HaltSeen, HaltedLate, HaltedAt, Worker, ThreadPlaces, OverPlaces
  <2>6. UNCHANGED <<place, server, cancelAsked>> BY <1>5 DEF Halt
  <2>7. UNCHANGED <<Worker(1), GoalState(1)>> BY <2>6 DEF Worker, GoalState
  <2>8. QED BY <2>1, <2>5, <2>7, Halts DEF Mapped
<1>6. QED BY <1>1, <1>2, <1>3, <1>4, <1>5 DEF TreeThread

LEMMA TickThreadSimulated ==
  ASSUME IInv, FirstRun, InForce, InForce', NEW r \in Runs, TickThread(r)
  PROVE  Simulated
<1> USE DEF treeVars, serverVars, goalVars, pathVars, history, Goto
<1> DEFINE Mapped == Simulated
<1> SUFFICES Mapped OBVIOUS
<1>0. /\ RunsOnce /\ OnlyRun /\ Places /\ Alone /\ LateHaltHeeded
      /\ 1 \in Runs /\ place \in [Runs -> ThreadPlaces]
  BY RunOne DEF FirstRun, OnlyRun, InForce, IInv, TypeOK, RunsOnce
<1> HIDE DEF Mapped
<1>1. ASSUME Begin(r) PROVE Mapped
  <2>1. r = 1 BY <1>0, <1>1, OnlyOne DEF Begin
  <2>2. place[1] = "begin" /\ place'[1] = "send" BY <1>0, <1>1, <2>1 DEF Begin
  <2>3. UNCHANGED Worker(1) BY <2>2 DEF Worker
  <2>4. UNCHANGED Shown BY <1>1 DEF Begin, Shown
  <2>5. QED BY <1>1, <2>3, <2>4, ViewKept DEF Begin, Mapped
<1>2. ASSUME InputMissing(r) PROVE Mapped
  <2>1. r = 1 BY <1>0, <1>2, OnlyOne DEF InputMissing
  <2>2. place[1] = "begin" /\ place'[1] = "threw" BY <1>0, <1>2, <2>1 DEF InputMissing
  <2>3. Worker(1) = "start" /\ Worker(1)' = "threw" BY <2>2 DEF Worker
  <2>4. Shown' = "IDLE" BY <1>2 DEF InputMissing, Shown
  <2>5. server[1] = "none" BY <1>0, <2>2 DEF Places, Unsent
  <2>6. GoalState(1) = "idle" BY <2>5 DEF GoalState
  <2>7. UNCHANGED <<HaltSeen, GoalState(1)>>
    BY <1>2 DEF InputMissing, HaltSeen, HaltedLate, GoalState
  <2>8. QED BY <2>3, <2>4, <2>6, <2>7, Throws DEF Mapped
<1>3. ASSUME Send(r) PROVE Mapped
  <2>1. r = 1 BY <1>0, <1>3, OnlyOne DEF Send
  <2>2. place[1] = "send" /\ place'[1] = "sent" BY <1>0, <1>3, <2>1 DEF Send
  <2>3. server[1] = "none" /\ server'[1] = "sent"
    BY <1>0, <1>3, <2>1, <2>2 DEF Send, Places, Unsent, IInv, TypeOK
  <2>4. UNCHANGED GoalState(1) BY <2>3 DEF GoalState
  <2>5. UNCHANGED Worker(1) BY <2>2 DEF Worker
  <2>6. UNCHANGED <<Shown, HaltSeen>> BY <1>3 DEF Send, Shown, HaltSeen, HaltedLate
  <2>7. QED BY <2>4, <2>5, <2>6, Stutters DEF contractView, Mapped
<1>4. ASSUME ClearHalt(r) PROVE Mapped
  <2>1. r = 1 BY <1>0, <1>4, OnlyOne DEF ClearHalt
  <2>2. place[1] = "sent" /\ place'[1] = "poll" BY <1>0, <1>4, <2>1 DEF ClearHalt
  <2>3. Worker(1) = "start" /\ Worker(1)' = "poll" BY <2>2 DEF Worker
  <2>4. UNCHANGED <<Shown, HaltSeen, GoalState(1)>>
    BY <1>4 DEF ClearHalt, Shown, HaltSeen, HaltedLate, GoalState
  <2>5. QED BY <2>3, <2>4, Polls DEF Mapped
<1>5. ASSUME LeaveLoop(r) \/ Cleanup(r) \/ ReadStatus(r) PROVE Mapped
  <2>1. r = 1 BY <1>0, <1>5, OnlyOne DEF LeaveLoop, Cleanup, ReadStatus
  <2>2. /\ place[1] \in {"poll", "cleanup", "return"}
        /\ place'[1] \in {"cleanup", "get", "return", "return_success", "return_failure"}
    BY <1>0, <1>5, <2>1 DEF LeaveLoop, Cleanup, ReadStatus
  <2>3. UNCHANGED Worker(1) BY <2>2 DEF Worker
  <2>4. UNCHANGED <<tree, nodeStatus, halted, server, cancelAsked>>
    BY <1>5 DEF LeaveLoop, Cleanup, ReadStatus
  <2>5. UNCHANGED Shown BY <2>4 DEF Shown
  <2>6. QED BY <2>3, <2>4, <2>5, ViewKept DEF Mapped
<1>6. ASSUME CancelGoal(r) PROVE Mapped
  <2>1. r = 1 BY <1>0, <1>6, OnlyOne DEF CancelGoal
  <2>2. place[1] = "get" /\ place'[1] = "return" BY <1>0, <1>6, <2>1 DEF CancelGoal
  <2>3. Worker(1) = "poll" /\ Worker(1)' = "poll" BY <2>2 DEF Worker
  <2>4. HaltSeen = "late" BY <1>0, <2>2 DEF LateHaltHeeded, HaltSeen
  <2>5. UNCHANGED <<tree, nodeStatus, halted, server>> BY <1>6 DEF CancelGoal, InForce
  <2>6. UNCHANGED <<Shown, HaltSeen>> BY <2>5 DEF Shown, HaltSeen, HaltedLate
  <2>7. awaited[1] = 1 BY <1>0, <2>2 DEF Alone, RunsOnce
  <2>8. cancelAsked' = cancelAsked \/ cancelAsked' = cancelAsked \cup {1}
    BY <1>6, <2>1, <2>7 DEF CancelGoal
  <2>9. CASE UNCHANGED GoalState(1) BY <2>3, <2>6, <2>9, Stutters DEF contractView, Mapped
  <2>10. CASE ~UNCHANGED GoalState(1)
    <3>1. GoalState(1) = "executing" /\ GoalState(1)' = "canceling"
      BY <2>5, <2>8, <2>10 DEF GoalState
    <3>2. QED BY <2>3, <2>4, <2>6, <3>1, Requests DEF Mapped
  <2>11. QED BY <2>9, <2>10
<1>7. ASSUME SetStatus(r) PROVE Mapped
  <2>1. r = 1 /\ run = 1 BY <1>0, <1>7, OnlyOne DEF SetStatus
  <2>2. PICK s \in {"SUCCESS", "FAILURE"} :
          /\ place[1] = IF s = "SUCCESS" THEN "return_success" ELSE "return_failure"
          /\ place'[1] = "done" /\ nodeStatus' = s
    BY <1>0, <1>7, <2>1 DEF SetStatus
  <2>3. Worker(1) = "poll" /\ Worker(1)' = "done" BY <2>2 DEF Worker
  <2>4. UNCHANGED <<tree, halted, server, cancelAsked>> BY <1>7 DEF SetStatus
  <2>5. UNCHANGED <<HaltSeen, GoalState(1)>> BY <2>4 DEF HaltSeen, HaltedLate, GoalState
  <2>6. HaltSeen = "none" => NeverHalted
    BY <1>0, <2>1, RunOne DEF HaltSeen, HaltedLate, RunsOnce, NeverHalted
  <2>7. s = "SUCCESS" => GoalState(1) = "succeeded"
    BY <1>0, <2>2 DEF RunsOnce, GoalState
  <2>8. HaltSeen = "none" /\ s = "FAILURE" => GoalState(1) \in {"rejected", "aborted", "canceled"}
    <3>1. SUFFICES ASSUME HaltSeen = "none", s = "FAILURE"
                   PROVE  GoalState(1) \in {"rejected", "aborted", "canceled"}
      OBVIOUS
    <3>2. Clean BY <1>0, <2>6, <3>1 DEF Clean, OnlyRun
    <3>3. delivered[1] = "result" /\ server[1] # "succeeded"
      BY <1>0, <2>2, <3>1, <3>2 DEF IInv, StatusTold, Left
    <3>4. server[1] \in {"rejected"} \cup Outcomes BY <1>0, <3>3 DEF Places
    <3>5. QED BY <3>3, <3>4 DEF GoalState, Outcomes
  <2>9. HaltSeen = "late" => GoalState(1) \notin {"idle", "executing"}
    <3>1. SUFFICES ASSUME HaltSeen = "late" PROVE GoalState(1) \notin {"idle", "executing"}
      OBVIOUS
    <3>2. HaltedLate BY <3>1 DEF HaltSeen, HaltedLate
    <3>3. Ended(1) \/ 1 \in cancelAsked BY <1>0, <2>2, <3>2 DEF LateHaltHeeded, Returned
    <3>4. server[1] \in {"rejected", "executing"} \cup Outcomes
      BY <1>0, <3>3 DEF RunsOnce, Ended, Outcomes, IInv, TypeOK
    <3>5. QED BY <3>3, <3>4 DEF GoalState, Ended, Outcomes
  <2>10. Shown' = s \/ (HaltSeen # "none" /\ UNCHANGED Shown)
    <3>1. CASE tree \notin {"halting", "halted"} BY <2>2, <2>4, <3>1 DEF Shown
    <3>2. CASE tree \in {"halting", "halted"}
      <4>1. UNCHANGED Shown BY <2>4, <3>2 DEF Shown
      <4>2. HaltSeen # "none" BY <1>0, <2>6, <3>2 DEF Places
      <4>3. QED BY <4>1, <4>2
    <3>3. QED BY <3>1, <3>2
  <2>11. QED BY <2>3, <2>5, <2>7, <2>8, <2>9, <2>10, Returns DEF Mapped
<1>8. QED BY <1>1, <1>2, <1>3, <1>4, <1>5, <1>6, <1>7 DEF TickThread

LEMMA ServerSimulated ==
  ASSUME IInv, FirstRun, InForce, InForce', NEW r \in Runs, Respond(r) \/ Finish(r)
  PROVE  Simulated
<1>1. RunsOnce /\ OnlyRun /\ Places /\ TypeOK /\ 1 \in Runs
  BY RunOne DEF FirstRun, OnlyRun, InForce, IInv
<1>2. PICK s :
        /\ ServerMoves(r, server[r], s)
        /\ \/ server[r] = "sent" /\ s \in {"rejected", "executing"}
           \/ server[r] = "executing" /\ s \in Outcomes /\ (s = "canceled" => r \in cancelAsked)
  BY DEF Respond, Finish, ServerMoves
<1>3. r = 1 BY <1>1, <1>2, OnlyOne
<1>4. server'[1] = s /\ UNCHANGED <<tree, nodeStatus, place, halted, cancelAsked>>
  BY <1>1, <1>2, <1>3 DEF ServerMoves, TypeOK, treeVars, history
<1>5. place[1] \notin Unsent BY <1>1, <1>2, <1>3 DEF Places
<1>6. Worker(1) \in {"start", "poll", "done"} BY <1>5 DEF Worker, Unsent
<1>7. UNCHANGED <<Shown, Worker(1), HaltSeen>>
  BY <1>4 DEF Shown, Worker, HaltSeen, HaltedLate
<1>8. CASE server[1] = "sent"
  <2>1. 1 \notin cancelAsked BY <1>1, <1>8 DEF RunsOnce
  <2>2. GoalState(1) = "idle" BY <1>8 DEF GoalState
  <2>3. GoalState(1)' \in {"rejected", "executing"}
    BY <1>2, <1>3, <1>4, <1>8, <2>1 DEF GoalState
  <2>4. QED BY <1>6, <1>7, <2>2, <2>3, Serves
<1>9. CASE server[1] = "executing" /\ 1 \in cancelAsked
  <2>1. GoalState(1) = "canceling" BY <1>9 DEF GoalState
  <2>2. GoalState(1)' \in {"canceled", "aborted", "succeeded"}
    BY <1>2, <1>3, <1>4, <1>9 DEF GoalState, Outcomes
  <2>3. QED BY <1>6, <1>7, <2>1, <2>2, Serves
<1>10. CASE server[1] = "executing" /\ 1 \notin cancelAsked
  <2>1. GoalState(1) = "executing" BY <1>10 DEF GoalState
  <2>2. GoalState(1)' \in {"aborted", "succeeded"}
    BY <1>2, <1>3, <1>4, <1>10 DEF GoalState, Outcomes
  <2>3. QED BY <1>6, <1>7, <2>1, <2>2, Serves
<1>11. QED BY <1>2, <1>3, <1>8, <1>9, <1>10

LEMMA CallbackSimulated == ASSUME NEW r \in Runs, Callbacks(r) PROVE Simulated
<1>1. UNCHANGED <<tree, nodeStatus, place, halted, server, cancelAsked>>
  BY DEF Callbacks, GoalResponseCallback, ResultCallback, ResultFallsThrough, Callback,
         treeVars, history
<1>2. UNCHANGED <<Shown, Worker(1)>> BY <1>1 DEF Shown, Worker
<1>3. QED BY <1>1, <1>2, ViewKept

LEMMA ContractInitially == Init => Contract!NodeInit
<1> SUFFICES ASSUME Init PROVE Contract!NodeInit OBVIOUS
<1>1. Worker(1) = "none" BY RunOne DEF Init, Worker
<1>2. GoalState(1) = "idle" BY RunOne DEF Init, GoalState
<1>3. halted[1] = "none" BY RunOne DEF Init
<1>4. InForce = TRUE BY DEF Init, InForce, NoEmptyPath
<1>5. QED BY <1>1, <1>2, <1>3, <1>4 DEF Init, Contract!NodeInit

LEMMA ContractStep ==
  IInv /\ FirstRun /\ [Next]_vars => [Contract!NodeNext]_<<Contract!nodeVars, InForce>>
<1> SUFFICES ASSUME IInv, FirstRun, [Next]_vars
             PROVE  Contract!NodeNext \/ UNCHANGED <<Contract!nodeVars, InForce>>
  OBVIOUS
<1>1. CASE UNCHANGED vars
  BY <1>1 DEF vars, treeVars, serverVars, history, Contract!nodeVars, Worker, GoalState,
              InForce, NoEmptyPath
<1>2. CASE Next
  <2>1. CASE ~InForce'
    BY <2>1 DEF Contract!NodeNext, Contract!Lapse, Contract!Lapsed
  <2>2. CASE InForce'
    <3>1. InForce
      <4>1. OnlyRun BY <1>2, <2>2, OnlyRunWas DEF InForce, OnlyRun
      <4>2. tree = "gone" => tree' = "gone"
        BY <1>2 
        DEF Next, TreeThread, Tick, Started, Rethrow, Collect, Halt, HaltStatus, HaltChild,
            TickThread, Callbacks, Respond, Finish, ServerMoves, treeVars
      <4>3. QED BY <2>2, <4>1, <4>2 DEF InForce, OnlyRun
    <3>2. Simulated
      BY <1>2, <2>2, <3>1, TreeSimulated, TickThreadSimulated, ServerSimulated, CallbackSimulated
      DEF Next
    <3>3. UNCHANGED InForce BY <2>2, <3>1 DEF InForce
    <3>4. QED BY <3>2, <3>3 DEF Simulated
  <2>3. QED BY <2>1, <2>2
<1>3. QED BY <1>1, <1>2

(* The nodes keep the promises of ActionNodeContract for their first start,  *)
(* however the tree, tick(), the callbacks and the server interleave         *)
(* (follow_path.cpp, compute_path_to_pose.cpp, follow_waypoints.cpp).         *)
THEOREM NodeContractKept == Spec => KeepsNodeContract
<1>1. Init => Contract!NodeInit BY ContractInitially
<1>2. IInv /\ FirstRun /\ [Next]_vars => [Contract!NodeNext]_<<Contract!nodeVars, InForce>>
  BY ContractStep
<1>3. QED BY <1>1, <1>2, FirstRunInductive, PTL DEF Spec, KeepsNodeContract, Contract!NodeSpec
=============================================================================
