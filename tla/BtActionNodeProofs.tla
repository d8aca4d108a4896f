------------------------- MODULE BtActionNodeProofs -------------------------
(***************************************************************************)
(* The safety properties of the action client nodes, for every number of   *)
(* runs.                                                                   *)
(*                                                                         *)
(* Nothing but the order of events tells the runs apart: there is one      *)
(* _halt_requested, one action_status and one future_goal_handle_ for all. *)
(* As long as no run began before the end of the one before it, the flag   *)
(* and the future are the last run's (Alone); as long as no halt came      *)
(* either, its goal is the only one callbacks are still due for, and       *)
(* action_status says what the server did (StatusTold).  What is left of   *)
(* this once halts have let runs overlap takes invariants of its own: a    *)
(* success is still that of some goal (Real), and from a run that was      *)
(* halted to one that is canceled leads a chain of overlaps (ChainInv).    *)
(***************************************************************************)
EXTENDS BtActionNode, TLAPS

Unsent == {"none", "begin", "send", "threw"}
Left   == {"cleanup", "get", "return", "return_success", "return_failure", "done"}

Clean == NeverHalted /\ NoEmptyPath

(* How far a goal is follows from how far its run is, and its callbacks from it. *)
Places ==
  /\ nodeStatus # "IDLE" => run \in Runs
  /\ tree \in {"halting", "halted"} => ~NeverHalted
  /\ \A r \in Runs :
       /\ r > run => place[r] = "none"
       /\ server[r] = "none" <=> place[r] \in Unsent
       /\ place[r] \notin Unsent => future \in Runs
       /\ delivered[r] = "response" => server[r] \in {"executing"} \cup Outcomes
       /\ delivered[r] = "half" => kind = "ComputePathToPose" /\ server[r] = "succeeded_for_nothing"
       /\ delivered[r] = "result" => server[r] \in {"rejected"} \cup Outcomes

(* Without overlaps, flag and future belong to the last run. *)
Alone ==
  overlapped = {} =>
    \A r \in Runs :
      /\ r # run => place[r] \in OverPlaces
      /\ place[r] \in {"sent", "poll", "cleanup", "get"} => future = r
      /\ place[r] \in {"poll", "cleanup"} /\ _halt_requested => halted[r] # "none"
      /\ place[r] = "get" => awaited[r] = r /\ halted[r] # "none"

(* Without halts, there are no overlaps. *)
OneRun ==
  NeverHalted =>
    /\ overlapped = {}
    /\ nodeStatus # "RUNNING" => \A r \in Runs : place[r] \in OverPlaces
    /\ nodeStatus \in {"SUCCESS", "FAILURE"} => place[run] = "done"

(* What the callbacks of the goal of run r have left in action_status. *)
Told(r) ==
  CASE delivered[r] = "nothing" -> "VIRGIN"
    [] delivered[r] = "response" -> "PROCESSING"
    [] delivered[r] = "half" -> "FAILED"
    [] delivered[r] = "result" ->
         CASE server[r] = "rejected" -> "REJECTED"
           [] server[r] = "succeeded" -> "SUCCEEDED"
           [] server[r] = "succeeded_for_nothing" -> "FAILED"
           [] server[r] = "aborted" -> "ABORTED"
           [] OTHER -> "CANCELED"

StatusTold ==
  Clean =>
    \A r \in Runs :
      /\ place[r] \in {"send", "sent", "poll", "cleanup", "get", "return"} => action_status = Told(r)
      /\ place[r] \in Left => delivered[r] = "result"
      /\ place[r] = "return_success" => server[r] = "succeeded"
      /\ place[r] = "return_failure" => server[r] # "succeeded"

(* The stream ends with the path of the last run, once that is there. *)
PathKept ==
  Clean /\ kind = "ComputePathToPose" =>
    /\ \A i, j \in DOMAIN returned_path : i < j => returned_path[i] < returned_path[j]
    /\ \A i \in DOMAIN returned_path :
         /\ returned_path[i] <= run /\ server[returned_path[i]] = "succeeded"
         /\ returned_path[i] = run => delivered[run] = "result"
    /\ \A r \in Runs :
         r = run =>
           /\ delivered[r] = "result" /\ server[r] = "succeeded" =>
                returned_path # <<>> /\ returned_path[Len(returned_path)] = r
           /\ place[r] \in Left => output = returned_path

IInv ==
  /\ TypeOK /\ Places /\ Alone
  /\ OneRun /\ StatusTold /\ AnswerIsOwn /\ PathKept

(* The stream is made of runs. *)
LEMMA StreamOfRuns == TypeOK => \A i \in DOMAIN returned_path : returned_path[i] \in Runs
<1>1. ASSUME returned_path \in Seq(Runs)
      PROVE  \A i \in DOMAIN returned_path : returned_path[i] \in Runs
  BY <1>1
<1>2. QED BY <1>1 DEF TypeOK

LEMMA Initially == Init => IInv
<1> SUFFICES ASSUME Init PROVE IInv OBVIOUS
<1>1. MaxRuns \in Nat /\ 0 \notin Runs BY BtActionNodeAssumption DEF Runs
<1>2. TypeOK
  <2>1. <<>> \in Seq(Runs) OBVIOUS
  <2>2. 0 \in 0..MaxRuns BY <1>1
  <2>3. place \in [Runs -> ThreadPlaces] /\ \A r \in Runs : place[r] # "get"
    BY DEF Init, ThreadPlaces
  <2>4. awaited \in [Runs -> 0..MaxRuns] BY <2>2 DEF Init
  <2>5. /\ server \in [Runs -> {"none", "sent", "rejected", "executing"} \cup Outcomes]
        /\ delivered \in [Runs -> {"nothing", "response", "half", "result"}]
        /\ halted \in [Runs -> {"none", "early", "polling", "late"}]
    BY DEF Init
  <2>6. QED BY <2>1, <2>2, <2>3, <2>4, <2>5 DEF Init, TypeOK, ActionStatus
<1>3. Places BY <1>1 DEF Init, Places, Unsent, Runs
<1>4. Alone BY DEF Init, Alone, OverPlaces
<1>5. OneRun BY DEF Init, OneRun, OverPlaces
<1>6. StatusTold /\ AnswerIsOwn BY DEF Init, StatusTold, Left, AnswerIsOwn
<1>7. PathKept BY DEF Init, PathKept, Left
<1>8. QED BY <1>2, <1>3, <1>4, <1>5, <1>6, <1>7 DEF IInv

LEMMA TickKeeps == ASSUME IInv, Tick PROVE IInv'
<1> USE DEF IInv, Tick, treeVars, goalVars, pathVars, serverVars, history
<1>0. Runs \subseteq Nat /\ run \in Nat /\ MaxRuns \in Nat /\ run <= MaxRuns
  BY BtActionNodeAssumption
  DEF Runs, TypeOK
<1>a. (NeverHalted' <=> NeverHalted) BY DEF NeverHalted
<1>b. Clean' => Clean BY <1>a DEF Clean, NoEmptyPath
<1>1. TypeOK'
  <2>1. run + 1 \in Runs /\ run' \in 0..MaxRuns BY <1>0 DEF Runs
  <2>2. overlapped' \subseteq Runs BY <2>1 DEF TypeOK
  <2>3. place' \in [Runs -> ThreadPlaces] /\ \A q \in Runs : place'[q] = "get" => place[q] = "get"
    BY <2>1 DEF TypeOK, ThreadPlaces
  <2>4. QED BY <2>1, <2>2, <2>3 DEF TypeOK
<1>2. Places' BY <1>0 DEF Places, Unsent, Runs
<1>3. Alone'
  <2> SUFFICES ASSUME overlapped' = {}, NEW q \in Runs
               PROVE  /\ q # run' => place'[q] \in OverPlaces
                      /\ place'[q] \in {"sent", "poll", "cleanup", "get"} => future' = q
                      /\ place'[q] \in {"poll", "cleanup"} /\ _halt_requested' => halted'[q] # "none"
                      /\ place'[q] = "get" => awaited'[q] = q /\ halted'[q] # "none"
    BY DEF Alone
  <2>1. /\ overlapped = {} /\ ~Overlaps(run + 1) /\ run' = run + 1 /\ run + 1 \in Runs
        /\ UNCHANGED <<future, awaited, halted, _halt_requested>>
    BY <1>0 DEF TypeOK, Runs
  <2>2. place' = [place EXCEPT ![run + 1] = "begin"] OBVIOUS
  <2>3. CASE q = run + 1 BY <2>1, <2>2, <2>3 DEF TypeOK
  <2>4. CASE q # run + 1
    <3>1. place'[q] = place[q] BY <2>2, <2>4 DEF TypeOK
    <3>2. q < run + 1 => place[q] \in OverPlaces BY <2>1 DEF Overlaps
    <3>3. q > run => place[q] \in OverPlaces BY DEF Places, OverPlaces
    <3>4. QED BY <1>0, <2>1, <2>4, <3>1, <3>2, <3>3 DEF OverPlaces
  <2>5. QED BY <2>3, <2>4
<1>4. OneRun' BY <1>a DEF OneRun, TypeOK, Overlaps
<1>5. StatusTold' BY <1>b DEF StatusTold, OneRun, OverPlaces, Left, Clean
<1>6. AnswerIsOwn' BY DEF AnswerIsOwn
<1>7. PathKept'
  <2>1. /\ run' = run + 1 /\ run + 1 \in Runs
        /\ UNCHANGED <<kind, returned_path, output, delivered, server>>
    BY <1>0 DEF TypeOK, Runs
  <2>2. place[run + 1] = "none" BY <1>0, <2>1 DEF Places
  <2>3. server[run + 1] = "none" BY <2>1, <2>2 DEF Places, Unsent
  <2>4. delivered[run + 1] # "result" BY <2>1, <2>3 DEF Places, Outcomes
  <2>5. place'[run + 1] = "begin" BY <2>1 DEF TypeOK
  <2>6. \A i \in DOMAIN returned_path : returned_path[i] \in Nat BY <1>0, StreamOfRuns
  <2>7. QED BY <1>0, <1>b, <2>1, <2>4, <2>5, <2>6 DEF PathKept, Left
<1>8. QED BY <1>1, <1>2, <1>3, <1>4, <1>5, <1>6, <1>7

LEMMA StartedKeeps == ASSUME IInv, Started PROVE IInv'
<1> USE DEF IInv, Started, treeVars, goalVars, pathVars, serverVars, history
<1>1. TypeOK' BY DEF TypeOK
<1>2. Places' BY DEF Places
<1>3. Alone' /\ OneRun' /\ StatusTold' /\ AnswerIsOwn' /\ PathKept'
  BY DEF Alone, OneRun, NeverHalted, StatusTold, Told, Clean, NoEmptyPath,
         AnswerIsOwn, PathKept
<1>4. QED BY <1>1, <1>2, <1>3

LEMMA RethrowKeeps == ASSUME IInv, Rethrow PROVE IInv'
<1> USE DEF IInv, Rethrow, treeVars, goalVars, pathVars, serverVars, history
<1>1. TypeOK' BY DEF TypeOK
<1>2. Places' BY DEF Places
<1>3. Alone' /\ OneRun' /\ StatusTold' /\ AnswerIsOwn' /\ PathKept'
  BY DEF Alone, OneRun, NeverHalted, StatusTold, Told, Clean, NoEmptyPath,
         AnswerIsOwn, PathKept
<1>4. QED BY <1>1, <1>2, <1>3

LEMMA CollectKeeps == ASSUME IInv, Collect PROVE IInv'
<1> USE DEF IInv, Collect, treeVars, goalVars, pathVars, serverVars, history
<1>a. (NeverHalted' <=> NeverHalted) BY DEF NeverHalted
<1>1. TypeOK' BY DEF TypeOK
<1>2. Places' BY DEF Places
<1>3. OneRun' BY <1>a DEF OneRun
<1>4. AnswerIsOwn' BY DEF AnswerIsOwn
<1>5. Alone' /\ StatusTold' /\ PathKept'
  BY DEF Alone, StatusTold, Told, Clean, NeverHalted, NoEmptyPath, PathKept
<1>6. QED BY <1>1, <1>2, <1>3, <1>4, <1>5

LEMMA HaltKeeps == ASSUME IInv, Halt PROVE IInv'
<1> USE DEF IInv, Halt, treeVars, goalVars, pathVars, serverVars, history
<1>a. ~NeverHalted' /\ ~Clean' BY DEF TypeOK, Places, NeverHalted, Clean, HaltedAt
<1>1. TypeOK' BY DEF TypeOK, Places, HaltedAt
<1>2. Places' BY <1>a DEF Places
<1>3. Alone' BY DEF Alone, TypeOK, OverPlaces, HaltedAt
<1>4. OneRun' BY <1>a DEF OneRun
<1>5. StatusTold' BY <1>a DEF StatusTold
<1>6. AnswerIsOwn' BY DEF AnswerIsOwn
<1>7. PathKept' BY <1>a DEF PathKept
<1>8. QED BY <1>1, <1>2, <1>3, <1>4, <1>5, <1>6, <1>7

LEMMA HaltStatusKeeps == ASSUME IInv, HaltStatus PROVE IInv'
<1> USE DEF IInv, HaltStatus, treeVars, goalVars, pathVars, serverVars, history
<1>a. (NeverHalted' <=> NeverHalted) BY DEF NeverHalted
<1>1. TypeOK' BY DEF TypeOK, ActionStatus
<1>2. Places' BY <1>a DEF Places
<1>3. StatusTold' BY DEF StatusTold, Places, Clean, NeverHalted
<1>4. Alone' /\ OneRun' /\ AnswerIsOwn' /\ PathKept'
  BY DEF Alone, OneRun, NeverHalted, AnswerIsOwn, NoEmptyPath, PathKept, Clean
<1>5. QED BY <1>1, <1>2, <1>3, <1>4

LEMMA HaltChildKeeps == ASSUME IInv, HaltChild PROVE IInv'
<1> USE DEF IInv, HaltChild, treeVars, goalVars, pathVars, serverVars, history
<1>a. (NeverHalted' <=> NeverHalted) BY DEF NeverHalted
<1>1. TypeOK' BY DEF TypeOK
<1>2. Places' BY DEF Places
<1>3. OneRun' BY <1>a DEF OneRun, Places
<1>4. AnswerIsOwn' BY DEF AnswerIsOwn
<1>5. Alone' /\ StatusTold' /\ PathKept'
  BY DEF Alone, StatusTold, Told, Clean, NeverHalted, NoEmptyPath, PathKept
<1>6. QED BY <1>1, <1>2, <1>3, <1>4, <1>5

LEMMA BeginKeeps == ASSUME IInv, NEW r \in Runs, Begin(r) PROVE IInv'
<1> USE DEF IInv, Begin, Goto, treeVars, goalVars, pathVars, serverVars, history
<1>a. (NeverHalted' <=> NeverHalted) BY DEF NeverHalted
<1>b. Clean' => Clean BY <1>a DEF TypeOK, Clean, NoEmptyPath, Outcomes
<1>1. TypeOK' BY DEF TypeOK, ThreadPlaces, ActionStatus
<1>2. Places' BY <1>a DEF Places, Unsent
<1>3. Alone' BY DEF Alone, OverPlaces
<1>4. OneRun' BY <1>a DEF OneRun, OverPlaces
<1>5. StatusTold'
  <2> SUFFICES ASSUME Clean', NEW q \in Runs
               PROVE  /\ place'[q] \in {"send", "sent", "poll", "cleanup", "get", "return"} =>
                           action_status' = Told(q)'
                      /\ place'[q] \in Left => delivered'[q] = "result"
                      /\ place'[q] = "return_success" => server'[q] = "succeeded"
                      /\ place'[q] = "return_failure" => server'[q] # "succeeded"
    BY DEF StatusTold
  <2>1. Clean /\ \A p \in Runs \ {r} : place[p] \in OverPlaces
    BY <1>b DEF Clean, OneRun, Alone, TypeOK, OverPlaces
  <2>2. CASE q = r
    <3>1. server[r] = "none" /\ delivered[r] = "nothing" BY DEF Places, Unsent, Outcomes, TypeOK
    <3>2. Told(r)' = "VIRGIN" BY <3>1 DEF Told
    <3>3. place'[r] = "send" BY DEF TypeOK
    <3>4. QED BY <2>2, <3>2, <3>3 DEF Left
  <2>3. CASE q # r
    <3>1. place'[q] = place[q] /\ place[q] \in OverPlaces BY <2>1, <2>3 DEF TypeOK
    <3>2. QED BY <2>1, <3>1 DEF StatusTold, OverPlaces, Left
  <2>4. QED BY <2>2, <2>3
<1>6. PathKept' BY <1>b DEF PathKept, Left
<1>7. AnswerIsOwn'
  BY DEF AnswerIsOwn, NeverHalted, NoEmptyPath
<1>8. QED BY <1>1, <1>2, <1>3, <1>4, <1>5, <1>6, <1>7

LEMMA InputMissingKeeps == ASSUME IInv, NEW r \in Runs, InputMissing(r) PROVE IInv'
<1> USE DEF IInv, InputMissing, Goto, treeVars, goalVars, pathVars, serverVars, history
<1>a. (NeverHalted' <=> NeverHalted) BY DEF NeverHalted
<1>b. Clean' => Clean BY <1>a DEF TypeOK, Clean, NoEmptyPath, Outcomes
<1>1. TypeOK' BY DEF TypeOK, ThreadPlaces, ActionStatus
<1>2. Places' BY <1>a DEF Places, Unsent
<1>3. Alone' BY DEF Alone, OverPlaces
<1>4. OneRun' BY <1>a DEF OneRun, TypeOK, Places, Alone, OverPlaces, Runs
<1>5. StatusTold'
  <2> SUFFICES ASSUME Clean', NEW q \in Runs
               PROVE  /\ place'[q] \in {"send", "sent", "poll", "cleanup", "get", "return"} =>
                           action_status' = Told(q)'
                      /\ place'[q] \in Left => delivered'[q] = "result"
                      /\ place'[q] = "return_success" => server'[q] = "succeeded"
                      /\ place'[q] = "return_failure" => server'[q] # "succeeded"
    BY DEF StatusTold
  <2>1. Clean /\ \A p \in Runs \ {r} : place[p] \in OverPlaces
    BY <1>b DEF Clean, OneRun, Alone, TypeOK, OverPlaces
  <2>2. place'[q] \in OverPlaces BY <2>1 DEF TypeOK, OverPlaces
  <2>3. place'[q] = "done" => place[q] = "done" BY DEF TypeOK
  <2>4. QED BY <2>1, <2>2, <2>3 DEF StatusTold, OverPlaces, Left
<1>6. AnswerIsOwn' BY DEF AnswerIsOwn
<1>7. PathKept' BY <1>b DEF PathKept, Left
<1>8. QED BY <1>1, <1>2, <1>3, <1>4, <1>5, <1>6, <1>7

LEMMA SendKeeps == ASSUME IInv, NEW r \in Runs, Send(r) PROVE IInv'
<1> USE DEF IInv, Send, Goto, treeVars, goalVars, pathVars, serverVars, history
<1>a. (NeverHalted' <=> NeverHalted) BY DEF NeverHalted
<1>b. Clean' => Clean
  <2>1. \A q \in Runs : server'[q] = server[q] \/ server[q] = "none"
    BY DEF TypeOK, Places, Unsent
  <2>2. QED BY <1>a, <2>1 DEF Clean, NoEmptyPath
<1>1. TypeOK' BY DEF TypeOK, ThreadPlaces, Runs
<1>2. Places' BY <1>a DEF Places, TypeOK, Unsent, Outcomes
<1>3. Alone' BY DEF Alone, OverPlaces
<1>4. OneRun' BY <1>a DEF OneRun, OverPlaces
<1>5. StatusTold' BY <1>b DEF StatusTold, TypeOK, Places, Unsent, Left, Told
<1>6. AnswerIsOwn' BY <1>b DEF AnswerIsOwn, OneRun, Clean
<1>7. PathKept'
  <2>1. server[r] = "none" BY DEF Places, Unsent
  <2>2. \A q \in Runs : server[q] = "succeeded" => server'[q] = "succeeded" BY <2>1 DEF TypeOK
  <2>3. place' = [place EXCEPT ![r] = "sent"] /\ UNCHANGED <<kind, run, returned_path, output, delivered>>
    OBVIOUS
  <2>4. \A q \in Runs : place'[q] \in Left => place[q] \in Left BY <2>3 DEF Left, TypeOK
  <2>5. delivered[r] # "result" BY <2>1 DEF Places, Outcomes
  <2>6. \A q \in Runs : delivered[q] = "result" => server'[q] = server[q] BY <2>5 DEF TypeOK
  <2>7. \A i \in DOMAIN returned_path : returned_path[i] \in Runs BY StreamOfRuns
  <2> HIDE DEF Send
  <2>8. QED BY <1>b, <2>2, <2>3, <2>4, <2>6, <2>7 DEF PathKept
<1>8. QED BY <1>1, <1>2, <1>3, <1>4, <1>5, <1>6, <1>7

LEMMA ClearHaltKeeps == ASSUME IInv, NEW r \in Runs, ClearHalt(r) PROVE IInv'
<1> USE DEF IInv, ClearHalt, Goto, treeVars, goalVars, pathVars, serverVars, history
<1>0. Runs \subseteq Nat /\ run \in Nat /\ MaxRuns \in Nat /\ run <= MaxRuns
  BY BtActionNodeAssumption
  DEF Runs, TypeOK
<1>a. (NeverHalted' <=> NeverHalted) BY DEF NeverHalted
<1>b. Clean' => Clean BY <1>a DEF TypeOK, Clean, NoEmptyPath, Outcomes
<1>1. TypeOK' BY <1>0 DEF TypeOK, Places, Unsent, ThreadPlaces, ActionStatus, Outcomes, Runs
<1>2. Places' BY <1>a DEF Places, Unsent
<1>3. Alone' BY DEF Alone, OverPlaces
<1>4. OneRun' BY <1>a DEF OneRun, OverPlaces
<1>5. StatusTold' BY <1>b DEF StatusTold, TypeOK, Left, Told
<1>6. PathKept' BY <1>b DEF PathKept, Left
<1>7. AnswerIsOwn'
  BY DEF AnswerIsOwn, NeverHalted, NoEmptyPath
<1>8. QED BY <1>1, <1>2, <1>3, <1>4, <1>5, <1>6, <1>7

LEMMA LeaveLoopKeeps == ASSUME IInv, NEW r \in Runs, LeaveLoop(r) PROVE IInv'
<1> USE DEF IInv, LeaveLoop, Goto, treeVars, goalVars, pathVars, serverVars, history
<1>a. (NeverHalted' <=> NeverHalted) BY DEF NeverHalted
<1>b. Clean' => Clean BY <1>a DEF TypeOK, Clean, NoEmptyPath, Outcomes
<1>1. TypeOK' BY DEF TypeOK, ThreadPlaces
<1>2. Places' BY <1>a DEF Places, Unsent
<1>3. Alone' BY DEF Alone, OverPlaces
<1>4. OneRun' BY <1>a DEF OneRun, OverPlaces
<1>5. StatusTold'
  <2> SUFFICES ASSUME Clean', NEW q \in Runs
               PROVE  /\ place'[q] \in {"send", "sent", "poll", "cleanup", "get", "return"} =>
                           action_status' = Told(q)'
                      /\ place'[q] \in Left => delivered'[q] = "result"
                      /\ place'[q] = "return_success" => server'[q] = "succeeded"
                      /\ place'[q] = "return_failure" => server'[q] # "succeeded"
    BY DEF StatusTold
  <2>1. Clean /\ \A p \in Runs \ {r} : place[p] \in OverPlaces
    BY <1>b DEF Clean, OneRun, Alone, TypeOK, OverPlaces
  <2>2. Told(q)' = Told(q) BY DEF Told
  <2>3. CASE q = r
    <3>1. action_status = Told(r) BY <2>1 DEF StatusTold
    <3>2. ~_halt_requested BY <2>1 DEF Clean, NeverHalted, OneRun, Alone
    <3>3. action_status \notin {"VIRGIN", "PROCESSING"} BY <3>2
    <3>4. delivered[r] \notin {"nothing", "response"} BY <3>1, <3>3 DEF Told
    <3>5. delivered[r] # "half" BY <2>1 DEF Places, Clean, NoEmptyPath
    <3>6. delivered[r] = "result" BY <3>4, <3>5 DEF TypeOK
    <3>7. place'[r] = "cleanup" BY DEF TypeOK
    <3>8. QED BY <2>2, <2>3, <3>1, <3>6, <3>7
  <2>4. CASE q # r
    <3>1. place'[q] = place[q] BY <2>4 DEF TypeOK
    <3>2. QED BY <2>1, <2>2, <3>1 DEF StatusTold
  <2>5. QED BY <2>3, <2>4
<1>6. PathKept' BY <1>b DEF PathKept
<1>7. AnswerIsOwn'
  BY DEF AnswerIsOwn, NeverHalted, NoEmptyPath
<1>8. QED BY <1>1, <1>2, <1>3, <1>4, <1>5, <1>6, <1>7

LEMMA CleanupKeeps == ASSUME IInv, NEW r \in Runs, Cleanup(r) PROVE IInv'
<1> USE DEF IInv, Cleanup, Goto, treeVars, goalVars, pathVars, serverVars, history
<1>0. Runs \subseteq Nat /\ run \in Nat /\ MaxRuns \in Nat /\ run <= MaxRuns
  BY BtActionNodeAssumption
  DEF Runs, TypeOK
<1>u. UNCHANGED <<kind, tree, nodeStatus, run, _halt_requested, action_status, future,
                 returned_path, output, server, cancelAsked, delivered, halted, overlapped>>
  OBVIOUS
<1>a. (NeverHalted' <=> NeverHalted) BY DEF NeverHalted
<1>b. Clean' => Clean BY <1>a DEF TypeOK, Clean, NoEmptyPath, Outcomes
<1>1. TypeOK'
  <2>1. future \in Runs BY DEF Places, Unsent
  <2>2. CASE _halt_requested
    <3>1. place' = [place EXCEPT ![r] = "get"] /\ awaited' = [awaited EXCEPT ![r] = future]
      BY <2>2
    <3>2. /\ place' \in [Runs -> ThreadPlaces] /\ awaited' \in [Runs -> 0..MaxRuns]
          /\ \A q \in Runs : place'[q] = "get" => awaited'[q] \in Runs
      BY <2>1, <3>1 DEF TypeOK, ThreadPlaces
    <3> HIDE DEF Cleanup
    <3>3. QED BY <3>2, <1>u DEF TypeOK
  <2>3. CASE ~_halt_requested
    <3>1. place' = [place EXCEPT ![r] = "return"] /\ awaited' = awaited BY <2>3
    <3>2. /\ place' \in [Runs -> ThreadPlaces] /\ awaited' \in [Runs -> 0..MaxRuns]
          /\ \A q \in Runs : place'[q] = "get" => awaited'[q] \in Runs
      BY <3>1 DEF TypeOK, ThreadPlaces
    <3> HIDE DEF Cleanup
    <3>3. QED BY <3>2, <1>u DEF TypeOK
  <2>4. QED BY <2>2, <2>3
<1>2. Places' BY <1>0, <1>a, <1>b DEF Places, TypeOK, Unsent
<1>3. Alone' BY <1>0, <1>a, <1>b DEF Alone, TypeOK, OverPlaces, Overlaps
<1>4. OneRun' BY <1>a DEF OneRun, OverPlaces
<1>5. StatusTold' BY <1>0, <1>b DEF StatusTold, TypeOK, Left, Told
<1>6. PathKept' BY <1>b DEF PathKept, OneRun, Alone, OverPlaces, Left, Clean
<1>7. AnswerIsOwn'
  BY DEF AnswerIsOwn, NeverHalted, NoEmptyPath
<1>8. QED BY <1>1, <1>2, <1>3, <1>4, <1>5, <1>6, <1>7

LEMMA CancelGoalKeeps == ASSUME IInv, NEW r \in Runs, CancelGoal(r) PROVE IInv'
<1> USE DEF IInv, CancelGoal, Goto, treeVars, goalVars, pathVars, serverVars, history
<1>0. Runs \subseteq Nat /\ run \in Nat /\ MaxRuns \in Nat /\ run <= MaxRuns
  BY BtActionNodeAssumption
  DEF Runs, TypeOK
<1>a. (NeverHalted' <=> NeverHalted) BY DEF NeverHalted
<1>b. Clean' => Clean BY <1>a DEF TypeOK, Clean, NoEmptyPath, Outcomes
<1>1. TypeOK'
  <2>1. awaited[r] \in Runs BY DEF TypeOK
  <2>2. cancelAsked' \subseteq Runs BY <2>1 DEF TypeOK
  <2>3. place' = [place EXCEPT ![r] = "return"] /\ awaited' = [awaited EXCEPT ![r] = 0] OBVIOUS
  <2>4. /\ place' \in [Runs -> ThreadPlaces] /\ awaited' \in [Runs -> 0..MaxRuns]
        /\ \A q \in Runs : place'[q] = "get" => awaited'[q] \in Runs
    BY <1>0, <2>3 DEF TypeOK, ThreadPlaces
  <2>5. /\ UNCHANGED <<kind, nodeStatus, run, _halt_requested, action_status, future,
                       returned_path, output, server, delivered, halted, overlapped>>
        /\ tree' \in {tree, "gone"}
    OBVIOUS
  <2> HIDE DEF CancelGoal
  <2>6. QED BY <2>2, <2>4, <2>5 DEF TypeOK
<1>2. Places' BY <1>a DEF Places, Unsent
<1>3. Alone' BY DEF Alone, TypeOK, OverPlaces
<1>4. OneRun' BY <1>a DEF OneRun, OverPlaces
<1>5. StatusTold' BY DEF StatusTold, OneRun, Alone, Clean, NeverHalted
<1>6. PathKept' BY <1>b DEF PathKept, Left
<1>7. AnswerIsOwn' BY DEF AnswerIsOwn, NeverHalted, NoEmptyPath
<1>8. QED BY <1>1, <1>2, <1>3, <1>4, <1>5, <1>6, <1>7

LEMMA ReadStatusKeeps == ASSUME IInv, NEW r \in Runs, ReadStatus(r) PROVE IInv'
<1> USE DEF IInv, ReadStatus, Goto, treeVars, goalVars, pathVars, serverVars, history
<1>a. (NeverHalted' <=> NeverHalted) BY DEF NeverHalted
<1>b. Clean' => Clean BY <1>a DEF TypeOK, Clean, NoEmptyPath, Outcomes
<1>1. TypeOK' BY DEF TypeOK, ThreadPlaces
<1>2. Places' BY <1>a DEF Places, Unsent
<1>3. Alone' BY DEF Alone, OverPlaces
<1>4. OneRun' BY <1>a DEF OneRun, OverPlaces
<1>5. StatusTold' BY <1>b DEF StatusTold, OneRun, Alone, OverPlaces, Left, Told, Clean
<1>6. PathKept' BY <1>b DEF PathKept, Left
<1>7. AnswerIsOwn'
  BY DEF AnswerIsOwn, NeverHalted, NoEmptyPath
<1>8. QED BY <1>1, <1>2, <1>3, <1>4, <1>5, <1>6, <1>7

LEMMA SetStatusKeeps == ASSUME IInv, NEW r \in Runs, SetStatus(r) PROVE IInv'
<1> USE DEF IInv, SetStatus, Goto, treeVars, goalVars, pathVars, serverVars, history
<1>0. Runs \subseteq Nat /\ run \in Nat /\ MaxRuns \in Nat /\ run <= MaxRuns
  BY BtActionNodeAssumption
  DEF Runs, TypeOK
<1>a. (NeverHalted' <=> NeverHalted) BY DEF NeverHalted
<1>b. Clean' => Clean BY <1>a DEF TypeOK, Clean, NoEmptyPath, Outcomes
<1>1. TypeOK' BY <1>0 DEF TypeOK, ThreadPlaces, Outcomes
<1>2. Places' BY <1>0, <1>a DEF Places, TypeOK, Unsent, Outcomes, Runs
<1>3. Alone' BY <1>0, <1>a, <1>b DEF Alone, TypeOK, OverPlaces
<1>4. OneRun'
  <2> SUFFICES ASSUME NeverHalted'
               PROVE  overlapped' = {} /\ (\A q \in Runs : place'[q] \in OverPlaces) /\ place'[run'] = "done"
    BY DEF OneRun
  <2>1. overlapped = {} /\ r = run /\ \A q \in Runs \ {r} : place[q] \in OverPlaces
    BY <1>a DEF OneRun, Alone, OverPlaces
  <2>2. place' = [place EXCEPT ![r] = "done"] OBVIOUS
  <2>3. QED BY <2>1, <2>2 DEF TypeOK, OverPlaces
<1>5. StatusTold' BY <1>0, <1>b DEF StatusTold, TypeOK, Left, Told
<1>6. AnswerIsOwn'
  BY <1>0, <1>b
  DEF AnswerIsOwn, StatusTold, OneRun, Alone, Places, OverPlaces, Left, Clean
<1>7. PathKept' BY <1>b DEF PathKept, OneRun, Alone, OverPlaces, Left, Clean
<1>8. QED BY <1>1, <1>2, <1>3, <1>4, <1>5, <1>6, <1>7

LEMMA RespondKeeps == ASSUME IInv, NEW r \in Runs, Respond(r) PROVE IInv'
<1> USE DEF IInv, Respond, ServerMoves, treeVars, goalVars, pathVars, serverVars, history
<1>0. Runs \subseteq Nat /\ run \in Nat /\ MaxRuns \in Nat /\ run <= MaxRuns
  BY BtActionNodeAssumption
  DEF Runs, TypeOK
<1>a. (NeverHalted' <=> NeverHalted) BY DEF NeverHalted
<1>b. Clean' => Clean BY <1>a DEF TypeOK, Clean, NoEmptyPath, Outcomes
<1>1. TypeOK'
  <2>1. server' \in [Runs -> {"none", "sent", "rejected", "executing"} \cup Outcomes]
    BY DEF TypeOK
  <2>2. UNCHANGED <<kind, tree, nodeStatus, run, place, _halt_requested, action_status, future,
                    awaited, returned_path, output, cancelAsked, delivered, halted, overlapped>>
    OBVIOUS
  <2> HIDE DEF Respond, ServerMoves
  <2>3. QED BY <2>1, <2>2 DEF TypeOK
<1>2. Places' BY <1>0, <1>a DEF Places, TypeOK, Unsent, Outcomes
<1>3. StatusTold'
  <2> SUFFICES ASSUME Clean', NEW q \in Runs
               PROVE  /\ place'[q] \in {"send", "sent", "poll", "cleanup", "get", "return"} =>
                           action_status' = Told(q)'
                      /\ place'[q] \in Left => delivered'[q] = "result"
                      /\ place'[q] = "return_success" => server'[q] = "succeeded"
                      /\ place'[q] = "return_failure" => server'[q] # "succeeded"
    BY DEF StatusTold
  <2>1. Clean BY <1>b
  <2>2. UNCHANGED <<place, action_status, delivered>> OBVIOUS
  <2>3. CASE q = r
    <3>1. server[r] = "sent" /\ server'[r] # "succeeded" BY DEF TypeOK
    <3>2. delivered[r] = "nothing" BY <3>1 DEF Places, TypeOK, Outcomes
    <3>3. Told(r)' = Told(r) BY <2>2, <3>2 DEF Told
    <3>4. place[r] \notin Left BY <2>1, <3>2 DEF StatusTold
    <3>5. QED BY <2>1, <2>2, <2>3, <3>3, <3>4 DEF StatusTold, Left
  <2>4. CASE q # r
    <3>1. server'[q] = server[q] BY <2>4 DEF TypeOK
    <3>2. Told(q)' = Told(q) BY <2>2, <3>1 DEF Told
    <3>3. QED BY <2>1, <2>2, <3>1, <3>2 DEF StatusTold
  <2>5. QED BY <2>3, <2>4
<1>4. AnswerIsOwn' BY <1>b DEF AnswerIsOwn, TypeOK, Places, Clean, Outcomes
<1>5. PathKept'
  <2>1. server[r] = "sent" /\ delivered[r] # "result" BY DEF Places, Outcomes
  <2>2. \A q \in Runs : server[q] = "succeeded" => server'[q] = "succeeded" BY <2>1 DEF TypeOK
  <2>3. UNCHANGED <<kind, run, place, returned_path, output, delivered>> OBVIOUS
  <2>4. \A q \in Runs : delivered[q] = "result" => server'[q] = server[q] BY <2>1 DEF TypeOK
  <2>5. \A i \in DOMAIN returned_path : returned_path[i] \in Runs BY StreamOfRuns
  <2> HIDE DEF Respond, ServerMoves
  <2>6. QED BY <1>b, <2>2, <2>3, <2>4, <2>5 DEF PathKept
<1>6. Alone' /\ OneRun'
  BY DEF Alone, OneRun, NeverHalted
<1>7. QED BY <1>1, <1>2, <1>3, <1>4, <1>5, <1>6

LEMMA FinishKeeps == ASSUME IInv, NEW r \in Runs, Finish(r) PROVE IInv'
<1> USE DEF IInv, Finish, ServerMoves, treeVars, goalVars, pathVars, serverVars, history
<1>a. (NeverHalted' <=> NeverHalted) BY DEF NeverHalted
<1>b. Clean' => Clean BY <1>a DEF TypeOK, Clean, NoEmptyPath, Outcomes
<1>1. TypeOK' BY DEF TypeOK
<1>2. Places' BY <1>a DEF Places, Outcomes
<1>3. StatusTold' BY <1>b DEF StatusTold, TypeOK, Places, Left, Told, Outcomes
<1>4. AnswerIsOwn' BY <1>b DEF AnswerIsOwn, Clean, Outcomes
<1>5. PathKept'
  <2>1. UNCHANGED <<kind, run, place, returned_path, output, delivered>> OBVIOUS
  <2>2. delivered[r] # "result" BY DEF Places, Outcomes
  <2>3. \A q \in Runs : delivered[q] = "result" => server'[q] = server[q]
    BY <2>2 DEF TypeOK
  <2>4. QED BY <1>b, <2>1, <2>3 DEF PathKept
<1>6. Alone' /\ OneRun'
  BY DEF Alone, OneRun, NeverHalted
<1>7. QED BY <1>1, <1>2, <1>3, <1>4, <1>5, <1>6

LEMMA GoalResponseCallbackKeeps == ASSUME IInv, NEW r \in Runs, GoalResponseCallback(r) PROVE IInv'
<1> USE DEF IInv, GoalResponseCallback, Callback, treeVars, goalVars, pathVars, serverVars, history
<1>0. Runs \subseteq Nat /\ run \in Nat /\ MaxRuns \in Nat /\ run <= MaxRuns
  BY BtActionNodeAssumption
  DEF Runs, TypeOK
<1>a. (NeverHalted' <=> NeverHalted) BY DEF NeverHalted
<1>b. Clean' => Clean BY <1>a DEF TypeOK, Clean, NoEmptyPath, Outcomes
<1>1. TypeOK'
  <2>1. delivered' \in [Runs -> {"nothing", "response", "half", "result"}] /\ action_status' \in ActionStatus
    BY DEF TypeOK, ActionStatus
  <2>2. UNCHANGED <<kind, tree, nodeStatus, run, place, _halt_requested, future, awaited,
                    output, server, cancelAsked, halted, overlapped>>
    OBVIOUS
  <2>3. returned_path' \in Seq(Runs)
    <3>1. returned_path \in Seq(Runs) BY DEF TypeOK
    <3>2. Append(returned_path, r) \in Seq(Runs) BY <3>1
    <3>3. QED BY <3>1, <3>2
  <2> HIDE DEF GoalResponseCallback, Callback
  <2>4. QED BY <2>1, <2>2, <2>3 DEF TypeOK
<1>2. Places'
  <2>1. UNCHANGED <<kind, tree, nodeStatus, run, place, future, server, halted>> OBVIOUS
  <2>2. \A q \in Runs \ {r} : delivered'[q] = delivered[q] BY DEF TypeOK
  <2>3. /\ delivered'[r] = "response" => server[r] \in {"executing"} \cup Outcomes
        /\ delivered'[r] = "half" => kind = "ComputePathToPose" /\ server[r] = "succeeded_for_nothing"
        /\ delivered'[r] = "result" => server[r] \in {"rejected"} \cup Outcomes
    BY DEF TypeOK, Outcomes
  <2> HIDE DEF GoalResponseCallback, Callback
  <2>4. QED BY <1>a, <2>1, <2>2, <2>3 DEF Places
<1>3. StatusTold'
  <2> SUFFICES ASSUME Clean', NEW q \in Runs
               PROVE  /\ place'[q] \in {"send", "sent", "poll", "cleanup", "get", "return"} =>
                           action_status' = Told(q)'
                      /\ place'[q] \in Left => delivered'[q] = "result"
                      /\ place'[q] = "return_success" => server'[q] = "succeeded"
                      /\ place'[q] = "return_failure" => server'[q] # "succeeded"
    BY DEF StatusTold
  <2>1. Clean /\ UNCHANGED <<place, server>> BY <1>b
  <2>2. /\ server[r] # "none" /\ delivered[r] # "result" BY DEF Outcomes
  <2>3. place[r] \in {"sent", "poll"}
    BY <2>1, <2>2 DEF StatusTold, Places, TypeOK, ThreadPlaces, Unsent, Left
  <2>4. CASE q = r
    <3>1. action_status' = Told(r)' BY <2>1 DEF Told, TypeOK
    <3>2. QED BY <2>1, <2>3, <2>4, <3>1 DEF Left
  <2>5. CASE q # r
    <3>1. place[q] \in OverPlaces /\ delivered'[q] = delivered[q]
      BY <2>1, <2>3, <2>5 DEF Clean, OneRun, Alone, OverPlaces, TypeOK
    <3>2. QED BY <2>1, <3>1 DEF StatusTold, Left, OverPlaces
  <2>6. QED BY <2>4, <2>5
<1>4. PathKept'
  BY <1>0, <1>b
  DEF PathKept, TypeOK, OneRun, Alone, OverPlaces, Left, Clean, Outcomes
<1>5. Alone' /\ OneRun' /\ AnswerIsOwn'
  BY DEF Alone, OneRun, NeverHalted, AnswerIsOwn, NoEmptyPath
<1>6. QED BY <1>1, <1>2, <1>3, <1>4, <1>5

LEMMA ResultCallbackKeeps == ASSUME IInv, NEW r \in Runs, ResultCallback(r) PROVE IInv'
<1> USE DEF IInv, ResultCallback, Callback, treeVars, goalVars, pathVars, serverVars, history
<1>0. Runs \subseteq Nat /\ run \in Nat /\ MaxRuns \in Nat /\ run <= MaxRuns
  BY BtActionNodeAssumption
  DEF Runs, TypeOK
<1>a. (NeverHalted' <=> NeverHalted) BY DEF NeverHalted
<1>b. Clean' => Clean BY <1>a DEF TypeOK, Clean, NoEmptyPath, Outcomes
<1>1. TypeOK'
  <2>1. delivered' \in [Runs -> {"nothing", "response", "half", "result"}] /\ action_status' \in ActionStatus
    BY DEF TypeOK, ActionStatus
  <2>2. UNCHANGED <<kind, tree, nodeStatus, run, place, _halt_requested, future, awaited,
                    output, server, cancelAsked, halted, overlapped>>
    OBVIOUS
  <2>3. returned_path' \in Seq(Runs)
    <3>1. returned_path \in Seq(Runs) BY DEF TypeOK
    <3>2. Append(returned_path, r) \in Seq(Runs) BY <3>1
    <3>3. QED BY <3>1, <3>2
  <2> HIDE DEF ResultCallback, Callback
  <2>4. QED BY <2>1, <2>2, <2>3 DEF TypeOK
<1>2. Places'
  <2>1. UNCHANGED <<kind, tree, nodeStatus, run, place, future, server, halted>> OBVIOUS
  <2>2. \A q \in Runs \ {r} : delivered'[q] = delivered[q] BY DEF TypeOK
  <2>3. /\ delivered'[r] = "response" => server[r] \in {"executing"} \cup Outcomes
        /\ delivered'[r] = "half" => kind = "ComputePathToPose" /\ server[r] = "succeeded_for_nothing"
        /\ delivered'[r] = "result" => server[r] \in {"rejected"} \cup Outcomes
    BY DEF TypeOK, Outcomes
  <2> HIDE DEF ResultCallback, Callback
  <2>4. QED BY <1>a, <2>1, <2>2, <2>3 DEF Places
<1>3. StatusTold'
  <2> SUFFICES ASSUME Clean', NEW q \in Runs
               PROVE  /\ place'[q] \in {"send", "sent", "poll", "cleanup", "get", "return"} =>
                           action_status' = Told(q)'
                      /\ place'[q] \in Left => delivered'[q] = "result"
                      /\ place'[q] = "return_success" => server'[q] = "succeeded"
                      /\ place'[q] = "return_failure" => server'[q] # "succeeded"
    BY DEF StatusTold
  <2>1. Clean /\ UNCHANGED <<place, server>> BY <1>b
  <2>2. /\ server[r] # "none" /\ delivered[r] # "result" BY DEF Outcomes
  <2>3. place[r] \in {"sent", "poll"}
    BY <2>1, <2>2 DEF StatusTold, Places, TypeOK, ThreadPlaces, Unsent, Left
  <2>4. CASE q = r
    <3>1. action_status' = Told(r)' 
      <4>1. \/ server[r] = "succeeded" /\ action_status' = "SUCCEEDED" /\ delivered'[r] = "result"
            \/ /\ server[r] = "succeeded_for_nothing" /\ action_status' = "FAILED"
               /\ delivered'[r] \in {"half", "result"}
            \/ server[r] = "aborted" /\ action_status' = "ABORTED" /\ delivered'[r] = "result"
            \/ server[r] = "canceled" /\ action_status' = "CANCELED" /\ delivered'[r] = "result"
        BY DEF TypeOK
      <4>2. QED BY <2>1, <4>1 DEF Told
    <3>2. QED BY <2>1, <2>3, <2>4, <3>1 DEF Left
  <2>5. CASE q # r
    <3>1. place[q] \in OverPlaces /\ delivered'[q] = delivered[q]
      BY <2>1, <2>3, <2>5 DEF Clean, OneRun, Alone, OverPlaces, TypeOK
    <3>2. QED BY <2>1, <3>1 DEF StatusTold, Left, OverPlaces
  <2>6. QED BY <2>4, <2>5
<1>4. PathKept'
  <2> SUFFICES ASSUME Clean', kind' = "ComputePathToPose" PROVE PathKept'
    BY DEF PathKept
  <2>1. Clean /\ kind = "ComputePathToPose" /\ UNCHANGED <<kind, run, place, output, server>>
    BY <1>b
  <2>2. server[r] # "none" /\ delivered[r] = "response" /\ delivered' \in [Runs -> {"nothing", "response", "half", "result"}]
    BY DEF Outcomes, TypeOK
  <2>3. place[r] \in {"sent", "poll"}
    BY <2>1, <2>2 DEF StatusTold, Places, TypeOK, ThreadPlaces, Unsent, Left
  <2>4. r = run BY <2>1, <2>3 DEF Clean, OneRun, Alone, OverPlaces
  <2>5. \A i \in DOMAIN returned_path : returned_path[i] \in Nat /\ returned_path[i] < run
    <3>1. \A i \in DOMAIN returned_path : returned_path[i] \in Nat BY <1>0, StreamOfRuns
    <3>2. \A i \in DOMAIN returned_path : returned_path[i] <= run /\ returned_path[i] # run
      BY <2>1, <2>2, <2>4 DEF PathKept
    <3>3. QED BY <1>0, <3>1, <3>2
  <2>6. CASE server[r] = "succeeded"
    <3>1. returned_path' = Append(returned_path, r) /\ delivered'[r] = "result"
      BY <2>1, <2>6 DEF TypeOK, Outcomes
    <3>2. returned_path \in Seq(Runs) BY DEF TypeOK
    <3>3. /\ Len(returned_path') = Len(returned_path) + 1 /\ Len(returned_path) \in Nat
          /\ DOMAIN returned_path = 1..Len(returned_path)
          /\ DOMAIN returned_path' = 1..(Len(returned_path) + 1)
          /\ \A i \in DOMAIN returned_path : returned_path'[i] = returned_path[i]
          /\ returned_path'[Len(returned_path) + 1] = r
      BY <3>1, <3>2
    <3> HIDE DEF ResultCallback, Callback
    <3>4. \A i, j \in DOMAIN returned_path' : i < j => returned_path'[i] < returned_path'[j]
      BY <1>0, <2>1, <2>4, <2>5, <3>3 DEF PathKept
    <3>5. \A i \in DOMAIN returned_path' : returned_path'[i] <= run /\ server[returned_path'[i]] = "succeeded"
      BY <1>0, <2>1, <2>4, <2>5, <2>6, <3>3 DEF PathKept
    <3>6. returned_path' # <<>> BY <3>3
    <3>7. QED BY <2>1, <2>3, <2>4, <3>1, <3>3, <3>4, <3>5, <3>6 DEF PathKept, Left
  <2>7. CASE server[r] # "succeeded"
    <3>1. returned_path' = returned_path BY <2>7
    <3>2. QED BY <1>0, <2>1, <2>3, <2>4, <2>5, <2>7, <3>1 DEF PathKept, Left
  <2>8. QED BY <2>6, <2>7
<1>5. Alone' /\ OneRun' /\ AnswerIsOwn'
  BY DEF Alone, OneRun, NeverHalted, AnswerIsOwn, NoEmptyPath
<1>6. QED BY <1>1, <1>2, <1>3, <1>4, <1>5

LEMMA ResultFallsThroughKeeps == ASSUME IInv, NEW r \in Runs, ResultFallsThrough(r) PROVE IInv'
<1> USE DEF IInv, ResultFallsThrough, Callback, treeVars, goalVars, pathVars, serverVars, history
<1>a. (NeverHalted' <=> NeverHalted) BY DEF NeverHalted
<1>b. Clean' => Clean BY <1>a DEF TypeOK, Clean, NoEmptyPath, Outcomes
<1>1. TypeOK' BY DEF TypeOK, ActionStatus
<1>2. Places' BY <1>a DEF Places, Outcomes
<1>3. StatusTold'
  <2>1. kind = "ComputePathToPose" /\ server[r] = "succeeded_for_nothing" /\ server' = server /\ kind' = kind
    BY DEF Places
  <2>2. ~Clean' BY <2>1 DEF Clean, NoEmptyPath
  <2>3. QED BY <2>2 DEF StatusTold
<1>4. PathKept' BY <1>b DEF PathKept, Places
<1>5. Alone' /\ OneRun' /\ AnswerIsOwn'
  BY DEF Alone, OneRun, NeverHalted, AnswerIsOwn, NoEmptyPath
<1>6. QED BY <1>1, <1>2, <1>3, <1>4, <1>5

-----------------------------------------------------------------------------
LEMMA Inductive == Init /\ [][Next]_vars => []IInv
<1>1. ASSUME IInv, UNCHANGED vars PROVE IInv'
  <2> USE <1>1 DEF vars, treeVars, goalVars, pathVars, serverVars, history
  <2>1. TypeOK' /\ Places' BY DEF IInv, TypeOK, Places, NeverHalted
  <2>2. Alone' /\ OneRun'
    BY DEF IInv, Alone, OneRun, NeverHalted
  <2>3. StatusTold' /\ AnswerIsOwn' /\ PathKept'
    BY DEF IInv, StatusTold, Told, AnswerIsOwn, PathKept, Clean, NeverHalted, NoEmptyPath
  <2>4. QED BY <2>1, <2>2, <2>3 DEF IInv
<1>2. IInv /\ [Next]_vars => IInv'
  BY <1>1, TickKeeps, StartedKeeps, RethrowKeeps, CollectKeeps,
     HaltKeeps, HaltStatusKeeps, HaltChildKeeps, BeginKeeps,
     InputMissingKeeps, SendKeeps, ClearHaltKeeps, LeaveLoopKeeps,
     CleanupKeeps, CancelGoalKeeps, ReadStatusKeeps, SetStatusKeeps,
     RespondKeeps, FinishKeeps, GoalResponseCallbackKeeps, ResultCallbackKeeps,
     ResultFallsThroughKeeps
  DEF Next, TreeThread, TickThread, Callbacks
<1>3. QED BY <1>2, Initially, PTL

(* Every variable keeps its type. *)
THEOREM TypeCorrect == Spec => []TypeOK
BY Inductive, PTL DEF Spec, IInv

(* A planned path that can be read is the one computed for the run, and that   *)
(* of the first run to succeed can be: the stream holds nothing else then      *)
(* (compute_path_to_pose.cpp:71, 156).                                         *)
THEOREM OwnPathHandedOn == Spec => []HandsOnOwnPath
<1>1. ASSUME IInv PROVE HandsOnOwnPath
  <2> SUFFICES ASSUME Clean, kind = "ComputePathToPose", nodeStatus = "SUCCESS"
               PROVE  /\ Len(output) = 1 => output = <<run>>
                      /\ (\A q \in Runs : q < run => server[q] # "succeeded") => Len(output) = 1
    BY DEF HandsOnOwnPath, Clean, Readable
  <2>1. run \in Runs BY <1>1 DEF IInv, Places
  <2>2. server[run] = "succeeded" BY <1>1 DEF IInv, AnswerIsOwn, Clean
  <2>3. place[run] = "done" BY <1>1 DEF IInv, OneRun, Clean
  <2>4. delivered[run] = "result" BY <1>1, <2>1, <2>3 DEF IInv, StatusTold, Left
  <2>5. output = returned_path BY <1>1, <2>1, <2>3 DEF IInv, PathKept, Left
  <2>6. /\ output # <<>> /\ output[Len(output)] = run
        /\ \A i, j \in DOMAIN output : i < j => output[i] < output[j]
        /\ \A i \in DOMAIN output : output[i] <= run /\ server[output[i]] = "succeeded"
    BY <1>1, <2>1, <2>2, <2>4, <2>5 DEF IInv, PathKept
  <2>7. output \in Seq(Runs) /\ \A i \in DOMAIN output : output[i] \in Runs
    BY <1>1, <2>5, StreamOfRuns DEF IInv, TypeOK
  <2>8. Len(output) \in Nat \ {0} /\ DOMAIN output = 1..Len(output) BY <2>6, <2>7
  <2>9. ASSUME Len(output) = 1 PROVE output = <<run>> BY <2>6, <2>7, <2>8, <2>9
  <2>10. ASSUME \A q \in Runs : q < run => server[q] # "succeeded", Len(output) # 1 PROVE FALSE
    <3>1. Runs \subseteq Nat BY BtActionNodeAssumption DEF Runs
    <3>2. 1 \in DOMAIN output /\ Len(output) \in DOMAIN output /\ 1 < Len(output)
      BY <2>8, <2>10
    <3>3. output[1] \in Runs /\ output[1] < run /\ server[output[1]] = "succeeded"
      BY <2>6, <2>7, <3>2
    <3>4. QED BY <2>10, <3>3
  <2>11. QED BY <2>9, <2>10
<1>2. QED BY <1>1, Inductive, PTL DEF Spec

-----------------------------------------------------------------------------
(* What an undisturbed run has been told.  All the runs before it are over,    *)
(* and nothing of their goals is still to come; so action_status says whether  *)
(* its own goal has ended, except that a halt may say so before.               *)

Awaiting == {"VIRGIN", "PROCESSING"}

Delivered(r) == delivered[r] \in {"half", "result"}

Heard ==
  run \in Runs /\ Undisturbed(run) =>
    /\ overlapped = {}
    /\ \A q \in Runs : q < run => place[q] = "done" /\ delivered[q] = "result"
    /\ place[run] # "begin" /\ Delivered(run) => action_status \notin Awaiting
    /\ halted[run] = "none" /\ place[run] \in {"send", "sent", "poll"} /\ ~Delivered(run) =>
         action_status \in Awaiting
    /\ halted[run] = "none" /\ place[run] \in Left => Delivered(run)

LastRun ==
  /\ run \in Runs => place[run] # "none"
  /\ \A q \in Runs : q > run => halted[q] = "none"

(* The polling loop of an undisturbed run finds its condition false as soon as *)
(* the callbacks have brought the end of its goal.                             *)
LoopEnds ==
  \A r \in Runs :
    r = run /\ Undisturbed(r) /\ place[r] = "poll" /\ Delivered(r) => action_status \notin Awaiting

LEMMA RunsAreNumbers == Runs \subseteq Nat /\ (TypeOK => run \in Nat)
BY BtActionNodeAssumption DEF Runs, TypeOK

(* No other run has anything left to do. *)
LEMMA OthersAreOver ==
  ASSUME IInv, Heard, run \in Runs, Undisturbed(run), NEW r \in Runs, r # run
  PROVE  /\ place[r] \in {"none", "done"}
         /\ delivered[r] = "result" \/ server[r] = "none"
<1>1. r < run \/ r > run BY RunsAreNumbers DEF IInv
<1>2. QED BY <1>1 DEF Heard, IInv, Places, Unsent

LEMMA TickHeard == ASSUME IInv, Heard, LastRun, Tick PROVE Heard' /\ LastRun'
<1> USE DEF Tick
<1>0. TypeOK /\ run \in Nat /\ run + 1 \in Runs /\ Runs \subseteq Nat
  BY BtActionNodeAssumption DEF Runs, TypeOK, IInv
<1>1. /\ run' = run + 1 /\ place'[run + 1] = "begin"
      /\ \A q \in Runs : q # run + 1 => place'[q] = place[q]
      /\ UNCHANGED <<kind, server, delivered, halted>>
  BY <1>0 DEF TypeOK, serverVars
<1>2. LastRun' BY <1>0, <1>1 DEF LastRun
<1>3. ASSUME Undisturbed(run)'
      PROVE  overlapped = {} /\ \A q \in Runs : q < run + 1 => place[q] = "done" /\ delivered[q] = "result"
  <2>1. \A q \in Runs : q < run + 1 =>
          halted[q] = "none" /\ (kind = "ComputePathToPose" => server[q] # "succeeded_for_nothing")
    BY <1>1, <1>3 DEF Undisturbed
  <2>2. NeverHalted BY <1>0, <2>1 DEF LastRun, NeverHalted
  <2>3. overlapped = {} /\ \A q \in Runs : place[q] \in {"none", "done"}
    BY <2>2 DEF IInv, OneRun, OverPlaces, Threw
  <2>4. ASSUME NEW q \in Runs, q < run + 1 PROVE place[q] = "done" /\ delivered[q] = "result"
    <3>1. run \in Runs
      <4>1. q \in Nat /\ q >= 1 /\ MaxRuns \in Nat BY <2>4, BtActionNodeAssumption DEF Runs
      <4>2. run >= 1 /\ run + 1 <= MaxRuns BY <1>0, <2>4, <4>1 DEF Runs
      <4>3. QED BY <1>0, <4>1, <4>2 DEF Runs
    <3>2. Undisturbed(run) BY <1>0, <2>1 DEF Undisturbed
    <3>3. CASE q < run BY <3>1, <3>2, <3>3 DEF Heard
    <3>4. CASE q = run
      <4>1. place[run] = "done" BY <2>3, <3>1 DEF LastRun
      <4>2. Delivered(run) BY <2>2, <3>1, <3>2, <4>1 DEF Heard, Left, NeverHalted
      <4>3. delivered[run] # "half" BY <1>0, <2>1, <3>1 DEF IInv, Places
      <4>4. QED BY <3>4, <4>1, <4>2, <4>3 DEF Delivered
    <3>5. QED BY <1>0, <2>4, <3>3, <3>4
  <2>5. QED BY <2>3, <2>4
<1>4. ASSUME Undisturbed(run)' PROVE overlapped' = {}
  <2>1. ~Overlaps(run + 1) BY <1>3, <1>4 DEF Overlaps, OverPlaces
  <2>2. QED BY <1>3, <1>4, <2>1
<1>5. ASSUME Undisturbed(run)'
      PROVE  \A q \in Runs : q < run' => place'[q] = "done" /\ delivered'[q] = "result"
  <2>1. \A q \in Runs : q < run + 1 => q # run + 1 BY <1>0
  <2>2. QED BY <1>1, <1>3, <1>5, <2>1
<1>6. place'[run'] = "begin" BY <1>1
<1> HIDE DEF Tick
<1>7. Heard' BY <1>4, <1>5, <1>6 DEF Heard, Left
<1>8. QED BY <1>2, <1>7

LEMMA TreeHeard ==
  ASSUME IInv, Heard, LastRun, Started \/ Rethrow \/ Collect \/ Halt \/ HaltStatus \/ HaltChild
  PROVE  Heard' /\ LastRun'
<1>0. TypeOK /\ run \in Nat /\ Runs \subseteq Nat BY RunsAreNumbers DEF IInv
<1>1. UNCHANGED <<kind, run, place, server, delivered, overlapped>>
  BY DEF Started, Rethrow, Collect, Halt, HaltStatus, HaltChild, serverVars, history
<1>2. CASE Halt
  <2>1. run \in Runs /\ UNCHANGED action_status BY <1>2 DEF Halt, IInv, Places
  <2>2. /\ halted'[run] # "none"
        /\ \A q \in Runs : q # run => halted'[q] = halted[q]
    BY <1>0, <1>2, <2>1 DEF Halt, HaltedAt, TypeOK
  <2>3. LastRun' BY <1>0, <1>1, <2>2 DEF LastRun
  <2>4. Undisturbed(run)' => Undisturbed(run) BY <1>0, <1>1, <2>2 DEF Undisturbed
  <2>5. QED BY <1>1, <2>1, <2>2, <2>3, <2>4 DEF Heard, Delivered
<1>3. CASE HaltStatus
  <2>1. action_status' = "CANCELED" /\ UNCHANGED halted /\ ~NeverHalted
    BY <1>3 DEF HaltStatus, history, IInv, Places
  <2>2. LastRun' BY <1>1, <2>1 DEF LastRun
  <2>3. Undisturbed(run)' => Undisturbed(run) BY <1>1, <2>1 DEF Undisturbed
  <2>4. Undisturbed(run) => halted[run] # "none"
    <3>1. PICK q \in Runs : halted[q] # "none" BY <2>1 DEF NeverHalted
    <3>2. ~(q > run) BY <3>1 DEF LastRun
    <3>3. Undisturbed(run) => ~(q < run) BY <3>1 DEF Undisturbed
    <3>4. QED BY <1>0, <3>1, <3>2, <3>3
  <2>5. QED BY <1>1, <2>1, <2>2, <2>3, <2>4 DEF Heard, Delivered, Awaiting
<1>4. CASE Started \/ Rethrow \/ Collect \/ HaltChild
  <2>1. UNCHANGED <<action_status, halted>>
    BY <1>4 DEF Started, Rethrow, Collect, HaltChild, history
  <2>2. QED BY <1>1, <2>1 DEF Heard, LastRun, Delivered, Undisturbed
<1>5. QED BY <1>2, <1>3, <1>4

LEMMA TickThreadHeard ==
  ASSUME IInv, Heard, LastRun, NEW r \in Runs, TickThread(r) PROVE Heard' /\ LastRun'
<1> USE DEF Goto
<1>0. TypeOK /\ run \in Nat /\ Runs \subseteq Nat BY RunsAreNumbers DEF IInv
<1>1. /\ UNCHANGED <<kind, run, delivered, halted, overlapped>>
      /\ place[r] \notin {"none", "done", "threw"}
  BY DEF TickThread, Begin, InputMissing, Send, ClearHalt, LeaveLoop, Cleanup, CancelGoal,
         ReadStatus, SetStatus, treeVars, serverVars, history
<1>2. PICK p \in ThreadPlaces \ {"none", "begin"} : place' = [place EXCEPT ![r] = p]
  BY DEF TickThread, Begin, InputMissing, Send, ClearHalt, LeaveLoop, Cleanup, CancelGoal,
         ReadStatus, SetStatus, ThreadPlaces
<1>3. \A q \in Runs : server'[q] = server[q] \/ server[q] = "none"
  BY <1>0 DEF TickThread, Begin, InputMissing, Send, ClearHalt, LeaveLoop, Cleanup, CancelGoal,
         ReadStatus, SetStatus, serverVars, IInv, Places, Unsent, TypeOK
<1>4. LastRun' BY <1>0, <1>1, <1>2 DEF LastRun, TypeOK
<1>5. Undisturbed(run)' => Undisturbed(run) BY <1>1, <1>3 DEF Undisturbed
<1> SUFFICES ASSUME run \in Runs, Undisturbed(run) PROVE Heard'
  BY <1>1, <1>4, <1>5 DEF Heard
<1>6. r = run BY <1>1, OthersAreOver
<1>7. place'[run] = p /\ \A q \in Runs : q # run => place'[q] = place[q]
  BY <1>0, <1>2, <1>6 DEF TypeOK
<1>8. /\ overlapped' = {}
      /\ \A q \in Runs : q < run' => place'[q] = "done" /\ delivered'[q] = "result"
  BY <1>0, <1>1, <1>7 DEF Heard
<1> DEFINE Told1 == place'[run] # "begin" /\ Delivered(run)' => action_status' \notin Awaiting
           Told2 == /\ halted'[run] = "none" /\ place'[run] \in {"send", "sent", "poll"}
                    /\ ~Delivered(run)'
                    => action_status' \in Awaiting
           Told3 == halted'[run] = "none" /\ place'[run] \in Left => Delivered(run)'
<1> SUFFICES Told1 /\ Told2 /\ Told3
  BY <1>1, <1>8 DEF Heard
<1>9. (Delivered(run)' <=> Delivered(run)) /\ UNCHANGED halted BY <1>1 DEF Delivered
<1>10. CASE Begin(r) \/ InputMissing(r)
  <2>1. place[run] = "begin" /\ action_status' = "VIRGIN" /\ p \in {"send", "threw"}
    BY <1>0, <1>6, <1>7, <1>10 DEF Begin, InputMissing, TypeOK
  <2>2. ~Delivered(run)
    BY <1>6, <2>1 DEF Delivered, IInv, Places, Unsent, Outcomes
  <2>3. QED BY <1>7, <1>9, <2>1, <2>2 DEF Awaiting, Left
<1>11. CASE Send(r) \/ ClearHalt(r)
  <2>1. place[run] \in {"send", "sent"} /\ p \in {"sent", "poll"} /\ UNCHANGED action_status
    BY <1>0, <1>6, <1>7, <1>11 DEF Send, ClearHalt, TypeOK
  <2>2. QED BY <1>7, <1>9, <2>1 DEF Heard, Left
<1>12. CASE LeaveLoop(r)
  <2>1. /\ place[run] = "poll" /\ p = "cleanup" /\ UNCHANGED action_status
        /\ _halt_requested \/ action_status \notin Awaiting
    BY <1>0, <1>6, <1>7, <1>12 DEF LeaveLoop, TypeOK, Awaiting
  <2>2. _halt_requested => halted[run] # "none" BY <2>1 DEF Heard, IInv, Alone
  <2>3. QED BY <1>7, <1>9, <2>1, <2>2 DEF Heard
<1>13. CASE Cleanup(r) \/ CancelGoal(r) \/ ReadStatus(r) \/ SetStatus(r)
  <2>1. place[run] \in Left /\ p \in Left /\ UNCHANGED action_status
    BY <1>0, <1>6, <1>7, <1>13 DEF Cleanup, CancelGoal, ReadStatus, SetStatus, Left, TypeOK
  <2>2. QED BY <1>7, <1>9, <2>1 DEF Heard, Left
<1>14. QED BY <1>10, <1>11, <1>12, <1>13 DEF TickThread

LEMMA ServerHeard ==
  ASSUME IInv, Heard, LastRun, NEW r \in Runs, Respond(r) \/ Finish(r) PROVE Heard' /\ LastRun'
<1>1. PICK to : ServerMoves(r, server[r], to) /\ server[r] \in {"sent", "executing"}
  BY DEF Respond, Finish, ServerMoves
<1>2. UNCHANGED <<kind, run, place, action_status, delivered, halted, overlapped>>
  BY <1>1 DEF ServerMoves, treeVars, history
<1>3. \A q \in Runs : server'[q] = server[q] \/ server[q] \in {"sent", "executing"}
  BY <1>1 DEF ServerMoves, IInv, TypeOK
<1>4. Undisturbed(run)' => Undisturbed(run) BY <1>2, <1>3 DEF Undisturbed
<1>5. QED BY <1>2, <1>4 DEF Heard, LastRun, Delivered

LEMMA CallbackHeard ==
  ASSUME IInv, Heard, LastRun, NEW r \in Runs, Callbacks(r) PROVE Heard' /\ LastRun'
<1>1. PICK from, to, status : Callback(r, from, to, status)
  BY DEF Callbacks, GoalResponseCallback, ResultCallback, ResultFallsThrough
<1>2. UNCHANGED <<kind, run, place, server, halted, overlapped>>
  BY <1>1 DEF Callback, treeVars, history
<1>3. /\ delivered[r] \in {"nothing", "response", "half"} /\ server[r] # "none"
      /\ \/ Delivered(r)' /\ action_status' \notin Awaiting
         \/ ~Delivered(r)' /\ ~Delivered(r) /\ action_status' \in Awaiting
  BY DEF Callbacks, GoalResponseCallback, ResultCallback, ResultFallsThrough, Callback,
         Outcomes, IInv, TypeOK, Places, Delivered, Awaiting
<1>4. LastRun' BY <1>2 DEF LastRun
<1>5. Undisturbed(run)' => Undisturbed(run) BY <1>2 DEF Undisturbed
<1> SUFFICES ASSUME run \in Runs, Undisturbed(run) PROVE Heard'
  BY <1>2, <1>4, <1>5 DEF Heard
<1>6. r = run BY <1>3, OthersAreOver
<1>7. \A q \in Runs : q # run => delivered'[q] = delivered[q]
  BY <1>1, <1>6 DEF Callback, IInv, TypeOK
<1>8. \A q \in Runs : q < run => place'[q] = "done" /\ delivered'[q] = "result"
  BY <1>2, <1>7, RunsAreNumbers DEF Heard, IInv
<1>9. QED BY <1>2, <1>3, <1>6, <1>8 DEF Heard, Delivered

LEMMA AlwaysHeard == Init /\ [][Next]_vars => [](Heard /\ LastRun)
<1>1. Init => Heard /\ LastRun
  BY BtActionNodeAssumption DEF Init, Heard, LastRun, Runs
<1>2. Heard /\ LastRun /\ UNCHANGED vars => Heard' /\ LastRun'
  BY DEF vars, treeVars, serverVars, history, Heard, LastRun, Delivered, Undisturbed
<1>3. IInv /\ Heard /\ LastRun /\ [Next]_vars => Heard' /\ LastRun'
  BY <1>2, TickHeard, TreeHeard, TickThreadHeard, ServerHeard, CallbackHeard DEF Next, TreeThread
<1>4. QED BY Inductive, <1>1, <1>3, PTL

(* The loop of tick() (follow_path.cpp:71) does not go on after the result of  *)
(* its goal has come in, whatever the goal ended with and however many runs     *)
(* there were: no callback of an earlier goal writes PROCESSING over it.  A     *)
(* run that was disturbed is excused, and has to be.                            *)
THEOREM LoopIsLeft == Spec => []LoopEnds
<1>1. Heard => LoopEnds BY DEF Heard, LoopEnds
<1>2. QED BY AlwaysHeard, <1>1, PTL DEF Spec

-----------------------------------------------------------------------------
(* Where a SUCCESS comes from: of some goal that succeeded, always, and of the *)
(* run's own if the run is undisturbed.                                        *)

Real ==
  \/ action_status = "SUCCEEDED" \/ nodeStatus = "SUCCESS"
  \/ \E r \in Runs : place[r] = "return_success"
  => \E q \in Runs : Succeeded(q)

OwnSuccess ==
  run \in Runs /\ Undisturbed(run) =>
    /\ place[run] # "begin" /\ action_status = "SUCCEEDED" => Succeeded(run)
    /\ place[run] = "return_success" => Succeeded(run)
    /\ nodeStatus = "SUCCESS" => Succeeded(run)

(* A goal that has succeeded stays so. *)
LEMMA SucceededStays ==
  ASSUME IInv, [Next]_vars, NEW q \in Runs, Succeeded(q) PROVE Succeeded(q)'
<1>1. UNCHANGED kind
  BY DEF Next, TreeThread, Tick, Started, Rethrow, Collect, Halt, HaltStatus, HaltChild,
         TickThread, Begin, InputMissing, Send, ClearHalt, LeaveLoop, Cleanup, CancelGoal,
         ReadStatus, SetStatus, Respond, Finish, ServerMoves, Callbacks, GoalResponseCallback,
         ResultCallback, ResultFallsThrough, Callback, vars, treeVars
<1>2. server'[q] = server[q] \/ server[q] \in {"none", "sent", "executing"}
  <2>1. CASE \E r \in Runs : Send(r)
    <3>1. PICK r \in Runs : Send(r) BY <2>1
    <3>2. server[r] = "none" BY <3>1 DEF Send, Goto, IInv, Places, Unsent
    <3>3. QED BY <3>1, <3>2 DEF Send, IInv, TypeOK
  <2>2. CASE \E r \in Runs : Respond(r) \/ Finish(r)
    BY <2>2 DEF Respond, Finish, ServerMoves, IInv, TypeOK
  <2>3. CASE ~\E r \in Runs : Send(r) \/ Respond(r) \/ Finish(r)
    <3>1. UNCHANGED server
      BY <2>3 DEF Next, TreeThread, Tick, Started, Rethrow, Collect, Halt, HaltStatus, HaltChild,
           TickThread, Begin, InputMissing, ClearHalt, LeaveLoop, Cleanup, CancelGoal,
           ReadStatus, SetStatus, Callbacks, GoalResponseCallback,
           ResultCallback, ResultFallsThrough, Callback, vars, serverVars
    <3>2. QED BY <3>1
  <2>4. QED BY <2>1, <2>2, <2>3
<1>3. QED BY <1>1, <1>2 DEF Succeeded

LEMMA TreeSucceeds == ASSUME IInv, Heard, Real, OwnSuccess, TreeThread PROVE Real' /\ OwnSuccess'
<1>1. \A q \in Runs : Succeeded(q) => Succeeded(q)' BY SucceededStays DEF Next
<1>2. TypeOK /\ run \in Nat /\ Runs \subseteq Nat BY RunsAreNumbers DEF IInv
<1>3. /\ action_status' = "SUCCEEDED" => action_status = "SUCCEEDED"
      /\ nodeStatus' = "SUCCESS" => nodeStatus = "SUCCESS"
      /\ \A r \in Runs : place'[r] = "return_success" => place[r] = "return_success"
  BY <1>2 DEF TreeThread, Tick, Started, Rethrow, Collect, Halt, HaltStatus, HaltChild, TypeOK
<1>4. Real' BY <1>1, <1>3 DEF Real
<1>5. CASE Tick
  <2>1. run' = run + 1 /\ run + 1 \in Runs /\ nodeStatus' = "RUNNING"
        /\ place' = [place EXCEPT ![run + 1] = "begin"]
    BY <1>2, <1>5, BtActionNodeAssumption DEF Tick, TypeOK, Runs
  <2>2. place'[run'] = "begin" BY <1>2, <2>1 DEF TypeOK
  <2>3. QED BY <1>4, <2>1, <2>2 DEF OwnSuccess
<1>6. CASE ~Tick
  <2>1. UNCHANGED <<kind, run, place, server>> /\ \A q \in Runs : q < run => halted'[q] = halted[q]
    BY <1>2, <1>6
    DEF TreeThread, Started, Rethrow, Collect, Halt, HaltStatus, HaltChild, serverVars, history, TypeOK
  <2>2. Undisturbed(run)' => Undisturbed(run) BY <2>1 DEF Undisturbed
  <2>3. QED BY <1>1, <1>3, <1>4, <2>1, <2>2 DEF OwnSuccess
<1>7. QED BY <1>5, <1>6

LEMMA TickThreadSucceeds ==
  ASSUME IInv, Heard, Real, OwnSuccess, NEW r \in Runs, TickThread(r) PROVE Real' /\ OwnSuccess'
<1> USE DEF Goto
<1>1. \A q \in Runs : Succeeded(q) => Succeeded(q)' BY SucceededStays DEF Next
<1>2. TypeOK /\ run \in Nat /\ Runs \subseteq Nat BY RunsAreNumbers DEF IInv
<1>3. UNCHANGED <<kind, run, halted>> /\ place[r] \notin {"none", "done", "threw"}
  BY DEF TickThread, Begin, InputMissing, Send, ClearHalt, LeaveLoop, Cleanup, CancelGoal,
         ReadStatus, SetStatus, treeVars, history
<1>4. /\ \A q \in Runs : q # r => place'[q] = place[q]
      /\ place'[r] = "return_success" => place[r] = "return" /\ action_status = "SUCCEEDED"
      /\ nodeStatus' = "SUCCESS" => nodeStatus = "SUCCESS" \/ place[r] = "return_success"
      /\ action_status' = "SUCCEEDED" => action_status = "SUCCEEDED" /\ place[r] # "begin"
  BY <1>2 DEF TickThread, Begin, InputMissing, Send, ClearHalt, LeaveLoop, Cleanup, CancelGoal,
         ReadStatus, SetStatus, treeVars, TypeOK
<1>5. Real' BY <1>1, <1>4 DEF Real
<1>6. OwnSuccess'
  <2>1. \A q \in Runs : server'[q] = server[q] \/ server[q] = "none"
    BY <1>2 DEF TickThread, Begin, InputMissing, Send, ClearHalt, LeaveLoop, Cleanup, CancelGoal,
         ReadStatus, SetStatus, serverVars, IInv, Places, Unsent, TypeOK
  <2>2. Undisturbed(run)' => Undisturbed(run) BY <1>3, <2>1 DEF Undisturbed
  <2> SUFFICES ASSUME run \in Runs, Undisturbed(run) PROVE OwnSuccess'
    BY <1>3, <2>2 DEF OwnSuccess
  <2>3. r = run BY <1>3, OthersAreOver
  <2>4. QED BY <1>1, <1>3, <1>4, <2>3 DEF OwnSuccess
<1>7. QED BY <1>5, <1>6

LEMMA ServerSucceeds ==
  ASSUME IInv, Heard, Real, OwnSuccess, NEW r \in Runs, Respond(r) \/ Finish(r) \/ Callbacks(r)
  PROVE  Real' /\ OwnSuccess'
<1>1. \A q \in Runs : Succeeded(q) => Succeeded(q)' BY SucceededStays DEF Next
<1>2. UNCHANGED <<kind, nodeStatus, run, place, halted>>
  BY DEF Respond, Finish, ServerMoves, Callbacks, GoalResponseCallback, ResultCallback,
         ResultFallsThrough, Callback, treeVars, history
<1>3. action_status' = "SUCCEEDED" =>
        action_status = "SUCCEEDED" \/ (Succeeded(r)' /\ delivered[r] # "result" /\ server[r] # "none")
  BY DEF Respond, Finish, ServerMoves, Callbacks, GoalResponseCallback, ResultCallback,
         ResultFallsThrough, Callback, treeVars, Succeeded, IInv, Places
<1>4. \A q \in Runs : server'[q] = server[q] \/ server[q] \in {"sent", "executing"}
  BY DEF Respond, Finish, ServerMoves, Callbacks, GoalResponseCallback, ResultCallback,
         ResultFallsThrough, Callback, IInv, TypeOK
<1>5. Undisturbed(run)' => Undisturbed(run) BY <1>2, <1>4 DEF Undisturbed
<1>6. Real' BY <1>1, <1>2, <1>3 DEF Real
<1>7. OwnSuccess'
  <2> SUFFICES ASSUME run \in Runs, Undisturbed(run) PROVE OwnSuccess'
    BY <1>2, <1>5 DEF OwnSuccess
  <2>1. delivered[r] # "result" /\ server[r] # "none" => r = run BY OthersAreOver
  <2>2. QED BY <1>1, <1>2, <1>3, <2>1 DEF OwnSuccess
<1>8. QED BY <1>6, <1>7

(* What the parent is told is what the server said of the goal of the run it   *)
(* asked for, as long as nothing has disturbed the node, and never a success   *)
(* that no goal of the node had, whatever has (follow_path.cpp,                *)
(* compute_path_to_pose.cpp, follow_waypoints.cpp).                            *)
THEOREM OwnReport == Spec => []ReportIsOwn
<1>1. Init => Real /\ OwnSuccess
  BY BtActionNodeAssumption DEF Init, Real, OwnSuccess, Runs
<1>2. ASSUME Real, OwnSuccess, UNCHANGED vars PROVE Real' /\ OwnSuccess'
  BY <1>2 DEF vars, treeVars, serverVars, history, Real, OwnSuccess, Undisturbed, Succeeded
<1>3. IInv /\ Heard /\ Real /\ OwnSuccess /\ [Next]_vars => Real' /\ OwnSuccess'
  BY <1>2, TreeSucceeds, TickThreadSucceeds, ServerSucceeds DEF Next
<1>4. IInv /\ Real /\ OwnSuccess => ReportIsOwn
  <2> SUFFICES ASSUME IInv, Real, OwnSuccess, nodeStatus = "SUCCESS"
               PROVE  \E q \in Runs : q <= run /\ Succeeded(q) /\ (q = run \/ ~Undisturbed(run))
    BY DEF ReportIsOwn, SuccessIsReal, IInv
  <2>1. run \in Runs /\ run \in Nat /\ Runs \subseteq Nat BY RunsAreNumbers DEF IInv, Places
  <2>2. CASE Undisturbed(run) BY <2>1, <2>2 DEF OwnSuccess
  <2>3. CASE ~Undisturbed(run)
    <3>1. PICK q \in Runs : Succeeded(q) BY DEF Real
    <3>2. q <= run BY <2>1, <3>1 DEF Succeeded, IInv, Places, Unsent
    <3>3. QED BY <2>3, <3>1, <3>2
  <2>4. QED BY <2>2, <2>3
<1>5. QED BY Inductive, AlwaysHeard, <1>1, <1>3, <1>4, PTL DEF Spec

-----------------------------------------------------------------------------
(* How far a cancel may stray.  A thread that is left over after a halt may    *)
(* cancel the goal of a later run, but each run in between began before the    *)
(* end of an earlier one: from the run that was halted to the one whose goal   *)
(* is canceled leads an unbroken chain of such runs.                           *)

Chain(r) ==
  \E q \in Runs :
    /\ q <= r /\ halted[q] # "none"
    /\ \A p \in Runs : q < p /\ p <= r => p \in overlapped

(* Every run between q and p but the lower of the two began in an overlap. *)
Linked(q, p) == \A s \in Runs : (q < s /\ s <= p) \/ (p < s /\ s <= q) => s \in overlapped

Active(r) == place[r] \notin OverPlaces

(* A run that began before the end of an earlier one follows a halted run. *)
ChainBehind == \A r \in overlapped : r - 1 \in Runs /\ Chain(r - 1)

(* A node is not RUNNING with a thread at work only after a halt. *)
ChainToRun ==
  /\ tree \in {"halting", "halted"} => run \in Runs /\ halted[run] # "none"
  /\ nodeStatus # "RUNNING" /\ (\E r \in Runs : Active(r)) => run \in Runs /\ Chain(run)

ActiveLinked == \A r \in Runs : Active(r) => Linked(r, run)

FutureLinked ==
  \A r \in Runs :
    place[r] \in {"sent", "poll", "cleanup"} => future \in Runs /\ future <= run /\ Linked(r, future)

(* What is going to be canceled, or was. *)
ChainToFuture ==
  \A r \in Runs : place[r] \in {"poll", "cleanup"} /\ _halt_requested => Chain(future)

ChainToAwaited == \A r \in Runs : place[r] = "get" => Chain(awaited[r])

ChainInv ==
  /\ ChainBehind /\ ChainToRun /\ ActiveLinked /\ FutureLinked
  /\ ChainToFuture /\ ChainToAwaited /\ CancelsHaltedGoal

LEMMA ChainStays ==
  ASSUME \A q \in Runs : halted[q] # "none" => halted'[q] # "none", overlapped \subseteq overlapped'
  PROVE  /\ \A r : Chain(r) => Chain(r)'
         /\ \A q, p : Linked(q, p) => Linked(q, p)'
BY DEF Chain, Linked

LEMMA ChainOnward == ASSUME TypeOK, ChainBehind, NEW r \in overlapped PROVE Chain(r)
<1>1. Runs \subseteq Nat /\ r \in Runs BY RunsAreNumbers DEF TypeOK
<1>2. PICK q \in Runs :
        /\ q <= r - 1 /\ halted[q] # "none"
        /\ \A p \in Runs : q < p /\ p <= r - 1 => p \in overlapped
  BY DEF ChainBehind, Chain
<1>3. \A p \in Runs : p <= r => p <= r - 1 \/ p = r BY <1>1
<1>4. QED BY <1>1, <1>2, <1>3 DEF Chain

LEMMA ChainBefore ==
  ASSUME TypeOK, ChainBehind, NEW r \in Runs, r + 1 \in overlapped PROVE Chain(r)
<1>1. r \in Nat /\ (r + 1) - 1 = r BY RunsAreNumbers
<1>2. \A p \in overlapped : Chain(p - 1) BY DEF ChainBehind
<1>3. Chain((r + 1) - 1) BY ONLY <1>2, r + 1 \in overlapped, Zenon
<1>4. QED BY <1>1, <1>3

(* While two runs are at work, each has a chain behind it, and the last run.   *)
LEMMA ChainAtOverlap ==
  ASSUME IInv, ChainInv, NEW q \in Runs, NEW r \in Runs, q # r, Active(q), Active(r)
  PROVE  run \in Runs /\ Chain(run) /\ Chain(r)
<1>1. /\ TypeOK /\ run \in Nat /\ Runs \subseteq Nat /\ q <= run /\ r <= run
      /\ q # run \/ r # run
  BY RunsAreNumbers DEF IInv, Places, Active, OverPlaces
<1>2. run \in Runs
  BY <1>1, BtActionNodeAssumption DEF Runs, TypeOK
<1>3. run \in overlapped BY <1>1, <1>2 DEF ChainInv, ActiveLinked, Linked
<1>4. Chain(run) BY <1>1, <1>3, ChainOnward DEF ChainInv
<1>5. CASE q < r
  <2>1. r \in overlapped BY <1>1, <1>5 DEF ChainInv, ActiveLinked, Linked
  <2>2. QED BY <1>1, <1>2, <1>4, <2>1, ChainOnward DEF ChainInv
<1>6. CASE r < q
  <2>1. r + 1 \in Runs /\ r + 1 <= run
    BY <1>1, <1>2, <1>6, BtActionNodeAssumption DEF Runs, TypeOK
  <2>2. r + 1 \in overlapped BY <1>1, <2>1 DEF ChainInv, ActiveLinked, Linked
  <2>3. QED BY <1>1, <1>2, <1>4, <2>2, ChainBefore DEF ChainInv
<1>7. QED BY <1>1, <1>5, <1>6

LEMMA TickChains == ASSUME IInv, ChainInv, Tick PROVE ChainInv'
<1>1. /\ TypeOK /\ run \in Nat /\ Runs \subseteq Nat /\ run + 1 \in Runs
  BY RunsAreNumbers, BtActionNodeAssumption DEF IInv, TypeOK, Tick, Runs
<1>2. /\ run' = run + 1 /\ nodeStatus # "RUNNING" /\ nodeStatus' = "RUNNING" /\ tree' = "starting"
      /\ place'[run + 1] = "begin" /\ \A q \in Runs : q # run + 1 => place'[q] = place[q]
      /\ UNCHANGED <<_halt_requested, future, awaited, cancelAsked, halted>>
  BY <1>1 DEF Tick, TypeOK, goalVars, serverVars
<1>3. overlapped' = IF Overlaps(run + 1) THEN overlapped \cup {run + 1} ELSE overlapped
  BY DEF Tick
<1>4. /\ \A r : Chain(r) => Chain(r)'
      /\ \A q, p : Linked(q, p) => Linked(q, p)'
  <2>1. overlapped \subseteq overlapped' BY <1>3
  <2>2. QED BY <1>2, <2>1, ChainStays
<1>5. Overlaps(run + 1) => run \in Runs /\ Chain(run)
  BY <1>2 DEF Overlaps, Active, ChainInv, ChainToRun
<1>6. ChainBehind'
  <2> SUFFICES ASSUME NEW r \in overlapped' PROVE r - 1 \in Runs /\ Chain(r - 1)' BY DEF ChainBehind
  <2>1. CASE r \in overlapped BY <1>4, <2>1 DEF ChainInv, ChainBehind
  <2>2. CASE r \notin overlapped
    <3>1. r = run + 1 /\ Overlaps(run + 1) BY <1>3, <2>2
    <3>2. r - 1 = run BY <1>1, <3>1
    <3>3. QED BY <1>4, <1>5, <3>1, <3>2
  <2>3. QED BY <2>1, <2>2
<1>7. ChainToRun' BY <1>2 DEF ChainToRun
<1>8. ActiveLinked'
  <2> SUFFICES ASSUME NEW r \in Runs, Active(r)' PROVE Linked(r, run)' BY DEF ActiveLinked
  <2>1. CASE r = run + 1 BY <1>1, <1>2, <2>1 DEF Linked
  <2>2. CASE r # run + 1
    <3>1. Active(r) BY <1>2, <2>2 DEF Active
    <3>2. r <= run BY <1>1, <3>1 DEF IInv, Places, Active, OverPlaces
    <3>3. Overlaps(run + 1) BY <1>1, <3>1, <3>2 DEF Overlaps, Active
    <3>4. overlapped' = overlapped \cup {run + 1} BY <1>3, <3>3
    <3>5. Linked(r, run) BY <3>1 DEF ChainInv, ActiveLinked
    <3>6. \A s \in Runs : s <= run + 1 => s <= run \/ s = run + 1 BY <1>1
    <3>7. \A s \in Runs : ~(run + 1 < s /\ s <= r) BY <1>1, <3>2
    <3>8. QED BY <1>2, <3>4, <3>5, <3>6, <3>7 DEF Linked
  <2>3. QED BY <2>1, <2>2
<1>9. FutureLinked'
  <2>1. \A r \in Runs : place'[r] \in {"sent", "poll", "cleanup"} =>
          future \in Runs /\ future <= run /\ Linked(r, future)
    BY <1>2 DEF ChainInv, FutureLinked
  <2>2. future \in Runs /\ future <= run => future <= run' BY <1>1, <1>2
  <2>3. QED BY <1>2, <1>4, <2>1, <2>2 DEF FutureLinked
<1>10. ChainToFuture' /\ ChainToAwaited' /\ CancelsHaltedGoal'
  <2>1. \A r \in Runs : place'[r] \in {"poll", "cleanup", "get"} => place'[r] = place[r] BY <1>2
  <2>2. \A r \in cancelAsked : Chain(r) BY DEF ChainInv, CancelsHaltedGoal, Chain
  <2>3. \A r \in cancelAsked' : Chain(r)' BY <1>2, <1>4, <2>2
  <2>4. CancelsHaltedGoal' BY <2>3 DEF CancelsHaltedGoal, Chain
  <2>5. QED BY <1>2, <1>4, <2>1, <2>4 DEF ChainInv, ChainToFuture, ChainToAwaited
<1>11. QED BY <1>6, <1>7, <1>8, <1>9, <1>10 DEF ChainInv

LEMMA TreeChains ==
  ASSUME IInv, ChainInv, Started \/ Rethrow \/ Collect \/ Halt \/ HaltStatus \/ HaltChild
  PROVE  ChainInv'
<1>1. TypeOK /\ run \in Nat /\ Runs \subseteq Nat BY RunsAreNumbers DEF IInv
<1>2. UNCHANGED <<run, place, future, awaited, cancelAsked, overlapped>>
  BY DEF Started, Rethrow, Collect, Halt, HaltStatus, HaltChild, serverVars, goalVars, history
<1>3. \A q \in Runs : halted[q] # "none" => halted'[q] # "none"
  BY <1>1 DEF Started, Rethrow, Collect, Halt, HaltStatus, HaltChild, HaltedAt, history, TypeOK
<1>4. /\ \A r : Chain(r) => Chain(r)'
      /\ \A q, p : Linked(q, p) => Linked(q, p)'
  BY <1>2, <1>3, ChainStays
<1>5. ChainBehind' /\ ActiveLinked' /\ FutureLinked' /\ ChainToAwaited'
  BY <1>2, <1>4 DEF ChainInv, ChainBehind, ActiveLinked, FutureLinked, ChainToAwaited, Active
<1>6. CancelsHaltedGoal'
  <2>1. \A r \in cancelAsked : Chain(r) BY DEF ChainInv, CancelsHaltedGoal, Chain
  <2>2. \A r \in cancelAsked' : Chain(r)' BY <1>2, <1>4, <2>1
  <2>3. QED BY <2>2 DEF CancelsHaltedGoal, Chain
<1>7. CASE Halt
  <2>1. /\ run \in Runs /\ halted'[run] # "none" /\ UNCHANGED nodeStatus /\ nodeStatus = "RUNNING"
    BY <1>1, <1>7 DEF Halt, HaltedAt, IInv, Places, TypeOK
  <2>2. ChainToRun' BY <1>2, <2>1 DEF ChainToRun
  <2>3. ASSUME NEW r \in Runs, place[r] \in {"poll", "cleanup"} PROVE Chain(future)'
    <3>1. future \in Runs /\ future <= run /\ Linked(r, future) /\ Linked(r, run)
      BY <2>3 DEF ChainInv, FutureLinked, ActiveLinked, Active, OverPlaces
    <3>2. CASE future = run BY <1>1, <1>2, <2>1, <3>2 DEF Chain
    <3>3. CASE future # run
      <4>1. future + 1 \in Runs /\ future + 1 <= run
        BY <1>1, <2>1, <3>1, <3>3, BtActionNodeAssumption DEF Runs
      <4>2. r \in Nat /\ r <= run
        BY <1>1, <2>3 DEF IInv, Places
      <4>3. future + 1 \in overlapped BY <1>1, <3>1, <4>1, <4>2 DEF Linked
      <4>4. Chain(future) BY <1>1, <3>1, <4>3, ChainBefore DEF ChainInv
      <4>5. QED BY <1>2, <1>4, <4>4
    <3>4. QED BY <3>2, <3>3
  <2>4. ChainToFuture' BY <1>2, <2>3 DEF ChainToFuture
  <2>5. QED BY <1>5, <1>6, <2>2, <2>4 DEF ChainInv
<1>8. CASE Started \/ Rethrow \/ Collect \/ HaltStatus \/ HaltChild
  <2>1. /\ UNCHANGED <<halted, _halt_requested>>
        /\ tree' \in {"halting", "halted"} => tree \in {"halting", "halted"}
        /\ nodeStatus' # "RUNNING" => nodeStatus # "RUNNING" \/ tree \in {"halting", "halted"}
    BY <1>8 DEF Started, Rethrow, Collect, HaltStatus, HaltChild, history
  <2>2. tree \in {"halting", "halted"} => run \in Runs /\ Chain(run)
    BY <1>1 DEF ChainInv, ChainToRun, Chain
  <2>3. ChainToRun' BY <1>2, <1>4, <2>1, <2>2 DEF ChainInv, ChainToRun, Active
  <2>4. ChainToFuture' BY <1>2, <1>4, <2>1 DEF ChainInv, ChainToFuture
  <2>5. QED BY <1>5, <1>6, <2>3, <2>4 DEF ChainInv
<1>9. QED BY <1>7, <1>8

LEMMA TickThreadChains ==
  ASSUME IInv, ChainInv, NEW r \in Runs, TickThread(r) PROVE ChainInv'
<1> USE DEF Goto
<1>1. TypeOK /\ run \in Nat /\ Runs \subseteq Nat BY RunsAreNumbers DEF IInv
<1>2. UNCHANGED <<run, halted, overlapped>> /\ tree' \in {tree, "gone"} /\ Active(r)
  BY DEF TickThread, Begin, InputMissing, Send, ClearHalt, LeaveLoop, Cleanup, CancelGoal,
         ReadStatus, SetStatus, treeVars, history, Active, OverPlaces
<1>3. \A q \in Runs : q # r => place'[q] = place[q]
  BY <1>1 DEF TickThread, Begin, InputMissing, Send, ClearHalt, LeaveLoop, Cleanup, CancelGoal,
         ReadStatus, SetStatus, TypeOK
<1>4. /\ \A q : Chain(q) => Chain(q)'
      /\ \A q, p : Linked(q, p) => Linked(q, p)'
  BY <1>2, ChainStays
<1>5. \A q \in Runs : Active(q)' => Active(q) BY <1>2, <1>3 DEF Active
<1>6. ChainBehind' /\ ActiveLinked'
  BY <1>2, <1>4, <1>5 DEF ChainInv, ChainBehind, ActiveLinked
<1>7. r <= run BY <1>1, <1>2 DEF IInv, Places, Active, OverPlaces
<1>8. run \in Runs BY <1>1, <1>7, BtActionNodeAssumption DEF Runs, TypeOK
<1>9. ChainToRun'
  <2>1. CASE InputMissing(r) \/ SetStatus(r)
    <3>1. place'[r] \in OverPlaces BY <1>1, <2>1 DEF InputMissing, SetStatus, OverPlaces, TypeOK
    <3>2. \A q \in Runs : Active(q)' => q # r BY <3>1 DEF Active
    <3>3. (\E q \in Runs : Active(q)') => Chain(run)
      BY <1>2, <1>5, <3>2, ChainAtOverlap
    <3>4. QED BY <1>2, <1>4, <1>8, <3>3 DEF ChainInv, ChainToRun
  <2>2. CASE ~(InputMissing(r) \/ SetStatus(r))
    <3>1. UNCHANGED nodeStatus
      BY <2>2 DEF TickThread, Begin, Send, ClearHalt, LeaveLoop, Cleanup, CancelGoal,
         ReadStatus, treeVars
    <3>2. QED BY <1>2, <1>4, <1>5, <3>1 DEF ChainInv, ChainToRun
  <2>3. QED BY <2>1, <2>2
<1> DEFINE Others == UNCHANGED <<future, awaited, cancelAsked>>
<1>10. CASE Send(r)
  <2>1. /\ future' = r /\ UNCHANGED <<_halt_requested, awaited, cancelAsked>> /\ place'[r] = "sent"
    BY <1>1, <1>10 DEF Send, TypeOK
  <2>2. FutureLinked'
    <3> SUFFICES ASSUME NEW q \in Runs, place'[q] \in {"sent", "poll", "cleanup"} PROVE Linked(q, r)'
      BY <1>2, <1>7, <2>1 DEF FutureLinked
    <3>1. Active(q) BY <1>5 DEF Active, OverPlaces
    <3>2. Linked(q, run) /\ Linked(r, run) /\ q <= run
      BY <1>1, <1>2, <3>1 DEF ChainInv, ActiveLinked, IInv, Places, Active, OverPlaces
    <3>3. Linked(q, r) BY <1>1, <1>7, <3>2 DEF Linked
    <3>4. QED BY <1>4, <3>3
  <2>3. ChainToFuture'
    <3> SUFFICES ASSUME NEW q \in Runs, place'[q] \in {"poll", "cleanup"} PROVE Chain(r)'
      BY <2>1 DEF ChainToFuture
    <3>1. q # r /\ Active(q) BY <1>5, <2>1 DEF Active, OverPlaces
    <3>2. QED BY <1>2, <1>4, <3>1, ChainAtOverlap
  <2>4. ChainToAwaited' /\ CancelsHaltedGoal'
    BY <1>2, <1>3, <1>4, <2>1 DEF ChainInv, ChainToAwaited, CancelsHaltedGoal
  <2>5. QED BY <1>6, <1>9, <2>2, <2>3, <2>4 DEF ChainInv
<1>11. CASE ~Send(r)
  <2>1. UNCHANGED future
    BY <1>11 DEF TickThread, Begin, InputMissing, ClearHalt, LeaveLoop, Cleanup, CancelGoal,
         ReadStatus, SetStatus, goalVars
  <2>2. place'[r] \in {"sent", "poll", "cleanup"} => place[r] \in {"sent", "poll"}
    BY <1>1, <1>11 DEF TickThread, Begin, InputMissing, ClearHalt, LeaveLoop, Cleanup, CancelGoal,
         ReadStatus, SetStatus, TypeOK
  <2>3. FutureLinked' BY <1>2, <1>3, <1>4, <2>1, <2>2 DEF ChainInv, FutureLinked
  <2>4. place'[r] \in {"poll", "cleanup"} /\ _halt_requested' => place[r] = "poll" /\ _halt_requested
    BY <1>1, <1>11 DEF TickThread, Begin, InputMissing, ClearHalt, LeaveLoop, Cleanup, CancelGoal,
         ReadStatus, SetStatus, TypeOK
  <2>5. _halt_requested' => _halt_requested
    BY <1>11 DEF TickThread, Begin, InputMissing, ClearHalt, LeaveLoop, Cleanup, CancelGoal,
         ReadStatus, SetStatus
  <2>6. ChainToFuture' BY <1>3, <1>4, <2>1, <2>4, <2>5 DEF ChainInv, ChainToFuture
  <2>7. ChainToAwaited'
    <3>1. \A q \in Runs : q # r => awaited'[q] = awaited[q]
      BY <1>1, <1>11 DEF TickThread, Begin, InputMissing, ClearHalt, LeaveLoop, Cleanup, CancelGoal,
         ReadStatus, SetStatus, goalVars, TypeOK
    <3>2. place'[r] = "get" => place[r] = "cleanup" /\ _halt_requested /\ awaited'[r] = future
      BY <1>1, <1>11 DEF TickThread, Begin, InputMissing, ClearHalt, LeaveLoop, Cleanup, CancelGoal,
         ReadStatus, SetStatus, TypeOK
    <3>3. place'[r] = "get" => Chain(awaited'[r]) BY <3>2 DEF ChainInv, ChainToFuture
    <3>4. \A q \in Runs : place'[q] = "get" => Chain(awaited'[q])
      BY <1>3, <3>1, <3>3 DEF ChainInv, ChainToAwaited
    <3>5. QED BY <1>2, <3>4 DEF ChainToAwaited, Chain
  <2>8. CancelsHaltedGoal'
    <3>1. \A q \in cancelAsked' : q \in cancelAsked \/ (place[r] = "get" /\ q = awaited[r])
      BY <1>11 DEF TickThread, Begin, InputMissing, ClearHalt, LeaveLoop, Cleanup, CancelGoal,
         ReadStatus, SetStatus, serverVars
    <3>2. \A q \in cancelAsked' : Chain(q)
      BY <3>1 DEF ChainInv, CancelsHaltedGoal, ChainToAwaited, Chain
    <3>3. QED BY <1>2, <3>2 DEF CancelsHaltedGoal, Chain
  <2>9. QED BY <1>6, <1>9, <2>3, <2>6, <2>7, <2>8 DEF ChainInv
<1>12. QED BY <1>10, <1>11

LEMMA ServerChains ==
  ASSUME ChainInv, NEW r \in Runs, Respond(r) \/ Finish(r) \/ Callbacks(r) PROVE ChainInv'
<1>1. UNCHANGED <<tree, nodeStatus, run, place, _halt_requested, future, awaited, cancelAsked,
                  halted, overlapped>>
  BY DEF Respond, Finish, ServerMoves, Callbacks, GoalResponseCallback, ResultCallback,
         ResultFallsThrough, Callback, treeVars, goalVars, history
<1>2. QED BY <1>1 DEF ChainInv, ChainBehind, ChainToRun, ActiveLinked, FutureLinked, ChainToFuture,
                     ChainToAwaited, CancelsHaltedGoal, Chain, Linked, Active

(* A goal is canceled only for a halt: of its own run, or of one that is       *)
(* followed by runs in an unbroken overlap up to it, whatever threads are left *)
(* over (follow_path.cpp:83-88).                                               *)
THEOREM CancelsOnlyHalted == Spec => []CancelsHaltedGoal
<1>1. ASSUME Init PROVE ChainInv
  <2>1. /\ \A r \in Runs : place[r] = "none"
        /\ tree = "idle" /\ overlapped = {} /\ cancelAsked = {}
    BY <1>1 DEF Init
  <2>2. QED BY <2>1 DEF ChainInv, ChainBehind, ChainToRun, ActiveLinked, FutureLinked,
                       ChainToFuture, ChainToAwaited, CancelsHaltedGoal, Active, OverPlaces
<1>2. ASSUME ChainInv, UNCHANGED vars PROVE ChainInv'
  BY <1>2 DEF vars, treeVars, goalVars, serverVars, history, ChainInv, ChainBehind, ChainToRun,
              ActiveLinked, FutureLinked, ChainToFuture, ChainToAwaited, CancelsHaltedGoal,
              Chain, Linked, Active
<1>3. IInv /\ ChainInv /\ [Next]_vars => ChainInv'
  BY <1>2, TickChains, TreeChains, TickThreadChains, ServerChains DEF Next, TreeThread
<1>4. ChainInv => CancelsHaltedGoal BY DEF ChainInv
<1>5. QED BY Inductive, <1>1, <1>3, <1>4, PTL DEF Spec

-----------------------------------------------------------------------------
(* What becomes of a halt that found the run polling.  The thread of the run   *)
(* is the only one then, whatever came before: a thread left over from an       *)
(* earlier run would have taken the node out of RUNNING as it ended.            *)

OnTheWay(r) ==
  \/ place[r] \in {"poll", "cleanup"} /\ _halt_requested /\ future = r
  \/ place[r] = "get" /\ awaited[r] = r

(* Until the node is ticked again, the thread of a run that was halted in its   *)
(* polling loop is about to cancel the goal of that run, or it has asked for    *)
(* the cancel, or the goal has ended.                                           *)
HaltHeeded ==
  \A r \in Runs :
    r = run /\ halted[r] = "polling" => r \in cancelAsked \/ Ended(r) \/ OnTheWay(r)

HaltPlace ==
  /\ tree \notin {"starting", "gone"} => ~Overlaps(run)
  /\ run \in Runs /\ nodeStatus = "RUNNING" /\ ~Overlaps(run) /\ place[run] \in {"sent", "poll"} =>
       future = run
  /\ run \in Runs /\ halted[run] = "polling" => tree # "starting"

HaltInv == LastRun /\ HaltPlace /\ HaltHeeded

LEMMA TickHeeds == ASSUME IInv, HaltInv, Tick PROVE HaltPlace' /\ HaltHeeded'
<1> USE DEF Tick
<1>0. TypeOK /\ run \in Nat /\ run + 1 \in Runs /\ Runs \subseteq Nat
  BY BtActionNodeAssumption DEF Runs, TypeOK, IInv
<1>1. run' = run + 1 /\ place'[run + 1] = "begin" /\ tree' = "starting" /\ UNCHANGED halted
  BY <1>0 DEF TypeOK
<1>2. halted'[run'] = "none" BY <1>0, <1>1 DEF HaltInv, LastRun
<1> HIDE DEF Tick
<1>3. QED BY <1>1, <1>2 DEF HaltPlace, HaltHeeded

LEMMA TreeHeeds ==
  ASSUME IInv, HaltInv, Started \/ Rethrow \/ Collect \/ Halt \/ HaltStatus \/ HaltChild
  PROVE  HaltPlace' /\ HaltHeeded'
<1>0. TypeOK BY DEF IInv
<1>1. UNCHANGED <<run, place, future, awaited, server, cancelAsked>>
  BY DEF Started, Rethrow, Collect, Halt, HaltStatus, HaltChild, serverVars, goalVars
<1>2. (Overlaps(run)' <=> Overlaps(run)) /\ \A r : (Ended(r)' <=> Ended(r))
  BY <1>1 DEF Overlaps, Ended
<1>3. CASE Halt
  <2>1. /\ run \in Runs /\ tree = "idle" /\ nodeStatus = "RUNNING" /\ _halt_requested' = TRUE
        /\ tree' = "halting"
        /\ halted'[run] = "polling" => place[run] = "poll"
    BY <1>0, <1>3 DEF Halt, HaltedAt, IInv, Places, TypeOK
  <2>2. ~Overlaps(run) /\ (place[run] \in {"sent", "poll"} => future = run)
    BY <2>1 DEF HaltInv, HaltPlace
  <2>3. HaltPlace' BY <1>1, <1>2, <2>1, <2>2 DEF HaltPlace
  <2>4. HaltHeeded' BY <1>1, <2>1, <2>2 DEF HaltHeeded, OnTheWay
  <2>5. QED BY <2>3, <2>4
<1>4. CASE Started \/ Rethrow \/ Collect \/ HaltStatus \/ HaltChild
  <2>1. /\ UNCHANGED <<halted, _halt_requested>>
        /\ tree' \notin {"starting", "gone"} => ~Overlaps(run)
        /\ tree # "starting" => tree' # "starting"
        /\ nodeStatus' = "RUNNING" => nodeStatus = "RUNNING"
    BY <1>4 DEF Started, Rethrow, Collect, HaltStatus, HaltChild, history, HaltInv, HaltPlace
  <2>2. HaltPlace' BY <1>1, <1>2, <2>1 DEF HaltInv, HaltPlace
  <2>3. HaltHeeded' BY <1>1, <1>2, <2>1 DEF HaltInv, HaltHeeded, OnTheWay
  <2>4. QED BY <2>2, <2>3
<1>5. QED BY <1>3, <1>4

LEMMA TickThreadHeeds ==
  ASSUME IInv, HaltInv, NEW r \in Runs, TickThread(r) PROVE HaltPlace' /\ HaltHeeded'
<1> USE DEF Goto
<1>0. TypeOK /\ run \in Nat /\ Runs \subseteq Nat BY RunsAreNumbers DEF IInv
<1>1. /\ UNCHANGED <<run, halted, overlapped>> /\ place[r] \notin OverPlaces
      /\ tree # "gone" /\ tree' \in {tree, "gone"}
  BY DEF TickThread, Begin, InputMissing, Send, ClearHalt, LeaveLoop, Cleanup, CancelGoal,
         ReadStatus, SetStatus, treeVars, history, OverPlaces
<1>2. PICK p \in ThreadPlaces \ {"none", "begin"} : place' = [place EXCEPT ![r] = p]
  BY DEF TickThread, Begin, InputMissing, Send, ClearHalt, LeaveLoop, Cleanup, CancelGoal,
         ReadStatus, SetStatus, ThreadPlaces
<1>3. place'[r] = p /\ \A q \in Runs : q # r => place'[q] = place[q]
  BY <1>0, <1>2 DEF TypeOK
<1>4. r <= run BY <1>0, <1>1 DEF IInv, Places, OverPlaces
<1>5. Overlaps(run)' => Overlaps(run)
  <2>1. \A q \in Runs : place'[q] \notin OverPlaces => place[q] \notin OverPlaces BY <1>1, <1>3
  <2>2. QED BY <1>1, <2>1 DEF Overlaps
<1>6. ~Overlaps(run) => r = run BY <1>0, <1>1, <1>4 DEF Overlaps
<1>7. CASE InputMissing(r) \/ SetStatus(r)
  <2>1. nodeStatus' # "RUNNING" /\ place[r] \notin {"poll", "cleanup", "get"}
        /\ UNCHANGED <<cancelAsked, server>>
    BY <1>7 DEF InputMissing, SetStatus, serverVars
  <2>2. HaltPlace' BY <1>1, <1>5, <2>1 DEF HaltInv, HaltPlace
  <2>3. \A q \in Runs : Ended(q)' = Ended(q) BY <2>1 DEF Ended
  <2>4. run \in Runs /\ halted[run] = "polling" => run \in cancelAsked \/ Ended(run)
    BY <1>1, <1>6, <2>1 DEF HaltInv, HaltPlace, HaltHeeded, OnTheWay
  <2>5. HaltHeeded' BY <1>1, <2>1, <2>3, <2>4 DEF HaltHeeded
  <2>6. QED BY <2>2, <2>5
<1>8. CASE ~(InputMissing(r) \/ SetStatus(r))
  <2>1. /\ UNCHANGED nodeStatus /\ p \notin OverPlaces
        /\ p \in {"sent", "poll"} => Send(r) \/ ClearHalt(r)
        /\ p = "poll" => place[r] = "sent" /\ UNCHANGED future
        /\ p = "sent" => future' = r
    BY <1>0, <1>2, <1>3, <1>8
    DEF TickThread, Begin, Send, ClearHalt, LeaveLoop, Cleanup, CancelGoal, ReadStatus,
        treeVars, goalVars, OverPlaces, TypeOK
  <2>2. ~Overlaps(run)' => r = run /\ ~Overlaps(run)
    <3>1. Overlaps(run)' <=> Overlaps(run) 
      BY <1>1, <1>3, <2>1 DEF Overlaps
    <3>2. QED BY <1>6, <3>1
  <2>3. HaltPlace' BY <1>1, <1>3, <1>5, <2>1, <2>2 DEF HaltInv, HaltPlace
  <2>4. ASSUME run \in Runs, halted[run] = "polling"
        PROVE  (run \in cancelAsked \/ Ended(run) \/ OnTheWay(run))'
    <3>1. r = run BY <1>1, <1>6, <2>4 DEF HaltInv, HaltPlace
    <3>2. CASE run \in cancelAsked \/ Ended(run)
      <4>1. \A q \in Runs : q \in cancelAsked => q \in cancelAsked'
        BY <1>8 DEF TickThread, Begin, Send, ClearHalt, LeaveLoop, Cleanup, CancelGoal,
           ReadStatus, serverVars
      <4>2. UNCHANGED server \/ place[r] = "send"
        BY <1>8 DEF TickThread, Begin, Send, ClearHalt, LeaveLoop, Cleanup, CancelGoal,
           ReadStatus, serverVars
      <4>3. place[r] = "send" => ~Ended(r) BY DEF IInv, Places, Unsent, Ended, Outcomes
      <4>4. QED BY <1>1, <2>4, <3>1, <3>2, <4>1, <4>2, <4>3 DEF Ended
    <3>3. CASE OnTheWay(run)
      <4>1. CASE LeaveLoop(r)
        BY <1>1, <1>3, <2>4, <3>1, <3>3, <4>1 DEF LeaveLoop, OnTheWay, goalVars
      <4>2. CASE Cleanup(r)
        <5>1. place'[r] = "get" /\ awaited'[r] = r
          BY <1>0, <3>1, <3>3, <4>2 DEF Cleanup, OnTheWay, TypeOK
        <5>2. QED BY <1>1, <3>1, <5>1 DEF OnTheWay
      <4>3. CASE CancelGoal(r)
        <5>1. /\ awaited[r] = r /\ UNCHANGED server
              /\ server[r] = "rejected" \/ delivered[r] \in {"half", "result"} \/ r \in cancelAsked'
          BY <3>1, <3>3, <4>3 DEF CancelGoal, OnTheWay
        <5>2. Ended(r)' \/ r \in cancelAsked'
          BY <5>1 DEF IInv, Places, Ended, Outcomes
        <5>3. QED BY <1>1, <3>1, <5>2
      <4>4. ~(Begin(r) \/ Send(r) \/ ClearHalt(r) \/ ReadStatus(r))
        BY <3>1, <3>3 DEF OnTheWay, Begin, Send, ClearHalt, ReadStatus
      <4>5. QED BY <1>8, <4>1, <4>2, <4>3, <4>4 DEF TickThread
    <3>4. QED BY <2>4, <3>2, <3>3 DEF HaltInv, HaltHeeded
  <2>5. HaltHeeded' BY <1>1, <2>4 DEF HaltHeeded
  <2>6. QED BY <2>3, <2>5
<1>9. QED BY <1>7, <1>8

LEMMA ServerHeeds ==
  ASSUME IInv, HaltInv, NEW r \in Runs, Respond(r) \/ Finish(r) \/ Callbacks(r)
  PROVE  HaltPlace' /\ HaltHeeded'
<1>1. UNCHANGED <<tree, nodeStatus, run, place, _halt_requested, future, awaited, cancelAsked, halted>>
  BY DEF Respond, Finish, ServerMoves, Callbacks, GoalResponseCallback, ResultCallback,
         ResultFallsThrough, Callback, treeVars, goalVars, history
<1>2. \A q \in Runs : server'[q] = server[q] \/ server[q] \in {"sent", "executing"}
  BY DEF Respond, Finish, ServerMoves, Callbacks, GoalResponseCallback, ResultCallback,
         ResultFallsThrough, Callback, IInv, TypeOK
<1>3. (Overlaps(run)' <=> Overlaps(run)) /\ \A q \in Runs : Ended(q) => Ended(q)'
  BY <1>1, <1>2 DEF Overlaps, Ended, Outcomes
<1>4. HaltPlace' BY <1>1, <1>3 DEF HaltInv, HaltPlace
<1>5. HaltHeeded' BY <1>1, <1>3 DEF HaltInv, HaltHeeded, OnTheWay
<1>6. QED BY <1>4, <1>5

(* A halt that meets the polling loop leads to the cancel of the goal of the    *)
(* run it was meant for, and of no other, for every number of runs before it,   *)
(* halted or not (follow_path.cpp:71, 83, 100).                                 *)
THEOREM PollingHaltHeeded == Spec => []HaltHeeded
<1>1. Init => HaltPlace /\ HaltHeeded
  BY BtActionNodeAssumption DEF Init, HaltPlace, HaltHeeded, Overlaps, OverPlaces, Runs
<1>2. ASSUME HaltInv, UNCHANGED vars PROVE HaltPlace' /\ HaltHeeded'
  BY <1>2 DEF vars, treeVars, goalVars, serverVars, history, HaltInv, HaltPlace, HaltHeeded,
              Overlaps, Ended, OnTheWay
<1>3. IInv /\ HaltInv /\ [Next]_vars => HaltPlace' /\ HaltHeeded'
  BY <1>2, TickHeeds, TreeHeeds, TickThreadHeeds, ServerHeeds DEF Next, TreeThread
<1>4. QED BY Inductive, AlwaysHeard, <1>1, <1>3, PTL DEF Spec, HaltInv
=============================================================================
