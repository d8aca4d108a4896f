------------------------- MODULE ControlNodesProofs -------------------------
(***************************************************************************)
(* The safety properties of the control nodes, for every number of         *)
(* children and of retries.                                                *)
(*                                                                         *)
(* What a node answers rests on its counters agreeing with the answers its *)
(* children have given since it was started: one conjunct per kind of node *)
(* says how (RecoveryLog, RoundLog, PipelineLog, RateLog).                 *)
(***************************************************************************)
EXTENDS ControlNodes, Integers, TLAPS

Shape ==
  children_count = CASE kind = "RecoveryNode" -> 2
                     [] kind = "RateController" -> 1
                     [] OTHER -> ChildCount

(* RecoveryNode and RoundRobin execute the child the index points at. *)
Turn ==
  kind \in {"RecoveryNode", "RoundRobin"} /\ ticking # Resting =>
    ticking = current_child_idx_ /\ status = "RUNNING"

(* Each failure of the first child has had its recovery, but for the last. *)
RecoveryLog ==
  kind = "RecoveryNode" =>
    /\ used = {}
    /\ status # "RUNNING" => retry_count_ = 0 /\ current_child_idx_ = 0
    /\ status = "RUNNING" => failures = retry_count_ + current_child_idx_
    /\ current_child_idx_ = 1 => retry_count_ < number_of_retries

(* How many turns ago it was the turn of child i. *)
Distance(i) ==
  IF i < current_child_idx_ THEN current_child_idx_ - i
                            ELSE current_child_idx_ + children_count - i

(* The children whose turn was the last num_failed_children_ turns failed, and *)
(* only they have been used.                                                   *)
RoundLog ==
  kind = "RoundRobin" =>
    /\ num_failed_children_ < children_count
    /\ status # "RUNNING" => num_failed_children_ = 0
    /\ \A i \in Children : i \in used => Distance(i) <= num_failed_children_
    /\ \A i \in Children :
         status = "RUNNING" /\ Distance(i) <= num_failed_children_ => answer[i] = "FAILURE"

(* Whatever comes before the child reached last has succeeded. *)
PipelineLog ==
  kind = "PipelineSequence" =>
    /\ status # "RUNNING" => last_child_ticked_ = 0
    /\ \A i \in Children : i < last_child_ticked_ => i \in passed

(* After a success nothing makes the node execute its child. *)
RateLog ==
  kind = "RateController" =>
    /\ used = {}
    /\ served => ~due /\ ~first_time_ /\ child[0] # "RUNNING"
    /\ ticking # Resting => status = "RUNNING"

IInv ==
  /\ TypeOK /\ Shape /\ Turn
  /\ RecoveryLog /\ RoundLog /\ PipelineLog /\ RateLog
  /\ VerdictEarned /\ PipelineOrder /\ NoChildLeft /\ RateLimited

(* The bounds of the indices. *)
LEMMA Indices ==
  ASSUME TypeOK, Shape
  PROVE  /\ MaxCount \in Nat /\ 2 <= MaxCount
         /\ children_count \in Nat /\ 1 <= children_count /\ children_count <= MaxCount
         /\ Children \subseteq Slots
         /\ Resting \notin Slots
         /\ kind = "RecoveryNode" => children_count = 2
         /\ kind = "RateController" => children_count = 1
         /\ kind \in {"RecoveryNode", "RoundRobin", "PipelineSequence", "RateController"}
<1>1. MaxCount \in Nat /\ 2 <= MaxCount BY ControlNodesAssumption DEF MaxCount
<1>2. children_count \in 1..MaxCount BY DEF TypeOK
<1>3. kind \in {"RecoveryNode", "RoundRobin", "PipelineSequence", "RateController"}
  BY ControlNodesAssumption DEF TypeOK
<1>4. (kind = "RecoveryNode" => children_count = 2) /\ (kind = "RateController" => children_count = 1)
  BY DEF Shape
<1>5. QED BY <1>1, <1>2, <1>3, <1>4 DEF Children, Slots, Resting

LEMMA Initially == Init => IInv
<1> SUFFICES ASSUME Init PROVE IInv OBVIOUS
<1>1. MaxCount \in Nat /\ 2 <= MaxCount /\ ChildCount <= MaxCount /\ ChildCount \in Nat
  BY ControlNodesAssumption DEF MaxCount
<1>2. Shape BY DEF Init, Shape
<1>3. children_count \in 1..MaxCount
  BY <1>1, ControlNodesAssumption DEF Init
<1>4. TypeOK
  <2>1. 0 \in Children BY <1>3, <1>1 DEF Children
  <2>2. "IDLE" \in NodeStatus BY DEF NodeStatus
  <2>3. 0 \in 0..number_of_retries /\ 0 \in 0..(number_of_retries + 1) /\ 0 \in 0..children_count
    BY <1>1, <1>3, ControlNodesAssumption
  <2>4. kind \in Kinds /\ async \subseteq Children BY DEF Init
  <2>5. child \in [Slots -> NodeStatus] /\ answer \in [Slots -> NodeStatus] BY <2>2 DEF Init
  <2>6. QED BY <1>3, <2>1, <2>2, <2>3, <2>4, <2>5 DEF Init, TypeOK
<1>5. Turn /\ PipelineOrder /\ RateLimited BY DEF Init, Turn, PipelineOrder, RateLimited
<1>6. RecoveryLog BY DEF Init, RecoveryLog
<1>7. RoundLog
  BY <1>3, <1>1 DEF Init, RoundLog, Children
<1>8. PipelineLog BY DEF Init, PipelineLog, Children
<1>9. RateLog BY DEF Init, RateLog
<1>10. VerdictEarned BY ControlNodesAssumption DEF Init, VerdictEarned, Final
<1>11. NoChildLeft BY <1>1, <1>3, <1>4, <1>2, Indices DEF Init, NoChildLeft
<1>12. QED BY <1>2, <1>4, <1>5, <1>6, <1>7, <1>8, <1>9, <1>10, <1>11 DEF IInv
-----------------------------------------------------------------------------
(* The steps other than those of tick()'s loop *)

LEMMA ElapseKeeps == ASSUME IInv, Elapse PROVE IInv'
<1> USE DEF Elapse, fixed, counters, history
<1>1. TypeOK' BY DEF IInv, TypeOK, Children, Slots, Resting
<1>2. Shape' /\ Turn' BY DEF IInv, Shape, Turn, Resting
<1>3. RecoveryLog' /\ RoundLog' /\ PipelineLog' BY DEF IInv, RecoveryLog, RoundLog, PipelineLog
<1>4. RateLog' /\ RateLimited' BY DEF IInv, RateLog, RateLimited, Resting
<1>5. VerdictEarned' /\ PipelineOrder' /\ NoChildLeft'
  BY DEF IInv, VerdictEarned, PipelineOrder, NoChildLeft, Resting, Children
<1>6. QED BY <1>1, <1>2, <1>3, <1>4, <1>5 DEF IInv

LEMMA ParentResetsKeeps == ASSUME IInv, ParentResets PROVE IInv'
<1> USE DEF ParentResets, fixed, counters, history, timer, Final
<1>1. TypeOK' BY DEF IInv, TypeOK, Children, Slots, Resting, NodeStatus
<1>2. Shape' /\ Turn' BY DEF IInv, Shape, Turn, Resting
<1>3. RecoveryLog' /\ PipelineLog' BY DEF IInv, RecoveryLog, PipelineLog, Children
<1>4. RoundLog' BY DEF IInv, RoundLog, Children, Distance
<1>5. RateLog' /\ RateLimited' BY DEF IInv, RateLog, RateLimited, Resting
<1>6. VerdictEarned'
  <2>1. TypeOK /\ Shape BY DEF IInv
  <2>2. kind \in {"RecoveryNode", "RoundRobin", "PipelineSequence", "RateController"}
    BY <2>1, Indices
  <2>3. status' = "IDLE" /\ UNCHANGED kind OBVIOUS
  <2>4. QED BY <2>2, <2>3 DEF VerdictEarned
<1>7. PipelineOrder' /\ NoChildLeft'
  BY DEF IInv, PipelineOrder, NoChildLeft, Resting, Children
<1>8. QED BY <1>1, <1>2, <1>3, <1>4, <1>5, <1>6, <1>7 DEF IInv

LEMMA HaltKeeps == ASSUME IInv, Halt PROVE IInv'
<1> USE DEF Halt, fixed, timer, HaltChildren, ResetCounters
<1>1. TypeOK /\ Shape BY DEF IInv
<1>2. children_count \in Nat /\ 1 <= children_count /\ 0 \in Children /\ Children \subseteq Slots
  BY <1>1, Indices DEF Children
<1>3. TypeOK'
  BY <1>1, <1>2, ControlNodesAssumption DEF TypeOK, Children, Slots, Resting, NodeStatus
<1>4. Shape' /\ Turn' BY DEF IInv, Shape, Turn, Resting
<1>5. RecoveryLog' BY ControlNodesAssumption DEF IInv, RecoveryLog
<1>6. RoundLog' BY <1>2 DEF RoundLog, Children
<1>7. PipelineLog' BY DEF PipelineLog, Children
<1>8. RateLog' /\ RateLimited' BY <1>2 DEF IInv, RateLog, RateLimited, Resting, Slots
<1>9. VerdictEarned' BY <1>1, ControlNodesAssumption DEF VerdictEarned, Final, TypeOK
<1>10. PipelineOrder' /\ NoChildLeft' BY <1>2 DEF PipelineOrder, NoChildLeft, Resting, Children, Slots
<1>11. QED BY <1>3, <1>4, <1>5, <1>6, <1>7, <1>8, <1>9, <1>10 DEF IInv

(* Only a RUNNING child ends: a node that is at rest has none. *)
LEMMA ChildEndsKeeps == ASSUME IInv, NEW i \in Slots, ChildEnds(i) PROVE IInv'
<1> USE DEF ChildEnds, fixed, counters, history, timer
<1>1. PICK s \in Final : child' = [child EXCEPT ![i] = s] OBVIOUS
<1>2. TypeOK' BY <1>1 DEF IInv, TypeOK, Children, Slots, Resting, NodeStatus, Final
<1>3. Shape' /\ Turn' BY DEF IInv, Shape, Turn, Resting
<1>4. RecoveryLog' /\ PipelineLog' BY DEF IInv, RecoveryLog, PipelineLog, Children
<1>5. RoundLog' BY DEF IInv, RoundLog, Children, Distance
<1>6. RateLog' /\ RateLimited'
  BY <1>1 DEF IInv, RateLog, RateLimited, Resting, TypeOK, Final
<1>7. VerdictEarned' /\ PipelineOrder'
  BY DEF IInv, VerdictEarned, PipelineOrder, Resting, Children
<1>8. NoChildLeft' BY <1>1 DEF IInv, NoChildLeft, TypeOK, Resting, Children
<1>9. QED BY <1>2, <1>3, <1>4, <1>5, <1>6, <1>7, <1>8 DEF IInv

LEMMA StartTickKeeps == ASSUME IInv, StartTick PROVE IInv'
<1> USE DEF StartTick, StartRate, RestartTimer, fixed, counters, timer
<1>1. TypeOK /\ Shape BY DEF IInv
<1>2. children_count \in Nat /\ 1 <= children_count /\ 0 \in Children /\ Children \subseteq Slots
  BY <1>1, Indices DEF Children
<1>3. kind \in {"RecoveryNode", "RoundRobin", "PipelineSequence", "RateController"} BY <1>1, Indices
<1>4. TypeOK'
  <2>1. /\ UNCHANGED <<kind, children_count, async>>
        /\ child' \in [Slots -> NodeStatus] /\ used' \subseteq async
    <3>1. UNCHANGED <<kind, children_count, async>> OBVIOUS
    <3>2. CASE UNCHANGED <<child, used>> BY <1>1, <3>1, <3>2 DEF TypeOK
    <3>3. CASE HaltChild(0, child[0])
      BY <1>1, <1>2, <3>1, <3>3 DEF HaltChild, TypeOK, NodeStatus
    <3>4. QED BY <1>3, <3>1, <3>2, <3>3
  <2>2. ticking' \in Children \cup {Resting} BY <1>1, <1>2, <1>3 DEF TypeOK
  <2>3. status' \in NodeStatus BY <1>1, <1>3 DEF TypeOK, NodeStatus
  <2>4. first_time_' \in BOOLEAN BY <1>1, <1>3 DEF TypeOK
  <2>5. due' \in BOOLEAN /\ served' \in BOOLEAN BY <1>1, <1>3 DEF TypeOK
  <2>6. passed' \subseteq Children /\ failures' \in 0..(number_of_retries + 1)
    BY <1>1, ControlNodesAssumption DEF TypeOK
  <2>7. answer' \in [Slots -> NodeStatus] BY <1>1 DEF TypeOK, NodeStatus
  <2>8. UNCHANGED counters OBVIOUS
  <2>9. QED BY <1>1, <2>1, <2>2, <2>3, <2>4, <2>5, <2>6, <2>7, <2>8
           DEF TypeOK, Children, Slots, Resting, MaxCount
<1>5. Shape' BY <1>1 DEF Shape
<1>6. Turn' BY <1>1 DEF Turn, Resting
<1>7. RecoveryLog' BY <1>1, <1>3 DEF IInv, RecoveryLog, TypeOK
<1>8. RoundLog'
  <2>1. CASE kind = "RoundRobin" /\ status = "RUNNING"
    BY <2>1, <1>3 DEF IInv, RoundLog, Children, Distance
  <2>2. CASE kind = "RoundRobin" /\ status # "RUNNING"
    <3>1. \A i \in Children : Distance(i) \in Int /\ Distance(i) > 0 BY <1>1, <1>2 DEF Distance, Children, TypeOK
    <3>2. num_failed_children_' = 0 /\ UNCHANGED <<children_count, current_child_idx_, used>>
      BY <2>2 DEF IInv, RoundLog
    <3>3. \A i \in Children : Distance(i)' \in Int /\ Distance(i)' > 0 BY <3>1, <3>2 DEF Distance
    <3>4. used = {} BY <1>1, <1>2, <2>2, <3>1 DEF IInv, RoundLog, TypeOK, Children, Distance
    <3>5. QED BY <1>2, <3>2, <3>3, <3>4 DEF RoundLog, Children, Distance
  <2>3. QED BY <2>1, <2>2 DEF RoundLog
<1>9. PipelineLog' BY <1>2 DEF IInv, PipelineLog, Children
<1>10. RateLog' /\ RateLimited'
  <2>1. CASE kind # "RateController" BY <2>1 DEF RateLog, RateLimited
  <2>2. CASE kind = "RateController"
    <3>1. used = {} /\ (served => ~due /\ ~first_time_ /\ child[0] # "RUNNING")
      BY <2>2 DEF IInv, RateLog
    <3>2. used' = {} /\ (child[0] # "RUNNING" => child'[0] # "RUNNING") /\ status' = "RUNNING"
      BY <1>1, <1>2, <2>2, <3>1 DEF HaltChild, TypeOK
    <3>3. served' => status # "IDLE" /\ UNCHANGED <<due, served>> BY <2>2
    <3>4. served' => ~due' /\ ~first_time_' /\ ticking' = Resting /\ child'[0] # "RUNNING"
      BY <2>2, <3>1, <3>2, <3>3
    <3>5. Resting' = Resting BY DEF Resting, MaxCount
    <3>6. QED BY <3>2, <3>4, <3>5 DEF RateLog, RateLimited
  <2>3. QED BY <2>1, <2>2
<1>11. VerdictEarned'
  <2>1. CASE kind = "RateController"
    BY <2>1 DEF VerdictEarned, Final
  <2>2. CASE kind # "RateController"
    BY <2>2, <1>1, <1>2, <1>3 DEF VerdictEarned, TypeOK, Resting, Slots, MaxCount, Children
  <2>3. QED BY <2>1, <2>2
<1>12. PipelineOrder' BY <1>2 DEF PipelineOrder, Children
<1>13. NoChildLeft'
  <2>1. CASE kind = "PipelineSequence"
    BY <2>1, <1>1, <1>2, Indices DEF NoChildLeft, Resting, MaxCount
  <2>2. CASE kind # "PipelineSequence"
    BY <2>2, <1>3 DEF NoChildLeft
  <2>3. QED BY <2>1, <2>2
<1>14. QED BY <1>4, <1>5, <1>6, <1>7, <1>8, <1>9, <1>10, <1>11, <1>12, <1>13 DEF IInv
-----------------------------------------------------------------------------
(* The loops of tick(): child `ticking` answers s *)

(* What TickChild does besides the loop body of the node. *)
Recorded(s) ==
  /\ passed' = IF s = "SUCCESS" THEN passed \cup {ticking} ELSE passed
  /\ answer' = [answer EXCEPT ![ticking] = s]
  /\ failures' = IF kind = "RecoveryNode" /\ ticking = 0 /\ s = "FAILURE" /\ failures <= number_of_retries
                   THEN failures + 1 ELSE failures
  /\ UNCHANGED fixed

LEMMA RecordedType ==
  ASSUME TypeOK, Shape, ticking # Resting, NEW s \in NodeStatus \ {"IDLE"}, Recorded(s)
  PROVE  /\ UNCHANGED <<kind, children_count, async>>
         /\ passed' \subseteq Children
         /\ answer' \in [Slots -> NodeStatus]
         /\ failures' \in 0..(number_of_retries + 1)
         /\ answer'[ticking] = s
         /\ \A j \in Slots \ {ticking} : answer'[j] = answer[j]
         /\ passed \subseteq passed' /\ (s = "SUCCESS" => ticking \in passed')
         /\ ticking \in Children /\ ticking \in Slots
<1>1. ticking \in Children /\ ticking \in Slots BY Indices DEF TypeOK
<1>2. passed' \subseteq Children /\ passed \subseteq passed' /\ (s = "SUCCESS" => ticking \in passed')
  BY <1>1 DEF TypeOK, Recorded
<1>3. failures' \in 0..(number_of_retries + 1) BY ControlNodesAssumption DEF TypeOK, Recorded
<1>4. /\ answer' \in [Slots -> NodeStatus] /\ answer'[ticking] = s
      /\ \A j \in Slots \ {ticking} : answer'[j] = answer[j]
  BY <1>1 DEF TypeOK, Recorded
<1>5. QED BY <1>1, <1>2, <1>3, <1>4 DEF Recorded, fixed

(* What the helpers do to the children. *)
LEMMA Helpers ==
  ASSUME TypeOK, Shape, NEW i \in Children, NEW s \in NodeStatus
  PROVE  /\ KeepChild(i, s) =>
              /\ child' \in [Slots -> NodeStatus] /\ used' \subseteq async
              /\ used' \subseteq used \cup {i}
              /\ s = "RUNNING" => used' = used
         /\ HaltChild(i, s) =>
              /\ child' \in [Slots -> NodeStatus] /\ used' \subseteq async
              /\ used' = used \ {i} /\ child'[i] = "IDLE"
         /\ HaltChildren =>
              /\ child' \in [Slots -> NodeStatus] /\ used' = {}
              /\ \A j \in Slots : child'[j] = "IDLE"
<1>1. i \in Slots BY Indices
<1>2. "IDLE" \in NodeStatus BY DEF NodeStatus
<1>3. QED BY <1>1, <1>2 DEF TypeOK, KeepChild, HaltChild, HaltChildren, Final

LEMMA RecoveryKeeps ==
  ASSUME IInv, ticking # Resting, kind = "RecoveryNode",
         NEW s \in NodeStatus \ {"IDLE"}, Recorded(s), Recovery(ticking, s), UNCHANGED timer
  PROVE  IInv'
<1>1. TypeOK /\ Shape BY DEF IInv
<1>2. children_count = 2 /\ Children = {0, 1} /\ Resting \notin Children /\ Children \subseteq Slots
  BY <1>1, Indices DEF Children
<1>3. /\ UNCHANGED <<kind, children_count, async>> /\ ticking \in {0, 1}
      /\ passed' \subseteq Children /\ answer' \in [Slots -> NodeStatus]
      /\ failures' \in 0..(number_of_retries + 1) /\ answer'[ticking] = s
      /\ \A j \in Slots \ {ticking} : answer'[j] = answer[j]
  BY <1>1, <1>2, RecordedType
<1>4. Children' = Children /\ Slots' = Slots /\ Resting' = Resting
  BY <1>3 DEF Children, Slots, Resting
<1>5. UNCHANGED <<first_time_, due, served>> BY DEF timer
<1>6. ticking = current_child_idx_ /\ status = "RUNNING" BY DEF IInv, Turn
<1>7. /\ retry_count_ \in Nat /\ number_of_retries \in Nat /\ failures \in Nat
      /\ failures = retry_count_ + ticking /\ used = {}
      /\ ticking = 1 => retry_count_ < number_of_retries
      /\ retry_count_ <= number_of_retries
  BY <1>1, <1>6, ControlNodesAssumption DEF IInv, RecoveryLog, TypeOK
<1>8. failures' = IF ticking = 0 /\ s = "FAILURE" THEN failures + 1 ELSE failures
  BY <1>3, <1>7, ControlNodesAssumption DEF Recorded
<1>9. /\ child' \in [Slots -> NodeStatus] /\ used' = {}
      /\ ticking' = Resting /\ status' # "RUNNING" => \A j \in Slots : child'[j] = "IDLE"
      /\ status' = "RUNNING" => current_child_idx_' \in {0, 1}
  BY <1>1, <1>2, <1>3, <1>6, <1>7, Helpers
  DEF Recovery, Return, GoOnWith, HaltAndReturn, ResetCounters, CountRecovery, counters
<1>10. \/ /\ ticking' = Resting /\ status' \in {"SUCCESS", "FAILURE"}
          /\ status' = "SUCCESS" => ticking = 0 /\ s = "SUCCESS"
          /\ status' = "FAILURE" =>
               /\ s = "FAILURE"
               /\ ticking = 1 \/ retry_count_ = number_of_retries
          /\ current_child_idx_' = 0 /\ retry_count_' = 0
          /\ num_failed_children_' = 0 /\ last_child_ticked_' = 0
       \/ /\ s = "RUNNING" /\ ticking' = Resting /\ status' = "RUNNING" /\ UNCHANGED counters
       \/ /\ ticking = 0 /\ s = "FAILURE" /\ retry_count_ < number_of_retries
          /\ ticking' = 1 /\ status' = "RUNNING" /\ current_child_idx_' = 1
          /\ UNCHANGED <<retry_count_, num_failed_children_, last_child_ticked_>>
       \/ /\ ticking = 1 /\ s = "SUCCESS"
          /\ ticking' = 0 /\ status' = "RUNNING" /\ current_child_idx_' = 0
          /\ retry_count_' = retry_count_ + 1
          /\ UNCHANGED <<num_failed_children_, last_child_ticked_>>
  BY <1>1, <1>3, <1>6, <1>7
  DEF Recovery, Return, GoOnWith, HaltAndReturn, ResetCounters, CountRecovery, counters
<1>11. TypeOK'
  <2>1. /\ status' \in NodeStatus /\ ticking' \in Children \cup {Resting}
        /\ current_child_idx_' \in Children
        /\ retry_count_' \in 0..number_of_retries
    BY <1>1, <1>2, <1>7, <1>10 DEF NodeStatus, Final, TypeOK, counters
  <2>2. num_failed_children_' \in 0..children_count /\ last_child_ticked_' \in Children
    BY <1>1, <1>2, <1>10 DEF TypeOK, counters
  <2>3. QED BY <1>1, <1>3, <1>4, <1>5, <1>9, <2>1, <2>2 DEF TypeOK, MaxCount
<1>12. Shape' /\ Turn'
  BY <1>1, <1>3, <1>4, <1>6, <1>10 DEF Shape, Turn
<1>13. RecoveryLog' BY <1>3, <1>7, <1>8, <1>9, <1>10, <1>6 DEF RecoveryLog, counters
<1>14. RoundLog' /\ PipelineLog' /\ RateLog' /\ RateLimited' /\ PipelineOrder'
  BY <1>3 DEF RoundLog, PipelineLog, RateLog, RateLimited, PipelineOrder
<1>15. VerdictEarned'
  BY <1>2, <1>3, <1>4, <1>7, <1>8, <1>10 DEF VerdictEarned
<1>16. NoChildLeft' BY <1>2, <1>4, <1>9 DEF NoChildLeft
<1>17. QED BY <1>11, <1>12, <1>13, <1>14, <1>15, <1>16 DEF IInv
LEMMA RoundRobinKeeps ==
  ASSUME IInv, ticking # Resting, kind = "RoundRobin",
         NEW s \in NodeStatus \ {"IDLE"}, Recorded(s), RoundRobin(ticking, s), UNCHANGED timer
  PROVE  IInv'
<1>1. TypeOK /\ Shape BY DEF IInv
<1>2. /\ children_count \in Nat /\ 1 <= children_count
      /\ Resting \notin Children /\ Children \subseteq Slots
  BY <1>1, Indices DEF Children
<1>3. /\ UNCHANGED <<kind, children_count, async>> /\ ticking \in Children
      /\ passed' \subseteq Children /\ answer' \in [Slots -> NodeStatus]
      /\ failures' \in 0..(number_of_retries + 1) /\ answer'[ticking] = s
      /\ \A j \in Slots \ {ticking} : answer'[j] = answer[j]
      /\ s = "SUCCESS" => ticking \in passed'
  BY <1>1, RecordedType
<1>4. Children' = Children /\ Slots' = Slots /\ Resting' = Resting
  BY <1>3 DEF Children, Slots, Resting
<1>5. UNCHANGED <<first_time_, due, served>> BY DEF timer
<1>6. ticking = current_child_idx_ /\ status = "RUNNING" BY DEF IInv, Turn
<1>7. /\ num_failed_children_ \in Nat /\ num_failed_children_ < children_count
      /\ \A i \in Children : i \in used => Distance(i) <= num_failed_children_
      /\ \A i \in Children : Distance(i) <= num_failed_children_ => answer[i] = "FAILURE"
      /\ used \subseteq Children
  BY <1>1, <1>6 DEF IInv, RoundLog, TypeOK
<1>8. /\ NextChild(ticking) \in Children
      /\ NextChild(ticking) = (ticking + 1) % children_count
  BY <1>2, <1>3 DEF NextChild, Children
<1>9. /\ child' \in [Slots -> NodeStatus] /\ used' \subseteq async
      /\ ticking' = Resting /\ status' # "RUNNING" =>
           used' = {} /\ \A j \in Slots : child'[j] = "IDLE"
      /\ used' \subseteq used \cup {ticking}
      /\ s = "RUNNING" => used' = used
  BY <1>1, <1>2, <1>3, <1>6, Helpers
  DEF RoundRobin, Return, GoOnWith, HaltAndReturn, ResetCounters, counters
<1>10. \/ /\ s = "SUCCESS" /\ ticking' = Resting /\ status' = "SUCCESS"
          /\ current_child_idx_' = NextChild(ticking) /\ num_failed_children_' = 0
          /\ UNCHANGED <<retry_count_, last_child_ticked_>>
       \/ /\ s = "FAILURE" /\ num_failed_children_ + 1 < children_count
          /\ ticking' = NextChild(ticking) /\ status' = "RUNNING"
          /\ current_child_idx_' = NextChild(ticking)
          /\ num_failed_children_' = num_failed_children_ + 1
          /\ UNCHANGED <<retry_count_, last_child_ticked_>>
       \/ /\ s = "FAILURE" /\ num_failed_children_ + 1 >= children_count
          /\ ticking' = Resting /\ status' = "FAILURE"
          /\ current_child_idx_' = 0 /\ retry_count_' = 0
          /\ num_failed_children_' = 0 /\ last_child_ticked_' = 0
       \/ s = "RUNNING" /\ ticking' = Resting /\ status' = "RUNNING" /\ UNCHANGED counters
  BY <1>2, <1>6, <1>7
  DEF RoundRobin, Return, GoOnWith, HaltAndReturn, ResetCounters, ForgetFailures
<1>11. TypeOK'
  <2>1. 0 \in Children BY <1>2 DEF Children
  <2>2. /\ status' \in NodeStatus /\ ticking' \in Children \cup {Resting}
        /\ current_child_idx_' \in Children
        /\ retry_count_' \in 0..number_of_retries
    BY <1>1, <1>8, <1>10, <2>1, ControlNodesAssumption DEF NodeStatus, Final, TypeOK, counters
  <2>3. num_failed_children_' \in 0..children_count /\ last_child_ticked_' \in Children
    BY <1>1, <1>2, <1>7, <1>10, <2>1 DEF TypeOK, counters
  <2>4. QED BY <1>1, <1>3, <1>4, <1>5, <1>9, <2>2, <2>3 DEF TypeOK, MaxCount
<1>12. Shape' /\ Turn'
  BY <1>1, <1>3, <1>4, <1>10 DEF Shape, Turn
<1>13. RoundLog'
  <2>1. CASE s = "FAILURE" /\ num_failed_children_ + 1 < children_count
    <3>1. /\ current_child_idx_' = NextChild(ticking)
          /\ num_failed_children_' = num_failed_children_ + 1
      BY <1>2, <1>7, <1>10, <2>1
    <3>2. \A i \in Children \ {ticking} : Distance(i)' = Distance(i) + 1
      BY <1>2, <1>3, <1>6, <3>1 DEF Distance, NextChild, Children
    <3>3. \A i \in Children : i = ticking => Distance(i)' = 1
      BY <1>2, <1>3, <1>6, <3>1 DEF Distance, NextChild, Children
    <3>4. \A i \in Children : Distance(i) \in Int
      BY <1>2, <1>3, <1>6 DEF Distance, Children
    <3>5. ASSUME NEW i \in Children, i \in used'
          PROVE  Distance(i)' <= num_failed_children_'
      <4>1. CASE i = ticking BY <4>1, <1>7, <3>1, <3>3
      <4>2. CASE i # ticking
        <5>1. i \in used BY <4>2, <3>5, <1>9
        <5>2. QED BY <4>2, <5>1, <1>7, <3>1, <3>2, <3>4
      <4>3. QED BY <4>1, <4>2
    <3>6. ASSUME NEW i \in Children, Distance(i)' <= num_failed_children_'
          PROVE  answer'[i] = "FAILURE"
      <4>1. CASE i = ticking BY <4>1, <1>3, <2>1
      <4>2. CASE i # ticking
        <5>1. Distance(i) <= num_failed_children_ BY <4>2, <1>7, <3>1, <3>2, <3>4, <3>6
        <5>2. QED BY <4>2, <5>1, <1>2, <1>3, <1>7
      <4>3. QED BY <4>1, <4>2
    <3>7. status' = "RUNNING" BY <1>2, <1>7, <1>10, <2>1
    <3>8. QED BY <1>3, <1>4, <1>7, <2>1, <3>1, <3>5, <3>6, <3>7 DEF RoundLog
  <2>2. CASE s = "RUNNING"
    <3>1. UNCHANGED <<current_child_idx_, num_failed_children_, used>>
      BY <1>9, <1>10, <2>2 DEF counters
    <3>2. \A i \in Children : Distance(i)' = Distance(i) BY <1>3, <3>1 DEF Distance
    <3>3. Distance(ticking) = children_count BY <1>2, <1>3, <1>6 DEF Distance, Children
    <3>4. ASSUME NEW i \in Children, Distance(i) <= num_failed_children_
          PROVE  answer'[i] = "FAILURE"
      <4>1. i # ticking BY <1>2, <1>7, <3>3, <3>4
      <4>2. QED BY <4>1, <1>2, <1>3, <1>7, <3>4
    <3>5. status' = "RUNNING" BY <1>10, <2>2
    <3>6. QED BY <1>3, <1>4, <1>7, <3>1, <3>2, <3>4, <3>5 DEF RoundLog
  <2>3. CASE ticking' = Resting /\ status' # "RUNNING"
    <3>1. num_failed_children_' = 0 /\ used' = {} BY <1>9, <1>10, <2>3
    <3>2. QED BY <1>2, <1>3, <2>3, <3>1 DEF RoundLog
  <2>4. QED BY <1>10, <2>1, <2>2, <2>3
<1>14. RecoveryLog' /\ PipelineLog' /\ RateLog' /\ RateLimited' /\ PipelineOrder'
  BY <1>3 DEF RecoveryLog, PipelineLog, RateLog, RateLimited, PipelineOrder
<1>15. VerdictEarned'
  <2>1. CASE s = "SUCCESS"
    BY <2>1, <1>3, <1>8, <1>10 DEF VerdictEarned
  <2>2. CASE s = "FAILURE" /\ num_failed_children_ + 1 >= children_count
    <3>1. \A i \in Children \ {ticking} : Distance(i) <= children_count - 1
      BY <1>2, <1>3, <1>6 DEF Distance, Children
    <3>2. \A i \in Children \ {ticking} : answer[i] = "FAILURE"
      BY <1>2, <1>7, <2>2, <3>1
    <3>3. \A i \in Children : answer'[i] = "FAILURE" BY <1>2, <1>3, <2>2, <3>2
    <3>4. status' = "FAILURE" BY <1>2, <1>7, <1>10, <2>2
    <3>5. QED BY <1>3, <1>4, <3>3, <3>4 DEF VerdictEarned
  <2>3. CASE status' = "RUNNING"
    BY <2>3, <1>3 DEF VerdictEarned
  <2>4. QED BY <1>10, <2>1, <2>2, <2>3
<1>16. NoChildLeft' BY <1>2, <1>4, <1>9 DEF NoChildLeft
<1>17. QED BY <1>11, <1>12, <1>13, <1>14, <1>15, <1>16 DEF IInv

LEMMA PipelineKeeps ==
  ASSUME IInv, ticking # Resting, kind = "PipelineSequence",
         NEW s \in NodeStatus \ {"IDLE"}, Recorded(s), Pipeline(ticking, s), UNCHANGED timer
  PROVE  IInv'
<1>1. TypeOK /\ Shape BY DEF IInv
<1>2. /\ children_count \in Nat /\ 1 <= children_count
      /\ Resting \notin Children /\ Children \subseteq Slots
  BY <1>1, Indices DEF Children
<1>3. /\ UNCHANGED <<kind, children_count, async>> /\ ticking \in Children
      /\ passed' \subseteq Children /\ answer' \in [Slots -> NodeStatus]
      /\ failures' \in 0..(number_of_retries + 1) /\ answer'[ticking] = s
      /\ passed \subseteq passed'
      /\ s = "SUCCESS" => ticking \in passed'
  BY <1>1, RecordedType
<1>4. Children' = Children /\ Slots' = Slots /\ Resting' = Resting
  BY <1>3 DEF Children, Slots, Resting
<1>5. UNCHANGED <<first_time_, due, served>> BY DEF timer
<1>6. /\ last_child_ticked_ \in Children
      /\ status # "RUNNING" => last_child_ticked_ = 0
      /\ \A i \in Children : i < last_child_ticked_ => i \in passed
      /\ \A i \in Children : i < ticking => i \in passed
  BY <1>1 DEF IInv, TypeOK, PipelineLog, PipelineOrder
<1>7. /\ child' \in [Slots -> NodeStatus] /\ used' \subseteq async
      /\ ticking' = Resting /\ status' # "RUNNING" => \A j \in Slots : child'[j] = "IDLE"
  BY <1>1, <1>2, <1>3, Helpers
  DEF Pipeline, Return, GoOnWith, HaltAndReturn, ResetCounters, Last, Children
<1>8. \/ /\ s = "FAILURE" /\ ticking' = Resting /\ status' = "FAILURE"
         /\ current_child_idx_' = 0 /\ retry_count_' = 0
         /\ num_failed_children_' = 0 /\ last_child_ticked_' = 0
      \/ /\ s = "RUNNING" /\ ticking' = Resting /\ status' = "RUNNING"
         /\ last_child_ticked_' = ticking
         /\ UNCHANGED <<current_child_idx_, retry_count_, num_failed_children_>>
      \/ /\ s = "SUCCESS" \/ (s = "RUNNING" /\ ticking < last_child_ticked_)
         /\ ticking < Last
         /\ ticking' = ticking + 1 /\ UNCHANGED status /\ UNCHANGED counters
      \/ /\ s = "SUCCESS" \/ (s = "RUNNING" /\ ticking < last_child_ticked_)
         /\ ~(ticking < Last)
         /\ ticking' = Resting /\ status' = "SUCCESS"
         /\ current_child_idx_' = 0 /\ retry_count_' = 0
         /\ num_failed_children_' = 0 /\ last_child_ticked_' = 0
  BY DEF Pipeline, Return, GoOnWith, HaltAndReturn, ResetCounters
<1>9. s = "SUCCESS" \/ ticking < last_child_ticked_ => \A i \in Children : i <= ticking => i \in passed'
  BY <1>2, <1>3, <1>6 DEF Children
<1>10. TypeOK'
  <2>1. 0 \in Children /\ (ticking < Last => ticking + 1 \in Children)
    BY <1>2, <1>3 DEF Children, Last
  <2>2. /\ status' \in NodeStatus /\ ticking' \in Children \cup {Resting}
        /\ current_child_idx_' \in Children
        /\ retry_count_' \in 0..number_of_retries
    BY <1>1, <1>8, <2>1, ControlNodesAssumption DEF NodeStatus, Final, TypeOK, counters
  <2>3. num_failed_children_' \in 0..children_count /\ last_child_ticked_' \in Children
    BY <1>1, <1>2, <1>3, <1>8, <2>1 DEF TypeOK, counters
  <2>4. QED BY <1>1, <1>3, <1>4, <1>5, <1>7, <2>2, <2>3 DEF TypeOK, MaxCount
<1>11. Shape' /\ Turn' BY <1>1, <1>3 DEF Shape, Turn
<1>12. PipelineLog' /\ PipelineOrder'
  BY <1>2, <1>3, <1>4, <1>6, <1>8, <1>9 DEF PipelineLog, PipelineOrder, Children, Last, counters
<1>13. RecoveryLog' /\ RoundLog' /\ RateLog' /\ RateLimited'
  BY <1>3 DEF RecoveryLog, RoundLog, RateLog, RateLimited
<1>14. VerdictEarned'
  <2>1. CASE s = "FAILURE"
    BY <2>1, <1>2, <1>3, <1>4, <1>6, <1>8, <1>9 DEF VerdictEarned, Children
  <2>2. CASE ticking' # Resting BY <2>2, <1>4 DEF VerdictEarned
  <2>3. CASE ticking' = Resting /\ status' = "RUNNING" BY <2>3, <1>3 DEF VerdictEarned
  <2>4. CASE ~(ticking < Last) /\ status' = "SUCCESS" /\ (s = "SUCCESS" \/ ticking < last_child_ticked_)
    <3>1. \A i \in Children : i <= ticking BY <1>2, <1>3, <2>4 DEF Children, Last
    <3>2. \A i \in Children : i \in passed' BY <3>1, <1>9, <2>4
    <3>3. passed' = Children BY <1>3, <3>2
    <3>4. QED BY <1>3, <1>4, <2>4, <3>3 DEF VerdictEarned
  <2>5. CASE ticking < Last /\ ticking' = ticking + 1
    BY <1>2, <1>3, <1>4, <2>2, <2>5 DEF Children, Last
  <2>6. QED BY <1>8, <2>1, <2>2, <2>3, <2>4, <2>5
<1>15. NoChildLeft' BY <1>2, <1>4, <1>7 DEF NoChildLeft
<1>16. QED BY <1>10, <1>11, <1>12, <1>13, <1>14, <1>15 DEF IInv
LEMMA RateKeeps ==
  ASSUME IInv, ticking # Resting, kind = "RateController",
         NEW s \in NodeStatus \ {"IDLE"}, Recorded(s), Rate(ticking, s)
  PROVE  IInv'
<1>1. TypeOK /\ Shape BY DEF IInv
<1>2. children_count = 1 /\ Children = {0} /\ Resting \notin Children /\ Children \subseteq Slots
  BY <1>1, Indices DEF Children
<1>3. /\ UNCHANGED <<kind, children_count, async>> /\ ticking = 0
      /\ passed' \subseteq Children /\ answer' \in [Slots -> NodeStatus]
      /\ failures' \in 0..(number_of_retries + 1) /\ answer'[0] = s
  BY <1>1, <1>2, RecordedType
<1>4. Children' = Children /\ Slots' = Slots /\ Resting' = Resting
  BY <1>3 DEF Children, Slots, Resting
<1>5. /\ status' = s /\ ticking' = Resting /\ first_time_' = FALSE
      /\ current_child_idx_' = current_child_idx_ /\ retry_count_' = retry_count_
      /\ num_failed_children_' = num_failed_children_ /\ last_child_ticked_' = last_child_ticked_
  BY DEF Rate, Return, counters
<1>6. /\ due' \in BOOLEAN /\ served' \in BOOLEAN
      /\ s = "SUCCESS" => due' = FALSE
      /\ s # "SUCCESS" => served' = FALSE
  BY <1>1 DEF Rate, RestartTimer, IInv, RateLimited, TypeOK
<1>7. used = {} BY DEF IInv, RateLog
<1>8. /\ child' \in [Slots -> NodeStatus] /\ used' = {}
      /\ s # "RUNNING" => child'[0] = "IDLE"
  BY <1>1, <1>2, <1>3, <1>7, Helpers DEF Rate
<1>9. TypeOK'
  BY <1>1, <1>2, <1>3, <1>4, <1>5, <1>6, <1>8 DEF TypeOK, MaxCount
<1>10. Shape' /\ Turn' BY <1>1, <1>3 DEF Shape, Turn
<1>11. RateLog' /\ RateLimited' BY <1>3, <1>4, <1>5, <1>6, <1>8 DEF RateLog, RateLimited
<1>12. RecoveryLog' /\ RoundLog' /\ PipelineLog' /\ PipelineOrder'
  BY <1>3 DEF RecoveryLog, RoundLog, PipelineLog, PipelineOrder
<1>13. VerdictEarned' BY <1>3, <1>5 DEF VerdictEarned
<1>14. NoChildLeft' BY <1>2, <1>4, <1>5, <1>8 DEF NoChildLeft
<1>15. QED BY <1>9, <1>10, <1>11, <1>12, <1>13, <1>14 DEF IInv

LEMMA TickChildKeeps == ASSUME IInv, TickChild PROVE IInv'
<1>1. TypeOK /\ Shape /\ ticking # Resting BY DEF IInv, TickChild
<1>2. ticking \in Slots BY <1>1, Indices DEF TypeOK
<1>3. Answers(ticking) \subseteq NodeStatus \ {"IDLE"}
  BY <1>1, <1>2 DEF Answers, TypeOK
<1>4. PICK s \in NodeStatus \ {"IDLE"} :
        /\ Recorded(s)
        /\ \/ kind = "RecoveryNode" /\ Recovery(ticking, s) /\ UNCHANGED timer
           \/ kind = "RoundRobin" /\ RoundRobin(ticking, s) /\ UNCHANGED timer
           \/ kind = "PipelineSequence" /\ Pipeline(ticking, s) /\ UNCHANGED timer
           \/ kind = "RateController" /\ Rate(ticking, s)
  BY <1>3 DEF TickChild, Recorded
<1>5. QED BY <1>1, <1>4, RecoveryKeeps, RoundRobinKeeps, PipelineKeeps, RateKeeps

LEMMA Inductive == Init /\ [][Next]_vars => []IInv
<1>1. ASSUME IInv, UNCHANGED vars PROVE IInv'
  <2> USE <1>1 DEF vars, fixed, counters, history, timer
  <2>1. TypeOK' BY DEF IInv, TypeOK, Children, Slots, Resting
  <2>2. Shape' /\ Turn' BY DEF IInv, Shape, Turn, Resting
  <2>3. RecoveryLog' /\ PipelineLog' BY DEF IInv, RecoveryLog, PipelineLog, Children
  <2>4. RoundLog' BY DEF IInv, RoundLog, Children, Distance
  <2>5. RateLog' /\ RateLimited' BY DEF IInv, RateLog, RateLimited, Resting
  <2>6. VerdictEarned' /\ PipelineOrder' /\ NoChildLeft'
    BY DEF IInv, VerdictEarned, PipelineOrder, NoChildLeft, Resting, Children
  <2>7. QED BY <2>1, <2>2, <2>3, <2>4, <2>5, <2>6 DEF IInv
<1>2. IInv /\ [Next]_vars => IInv'
  BY <1>1, StartTickKeeps, TickChildKeeps, ElapseKeeps, HaltKeeps, ParentResetsKeeps, ChildEndsKeeps
  DEF Next
<1>3. QED BY <1>2, Initially, PTL

-----------------------------------------------------------------------------
(* Every variable keeps its type. *)
THEOREM TypeCorrect == Spec => []TypeOK
BY Inductive, PTL DEF Spec, IInv

(* Each node answers what the answers of its children entitle it to          *)
(* (recovery_node.cpp, round_robin_node.cpp, pipeline_sequence.cpp).          *)
THEOREM VerdictsEarned == Spec => []VerdictEarned
BY Inductive, PTL DEF Spec, IInv

(* PipelineSequence ticks no child ahead of its turn (pipeline_sequence.cpp). *)
THEOREM PipelineInOrder == Spec => []PipelineOrder
BY Inductive, PTL DEF Spec, IInv

(* A node that has answered or was halted leaves no child at work. *)
THEOREM ChildrenHalted == Spec => []NoChildLeft
BY Inductive, PTL DEF Spec, IInv

(* RateController keeps to its rate (rate_controller.cpp). *)
THEOREM RateKept == Spec => []RateLimited
BY Inductive, PTL DEF Spec, IInv

(* No action node is asked for the result of a run that was used already. *)
THEOREM NeverStale == Spec => []FreshAnswers
<1>1. ASSUME IInv PROVE FreshAnswers
  <2> SUFFICES ASSUME kind # "PipelineSequence" PROVE ticking \notin used
    BY DEF FreshAnswers
  <2>1. TypeOK /\ Shape BY <1>1 DEF IInv
  <2>2. used \subseteq Children /\ Resting \notin used BY <2>1, Indices DEF TypeOK
  <2>3. CASE kind # "RoundRobin"
    BY <1>1, <2>1, <2>3, Indices DEF IInv, RecoveryLog, RateLog
  <2>4. CASE kind = "RoundRobin" /\ ticking # Resting
    <3>1. ticking = current_child_idx_ /\ ticking \in Children
      BY <1>1, <2>1, <2>4 DEF IInv, Turn, TypeOK
    <3>2. Distance(ticking) = children_count
      BY <2>1, <3>1, Indices DEF Distance, Children
    <3>3. num_failed_children_ \in Nat /\ num_failed_children_ < children_count
      BY <1>1, <2>1, <2>4, Indices DEF IInv, TypeOK, RoundLog
    <3>4. QED BY <1>1, <2>1, <2>4, <3>1, <3>2, <3>3, Indices DEF IInv, RoundLog
  <2>5. QED BY <2>2, <2>3, <2>4
<1>2. QED BY <1>1, Inductive, PTL DEF Spec

-----------------------------------------------------------------------------
(* How often a tick() may still execute a child, the child at hand included. *)
TicksLeft ==
  CASE kind = "RecoveryNode" -> 2 * (number_of_retries - retry_count_) + 1 - current_child_idx_
    [] kind = "RoundRobin" -> children_count - num_failed_children_
    [] kind = "PipelineSequence" -> children_count - ticking
    [] kind = "RateController" -> 1

MostTicks == IF kind = "RecoveryNode" THEN 2 * number_of_retries + 1 ELSE children_count

TicksBounded == ticking # Resting => TicksLeft \in 1 .. MostTicks

TickCounts == TickChild /\ ticking' # Resting => TicksLeft' < TicksLeft

LEMMA LeftInBounds == ASSUME IInv, ticking # Resting PROVE TicksLeft \in 1 .. MostTicks
<1>1. TypeOK /\ Shape BY DEF IInv
<1>2. children_count \in Nat /\ 1 <= children_count BY <1>1, Indices
<1>3. ticking \in 0 .. children_count - 1 BY <1>1 DEF TypeOK, Children
<1>4. CASE kind = "RecoveryNode"
  <2>1. /\ retry_count_ \in 0 .. number_of_retries /\ number_of_retries \in Nat
        /\ current_child_idx_ \in {0, 1}
        /\ current_child_idx_ = 1 => retry_count_ < number_of_retries
    BY <1>1, <1>4, Indices, ControlNodesAssumption DEF IInv, RecoveryLog, TypeOK, Children
  <2>2. TicksLeft = 2 * (number_of_retries - retry_count_) + 1 - current_child_idx_
    BY <1>4 DEF TicksLeft
  <2>3. QED BY <1>4, <2>1, <2>2 DEF MostTicks
<1>5. CASE kind = "RoundRobin"
  <2>1. num_failed_children_ \in Nat /\ num_failed_children_ < children_count
    BY <1>1, <1>2, <1>5 DEF IInv, RoundLog, TypeOK
  <2>2. TicksLeft = children_count - num_failed_children_ BY <1>5 DEF TicksLeft
  <2>3. QED BY <1>2, <1>5, <2>1, <2>2 DEF MostTicks
<1>6. CASE kind = "PipelineSequence"
  <2>1. TicksLeft = children_count - ticking BY <1>6 DEF TicksLeft
  <2>2. QED BY <1>2, <1>3, <1>6, <2>1 DEF MostTicks
<1>7. CASE kind = "RateController"
  <2>1. TicksLeft = 1 BY <1>7 DEF TicksLeft
  <2>2. QED BY <1>2, <1>7, <2>1 DEF MostTicks
<1>8. QED BY <1>1, <1>4, <1>5, <1>6, <1>7, Indices

LEMMA TickChildCounts == ASSUME IInv, TickChild, ticking' # Resting PROVE TicksLeft' < TicksLeft
<1>1. TypeOK /\ Shape /\ ticking # Resting BY DEF IInv, TickChild
<1>2. children_count \in Nat /\ 1 <= children_count /\ ticking \in 0 .. children_count - 1
  BY <1>1, Indices DEF TypeOK, Children
<1>3. UNCHANGED <<kind, children_count>> BY DEF TickChild, fixed
<1>4. PICK s \in Answers(ticking) :
        \/ kind = "RecoveryNode" /\ Recovery(ticking, s)
        \/ kind = "RoundRobin" /\ RoundRobin(ticking, s)
        \/ kind = "PipelineSequence" /\ Pipeline(ticking, s)
        \/ kind = "RateController" /\ Rate(ticking, s)
  BY DEF TickChild
<1>5. CASE kind = "RecoveryNode" /\ Recovery(ticking, s)
  <2>1. /\ retry_count_ \in 0 .. number_of_retries /\ number_of_retries \in Nat
        /\ current_child_idx_ = ticking
    BY <1>1, <1>5, ControlNodesAssumption DEF IInv, Turn, TypeOK
  <2>2. \/ ticking = 0 /\ current_child_idx_' = 1 /\ retry_count_' = retry_count_
        \/ ticking = 1 /\ current_child_idx_' = 0 /\ retry_count_' = retry_count_ + 1
    BY <1>5, <1>1 DEF Recovery, HaltAndReturn, Return, Resting, CountRecovery
  <2>3. /\ TicksLeft = 2 * (number_of_retries - retry_count_) + 1 - current_child_idx_
        /\ TicksLeft' = 2 * (number_of_retries - retry_count_') + 1 - current_child_idx_'
    BY <1>3, <1>5 DEF TicksLeft
  <2>4. QED BY <2>1, <2>2, <2>3
<1>6. CASE kind = "RoundRobin" /\ RoundRobin(ticking, s)
  <2>1. num_failed_children_ \in Nat BY <1>1, <1>2 DEF TypeOK
  <2>2. num_failed_children_' = num_failed_children_ + 1
    BY <1>6 DEF RoundRobin, HaltAndReturn, Return, Resting
  <2>3. /\ TicksLeft = children_count - num_failed_children_
        /\ TicksLeft' = children_count - num_failed_children_'
    BY <1>3, <1>6 DEF TicksLeft
  <2>4. QED BY <1>2, <2>1, <2>2, <2>3
<1>7. CASE kind = "PipelineSequence" /\ Pipeline(ticking, s)
  <2>1. ticking' = ticking + 1
    BY <1>7 DEF Pipeline, HaltAndReturn, Return, Resting, GoOnWith
  <2>2. TicksLeft = children_count - ticking /\ TicksLeft' = children_count - ticking'
    BY <1>3, <1>7 DEF TicksLeft
  <2>3. QED BY <1>2, <2>1, <2>2
<1>8. CASE kind = "RateController" /\ Rate(ticking, s)
  BY <1>8 DEF Rate, Return, Resting
<1>9. QED BY <1>4, <1>5, <1>6, <1>7, <1>8

(* Nothing but the loop itself moves its counters. *)
TickOwnsCounters == ticking # Resting /\ ~TickChild => UNCHANGED <<TicksLeft, ticking>>

LEMMA OthersKeepCounters == IInv /\ [Next]_vars => TickOwnsCounters
<1> SUFFICES ASSUME [Next]_vars, ticking # Resting, ~TickChild PROVE UNCHANGED <<TicksLeft, ticking>>
  BY DEF TickOwnsCounters
<1>1. UNCHANGED <<kind, children_count, ticking, counters>>
  BY DEF Next, StartTick, Elapse, Halt, ParentResets, ChildEnds, vars, fixed
<1>2. QED BY <1>1 DEF TicksLeft, counters

(* The loop of tick() cannot go round for ever: RecoveryNode executes its      *)
(* children no more than twice for every retry and once, the others no child   *)
(* more often than once; each turn of the loop uses up one of the executions   *)
(* that are left, and no other step does or gives one back                     *)
(* (recovery.cpp:27, round_robin.cpp:24, pipeline_sequence.cpp:20).            *)
THEOREM TicksRunOut ==
  Spec => /\ []TicksBounded
          /\ [][TickCounts /\ TickOwnsCounters]_vars
<1>1. IInv => TicksBounded BY LeftInBounds DEF TicksBounded
<1>2. IInv /\ [Next]_vars => [TickCounts /\ TickOwnsCounters]_vars
  BY TickChildCounts, OthersKeepCounters DEF TickCounts
<1>3. QED BY Inductive, <1>1, <1>2, PTL DEF Spec
=============================================================================
