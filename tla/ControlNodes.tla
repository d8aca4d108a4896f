--------------------------- MODULE ControlNodes ---------------------------
(***************************************************************************)
(* The nodes with children of the behavior trees: RecoveryNode, RoundRobin *)
(* and PipelineSequence, and the decorator RateController, which has one   *)
(* child, of nav2_drone_bt_navigator (kind).                               *)
(*                                                                         *)
(* tick() is a loop over children: each executeTick() of a child is a step *)
(* (TickChild), with what the node does with the answer, up to the next    *)
(* child or the return.  Between two steps the thread of an asynchronous   *)
(* child may end (ChildEnds), or the period of a RateController (Elapse).  *)
(*                                                                         *)
(* External, as BehaviorTree.CPP 3 has them: executeTick() of a child,     *)
(* haltChild() and haltChildren(), and executeTick() of a decorator, which *)
(* makes a child that has answered IDLE.  An AsyncActionNode, as the action *)
(* clients of this repository are, is started only when IDLE and otherwise *)
(* answers with the status it has; any other child is evaluated anew.  A   *)
(* halted child is taken to stay IDLE: BtActionNode is about those that do *)
(* not.                                                                    *)
(***************************************************************************)
EXTENDS Naturals

CONSTANTS
  Kinds,             \* the control nodes looked at
  ChildCount,        \* children of a RoundRobin or a PipelineSequence
  number_of_retries  \* of a RecoveryNode

ASSUME ControlNodesAssumption ==
  /\ Kinds \subseteq {"RecoveryNode", "RoundRobin", "PipelineSequence", "RateController"}
  /\ ChildCount \in Nat \ {0}
  /\ number_of_retries \in Nat

VARIABLES
  kind,                 \* which control node this is
  children_count,       \* RecoveryNode: 2, or tick() throws; RateController: 1
  async,                \* which children are AsyncActionNodes
  status,               \* BT::TreeNode's status of the node
  ticking,              \* the child tick() is about to execute, or Resting
  child,                \* the status of each child
  current_child_idx_,   \* of RecoveryNode and RoundRobin; each node has its own
  retry_count_,         \* of RecoveryNode
  num_failed_children_, \* of RoundRobin
  last_child_ticked_,   \* of PipelineSequence
  first_time_,          \* of RateController
  due,       \* of RateController: has the period elapsed since start_?
  passed,    \* history: the children that succeeded since the node was started
  answer,    \* history: the last answer of each child since then
  failures,  \* history: how often the first child failed since then (saturates)
  used,      \* history: async children whose final status was answered already
  served     \* history: RateController has succeeded in this period

counters == <<current_child_idx_, retry_count_, num_failed_children_, last_child_ticked_>>
history  == <<passed, answer, failures, used>>
timer    == <<first_time_, due, served>>
fixed    == <<kind, children_count, async>>
vars     == <<fixed, status, ticking, child, counters, history, timer>>

MaxCount == IF ChildCount > 2 THEN ChildCount ELSE 2
Slots    == 0..(MaxCount - 1)
Resting  == MaxCount
Children == 0..(children_count - 1)
Last     == children_count - 1
Final    == {"SUCCESS", "FAILURE"}
NodeStatus == {"IDLE", "RUNNING"} \cup Final

TypeOK ==
  /\ kind \in Kinds
  /\ children_count \in 1..MaxCount
  /\ async \subseteq Children
  /\ status \in NodeStatus
  /\ ticking \in Children \cup {Resting}
  /\ child \in [Slots -> NodeStatus]
  /\ current_child_idx_ \in Children
  /\ retry_count_ \in 0..number_of_retries
  /\ num_failed_children_ \in 0..children_count
  /\ last_child_ticked_ \in Children
  /\ passed \subseteq Children
  /\ answer \in [Slots -> NodeStatus]
  /\ failures \in 0..(number_of_retries + 1)
  /\ used \subseteq async
  /\ first_time_ \in BOOLEAN /\ due \in BOOLEAN /\ served \in BOOLEAN

Init ==
  /\ kind \in Kinds
  /\ children_count = CASE kind = "RecoveryNode" -> 2
                         [] kind = "RateController" -> 1
                         [] OTHER -> ChildCount
  /\ async \in SUBSET Children
  /\ status = "IDLE"
  /\ ticking = Resting
  /\ child = [i \in Slots |-> "IDLE"]
  /\ current_child_idx_ = 0 /\ retry_count_ = 0
  /\ num_failed_children_ = 0 /\ last_child_ticked_ = 0
  /\ passed = {} /\ failures = 0 /\ used = {}
  /\ answer = [i \in Slots |-> "IDLE"]
  /\ first_time_ = FALSE /\ due = TRUE /\ served = FALSE

-----------------------------------------------------------------------------
(* What the nodes do with their children and counters *)

(* The child answered s: its status, and whether a final one was used. *)
KeepChild(i, s) ==
  /\ child' = [child EXCEPT ![i] = s]
  /\ used' = IF i \in async /\ s \in Final THEN used \cup {i} ELSE used

(* Faulty: the child keeps the status it answered. *)
HaltChild_Omitted(i, s) == KeepChild(i, s)

(* haltChild(i) after the answer s, or resetStatus(): the child ends IDLE.    *)
HaltChild(i, s) ==
  /\ child' = [child EXCEPT ![i] = "IDLE"]
  /\ used' = used \ {i}

HaltChildren == child' = [i \in Slots |-> "IDLE"] /\ used' = {}

(* Faulty: last_child_ticked_ stays where it was. *)
ResetCounters_KeepsLast ==
  /\ current_child_idx_' = 0 /\ retry_count_' = 0
  /\ num_failed_children_' = 0 /\ UNCHANGED last_child_ticked_

ResetCounters ==
  /\ current_child_idx_' = 0 /\ retry_count_' = 0
  /\ num_failed_children_' = 0 /\ last_child_ticked_' = 0

Return(s) == status' = s /\ ticking' = Resting

GoOnWith(i) == ticking' = i /\ UNCHANGED status

(* Faulty: the children that are still running go on. *)
HaltAndReturn_LeavesChildren(s) == UNCHANGED <<child, used>> /\ ResetCounters /\ Return(s)

HaltAndReturn(s) == HaltChildren /\ ResetCounters /\ Return(s)

(* What executeTick() of child i may answer. *)
Answers(i) == IF i \in async /\ child[i] # "IDLE" THEN {child[i]} ELSE NodeStatus \ {"IDLE"}

-----------------------------------------------------------------------------
(* The loops.  Each operator is the body for child i, which answered s. *)

(* Faulty: the recovery is not counted. *)
CountRecovery_Omitted == UNCHANGED retry_count_

CountRecovery == retry_count_' = retry_count_ + 1

(* RecoveryNode: the second child is the recovery of the first. *)
Recovery(i, s) ==
  \/ i = 0 /\ s = "SUCCESS" /\ HaltAndReturn(s)
  \/ /\ i = 0 /\ s = "FAILURE"
     /\ IF retry_count_ < number_of_retries
          THEN /\ HaltChild(0, s) /\ current_child_idx_' = 1 /\ GoOnWith(1)
               /\ UNCHANGED <<retry_count_, num_failed_children_, last_child_ticked_>>
          ELSE HaltAndReturn(s)
  \/ /\ i = 1 /\ s = "SUCCESS"
     /\ HaltChild(1, s) /\ CountRecovery /\ current_child_idx_' = 0 /\ GoOnWith(0)
     /\ UNCHANGED <<num_failed_children_, last_child_ticked_>>
  \/ i = 1 /\ s = "FAILURE" /\ HaltAndReturn(s)
  \/ s = "RUNNING" /\ KeepChild(i, s) /\ Return(s) /\ UNCHANGED counters

(* Faulty: no wrap around to the first child. *)
NextChild_NoWrap(i) == i + 1

(* ++current_child_idx_, wrapped around to the first child *)
NextChild(i) == IF i + 1 >= children_count THEN 0 ELSE i + 1

(* Faulty: a success leaves the failures counted before it. *)
ForgetFailures_Omitted == UNCHANGED num_failed_children_

ForgetFailures == num_failed_children_' = 0

(* RoundRobin: a failed child passes the turn on, a successful one ends it. *)
RoundRobin(i, s) ==
  \/ /\ s = "SUCCESS"
     /\ HaltChildren /\ Return(s)
     /\ current_child_idx_' = NextChild(i) /\ ForgetFailures
     /\ UNCHANGED <<retry_count_, last_child_ticked_>>
  \/ /\ s = "FAILURE"
     /\ IF num_failed_children_ + 1 < children_count
          THEN /\ KeepChild(i, s) /\ GoOnWith(NextChild(i))
               /\ current_child_idx_' = NextChild(i)
               /\ num_failed_children_' = num_failed_children_ + 1
               /\ UNCHANGED <<retry_count_, last_child_ticked_>>
          ELSE HaltAndReturn(s)
  \/ s = "RUNNING" /\ KeepChild(i, s) /\ Return(s) /\ UNCHANGED counters

(* PipelineSequence: a running child holds up the children after it only if  *)
(* none of them has been reached yet.                                        *)
Pipeline(i, s) ==
  \/ s = "FAILURE" /\ HaltAndReturn(s)
  \/ /\ s = "RUNNING" /\ i >= last_child_ticked_
     /\ KeepChild(i, s) /\ Return(s)
     /\ last_child_ticked_' = i
     /\ UNCHANGED <<current_child_idx_, retry_count_, num_failed_children_>>
  \/ /\ s = "SUCCESS" \/ (s = "RUNNING" /\ i < last_child_ticked_)
     /\ IF i < Last
          THEN KeepChild(i, s) /\ GoOnWith(i + 1) /\ UNCHANGED counters
          ELSE HaltAndReturn("SUCCESS")

(* Faulty: the timer is not restarted. *)
RestartTimer_Omitted == UNCHANGED due

(* start_ = now() *)
RestartTimer == due' = FALSE

(* RateController: only a success starts the next period.  executeTick() of  *)
(* the node then looks at the child again, whose thread may have ended since *)
(* it answered RUNNING: that child is IDLE now, and its answer is lost.      *)
Rate(i, s) ==
  /\ first_time_' = FALSE
  /\ Return(s)
  /\ \/ s = "RUNNING" /\ KeepChild(i, s)
     \/ (s # "RUNNING" \/ i \in async) /\ HaltChild(i, s)
  /\ IF s = "SUCCESS" THEN RestartTimer /\ served' = TRUE ELSE UNCHANGED <<due, served>>
  /\ UNCHANGED counters

-----------------------------------------------------------------------------
(* Steps *)

(* RateController: an IDLE node begins a period with a tick of its child; one *)
(* that is not RUNNING any more waits for the period to elapse.  A tick that  *)
(* does not execute the child leaves it IDLE all the same: what a child that  *)
(* ended between two ticks had to answer is lost.                             *)
StartRate ==
  LET first == status = "IDLE" \/ first_time_
      executes == first \/ child[0] = "RUNNING" \/ due IN
  /\ ticking' = IF executes THEN 0 ELSE Resting
  /\ IF executes THEN UNCHANGED <<child, used>> ELSE HaltChild(0, child[0])
  /\ first_time_' = first
  /\ IF status = "IDLE" THEN RestartTimer /\ served' = FALSE ELSE UNCHANGED <<due, served>>

(* The parent's executeTick() of the node. *)
StartTick ==
  /\ ticking = Resting
  /\ \/ kind = "PipelineSequence" /\ ticking' = 0 /\ UNCHANGED <<status, child, used, timer>>
     \/ /\ kind \in {"RecoveryNode", "RoundRobin"}
        /\ ticking' = current_child_idx_ /\ status' = "RUNNING" /\ UNCHANGED <<child, used, timer>>
     \/ kind = "RateController" /\ StartRate /\ status' = "RUNNING"
  /\ IF status = "RUNNING"
       THEN UNCHANGED <<passed, answer, failures>>
       ELSE passed' = {} /\ failures' = 0 /\ answer' = [i \in Slots |-> "IDLE"]
  /\ UNCHANGED <<fixed, counters>>

TickChild ==
  /\ ticking # Resting
  /\ \E s \in Answers(ticking) :
       /\ \/ kind = "RecoveryNode" /\ Recovery(ticking, s) /\ UNCHANGED timer
          \/ kind = "RoundRobin" /\ RoundRobin(ticking, s) /\ UNCHANGED timer
          \/ kind = "PipelineSequence" /\ Pipeline(ticking, s) /\ UNCHANGED timer
          \/ kind = "RateController" /\ Rate(ticking, s)
       /\ passed' = IF s = "SUCCESS" THEN passed \cup {ticking} ELSE passed
       /\ answer' = [answer EXCEPT ![ticking] = s]
       /\ failures' = IF kind = "RecoveryNode" /\ ticking = 0 /\ s = "FAILURE" /\ failures <= number_of_retries
                        THEN failures + 1 ELSE failures
  /\ UNCHANGED fixed

(* The clock: the period since start_ is over. *)
Elapse ==
  /\ kind = "RateController" /\ ~due
  /\ due' = TRUE /\ served' = FALSE
  /\ UNCHANGED <<fixed, status, ticking, child, counters, history, first_time_>>

(* The thread of an asynchronous child sets the status tick() returned. *)
ChildEnds(i) ==
  /\ i \in async /\ child[i] = "RUNNING"
  /\ \E s \in Final : child' = [child EXCEPT ![i] = s]
  /\ UNCHANGED <<fixed, status, ticking, counters, history, timer>>

(* halt() of a RUNNING node by its parent, which then makes it IDLE. *)
Halt ==
  /\ ticking = Resting /\ status = "RUNNING"
  /\ HaltChildren /\ ResetCounters /\ status' = "IDLE"
  /\ UNCHANGED <<fixed, ticking, passed, answer, failures, timer>>

(* The parent has used the answer and makes the node IDLE. *)
ParentResets ==
  /\ ticking = Resting /\ status \in Final
  /\ status' = "IDLE"
  /\ UNCHANGED <<fixed, ticking, child, counters, history, timer>>

Next ==
  \/ StartTick \/ TickChild \/ Elapse \/ Halt \/ ParentResets
  \/ \E i \in Slots : ChildEnds(i)

(* A tick in progress goes on; nobody has to tick again, nor a child to end. *)
Spec == Init /\ [][Next]_vars /\ WF_vars(TickChild)

-----------------------------------------------------------------------------
(* Properties *)

(* The node answers what its header promises of the answers its children gave *)
(* since it was started.  RecoveryNode succeeds if the first child did, and   *)
(* fails only when the recovery failed or every retry is used up.  RoundRobin *)
(* fails only after each child failed, wherever the round began, and after a  *)
(* success is the next child's turn.  PipelineSequence succeeds only when     *)
(* every child has, and fails when one did.  RateController repeats its child. *)
VerdictEarned ==
  ticking = Resting =>
    CASE kind = "RecoveryNode" ->
           /\ status = "SUCCESS" => answer[0] = "SUCCESS"
           /\ status = "FAILURE" => \/ answer[1] = "FAILURE"
                                    \/ failures = number_of_retries + 1
      [] kind = "RoundRobin" ->
           /\ status = "SUCCESS" =>
                \E i \in passed : current_child_idx_ = (i + 1) % children_count
           /\ status = "FAILURE" => \A i \in Children : answer[i] = "FAILURE"
      [] kind = "PipelineSequence" ->
           /\ status = "SUCCESS" => passed = Children
           /\ status = "FAILURE" => \E i \in Children : answer[i] = "FAILURE"
      [] kind = "RateController" ->
           status \in Final => answer[0] = status

(* PipelineSequence ticks no child before all those to the left of it have   *)
(* succeeded once, although it goes on past children that are running.       *)
PipelineOrder ==
  kind = "PipelineSequence" /\ ticking # Resting =>
    \A i \in Children : i < ticking => i \in passed

(* A node that has answered, or was halted, leaves no child behind: none is  *)
(* still flying the drone for it, and none keeps an answer of that time.     *)
NoChildLeft ==
  ticking = Resting /\ status # "RUNNING" => \A i \in Children : child[i] = "IDLE"

(* RecoveryNode and RoundRobin never tick an action node that still shows    *)
(* the final status of a run they have already used: the action node would   *)
(* repeat that answer without running again.                                 *)
FreshAnswers == kind # "PipelineSequence" => ticking \notin used

(* Once RateController has succeeded, its child is not executed again before  *)
(* the period is over or the node was IDLE, however often it is ticked.       *)
(* (rate_controller.h: it "ticks its child at a specified rate".)             *)
RateLimited == kind = "RateController" /\ served => ticking = Resting

(* The loop of tick() ends: RecoveryNode runs out of retries and RoundRobin   *)
(* of children, whatever the children answer.                                 *)
TickReturns == ticking # Resting ~> ticking = Resting
=============================================================================
