--------------------------- MODULE PathFollowing ---------------------------
(***************************************************************************)
(* How the drone follows a path: MPCController of                          *)
(* nav2_drone_mpc_controller, on a path of any planner, for instance of    *)
(* nav2_drone_dumb_planner.                                                *)
(*                                                                         *)
(* Of computeVelocityCommands() only the choice of the carrot is modelled: *)
(* what follows the first return of getLookAheadPoint() is dead code, and  *)
(* the control law (dlib) is external: until the next call the drone       *)
(* moves one unit towards the carrot along each axis.  Space is a grid;    *)
(* distances are compared by their squares.                                *)
(***************************************************************************)
EXTENDS Integers, Sequences, FiniteSetsExt, SequencesExt

CONSTANTS
  Xs, Ys, Zs,          \* the grid the drone flies in
  MaxPoses,            \* bound on the length of a path
  lookahead_dist_, min_lookahead_dist_, max_lookahead_dist_, lookahead_time_

(* The grid has no holes, and a path of DumbPlanner is short enough. *)
NoHoles(S) == S \subseteq Int /\ \A a, b \in S : a..b \subseteq S

ASSUME PathFollowingAssumption ==
  /\ NoHoles(Xs) /\ NoHoles(Ys) /\ NoHoles(Zs)
  /\ MaxPoses \in Nat \ {0, 1}
  /\ lookahead_dist_ \in Nat \ {0}
  /\ min_lookahead_dist_ \in Nat \ {0}
  /\ max_lookahead_dist_ \in Nat /\ min_lookahead_dist_ <= max_lookahead_dist_
  /\ lookahead_time_ \in Nat

VARIABLES
  use_velocity_scaled_lookahead_dist_, \* parameter
  global_plan_,
  flying,     \* does the controller server call computeVelocityCommands()?
  pose,       \* of the drone
  speed,      \* of the drone, as the distance flown along each axis since the last call
  carrot      \* the pose of the plan the drone is sent to; 0 before the next call

vars == <<use_velocity_scaled_lookahead_dist_, global_plan_, flying, pose, speed, carrot>>

Point == [x : Xs, y : Ys, z : Zs]
Plans == UNION {[1..n -> Point] : n \in 1..MaxPoses}
Resting == [x |-> 0, y |-> 0, z |-> 0]

TypeOK ==
  /\ use_velocity_scaled_lookahead_dist_ \in BOOLEAN
  /\ global_plan_ \in Plans \cup {<<>>}
  /\ flying \in BOOLEAN
  /\ pose \in Point
  /\ speed \in [x : {-1, 0, 1}, y : {-1, 0, 1}, z : {-1, 0, 1}]
  /\ carrot \in {0} \cup DOMAIN global_plan_

Init ==
  /\ use_velocity_scaled_lookahead_dist_ \in BOOLEAN
  /\ global_plan_ = <<>>
  /\ flying = FALSE
  /\ pose \in Point
  /\ speed = Resting
  /\ carrot = 0

-----------------------------------------------------------------------------
(* geometry_utils.hpp: two-dimensional unless the caller says otherwise *)

euclidean_distance2D(p, q) == (p.x - q.x) * (p.x - q.x) + (p.y - q.y) * (p.y - q.y)
euclidean_distance3D(p, q) == euclidean_distance2D(p, q) + (p.z - q.z) * (p.z - q.z)

Closest(p, plan, i) ==
  \A j \in DOMAIN plan : euclidean_distance3D(p, plan[i]) <= euclidean_distance3D(p, plan[j])

(* The first of the closest poses. *)
find_closest_goal_idx(p, plan) == Min({i \in DOMAIN plan : Closest(p, plan, i)})

(* DumbPlanner: the start and the goal, and nothing in between. *)
createPlan(start, goal) == <<start, goal>>

-----------------------------------------------------------------------------
AtLeast(a, b) == IF a < b THEN b ELSE a
AtMost(a, b)  == IF a > b THEN b ELSE a
Abs(a)        == IF a < 0 THEN -a ELSE a

(* Faulty: no lower bound. *)
getLookAheadDistance_NoMin(v) ==
  IF use_velocity_scaled_lookahead_dist_
    THEN AtMost(AtLeast(Abs(v.x), Abs(v.z)) * lookahead_time_, max_lookahead_dist_)
    ELSE lookahead_dist_

(* A speed along y does not count. *)
getLookAheadDistance(v) ==
  IF use_velocity_scaled_lookahead_dist_
    THEN AtLeast(min_lookahead_dist_,
                 AtMost(AtLeast(Abs(v.x), Abs(v.z)) * lookahead_time_, max_lookahead_dist_))
    ELSE lookahead_dist_

OutOfReach(dist, p) ==
  {i \in DOMAIN global_plan_ : euclidean_distance2D(global_plan_[i], p) >= dist * dist}

(* Faulty: the end of the plan is one past its last pose. *)
getLookAheadPoint_PastEnd(dist, p) == Min(OutOfReach(dist, p) \cup {Len(global_plan_) + 1})

(* Faulty: falls back to the first pose. *)
getLookAheadPoint_First(dist, p) ==
  IF OutOfReach(dist, p) = {} THEN 1 ELSE Min(OutOfReach(dist, p))

(* Steps 1 to 3: the first pose of the plan that is out of reach, or the last. *)
getLookAheadPoint(dist, p) ==
  IF OutOfReach(dist, p) = {} THEN Len(global_plan_) ELSE Min(OutOfReach(dist, p))

(* The controller server has a new goal, whose path was planned from where    *)
(* the drone is.  handle_goal() refuses an empty path.                        *)
SetPath ==
  /\ ~flying
  /\ global_plan_' \in {p \in Plans : p[1] = pose} \cup {createPlan(pose, g) : g \in Point}
  /\ flying' = TRUE
  /\ UNCHANGED <<use_velocity_scaled_lookahead_dist_, pose, speed, carrot>>

ComputeVelocityCommands ==
  /\ flying /\ carrot = 0
  /\ carrot' = getLookAheadPoint(getLookAheadDistance(speed), pose)
  /\ UNCHANGED <<use_velocity_scaled_lookahead_dist_, global_plan_, flying, pose, speed>>

Sign(a) == IF a > 0 THEN 1 ELSE IF a < 0 THEN -1 ELSE 0

Towards(p, q) == [x |-> Sign(q.x - p.x), y |-> Sign(q.y - p.y), z |-> Sign(q.z - p.z)]

(* The velocity command is published and followed until the next call. *)
Fly ==
  /\ carrot # 0
  /\ speed' = Towards(pose, global_plan_[carrot])
  /\ pose' = [x |-> pose.x + speed'.x, y |-> pose.y + speed'.y, z |-> pose.z + speed'.z]
  /\ carrot' = 0
  /\ UNCHANGED <<use_velocity_scaled_lookahead_dist_, global_plan_, flying>>

(* The goal ends, by success, abort or cancel, and the drone stops. *)
Stop ==
  /\ flying /\ carrot = 0
  /\ flying' = FALSE
  /\ speed' = Resting
  /\ UNCHANGED <<use_velocity_scaled_lookahead_dist_, global_plan_, pose, carrot>>

Next == SetPath \/ ComputeVelocityCommands \/ Fly \/ Stop

Spec == Init /\ [][Next]_vars /\ WF_vars(ComputeVelocityCommands) /\ WF_vars(Fly)

-----------------------------------------------------------------------------
(* Properties *)

Goal == Last(global_plan_)

(* The drone is told to stay where it is only at the end of its path.  A      *)
(* carrot at its own position anywhere else would hold it there for ever,     *)
(* with a speed of zero that leaves the scaled lookahead distance at zero.    *)
RestsOnlyAtGoal ==
  carrot # 0 /\ global_plan_[carrot] = pose => pose = Goal

(* A path no two poses of which are farther apart, over ground, than the      *)
(* least lookahead distance is flown to its end, however it winds in height.  *)
LeastReach == IF use_velocity_scaled_lookahead_dist_ THEN min_lookahead_dist_ ELSE lookahead_dist_

ShortPlan ==
  \A i, j \in DOMAIN global_plan_ :
    euclidean_distance2D(global_plan_[i], global_plan_[j]) < LeastReach * LeastReach

ReachesShortPlan == (flying /\ ShortPlan) ~> (~flying \/ pose = Goal)

(* mpc_controller.cpp: the choice of the carrot "ensures the drone targets a  *)
(* point ahead of its current position".  The carrot is no earlier on the     *)
(* path than the pose the drone is closest to, which is how the controller    *)
(* server itself measures its progress.                                       *)
CarrotAhead == carrot # 0 => find_closest_goal_idx(pose, global_plan_) <= carrot
=============================================================================
