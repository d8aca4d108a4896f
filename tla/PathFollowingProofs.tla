------------------------ MODULE PathFollowingProofs ------------------------
(***************************************************************************)
(* Proofs about PathFollowing, for any space and paths of any length.      *)
(***************************************************************************)
EXTENDS PathFollowing, FiniteSetTheorems, TLAPS

Whole == [x : Int, y : Int, z : Int]

-----------------------------------------------------------------------------
(* The helpers *)

(* A nonempty set of poses of a plan has a first one.  Induction is out of   *)
(* the prover's reach; that the finite sets are well-founded by inclusion is *)
(* a theorem of the library: a smallest initial segment ends at the minimum. *)
LEMMA FirstExists ==
  ASSUME NEW n \in Nat, NEW S \in SUBSET (1..n), S # {}
  PROVE  Min(S) \in S
<1> DEFINE UpTo(x) == {y \in S : y <= x}
           Segments == {UpTo(x) : x \in S}
           R == StrictSubsetOrdering(S)
<1>1. IsFiniteSet(S)
  <2>1. IsFiniteSet(1..n)
    BY FS_Interval
  <2> QED BY <2>1, FS_Subset
<1>2. Segments \subseteq FiniteSubsetsOf(S)
  <2>1. ASSUME NEW x \in S PROVE UpTo(x) \in FiniteSubsetsOf(S)
    <3>1. UpTo(x) \in SUBSET S
      OBVIOUS
    <3>2. IsFiniteSet(UpTo(x))
      BY <1>1, <3>1, FS_Subset
    <3> HIDE DEF UpTo
    <3> QED BY <3>1, <3>2 DEF FiniteSubsetsOf
  <2> QED BY <2>1
<1>3. Segments # {}
  OBVIOUS
<1>4. PICK U \in Segments : \A V \in Segments : ~(<<V, U>> \in R)
  <2>1. IsWellFoundedOn(R, FiniteSubsetsOf(S))
    BY FS_StrictSubsetOrderingWellFounded
  <2> HIDE DEF Segments, R
  <2> QED BY <2>1, <1>2, <1>3, WFMin
<1>5. PICK x \in S : U = UpTo(x)
  BY <1>4
<1>6. ASSUME NEW y \in S PROVE x <= y
  <2>1. SUFFICES ASSUME y < x PROVE FALSE
    OBVIOUS
  <2>2. UpTo(y) \subseteq U /\ UpTo(y) # U
    <3>1. \A z \in S : z \in Int
      OBVIOUS
    <3>2. UpTo(y) \subseteq UpTo(x)
      <4>1. ASSUME NEW z \in S, z <= y PROVE z <= x
        BY <2>1, <3>1, <4>1
      <4> QED BY <4>1
    <3>3. x \in UpTo(x) /\ x \notin UpTo(y)
      BY <2>1, <3>1
    <3> QED BY <1>5, <3>2, <3>3
  <2>3. <<UpTo(y), U>> \in R
    BY <1>5, <2>2 DEF StrictSubsetOrdering
  <2> QED BY <1>4, <2>3
<1> QED BY <1>6 DEF Min

(* The lookahead distance is never zero. *)
LEMMA DistancePositive ==
  ASSUME NEW v, v.x \in Int, v.z \in Int
  PROVE  getLookAheadDistance(v) \in Nat \ {0}
<1>1. AtLeast(Abs(v.x), Abs(v.z)) \in Int
  BY DEF AtLeast, Abs
<1>2. ASSUME NEW a \in Int PROVE a * lookahead_time_ \in Int
  BY PathFollowingAssumption
<1>3. ASSUME NEW a \in Int
      PROVE  AtLeast(min_lookahead_dist_, AtMost(a, max_lookahead_dist_)) \in Nat \ {0}
  BY PathFollowingAssumption DEF AtLeast, AtMost
<1> QED BY <1>1, <1>2, <1>3, PathFollowingAssumption DEF getLookAheadDistance

(* The carrot is a pose of the plan, and where it is the drone's own pose    *)
(* the plan has no pose out of reach: it is the last.                        *)
LEMMA CarrotOut ==
  ASSUME global_plan_ \in Seq(Whole), global_plan_ # <<>>,
         NEW p \in Whole, NEW d \in Nat \ {0}
  PROVE  LET c == getLookAheadPoint(d, p)
         IN  /\ c \in DOMAIN global_plan_
             /\ global_plan_[c] = p => c = Len(global_plan_)
<1> DEFINE n == Len(global_plan_)
           c == getLookAheadPoint(d, p)
<1>1. n \in Nat \ {0} /\ DOMAIN global_plan_ = 1..n
  OBVIOUS
<1>2. CASE OutOfReach(d, p) = {}
  BY <1>1, <1>2 DEF getLookAheadPoint
<1>3. CASE OutOfReach(d, p) # {}
  <2>1. c = Min(OutOfReach(d, p))
    BY <1>3 DEF getLookAheadPoint
  <2>2. OutOfReach(d, p) \in SUBSET (1..n)
    BY <1>1 DEF OutOfReach
  <2>3. c \in OutOfReach(d, p)
    BY <1>1, <1>3, <2>1, <2>2, FirstExists
  <2>4. c \in DOMAIN global_plan_ /\ euclidean_distance2D(global_plan_[c], p) >= d * d
    BY <2>3 DEF OutOfReach
  <2>5. euclidean_distance2D(p, p) = 0
    BY DEF euclidean_distance2D, Whole
  <2>6. d * d > 0
    OBVIOUS
  <2>7. global_plan_[c] # p
    BY <2>4, <2>5, <2>6
  <2> QED BY <2>4, <2>7
<1> QED BY <1>2, <1>3

-----------------------------------------------------------------------------
(* The inductive invariant: the drone is somewhere in space, its last step   *)
(* was a step, and the carrot was chosen for the pose it is still in.        *)

PlanGiven ==
  /\ global_plan_ \in Seq(Whole)
  /\ flying \in BOOLEAN
  /\ flying => global_plan_ # <<>>

(* A carrot was chosen from the plan in flight. *)
FliesToCarrot == carrot # 0 => flying /\ carrot \in DOMAIN global_plan_

Somewhere == pose \in Whole /\ speed \in Whole

IInv == PlanGiven /\ Somewhere /\ FliesToCarrot /\ RestsOnlyAtGoal

LEMMA InitInvariant == Init => IInv
<1> SUFFICES ASSUME Init PROVE IInv
  OBVIOUS
<1>1. PlanGiven
  <2>1. <<>> \in Seq(Whole)
    OBVIOUS
  <2> QED BY <2>1 DEF Init, PlanGiven
<1>2. Somewhere
  <2>1. \A p \in Point : p \in Whole
    BY PathFollowingAssumption DEF NoHoles, Point, Whole
  <2>2. Resting \in Whole
    BY DEF Resting, Whole
  <2> QED BY <2>1, <2>2 DEF Init, Somewhere
<1>3. carrot = 0 /\ RestsOnlyAtGoal
  BY DEF Init, RestsOnlyAtGoal
<1> QED BY <1>1, <1>2, <1>3 DEF IInv, FliesToCarrot

(* Whatever path is handed over, it has a pose. *)
LEMMA SetPathKeeps == IInv /\ SetPath => IInv'
<1> SUFFICES ASSUME IInv, SetPath PROVE IInv'
  OBVIOUS
<1>1. \A p \in Point : p \in Whole
  BY PathFollowingAssumption DEF NoHoles, Point, Whole
<1>2. ASSUME NEW p \in Plans PROVE p \in Seq(Whole) /\ p # <<>>
  <2>1. PICK n \in 1..MaxPoses : p \in [1..n -> Point]
    BY DEF Plans
  <2>2. p \in [1..n -> Whole] /\ n \in Nat \ {0}
    BY <1>1, <2>1, PathFollowingAssumption
  <2>3. p \in Seq(Whole) /\ Len(p) = n
    BY <2>2
  <2> QED BY <2>2, <2>3
<1>3. ASSUME NEW g \in Point
      PROVE  createPlan(pose, g) \in Seq(Whole) /\ createPlan(pose, g) # <<>>
  BY <1>1 DEF createPlan, IInv, Somewhere
<1>4. global_plan_' \in Seq(Whole) /\ global_plan_' # <<>>
  BY <1>2, <1>3 DEF SetPath
<1>5. flying' = TRUE /\ UNCHANGED <<pose, speed, carrot>>
  BY DEF SetPath
<1>6. carrot = 0
  BY DEF SetPath, IInv, FliesToCarrot
<1>7. PlanGiven' /\ Somewhere' /\ RestsOnlyAtGoal'
  BY <1>4, <1>5, <1>6 DEF IInv, PlanGiven, Somewhere, RestsOnlyAtGoal
<1> QED BY <1>5, <1>6, <1>7 DEF IInv, FliesToCarrot

(* The choice of the carrot. *)
LEMMA ComputeKeeps == IInv /\ ComputeVelocityCommands => IInv'
<1> SUFFICES ASSUME IInv, ComputeVelocityCommands PROVE IInv'
  OBVIOUS
<1> DEFINE d == getLookAheadDistance(speed)
           c == getLookAheadPoint(d, pose)
<1>1. d \in Nat \ {0}
  BY DistancePositive DEF IInv, Somewhere, Whole
<1>2. global_plan_ \in Seq(Whole) /\ global_plan_ # <<>> /\ pose \in Whole
  BY DEF ComputeVelocityCommands, IInv, PlanGiven, Somewhere
<1>3. c \in DOMAIN global_plan_ /\ (global_plan_[c] = pose => c = Len(global_plan_))
  <2> HIDE DEF d
  <2> QED BY <1>1, <1>2, CarrotOut
<1>4. carrot' = c /\ UNCHANGED <<global_plan_, flying, pose, speed>>
  BY DEF ComputeVelocityCommands
<1> HIDE DEF c
<1>5. RestsOnlyAtGoal'
  BY <1>2, <1>3, <1>4 DEF RestsOnlyAtGoal, Goal, Last
<1>6. PlanGiven' /\ Somewhere'
  BY <1>2, <1>4 DEF IInv, PlanGiven, Somewhere
<1>7. flying
  BY DEF ComputeVelocityCommands
<1> QED BY <1>3, <1>4, <1>5, <1>6, <1>7 DEF IInv, FliesToCarrot

(* The drone moves and waits for the next command. *)
LEMMA FlyKeeps == IInv /\ Fly => IInv'
<1> SUFFICES ASSUME IInv, Fly PROVE IInv'
  OBVIOUS
<1>1. \A p, q : Towards(p, q) \in Whole
  BY DEF Towards, Sign, Whole
<1>2. Somewhere'
  BY <1>1 DEF Fly, IInv, Somewhere, Whole
<1>3. carrot' = 0 /\ UNCHANGED <<global_plan_, flying>>
  BY DEF Fly
<1> QED BY <1>2, <1>3 DEF IInv, PlanGiven, FliesToCarrot, RestsOnlyAtGoal

LEMMA StopKeeps == IInv /\ Stop => IInv'
<1> SUFFICES ASSUME IInv, Stop PROVE IInv'
  OBVIOUS
<1>1. flying' = FALSE /\ carrot = 0 /\ UNCHANGED <<global_plan_, pose, carrot>>
  BY DEF Stop
<1>2. Somewhere'
  BY DEF Stop, IInv, Somewhere, Whole, Resting
<1> QED BY <1>1, <1>2 DEF IInv, PlanGiven, FliesToCarrot, RestsOnlyAtGoal

-----------------------------------------------------------------------------
(* The types.  The drone does not leave the grid: one unit towards a pose of *)
(* the grid is no farther than that pose, and there are no holes in between. *)

LEMMA StepWithin ==
  ASSUME NEW S, NoHoles(S), NEW a \in S, NEW b \in S
  PROVE  a + Sign(b - a) \in S
<1>1. a \in Int /\ b \in Int BY DEF NoHoles
<1>2. a..b \subseteq S /\ b..a \subseteq S BY DEF NoHoles
<1>3. CASE a < b
  <2>1. a + Sign(b - a) \in a..b BY <1>1, <1>3 DEF Sign
  <2>2. QED BY <1>2, <2>1
<1>4. CASE a > b
  <2>1. a + Sign(b - a) \in b..a BY <1>1, <1>4 DEF Sign
  <2>2. QED BY <1>2, <2>1
<1>5. CASE a = b BY <1>1, <1>5 DEF Sign
<1>6. QED BY <1>1, <1>3, <1>4, <1>5

LEMMA StaysInGrid ==
  ASSUME NEW p \in Point, NEW q \in Point
  PROVE  LET v == Towards(p, q)
         IN  /\ v \in [x : {-1, 0, 1}, y : {-1, 0, 1}, z : {-1, 0, 1}]
             /\ [x |-> p.x + v.x, y |-> p.y + v.y, z |-> p.z + v.z] \in Point
<1> DEFINE v == Towards(p, q)
<1>1. /\ p.x \in Xs /\ p.y \in Ys /\ p.z \in Zs
      /\ q.x \in Xs /\ q.y \in Ys /\ q.z \in Zs
  BY DEF Point
<1>2. \A a \in Int : Sign(a) \in {-1, 0, 1} BY DEF Sign
<1>3. v.x = Sign(q.x - p.x) /\ v.y = Sign(q.y - p.y) /\ v.z = Sign(q.z - p.z)
  BY DEF Towards
<1>4. q.x - p.x \in Int /\ q.y - p.y \in Int /\ q.z - p.z \in Int
  <2>1. Xs \subseteq Int /\ Ys \subseteq Int /\ Zs \subseteq Int
    BY PathFollowingAssumption DEF NoHoles
  <2>2. /\ p.x \in Int /\ p.y \in Int /\ p.z \in Int
        /\ q.x \in Int /\ q.y \in Int /\ q.z \in Int
    BY <1>1, <2>1, Zenon
  <2>3. QED BY <2>2
<1>5. v \in [x : {-1, 0, 1}, y : {-1, 0, 1}, z : {-1, 0, 1}]
  BY <1>2, <1>4 DEF Towards
<1>6. p.x + v.x \in Xs /\ p.y + v.y \in Ys /\ p.z + v.z \in Zs
  BY <1>1, <1>3, StepWithin, PathFollowingAssumption
<1>7. QED BY <1>5, <1>6 DEF Point

LEMMA TypeInductive == IInv /\ TypeOK /\ [Next]_vars => TypeOK'
<1> SUFFICES ASSUME IInv, TypeOK, [Next]_vars PROVE TypeOK' OBVIOUS
<1>1. CASE SetPath
  <2>1. carrot = 0 /\ UNCHANGED <<use_velocity_scaled_lookahead_dist_, pose, speed, carrot>>
    BY <1>1 DEF SetPath, IInv, FliesToCarrot
  <2>2. \A g \in Point : createPlan(pose, g) \in Plans
    <3>1. TAKE g \in Point
    <3>2. createPlan(pose, g) \in [1..2 -> Point] BY DEF createPlan, TypeOK
    <3>3. 2 \in 1..MaxPoses BY PathFollowingAssumption
    <3>4. QED BY <3>2, <3>3 DEF Plans
  <2>3. global_plan_' \in Plans /\ flying' = TRUE BY <1>1, <2>2 DEF SetPath
  <2>4. QED BY <2>1, <2>3 DEF TypeOK
<1>2. CASE ComputeVelocityCommands
  <2>1. IInv' BY <1>2, ComputeKeeps
  <2>2. carrot' \in {0} \cup DOMAIN global_plan_' BY <2>1 DEF IInv, FliesToCarrot
  <2>3. UNCHANGED <<use_velocity_scaled_lookahead_dist_, global_plan_, flying, pose, speed>>
    BY <1>2 DEF ComputeVelocityCommands
  <2>4. QED BY <2>2, <2>3 DEF TypeOK
<1>3. CASE Fly
  <2>1. carrot \in DOMAIN global_plan_ BY <1>3 DEF Fly, TypeOK
  <2>2. global_plan_[carrot] \in Point
    <3>1. global_plan_ # <<>> BY <2>1
    <3>2. PICK n \in 1..MaxPoses : global_plan_ \in [1..n -> Point] BY <3>1 DEF TypeOK, Plans
    <3>3. QED BY <2>1, <3>2
  <2>3. /\ speed' \in [x : {-1, 0, 1}, y : {-1, 0, 1}, z : {-1, 0, 1}]
        /\ pose' \in Point
    BY <1>3, <2>2, StaysInGrid DEF Fly, TypeOK
  <2>4. carrot' = 0 /\ UNCHANGED <<use_velocity_scaled_lookahead_dist_, global_plan_, flying>>
    BY <1>3 DEF Fly
  <2>5. QED BY <2>3, <2>4 DEF TypeOK
<1>4. CASE Stop
  BY <1>4 DEF Stop, TypeOK, Resting
<1>5. CASE UNCHANGED vars
  BY <1>5 DEF vars, TypeOK
<1>6. QED BY <1>1, <1>2, <1>3, <1>4, <1>5 DEF Next

-----------------------------------------------------------------------------
(* Where the drone flies, and when it flies to the end of its path at once *)

InBox(p, a, b) ==
  /\ a.x <= p.x /\ p.x <= b.x
  /\ a.y <= p.y /\ p.y <= b.y
  /\ a.z <= p.z /\ p.z <= b.z

Holds(a, b) == \A i \in DOMAIN global_plan_ : InBox(global_plan_[i], a, b)

(* Whatever box holds the plan holds the drone. *)
FliesInBox == flying => \A a, b \in Whole : Holds(a, b) => InBox(pose, a, b)

LEMMA BoxInductive == IInv /\ TypeOK /\ FliesInBox /\ [Next]_vars => FliesInBox'
<1> SUFFICES ASSUME IInv, FliesInBox, [Next]_vars, flying',
                    NEW a \in Whole, NEW b \in Whole, Holds(a, b)'
             PROVE  InBox(pose, a, b)'
  BY DEF FliesInBox
<1>1. CASE SetPath
  <2>1. global_plan_' # <<>> /\ global_plan_'[1] = pose /\ pose' = pose
    <3>1. IInv' BY <1>1, SetPathKeeps
    <3>2. global_plan_' # <<>> BY <3>1, <1>1 DEF SetPath, IInv, PlanGiven
    <3>3. QED BY <1>1, <3>2 DEF SetPath, createPlan
  <2>2. 1 \in DOMAIN global_plan_'
    <3>1. IInv' BY <1>1, SetPathKeeps
    <3>2. global_plan_' \in Seq(Whole) BY <3>1 DEF IInv, PlanGiven
    <3>3. QED BY <2>1, <3>2
  <2>3. InBox(global_plan_'[1], a, b) BY <2>2 DEF Holds
  <2>4. QED BY <2>1, <2>3 DEF InBox
<1>2. CASE Fly
  <2>1. flying /\ Holds(a, b) /\ carrot \in DOMAIN global_plan_
    BY <1>2 DEF Fly, Holds, IInv, FliesToCarrot
  <2>2. InBox(pose, a, b) BY <2>1 DEF FliesInBox
  <2>3. InBox(global_plan_[carrot], a, b) BY <2>1 DEF Holds
  <2>4. pose \in Whole /\ global_plan_[carrot] \in Whole
    BY <2>1 DEF IInv, Somewhere, PlanGiven
  <2> DEFINE q == global_plan_[carrot]
  <2>5. /\ pose'.x = pose.x + Sign(q.x - pose.x)
        /\ pose'.y = pose.y + Sign(q.y - pose.y)
        /\ pose'.z = pose.z + Sign(q.z - pose.z)
    BY <1>2 DEF Fly, Towards
  <2>6. InBox(q, a, b) /\ q \in Whole BY <2>3, <2>4
  <2> HIDE DEF q
  <2>7. /\ pose.x \in Int /\ q.x \in Int /\ a.x \in Int /\ b.x \in Int
        /\ a.x <= pose.x /\ pose.x <= b.x /\ a.x <= q.x /\ q.x <= b.x
    BY <2>2, <2>4, <2>6 DEF Whole, InBox
  <2>8. /\ pose.y \in Int /\ q.y \in Int /\ a.y \in Int /\ b.y \in Int
        /\ a.y <= pose.y /\ pose.y <= b.y /\ a.y <= q.y /\ q.y <= b.y
    BY <2>2, <2>4, <2>6 DEF Whole, InBox
  <2>9. /\ pose.z \in Int /\ q.z \in Int /\ a.z \in Int /\ b.z \in Int
        /\ a.z <= pose.z /\ pose.z <= b.z /\ a.z <= q.z /\ q.z <= b.z
    BY <2>2, <2>4, <2>6 DEF Whole, InBox
  <2>10. a.x <= pose'.x /\ pose'.x <= b.x
    BY <2>5, <2>7 DEF Sign
  <2>11. a.y <= pose'.y /\ pose'.y <= b.y
    BY <2>5, <2>8 DEF Sign
  <2>12. a.z <= pose'.z /\ pose'.z <= b.z
    BY <2>5, <2>9 DEF Sign
  <2>13. QED BY <2>10, <2>11, <2>12 DEF InBox
<1>3. CASE ComputeVelocityCommands \/ Stop \/ UNCHANGED vars
  <2>1. (flying' => flying) /\ UNCHANGED <<global_plan_, pose>>
    BY <1>3 DEF ComputeVelocityCommands, Stop, vars
  <2>2. Holds(a, b) BY <2>1 DEF Holds
  <2>3. QED BY <2>1, <2>2 DEF FliesInBox, InBox
<1>4. QED BY <1>1, <1>2, <1>3 DEF Next

(* A plan in a box whose ground plan is no wider, from corner to corner, than *)
(* the least lookahead distance.                                              *)
Compact ==
  \E a, b \in Whole : Holds(a, b) /\ euclidean_distance2D(a, b) < LeastReach * LeastReach

FliesToEnd == carrot # 0 /\ Compact => carrot = Len(global_plan_)

LEMMA SquareGrows ==
  ASSUME NEW d \in Int, NEW e \in Int, -e <= d, d <= e
  PROVE  d * d <= e * e
<1>1. e - d \in Nat /\ e + d \in Nat OBVIOUS
<1>2. \A u, v \in Nat : u * v >= 0 OBVIOUS
<1>3. (e - d) * (e + d) >= 0 BY <1>1, <1>2
<1>4. (e - d) * (e + d) = e * e - d * d OBVIOUS
<1>5. d * d \in Int /\ e * e \in Int OBVIOUS
<1>6. QED BY <1>3, <1>4, <1>5

(* No lookahead distance is less than the least. *)
LEMMA ReachAtLeast ==
  ASSUME NEW v, v.x \in Int, v.z \in Int, use_velocity_scaled_lookahead_dist_ \in BOOLEAN
  PROVE  LeastReach \in Nat /\ LeastReach <= getLookAheadDistance(v)
<1>1. AtLeast(Abs(v.x), Abs(v.z)) \in Int
  BY DEF AtLeast, Abs
<1>2. ASSUME NEW a \in Int PROVE a * lookahead_time_ \in Int
  BY PathFollowingAssumption
<1>3. ASSUME NEW a \in Int
      PROVE  min_lookahead_dist_ <= AtLeast(min_lookahead_dist_, AtMost(a, max_lookahead_dist_))
  BY PathFollowingAssumption DEF AtLeast, AtMost
<1>4. QED BY <1>1, <1>2, <1>3, PathFollowingAssumption DEF getLookAheadDistance, LeastReach

LEMMA CompactInReach ==
  ASSUME NEW p \in Whole, NEW d \in Nat, LeastReach \in Nat, LeastReach <= d,
         NEW a \in Whole, NEW b \in Whole, Holds(a, b), InBox(p, a, b),
         global_plan_ \in Seq(Whole),
         euclidean_distance2D(a, b) < LeastReach * LeastReach
  PROVE  OutOfReach(d, p) = {}
<1> SUFFICES ASSUME NEW i \in DOMAIN global_plan_
             PROVE  ~(euclidean_distance2D(global_plan_[i], p) >= d * d)
  BY DEF OutOfReach
<1> DEFINE q == global_plan_[i]
<1>1. InBox(q, a, b) /\ q \in Whole BY DEF Holds
<1> HIDE DEF q
<1>2. /\ p.x \in Int /\ p.y \in Int /\ q.x \in Int /\ q.y \in Int
      /\ a.x \in Int /\ a.y \in Int /\ b.x \in Int /\ b.y \in Int
  BY <1>1 DEF Whole
<1>3. (q.x - p.x) * (q.x - p.x) <= (b.x - a.x) * (b.x - a.x)
  <2> DEFINE s == q.x - p.x
             w == b.x - a.x
  <2>1. s \in Int /\ w \in Int BY <1>2
  <2>2. -w <= s /\ s <= w BY <1>1, <1>2 DEF InBox
  <2> HIDE DEF s, w
  <2>3. s * s <= w * w BY <2>1, <2>2, SquareGrows
  <2>4. QED BY <2>3 DEF s, w
<1>4. (q.y - p.y) * (q.y - p.y) <= (b.y - a.y) * (b.y - a.y)
  <2> DEFINE s == q.y - p.y
             w == b.y - a.y
  <2>1. s \in Int /\ w \in Int BY <1>2
  <2>2. -w <= s /\ s <= w BY <1>1, <1>2 DEF InBox
  <2> HIDE DEF s, w
  <2>3. s * s <= w * w BY <2>1, <2>2, SquareGrows
  <2>4. QED BY <2>3 DEF s, w
<1>5. LeastReach * LeastReach <= d * d
  <2>1. -d <= LeastReach /\ LeastReach \in Int /\ d \in Int OBVIOUS
  <2>2. QED BY <2>1, SquareGrows
<1>6. (a.x - b.x) * (a.x - b.x) = (b.x - a.x) * (b.x - a.x) /\ (a.y - b.y) * (a.y - b.y) = (b.y - a.y) * (b.y - a.y)
  BY <1>2
<1> DEFINE qx == (q.x - p.x) * (q.x - p.x)
           qy == (q.y - p.y) * (q.y - p.y)
           bx == (b.x - a.x) * (b.x - a.x)
           by == (b.y - a.y) * (b.y - a.y)
           R == LeastReach * LeastReach
           D == d * d
<1>7. qx \in Int /\ qy \in Int /\ bx \in Int /\ by \in Int /\ R \in Int /\ D \in Int
  <2>1. \A u, v \in Int : (u - v) * (u - v) \in Int OBVIOUS
  <2>2. qx \in Int /\ qy \in Int /\ bx \in Int /\ by \in Int BY <1>2, <2>1
  <2>3. R \in Int /\ D \in Int
    <3>1. \A n \in Nat : n * n \in Int OBVIOUS
    <3>2. QED BY <3>1
  <2>4. QED BY <2>2, <2>3
<1>8. qx <= bx /\ qy <= by /\ R <= D BY <1>3, <1>4, <1>5
<1>9. euclidean_distance2D(q, p) = qx + qy BY DEF euclidean_distance2D
<1>10. bx + by < R BY <1>6 DEF euclidean_distance2D
<1> HIDE DEF qx, qy, bx, by, R, D
<1>11. ~(euclidean_distance2D(q, p) >= D) BY <1>7, <1>8, <1>9, <1>10
<1>12. QED BY <1>11 DEF q, D

LEMMA EndInductive == IInv /\ TypeOK /\ FliesInBox /\ FliesToEnd /\ [Next]_vars => FliesToEnd'
<1> SUFFICES ASSUME IInv, TypeOK, FliesInBox, FliesToEnd, [Next]_vars PROVE FliesToEnd'
  OBVIOUS
<1>1. CASE ComputeVelocityCommands
  <2> SUFFICES ASSUME Compact PROVE carrot' = Len(global_plan_)
    BY <1>1 DEF ComputeVelocityCommands, FliesToEnd, Compact, Holds, LeastReach
  <2> DEFINE d == getLookAheadDistance(speed)
  <2>1. PICK a, b \in Whole : Holds(a, b) /\ euclidean_distance2D(a, b) < LeastReach * LeastReach
    BY DEF Compact
  <2>2. InBox(pose, a, b) BY <1>1, <2>1 DEF ComputeVelocityCommands, FliesInBox
  <2>3. speed.x \in Int /\ speed.z \in Int BY DEF IInv, Somewhere, Whole
  <2>4. d \in Nat \ {0} BY <2>3, DistancePositive
  <2>5. LeastReach \in Nat /\ LeastReach <= d BY <2>3, ReachAtLeast DEF TypeOK
  <2>6. global_plan_ \in Seq(Whole) /\ pose \in Whole BY DEF IInv, PlanGiven, Somewhere
  <2>7. carrot' = getLookAheadPoint(d, pose) BY <1>1 DEF ComputeVelocityCommands
  <2> HIDE DEF d
  <2>8. OutOfReach(d, pose) = {} BY <2>1, <2>2, <2>4, <2>5, <2>6, CompactInReach
  <2>9. QED BY <2>7, <2>8 DEF getLookAheadPoint
<1>2. CASE SetPath \/ Fly \/ Stop
  <2>1. carrot' = 0 BY <1>2 DEF SetPath, Fly, Stop, IInv, FliesToCarrot
  <2>2. QED BY <2>1 DEF FliesToEnd
<1>3. CASE UNCHANGED vars
  BY <1>3 DEF vars, FliesToEnd, Compact, Holds, LeastReach
<1>4. QED BY <1>1, <1>2, <1>3 DEF Next

-----------------------------------------------------------------------------
LEMMA Inductive == Spec => [](IInv /\ TypeOK)
<1>1. IInv /\ UNCHANGED vars => IInv'
  BY DEF vars, IInv, PlanGiven, Somewhere, FliesToCarrot, RestsOnlyAtGoal, Goal
<1>2. IInv /\ [Next]_vars => IInv'
  BY <1>1, SetPathKeeps, ComputeKeeps, FlyKeeps, StopKeeps DEF Next
<1>3. Init => TypeOK
  <2>1. Resting \in [x : {-1, 0, 1}, y : {-1, 0, 1}, z : {-1, 0, 1}] BY DEF Resting
  <2>2. QED BY <2>1 DEF Init, TypeOK
<1>4. QED BY InitInvariant, TypeInductive, <1>2, <1>3, PTL DEF Spec

(* Every variable keeps its type; so the drone stays within the space its    *)
(* paths lie in, and the carrot within the plan (mpc_controller.cpp:306).     *)
THEOREM TypeCorrect == Spec => []TypeOK
BY Inductive, PTL

(* On every path and with every lookahead distance, the drone is held where  *)
(* it is at the end of its path alone.                                       *)
THEOREM HeldOnlyAtGoal == Spec => []RestsOnlyAtGoal
<1>1. IInv => RestsOnlyAtGoal
  BY DEF IInv
<1>2. QED BY Inductive, <1>1, PTL

(* The drone never leaves a box that holds its plan, the box around the plan  *)
(* for one: however the carrot jumps, it is a pose of the plan.               *)
THEOREM StaysInBox == Spec => []FliesInBox
<1>1. Init => FliesInBox BY DEF Init, FliesInBox
<1>2. QED BY Inductive, BoxInductive, <1>1, PTL DEF Spec

(* A plan that is compact is cut short: the drone is sent to its end from the *)
(* first call on, through whatever lies between.  A plan straight up is one,  *)
(* whatever its height (mpc_controller.cpp:306, 316).                         *)
THEOREM CompactCutShort == Spec => []FliesToEnd
<1>1. Init => FliesInBox /\ FliesToEnd BY DEF Init, FliesInBox, FliesToEnd
<1>2. QED BY Inductive, BoxInductive, EndInductive, <1>1, PTL DEF Spec

(* How many units are left to the end of the path, axis by axis. *)
ToGo(p, q) == Abs(q.x - p.x) + Abs(q.y - p.y) + Abs(q.z - p.z)

NearsEnd ==
  Fly /\ Compact =>
    /\ ToGo(pose, Goal) \in Nat
    /\ IF pose = Goal THEN pose' = Goal ELSE ToGo(pose', Goal) < ToGo(pose, Goal)

LEMMA NearerByOne ==
  ASSUME NEW a \in Int, NEW b \in Int
  PROVE  /\ Abs(b - a) \in Nat
         /\ Abs(b - (a + Sign(b - a))) = IF a = b THEN 0 ELSE Abs(b - a) - 1
<1>1. CASE a < b BY <1>1 DEF Abs, Sign
<1>2. CASE a > b BY <1>2 DEF Abs, Sign
<1>3. CASE a = b
  <2>1. b - a = 0 /\ Sign(0) = 0 /\ Abs(0) = 0 /\ b - (a + 0) = 0 BY <1>3 DEF Abs, Sign
  <2>2. QED BY <1>3, <2>1
<1>4. QED BY <1>1, <1>2, <1>3

(* A compact plan is flown to its end: every move that follows a command      *)
(* brings the drone nearer to it, until it is there, and then holds it.  The  *)
(* number of moves is bounded by what is to go along the three axes.          *)
THEOREM CompactFlown == Spec => [][NearsEnd]_vars
<1>1. Init => FliesInBox /\ FliesToEnd BY DEF Init, FliesInBox, FliesToEnd
<1>2. ASSUME IInv, FliesToEnd, Fly, Compact
      PROVE  /\ ToGo(pose, Goal) \in Nat
             /\ IF pose = Goal THEN pose' = Goal ELSE ToGo(pose', Goal) < ToGo(pose, Goal)
  <2> DEFINE q == Goal
  <2>1. carrot = Len(global_plan_) BY <1>2 DEF FliesToEnd, Fly
  <2>2. global_plan_[carrot] = q /\ q \in Whole
    BY <1>2, <2>1 DEF Fly, IInv, FliesToCarrot, PlanGiven, Goal, Last
  <2> HIDE DEF q
  <2>3. pose' = [x |-> pose.x + Sign(q.x - pose.x),
                 y |-> pose.y + Sign(q.y - pose.y),
                 z |-> pose.z + Sign(q.z - pose.z)]
    BY <1>2, <2>2 DEF Fly, Towards
  <2>4. /\ pose.x \in Int /\ pose.y \in Int /\ pose.z \in Int
        /\ q.x \in Int /\ q.y \in Int /\ q.z \in Int
    BY <1>2, <2>2 DEF IInv, Somewhere, Whole
  <2> DEFINE X == Abs(q.x - pose.x)
             Y == Abs(q.y - pose.y)
             Z == Abs(q.z - pose.z)
  <2>5. X \in Nat /\ Y \in Nat /\ Z \in Nat BY <2>4, NearerByOne
  <2>6. ToGo(pose, q) = X + Y + Z BY DEF ToGo
  <2>7. ToGo(pose', q) = (IF pose.x = q.x THEN 0 ELSE X - 1) + (IF pose.y = q.y THEN 0 ELSE Y - 1)
                         + (IF pose.z = q.z THEN 0 ELSE Z - 1)
    BY <2>3, <2>4, NearerByOne DEF ToGo
  <2>8. CASE pose = q
    <3>1. pose' = pose
      BY <1>2, <2>3, <2>4, <2>8 DEF Sign, IInv, Somewhere, Whole
    <3>2. ToGo(pose, q) \in Nat BY <2>5, <2>6
    <3>3. QED BY <2>8, <3>1, <3>2 DEF q
  <2>9. CASE pose # q
    <3>1. pose.x # q.x \/ pose.y # q.y \/ pose.z # q.z
      BY <1>2, <2>2, <2>9 DEF IInv, Somewhere, Whole
    <3>2. /\ pose.x = q.x => X = 0
          /\ pose.y = q.y => Y = 0
          /\ pose.z = q.z => Z = 0
      BY <2>4 DEF Abs
    <3> HIDE DEF X, Y, Z
    <3>3. ToGo(pose, q) \in Nat /\ ToGo(pose', q) < ToGo(pose, q)
      BY <2>5, <2>6, <2>7, <3>1, <3>2
    <3>4. QED BY <2>9, <3>3 DEF q
  <2>10. QED BY <2>8, <2>9
<1>3. IInv /\ FliesToEnd => [NearsEnd]_vars BY <1>2 DEF NearsEnd
<1>4. QED BY Inductive, BoxInductive, EndInductive, <1>1, <1>3, PTL DEF Spec
=============================================================================
