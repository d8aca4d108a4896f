SPECIFICATION Spec
CONSTANTS
  g1 = g1
  g2 = g2
  c1 = c1
  k1 = k1
  k2 = k2
  otherName = otherName
  Goal = {g1, g2}
  None = None
  EmptyName = EmptyName
  ControllerIds = {c1}
  GoalCheckerIds = {k1, k2}
  StoppedCheckerIds = {k2}
  Stateful = TRUE
  Requests <- MCRequests
  ControllerErrors = {"DroneException", "NoValidControl"}
  TransformMayFail = TRUE
SYMMETRY GoalSymmetry
INVARIANT TypeOK
INVARIANT OneCommander
INVARIANT LockNotLeaked
INVARIANT OwnPath
INVARIANT FollowsHolder
INVARIANT StoppedWhenReported
PROPERTY VerdictIsFinal
PROPERTY KeepsContract
