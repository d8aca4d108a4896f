SPECIFICATION Spec
CONSTANTS
  Kinds = {"ComputePathToPose", "FollowWaypoints"}
  MaxRuns = 2
INVARIANT TypeOK
INVARIANT ReportIsOwn
INVARIANT CancelsHaltedGoal
INVARIANT HandsOnOwnPath
PROPERTY HaltWhilePollingCancels
PROPERTY RunReturns
PROPERTY KeepsNodeContract
CHECK_DEADLOCK FALSE
