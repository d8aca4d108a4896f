SPECIFICATION Spec
CONSTANTS
  Kinds = {"FollowPath"}
  MaxRuns = 1
PROPERTY HaltCancels
CHECK_DEADLOCK FALSE
