SPECIFICATION Spec
CONSTANTS
  NavigatorCount = 2
  MaxConfigures = 3
INVARIANT ActiveMeansServing
INVARIANT QuietUnlessActive
INVARIANT CleanSlate
INVARIANT DiesOfHalfBuilt
CHECK_DEADLOCK FALSE
