CONSTANTS
  Xs = {0, 1, 2}
  Ys = {0, 1}
  Zs = {0, 1}
  MaxPoses = 3
  lookahead_dist_ = 2
  min_lookahead_dist_ = 1
  max_lookahead_dist_ = 2
  lookahead_time_ = 3
SPECIFICATION Spec
INVARIANT TypeOK
INVARIANT RestsOnlyAtGoal
PROPERTY ReachesShortPlan
