CONSTANTS
  Xs = {0, 1, 2, 3}
  Ys = {0}
  Zs = {0}
  MaxPoses = 2
  lookahead_dist_ = 2
  min_lookahead_dist_ = 1
  max_lookahead_dist_ = 2
  lookahead_time_ = 3
SPECIFICATION Spec
INVARIANT CarrotAhead
