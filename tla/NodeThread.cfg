SPECIFICATION Spec
CONSTANT Constructors = {"node", "executor"}
INVARIANT RunningIsTold
INVARIANT PublishesMap
PROPERTY NothingAfterStop
PROPERTY StopReturns
CHECK_DEADLOCK FALSE
