SPECIFICATION Spec
CONSTANTS
  Kinds = {"RecoveryNode", "RoundRobin", "PipelineSequence", "RateController"}
  ChildCount = 3
  number_of_retries = 2
INVARIANT TypeOK
INVARIANT VerdictEarned
INVARIANT PipelineOrder
INVARIANT NoChildLeft
INVARIANT FreshAnswers
INVARIANT RateLimited
PROPERTY TickReturns
