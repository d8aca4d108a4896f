CONSTANTS
  Navigations = 2
  None = None
SPECIFICATION Spec
INVARIANT TypeOK
INVARIANT SuccessIsFlown
INVARIANT NoFlightLeft
PROPERTY CancelAnswered
CHECK_DEADLOCK FALSE
