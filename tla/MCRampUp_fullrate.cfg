\* No ramp-up: the goroutine that sets the target rates races the publishers.
SPECIFICATION Spec
CONSTANTS
  NumPubs = 2
  Target <- MCTarget
  RampUpZero = {TRUE}
  Elapses <- MCElapses
INVARIANTS
  FullRateReached
\* All goroutines ended is a terminal state.
CHECK_DEADLOCK FALSE
