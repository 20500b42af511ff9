\* With and without a ramp-up.
SPECIFICATION FairSpec
CONSTANTS
  NumPubs = 2
  Target <- MCTarget
  RampUpZero = {TRUE, FALSE}
  Elapses <- MCElapses
INVARIANTS
  TypeOK
  NoPublisherFails
  RampUpReachesTarget
PROPERTIES
  MonotoneRamp
  EventuallyFullRate
  StopReturns
\* All goroutines ended is a terminal state.
CHECK_DEADLOCK FALSE
