\* Specs one after the other: failing starts, lost connections, cancellation.
SPECIFICATION FairSpec
CONSTANTS
  MaxSpecs = 3
  Environments <- MCEnvironments
INVARIANTS
  TypeOK
  OnlyFailedStartsOverlap
  NoLateWrite
  StatsAreOwn
  NothingIsLeft
PROPERTIES
  ConfigurationEnds
  NoGoroutineLeak
\* The torn-down engine is a terminal state.
CHECK_DEADLOCK FALSE
