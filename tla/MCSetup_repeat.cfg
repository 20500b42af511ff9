SPECIFICATION FairSpec
CONSTANTS
  Candidates <- MCCandidates
  IntMax = 7
  Steps = 3
  Second = 4
  MaxIter = 4
INVARIANTS
  TypeOK ReadyWhenRunning OnlyFailedAreLeft StopsCalling AcceptedHasWork SetupPanicsAreKnown RepeatGrows
PROPERTY StartEnds
\* A configuration that is over is a terminal state.
CHECK_DEADLOCK FALSE
