SPECIFICATION Spec
CONSTANTS
  Candidates <- Halved
  IntMax = 7
  Steps = 3
  Second = 4
  MaxIter = 4
INVARIANT RepeatIsValid
CHECK_DEADLOCK FALSE
