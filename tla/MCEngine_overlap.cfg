\* A start fails half-way and the next spec begins.
SPECIFICATION Spec
CONSTANTS
  MaxSpecs = 2
  Environments <- JetStreamOnly
INVARIANTS
  SpecsAreSequential
\* The torn-down engine is a terminal state.
CHECK_DEADLOCK FALSE
