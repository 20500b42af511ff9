\* Three requests through a channel of capacity 2: A sets up streams and may fail
\* to connect, B repeats for ever.
SPECIFICATION FairSpec
CONSTANTS
  None = None
  r1 = r1
  r2 = r2
  r3 = r3
  Requests = {r1, r2, r3}
  Configs <- MCConfigs
  Body <- MCBody
  Valid <- MCValid
  Repeating <- MCRepeating
  CtxAware <- MCCtxAware
  Specs <- MCSpecs
  ChanCap = 2
  CannotConnect <- MCCannotConnect
INVARIANTS
  TypeOK
  OneStorageOpen
  EngineHasStorage
  ServedIsConsistent
  RunningIsServed
  WaitsOnlyForCancelled
  EndedIsUnloaded
PROPERTIES
  HotReloadSpec
  AcceptedIsHandled
\* Exited is a terminal state: the process is gone.
CHECK_DEADLOCK FALSE
