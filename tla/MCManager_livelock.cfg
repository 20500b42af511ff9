\* The repeating configuration sets up streams: engine.Start sees the context.
SPECIFICATION FairSpec
CONSTANTS
  None = None
  r1 = r1
  r2 = r2
  r3 = r3
  Requests = {r1, r2, r3}
  Configs <- MCConfigs
  Body <- RefusedBody
  Valid <- MCValid
  Repeating <- RepeatingAware
  CtxAware <- RepeatingAware
  Specs <- MCSpecs
  ChanCap = 2
  CannotConnect = {}
PROPERTIES
  AcceptedIsHandled
\* Exited is a terminal state: the process is gone.
CHECK_DEADLOCK FALSE
