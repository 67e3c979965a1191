SPECIFICATION FairSpec
CONSTANTS
  Output = {}
  None = None
  Prereqs = {TRUE, FALSE}
  Inhibits = {TRUE}
  MaxSignals = 2
PROPERTIES
  LogindNotKeptWaiting
  LockRequestHandled
  PamAnswered
  DeferredUnlock
CHECK_DEADLOCK TRUE
