SPECIFICATION Spec
CONSTANTS
  Output = {o1}
  None = None
  Prereqs = {TRUE}
  Inhibits = {TRUE}
  MaxSignals = 3
INVARIANT ReadyForNextSleep
CHECK_DEADLOCK TRUE
