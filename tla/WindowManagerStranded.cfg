SPECIFICATION Spec
CONSTANTS
  Window = {w1}
  Output = {o1}
  None = None
  Uses = {"unplug"}
INVARIANT NoWindowStranded
CHECK_DEADLOCK FALSE
