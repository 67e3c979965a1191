SPECIFICATION Spec
CONSTANTS
  Window = {w1}
  Output = {o1}
  None = None
  Uses = {"minimize"}
INVARIANT FocusNeverHidden
CHECK_DEADLOCK FALSE
