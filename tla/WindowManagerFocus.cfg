SPECIFICATION Spec
CONSTANTS
  Window = {w1, w2, w3}
  Output = {o1}
  None = None
  Uses = {"minimize", "restore", "unplug"}
SYMMETRY Symmetry
INVARIANTS
  MinimizedListed
  FocusTakenOver
PROPERTY FocusLeavesHidden
CHECK_DEADLOCK FALSE
