SPECIFICATION Spec
CONSTANTS
  Window = {w1}
  Output = {o1, o2}
  None = None
  Uses = {"fullscreen", "unplug", "move"}
SYMMETRY Symmetry
INVARIANTS
  ListedOnce
  FillsItsOutput
  FocusTakenOver
PROPERTIES
  WishesGranted
  OrphansAdopted
CHECK_DEADLOCK FALSE
