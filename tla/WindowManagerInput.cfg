SPECIFICATION Spec
CONSTANTS
  Window = {w1}
  Output = {o1}
  None = None
  Uses = {"maximize", "resize", "button", "binding", "reseat"}
SYMMETRY Symmetry
INVARIANT SeatPointersAlive
CHECK_DEADLOCK FALSE
