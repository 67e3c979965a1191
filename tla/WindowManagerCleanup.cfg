SPECIFICATION Spec
CONSTANTS
  Window = {}
  Output = {o1}
  None = None
  Uses = {"reseat"}
INVARIANT CleanupSurvives
CHECK_DEADLOCK FALSE
