SPECIFICATION Spec
CONSTANTS
  Window = {w1}
  Output = {o1, o2, o3}
  None = None
  Uses = {"unplug"}
PROPERTY RemovedOutputsDestroyed
CHECK_DEADLOCK FALSE
