SPECIFICATION Spec
CONSTANTS
  Device = {1, 2}
  Stream = {s1}
  Directions = {"Output", "Input"}
  None = None
  Full = 1
  MaxLevel = 2
  MaxChanges = 2
  MaxCalls = 2
INVARIANTS
  VolumeFollows
  OnePopup
  ToldAsShown
PROPERTY
  ActsOnShown
