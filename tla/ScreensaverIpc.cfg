SPECIFICATION FairSpec
CONSTANTS
  Surface = {s1}
  Size = {A, B}
  NBuffers = 2
  None = None
  Black = Black
  MaxConfigures = 3
  Room = 3
INVARIANTS
  PresentedFits
  NothingLeftBehind
  BusyWhileInUse
  DrawnBeforeShown
PROPERTY FramesKeepComing
CHECK_DEADLOCK FALSE
