SPECIFICATION Spec
CONSTANTS
  Output = {o1}
  None = None
  Prereqs = {TRUE, FALSE}
  Inhibits = {TRUE, FALSE}
  MaxSignals = 2
INVARIANTS
  LockLifecycle
  OutputsCovered
  PointerSurfaceAlive
  SleepPendingWhilePending
  PamHandover
  NoLostLockRequest
PROPERTY LockedUntilUnlock
CHECK_DEADLOCK TRUE
