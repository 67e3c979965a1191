SPECIFICATION Spec
CONSTANTS
  Item = {i1, n1}
  Named = {n1}
  Watcher = {w1, w2}
  Icon = {a, b}
  Tray = tray
  None = None
  MaxEvents = 3
INVARIANTS
  RepliesAreExpected
  RegistrationsHeard
  ListIsTrue
  IconsFollow
PROPERTY
  ShowsAll
CHECK_DEADLOCK FALSE
