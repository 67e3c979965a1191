SPECIFICATION Spec
CONSTANTS
  Client = {c1, c2}
  Subscriber = {s1}
  Value = {light, dark}
  Default = light
  None = None
  MaxCrashes = 1
  MaxTimeouts = 1
  MaxInbox = 2
INVARIANTS
  SubscribersFollow
  NobodyWaitsInVain
PROPERTY KeepsPromise
CHECK_DEADLOCK TRUE
