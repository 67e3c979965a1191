SPECIFICATION SettingsFairSpec
CONSTANTS
  Client = {portal}
  Subscriber = {portal}
  Portal = portal
  Value = {light, dark}
  Default = light
  None = None
  MaxCrashes = 1
  MaxTimeouts = 1
  MaxInbox = 2
INVARIANTS
  PortalFollows
  ProgramFollowsUnless
PROPERTY Resubscribes
CHECK_DEADLOCK TRUE
