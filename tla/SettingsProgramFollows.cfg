SPECIFICATION SettingsSpec
CONSTANTS
  Client = {portal}
  Subscriber = {portal}
  Portal = portal
  Value = {light, dark}
  Default = light
  None = None
  MaxCrashes = 1
  MaxTimeouts = 0
  MaxInbox = 2
INVARIANT ProgramFollows
