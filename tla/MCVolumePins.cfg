SPECIFICATION Spec
CONSTANTS
  app = app
  db = db
  files = files
  data = data
  scratch = scratch
  old = old
  Volumes = {files, data, scratch, old}
  Containers = {app, db}
  Users <- UsersOf
  Anonymous = {scratch}
  DeployTimeout = 2
  SettleWindow = 2
  HealthWindow = 2
  StopLag = 2
  Flaps = FALSE
  MaxCommands = 3
  MaxFaults = 1
INVARIANTS
  DataSurvives
  PinsGuard
PROPERTIES
  OthersKeepTheirPins
  CommandsEnd
  StackUpFreesPins
CHECK_DEADLOCK FALSE
