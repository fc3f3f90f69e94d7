SPECIFICATION BackupSpec
CONSTANTS
  Users = {}
  Runs = {b1, b2}
  KeepDaily = 1
  MaxDay = 1
  MaxFaults = 1
  None = none
CHECK_DEADLOCK FALSE
INVARIANT RollingWindow
