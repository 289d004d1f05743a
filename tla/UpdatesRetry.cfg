SPECIFICATION Spec
CONSTANTS
  Files = {launcher, version, added}
  Launcher = launcher
  Version = version
  Selector = selector
  Added = {added}
  MaxRelease = 3
  MaxAttempts = 2
  MaxOpens = 3
  MaxFaults = 1
PROPERTY RecoveryFilesKept
CHECK_DEADLOCK FALSE
