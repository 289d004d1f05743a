SPECIFICATION FairSpec
CONSTANTS
  Files = {launcher, version, added}
  Launcher = launcher
  Version = version
  Selector = selector
  Added = {added}
  MaxRelease = 3
  MaxAttempts = 2
  MaxOpens = 3
  MaxFaults = 2
INVARIANTS
  OriginalsKept
  AccountsKept
  PreparedRetained
PROPERTIES
  RecoveryRetained
  EndsWhole
  PanelReturns
CHECK_DEADLOCK FALSE
