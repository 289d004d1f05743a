CONSTANTS
  Keys = {1, 2}
  Images <- TwoImages
  Master = "master"
  Profile <- TwoProfiles
  Installed = 1
  CheckpointEvery = 2
  MaxFaults = 2
  MaxChanges = 2
SPECIFICATION Spec
INVARIANTS
  ResolvedWhole
PROPERTIES
  GenerationsKept
  WorkKept
  
