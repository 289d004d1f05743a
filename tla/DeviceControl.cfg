SPECIFICATION FairSpec
CONSTANTS
  MaxVersion = 2
  TornWrites = TRUE
  MaxFaults = 2
INVARIANTS
  PatchRecoverable
PROPERTIES
  MarkerUntilRestored
  RestorationResumes
