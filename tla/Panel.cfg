SPECIFICATION Spec
CONSTANTS
  Serials = {mumu, ld9}
  Players = {p1, p2}
  Unserialized = {"delete"}
  MaxEvents = 3
  NoPlayer = NoPlayer
  NoSerial = NoSerial
  Nobody = Nobody
SYMMETRY Symmetry
PROPERTIES
  OpenedAsRequested
  GraceRespected
  StopAllStopsAll
  ActiveAccountRestored
