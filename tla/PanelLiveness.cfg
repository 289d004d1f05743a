SPECIFICATION FairSpec
CONSTANTS
  Serials = {mumu, ld9}
  Players = {p1, p2}
  Unserialized = {"select"}
  MaxEvents = 2
  NoPlayer = NoPlayer
  NoSerial = NoSerial
  Nobody = Nobody
PROPERTIES
  ImplementsLease
  StoppedReleased
