SPECIFICATION Spec
CONSTANTS
  Serials = {mumu, ld9}
  Players = {p1, p2}
  Credentials = {c1, c2}
  ServerAdmin = {mumu}
  MaxSessions = 2
  NoPlayer = NoPlayer
  NoAccount = NoAccount
  Nobody = Nobody
  Idle = Idle
SYMMETRY Symmetry
INVARIANTS
  ExclusiveReservation
  SessionsFollowReservation
PROPERTIES
  OtherDevicesKeepPlaying
  ImplementsLease
