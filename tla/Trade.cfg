SPECIFICATION MCSpec
CONSTANTS
  Players = {p1, p2, p3}
  Cards = {c1, c2}
  Ids = {i1, i2}
  Calls = {r1}
  Kinds = {"submit", "accept", "deposit", "heal", "settings"}
  Copies = 2
  PowerLimit = 2
  Powers = {2}
  Period = 2
  Lifetime = 1
  MaxTime = 1
  MaxCharge = 1
  None = None
SYMMETRY Symmetry
INVARIANTS
  OneTradeAtATime
  LastCopyKept
PROPERTIES
  ImplementsSwap
CHECK_DEADLOCK FALSE
