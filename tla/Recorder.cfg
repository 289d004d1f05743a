CONSTANTS
  Exchanges = {x1, x2}
  Streams = {s1}
  RecentLimit = 2
  MaxEvents = 6
SPECIFICATION RecorderSpec
SYMMETRY Symmetry
INVARIANTS
  StreamsComplete
