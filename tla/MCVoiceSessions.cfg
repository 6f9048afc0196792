\* Moves stop at their bound.
SPECIFICATION Spec
CONSTANTS
  h1 = h1
  h2 = h2
  c1 = c1
  c2 = c2
  Handlers = {h1, h2}
  Channels = {c1, c2}
  Stats = {"voice"}
  TicksPerMinute = 3
  DayLength = 6
  FloorRate = 2
  HalfDecay = 1
  InitialRates <- MCInitialRates
  Patience = 1
  MaxTime = 6
  MaxMoves = 4
  MaxDisturbances = 1
  LevelCap = 4
  Threshold <- MCThreshold
SYMMETRY MCSymmetry
INVARIANTS TypeOK CountedOnce PaidWithinRates DayOnCurve SessionTracksPresence
CHECK_DEADLOCK FALSE
