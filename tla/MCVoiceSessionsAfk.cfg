\* Tasks that take no time and never meet; moves stop at their bound.
SPECIFICATION Spec
CONSTANTS
  h1 = h1
  h2 = h2
  c1 = c1
  c2 = c2
  Handlers = {h1}
  Channels = {c1, c2}
  Stats = {"voice"}
  TicksPerMinute = 2
  DayLength = 5
  FloorRate = 2
  HalfDecay = 1
  InitialRates <- MCInitialRates
  Patience = 0
  MaxTime = 5
  MaxMoves = 4
  MaxDisturbances = 1
  LevelCap = 4
  Threshold <- MCThreshold
SYMMETRY MCSymmetry
INVARIANTS AfkTimeNotCounted
CHECK_DEADLOCK FALSE
