\* Events stop at their bound.
SPECIFICATION ActivitySpec
CONSTANTS
  h1 = h1
  h2 = h2
  t1 = t1
  t2 = t2
  noise = noise
  Handlers = {h1, h2}
  Texts = {t1, t2}
  Noise = noise
  Stats <- MCStats
  Plain <- MCPlain
  Cooldown = 2
  Rates <- MCRates
  MaxTime = 2
  MaxEvents = 3
  MaxDisturbances = 1
  LevelCap = 4
  Threshold <- MCThreshold
INVARIANTS ActivityTypeOK CooldownKept SnapshotCounts
PROPERTIES BannedEarnNothing KeepsLedger
SYMMETRY MCSymmetry
CHECK_DEADLOCK FALSE
