\* One refresh at a time, of a counter the API may answer with an old value.
SPECIFICATION Spec
CONSTANTS
  s1 = s1
  t1 = t1
  Stats = {s1}
  Tasks = {t1}
  Multipliers <- MCMultipliers
  DefaultConfig <- MCDefaultConfig
  LevelCap = 3
  Threshold <- MCThreshold
  MaxStat = 2
  MaxClock = 3
  MaxEdits = 0
  StaleReads = TRUE
INVARIANT NeverOvercredited
