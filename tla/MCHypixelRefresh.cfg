\* Two refreshes of one player, one counter.
SPECIFICATION Spec
CONSTANTS
  s1 = s1
  t1 = t1
  t2 = t2
  Stats = {s1}
  Tasks = {t1, t2}
  Multipliers <- MCMultipliers
  DefaultConfig <- MCDefaultConfig
  LevelCap = 3
  Threshold <- MCThreshold
  MaxStat = 3
  MaxClock = 2
  MaxEdits = 1
  StaleReads = FALSE
SYMMETRY Symmetry
INVARIANTS TypeOK LedgerBalanced LevelInItsBand NeverOvercredited EveryUnitAccounted
PROPERTY ImplementsXpLedger
