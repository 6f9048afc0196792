SPECIFICATION Spec
CONSTANTS
  wins = wins
  afk = afk
  v1 = v1
  v2 = v2
  Commands = {c1, c2}
  Trackers = {t1, t2}
  Stats <- MCStats
  Options <- MCOptions
  Clearable <- MCOptions
  Values = {v1, v2}
  Unset = Unset
  NoValue = NoValue
  Default <- MCDefault
  TTL = 2
  MaxJobs = 2
  MaxFailures = 1
INVARIANTS NoLostChange CacheFollows
PROPERTIES StalenessEnds
CHECK_DEADLOCK FALSE
