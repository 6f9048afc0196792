SPECIFICATION Spec
CONSTANTS
  Commands = {c1, c2}
  Setups <- MCSetups
  PageSize = 1
  DisplayCount = 2
  EndDate = 1
  MaxTime = 2
  MaxPlayers = 2
  MaxJobs = 2
  MaxFailures = 1
INVARIANTS TypeOK PostedIsRecorded PagesAgree FrozenIsFinal
PROPERTIES EventuallyFrozen BoardsCatchUp
CHECK_DEADLOCK FALSE
