SPECIFICATION Spec
CONSTANTS
  MaxDelta = 2
  MaxTime = 1
  BatchSize = 1
  MaxDisturbances = 1
INVARIANTS TypeOK BackfillComplete CreationCovers
PROPERTY EndedForGood
