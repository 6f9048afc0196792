SPECIFICATION Spec
CONSTANTS
  Tasks = {t1, t2}
  steve = steve
  alex = alex
  wins = wins
  beds = beds
  Nobody = Nobody
  Discord = Discord
  Minecraft <- MCMinecraft
  Keys <- MCKeys
  LevelCap = 3
  Threshold <- MCThreshold
  Amounts = {2}
  Multipliers <- MCSigns
  MaxJobs = 3
  MaxDisturbances = 1
SYMMETRY MCSymmetry
INVARIANTS
  TypeOK
  RoleMeansRegistered
  NoForeignDelta
  SeededOnce
  TotalAccounted
  LevelOfTotal
PROPERTIES
  ImplementsMembership
CHECK_DEADLOCK FALSE
