CONSTANTS
  MaxSlot = 2
  First = {1, 2}
  Ports = {1}
  Volumes = {2}
  MayFail = {"snapshot", "forward", "rollback"}
  MaxFault = 2
  Suffixed = FALSE
  Checks = 2
  Period = 2
  Lags = {0, 1}
  MaxRestart = 4
  MaxCycle = 6
  Loop = 2
  StableFor = 2
  Cmd = {c1, c2, c3}
  PerMinute = 3
  MaxLate = 1
  MaxTime = 11
  MaxChange = 3
  Lo = 1
  Hi = 3
  MaxStep = 2
SPECIFICATION MCSpec
INVARIANTS
  MCTypeOK
  FailureRestores
  OldKeptUntilSeen
  CleanSuccess
  
  OnlyStaleRemoved
  
  RestartsReported
  ScheduleExact
PROPERTIES
  
  ObjectsTrue
