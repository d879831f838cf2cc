CONSTANTS
  MaxSize = 3
  Buffer = 1
  MaxStream = 2
  MaxLine = 2
  MaxFlap = 1
  MaxTurn = 3
  TailLines = 1
  CommandID = {"e1", "e2"}
  MaxSession = 2
  MaxChunk = 2
  MaxLength = 3
  Key = {k1, k2, k3}
  WarnLimit = 1
  Window = 2
  SweepAt = 2
  MaxWarn = 6
  MaxTick = 4
SPECIFICATION MCFairSpec
CHECK_DEADLOCK FALSE
INVARIANTS
  MCTypeOK
  
  SessionsKept
  RestoreHonest
PROPERTIES
  
  WarningsLimited
  GoroutinesEnd
