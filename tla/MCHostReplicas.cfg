CONSTANTS
  MaxSlot = 1
  First = {1}
  Ports = {1}
  Volumes = {}
  MayFail = {}
  MaxFault = 0
  Suffixed = FALSE
  Checks = 2
  Period = 2
  Lags = {0, 1}
  MaxRestart = 4
  MaxCycle = 6
  Loop = 2
  StableFor = 2
  Cmd = {c1}
  PerMinute = 3
  MaxLate = 1
  MaxTime = 3
  MaxChange = 0
  Lo = 1
  Hi = 1
  MaxStep = 0
SPECIFICATION MCSpec
INVARIANT
  ReplicasKept
