CONSTANTS
  MaxSlot = 2
  First = {1, 2}
  Ports = {1}
  Volumes = {}
  MayFail = {}
  MaxFault = 0
  Suffixed = TRUE
  Checks = 2
  Period = 2
  Lags = {0}
SPECIFICATION Spec
INVARIANTS
  OneVersionServes
