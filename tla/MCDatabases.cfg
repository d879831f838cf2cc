CONSTANTS
  Name = {db1, db2}
  Command = {"create", "adopt", "remove", "purge", "start", "stop", "restart"}
  MaxReq = 2
  Db = {db}
  Requested = {"request"}
  MaxBytes = 2
  MaxChange = 2
  MaxFail = 1
SPECIFICATION MCFairSpec
PROPERTIES
  EveryCommandEnds
  SelfCorrecting
