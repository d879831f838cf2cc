CONSTANTS
  Cap = 2
  Pool = 1
  MaxSend = 4
  MaxBreak = 2
  MaxRead = 2
  MayExit = TRUE
SPECIFICATION FairSpec
INVARIANTS
  TypeOK
  OneWriter
  MessagesAccounted
PROPERTIES
  Recovers
