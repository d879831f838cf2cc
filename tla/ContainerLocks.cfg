CONSTANTS
  Op = {o1, o2, o3}
  NoOp = NoOp
  MaxName = 2
  Slow = {o1}
SPECIFICATION FairSpec
INVARIANTS
  TypeOK
  
  HolderUnlocks
  NoDeadlock
PROPERTIES
  NobodyStarves
