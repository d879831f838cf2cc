SPECIFICATION Spec
CONSTANTS
  Name = {db}
  Command = {"create", "remove"}
  MaxReq = 2
INVARIANT
  EarlierCreateDestroyed
