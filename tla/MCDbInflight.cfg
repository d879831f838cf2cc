SPECIFICATION Spec
CONSTANTS
  Name = {db}
  Command = {"create", "remove", "purge", "start"}
  MaxReq = 3
INVARIANTS
  TypeOK
  NameExclusion
  RegistryTracksUsers
  CancelBelongsToHolder
  RemoveWaitsForCancelled
  
