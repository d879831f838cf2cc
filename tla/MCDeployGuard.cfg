CONSTANTS
  Dep = {d1, d2, d3}
  Lone = {d3}
  NoStack = ""
  StackOf <- MCStackOf
  MaxRun = 2
  Panics = TRUE
SPECIFICATION FairSpec
INVARIANTS
  TypeOK
  InFlightHasRun
  OneInFlightPerStack
PROPERTIES
  GuardKept
  FlightsLand
