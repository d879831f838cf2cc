CONSTANTS
  Dep = {d1, d2}
  Lone = {}
  NoStack = ""
  StackOf <- MCStackOf
  MaxRun = 2
  Panics = FALSE
SPECIFICATION Spec
INVARIANTS
  StackSerialized
