CONSTANTS
  MaxSize = 2
  Buffer = 1
SPECIFICATION RunsSpec
PROPERTY
  TimeoutEnds
