SPECIFICATION Spec
CONSTANTS
  Calls <- SomeCalls
  Capacity = 1
  Chunk = 1
INVARIANTS
  Collected
  NothingLeft
  ResultTrue
PROPERTIES
  Returns
CHECK_DEADLOCK FALSE
