SPECIFICATION Spec
CONSTANTS
  a = a
  b = b
  d1 = d1
  d2 = d2
  NULL = NULL
  Names = {a, b}
  Data = {d1, d2}
  Buckets = {0}
  Hash <- OneBucket
  CopyRoom = 3
  MaxDepth = 2
  MaxSlots = 3
INVARIANTS
  TablesProper
  LookupRight
PROPERTIES
  ImplementsScopes
SYMMETRY Swaps
CHECK_DEADLOCK FALSE
