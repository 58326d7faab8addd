SPECIFICATION Spec
CONSTANTS
  NULL = NULL
  k1 = k1
  k2 = k2
  Names = {k1, k2}
  Data = {"void", "one", "two"}
  Void = "void"
  Rank <- ByName
  Buckets = {0}
  Hash <- OneBucket
  CopyRoom = 3
  NodeGrowth = 20
  MaxLen = 3
  ArgData = {"one", "two"}
  MaxArgs = 2
INVARIANTS
  PointersProper
PROPERTY ImplementsOrderedMap
SYMMETRY Swaps
CHECK_DEADLOCK FALSE
