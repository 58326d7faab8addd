SPECIFICATION Spec
CONSTANTS
  Variable = {x, y}
  x = x
  y = y
  First = First
  Second = Second
  Result = Result
  Plain = Plain
  Rid = {1, 2, 3, 4}
  Block = {1, 2, 3}
  Width <- MCWidth
  Bytes = {1}
  Offsets = {0, 1}
  Sizes = {0, 2}
  Char = {"/", ".", ":", "a", "b", "s", "t", "u", "w"}
  Sandboxes <- MCSandboxes
  Paths_ <- MCPaths
  Modes <- MCModes
  Stream = {1, 2, 3}
  Standard = 1
  Cwd <- MCCwd
  MaxCalls <- MCCalls
SYMMETRY Swapped
INVARIANTS
  CountsMatch
  
  StreamsOnce
PROPERTIES
  NamesMean
CHECK_DEADLOCK FALSE
