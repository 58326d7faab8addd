SPECIFICATION Spec
CONSTANTS
  Void = Void
  Error = Error
  None = None
  Spent = Spent
  Programs <- AllPrograms
  Node <- AllTrees
  MaxInputs = 4
  MaxNest = 3
INVARIANTS
  CountersMatch
  PendingOwned
  HaltClean
PROPERTIES
  Terminates
