SPECIFICATION Spec
CONSTANTS
  Void = Void
  Error = Error
  None = None
  Spent = Spent
  Programs <- NestedReturn
  Node <- FindingTrees
  MaxInputs = 4
  MaxNest = 8
PROPERTIES
  ReturnQuiet
