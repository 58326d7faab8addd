SPECIFICATION Spec
CONSTANTS
  Void = Void
  Error = Error
  None = None
  Spent = Spent
  Programs <- ManualPrograms
  Node <- ManualTrees
  MaxInputs = 4
  MaxNest = 8
INVARIANTS
  Conforms
