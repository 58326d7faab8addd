SPECIFICATION Spec
CONSTANTS
  Statements <- AllStatements
  Library <- AllNames
  Bodies <- AllBodies
  MaxStatements = 2
INVARIANTS
  NothingStale
  Balanced
  ThrowStands
  Constructed
PROPERTIES
  CallsContained
  WrittenWherePassed
  CallsSpelledOut
CHECK_DEADLOCK FALSE
