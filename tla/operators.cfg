SPECIFICATION Spec
CONSTANTS
  Width = 4
  Operands <- AllOperands
  StringCalls <- SomeCalls
  Stores <- SomeStores
  Junk <- SomeFloats
  MaxExpressions = 1
INVARIANTS
  OrderConsistent
  ArithmeticLaws
  CastsReturn
  StringsMean
PROPERTIES
  ErrorsStand
  StoredInPlace
CHECK_DEADLOCK FALSE
