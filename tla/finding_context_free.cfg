SPECIFICATION Spec
CHECK_DEADLOCK FALSE
CONSTANTS a = a  b = b  odd = odd  missing = missing  f = f  v = v
  NoModule = NoModule
  Modules <- SomeModules  Libraries <- SomeLibraries  Odd <- OddOnes  Names <- SomeNames
  Functions <- SomeFunctions  Kept <- SomeKept
  MaxTrees = 2  MaxFiles = 2  MaxNames = 2
INVARIANT MayFreeScript
