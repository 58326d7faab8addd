SPECIFICATION Spec
CHECK_DEADLOCK FALSE
CONSTANT Sources <- SomeSources
INVARIANTS TreeIsText FreedOnce NothingLeftOver
