CONSTANTS
  Blocks <- MCBlocks
  Problems <- MCProblems
  Locals = {"x", "y"}
  Globals = {"g"}
SPECIFICATION Spec
INVARIANT LiveIffReadBehind
INVARIANT DeadStoresAreNeverRead
INVARIANT NoUninitializedReadIsMissed
PROPERTY Terminates
CHECK_DEADLOCK FALSE
