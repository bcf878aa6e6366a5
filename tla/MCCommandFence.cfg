\* Four operations: one that times out, one confirmed after it, one cut off by
\* a stop and one after the restart.
CONSTANT MaxOperations = 4
SPECIFICATION FenceSpec
INVARIANTS
  VerdictsAreTrue
  NoLeakedToken
PROPERTIES
  OperationReturns
CHECK_DEADLOCK FALSE
