CONSTANTS
  MaxBlocks = 3
  Functions <- DoWhileOnly
SPECIFICATION Spec
INVARIANTS Exact
CHECK_DEADLOCK FALSE
