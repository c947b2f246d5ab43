CONSTANTS
  MaxBlocks = 3
  Functions <- MCFunctions
SPECIFICATION Spec
INVARIANTS TypeOK Least Solved Exact
PROPERTIES Termination
CHECK_DEADLOCK FALSE
