SPECIFICATION CompileSpec
CONSTANTS
  Functions <- TwoBlocksOnly
  Steps = 4
INVARIANT DCEPreserved
CHECK_DEADLOCK FALSE
