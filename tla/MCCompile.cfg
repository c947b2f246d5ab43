SPECIFICATION FrontSpec
CONSTANTS
  Functions <- MCFunctions
  Steps = 6
INVARIANTS
  TypeOK
  NamesOnPath
  SSAForm
  NoDeadPhis
  Preserved
  SimplifyPreserved
CHECK_DEADLOCK FALSE
