SPECIFICATION Spec
CONSTANTS
  Functions <- EarlyOnly
  ToText <- EarlyOnly
  Word = 64
  NGPR = 31
  Steps = 9
  ArgRegs <- ArgRegsOfArm64
  Pool <- PoolOfArm64
  CalleeSave <- CalleeSaveOfArm64
INVARIANT Preserved
CHECK_DEADLOCK FALSE
