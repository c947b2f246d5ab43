SPECIFICATION Spec
CONSTANTS
  Functions <- SwapOnly
  ToText <- SwapOnly
  Word = 64
  NGPR = 31
  Steps = 9
  ArgRegs <- ArgRegsOfArm64
  Pool <- PoolOfArm64
  CalleeSave <- CalleeSaveOfArm64
INVARIANT PhisGone
CHECK_DEADLOCK FALSE
