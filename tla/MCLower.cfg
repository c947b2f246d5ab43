SPECIFICATION Spec
CONSTANTS
  Functions <- MCFunctions
  ToText <- ForText
  Word = 64
  NGPR = 31
  Steps = 9
  ArgRegs <- ArgRegsOfArm64
  Pool <- PoolOfArm64
  CalleeSave <- CalleeSaveOfArm64
INVARIANTS TypeOK PhisGone Ready Apart AllRegisters SavesAll Preserved
CHECK_DEADLOCK FALSE
