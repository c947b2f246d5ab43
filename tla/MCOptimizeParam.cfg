SPECIFICATION Spec
CONSTANTS
  Inputs <- SecondOnly
  Steps = 4
INVARIANT Preserved
CHECK_DEADLOCK FALSE
