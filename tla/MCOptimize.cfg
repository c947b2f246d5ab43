SPECIFICATION Spec
CONSTANTS
  Inputs <- MCInputs
  Steps = 6
INVARIANTS
  TypeOK
  Preserved
  Settled
  Confluent
  ConstantsHold
PROPERTIES
  Descends
  Termination
CHECK_DEADLOCK FALSE
