SPECIFICATION CfgSpec
CONSTANTS
  Word = 16
  Built <- AllGraphs
  Functions = {}
INVARIANTS
  TypeOK
  NoPanic
  StaysInside
  IdomRight
  TreeRight
  FronRight
  Consecutive
  Ordered
  LoopRight
PROPERTIES
  KeepsReachable
  Stable
  Done
CHECK_DEADLOCK FALSE
