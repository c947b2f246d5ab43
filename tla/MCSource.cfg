SPECIFICATION Spec
CONSTANTS
  Files <- AllFiles
  Full = 8
  Word = 16
INVARIANTS
  AsWritten
  JumpsRight
PROPERTIES
  Ends
CHECK_DEADLOCK FALSE
