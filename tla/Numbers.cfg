SPECIFICATION FairSpec
CONSTANTS
  WordBits = 4
  Operands <- MCOperands
  Bounds <- MCBounds
  MaxCount = 256
INVARIANTS ArithmeticExact CheckedArithmetic ConversionsKeepNumber RangesAgree
PROPERTY LoopEnds
CHECK_DEADLOCK FALSE
