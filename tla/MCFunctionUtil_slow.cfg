SPECIFICATION Spec
CONSTANTS
  BufferCount = 2
  MaxWait = 2
INVARIANTS TrueMeansReached
CHECK_DEADLOCK FALSE
