SPECIFICATION Spec
CONSTANTS
  BufferCount = 2
  MaxWait = 2
INVARIANTS TypeOK MappedWhileHeld PassLeavesNothing FreesNothingQueued PromptIsSeen
CHECK_DEADLOCK FALSE
