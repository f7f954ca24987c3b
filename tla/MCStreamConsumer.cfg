SPECIFICATION FairSpec
CONSTANTS
  QueueSize = 8
  MaxStarts = 2
INVARIANTS FlagMeansQueued NeverStalls NoThreadAfterDestroy
PROPERTIES FramesKeepComing DestructorReturns
CHECK_DEADLOCK FALSE
