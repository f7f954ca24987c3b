SPECIFICATION FairSpec
CONSTANTS
  QueueSize = 5
  CacheSize = 3
  MaxFaults = 2
INVARIANTS TypeOK OneHolder PoolHasLentTheLine
PROPERTIES OrderSpec LoopTurns TestEnds
CHECK_DEADLOCK FALSE
