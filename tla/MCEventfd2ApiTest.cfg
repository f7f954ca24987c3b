SPECIFICATION FairSpec
CONSTANTS
  Threads = 2
  Writes = 4
  Reads = 4
  Units = 6
INVARIANTS TypeOK Conserved AssertionsHold
PROPERTY TestEnds
CHECK_DEADLOCK FALSE
