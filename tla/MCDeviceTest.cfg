SPECIFICATION Spec
CONSTANTS
  Outputs = {1, 2, 3}
  MaxPlugs = 4
  MaxVblanks = 3
INVARIANTS TypeOK IdsHaveDisplays HeldIsRegistered VsyncStops
CHECK_DEADLOCK FALSE
