SPECIFICATION Spec
CONSTANTS
    LayerIds = {l1, l2}
    NoBuffer = NoBuffer
    BufferCount = 3
    MaxSeq = 6
    MaxFaults = 0
    Settings <- ModuleTests
INVARIANTS
    PresentSucceedsAfterReset
SYMMETRY LayerSymmetry
CHECK_DEADLOCK FALSE
