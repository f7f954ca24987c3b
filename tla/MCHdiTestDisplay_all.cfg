SPECIFICATION Spec
CONSTANTS
    LayerIds = {l1, l2}
    NoBuffer = NoBuffer
    BufferCount = 3
    MaxSeq = 9
    MaxFaults = 3
    Settings <- BothEnds
INVARIANTS
    TypeOK
    BuffersConserved
    BacklogIsLostFlushes
    PresentSucceeds
    NeverClearsOnScreen
    NullHandleIsKnown
SYMMETRY LayerSymmetry
CHECK_DEADLOCK FALSE
