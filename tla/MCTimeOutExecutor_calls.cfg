SPECIFICATION FairSpec
CONSTANTS
    c1 = c1
    c2 = c2
    c3 = c3
    Calls <- ThreeCalls
    Caller = Caller
    NoOwner = NoOwner
    SpuriousWakeups = FALSE
INVARIANTS
    JoinsOnlyTheDone
PROPERTIES
    NoWriteAfterReturn
    AbstractSpec
    ExecuteReturns
    DeliveryEndsTheCall
CHECK_DEADLOCK FALSE
