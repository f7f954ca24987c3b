SPECIFICATION FairSpec
CONSTANTS
    c1 = c1
    c2 = c2
    c3 = c3
    Calls = {c1}
    Caller = Caller
    NoOwner = NoOwner
    SpuriousWakeups = TRUE
PROPERTIES
    ExecuteReturns
CHECK_DEADLOCK FALSE
