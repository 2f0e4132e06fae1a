SPECIFICATION FairSpec
CONSTANTS
    Readers = {r1, r2}
    MaxThreads = 2
    MaxBlocks = 3
    MaxRegistrations = 1
    MaxDepth = 2
    StoreBuffer = 2
    None = None
INVARIANT
    NoUseAfterFree
PROPERTY
    SynchronizeReturns
CHECK_DEADLOCK FALSE
