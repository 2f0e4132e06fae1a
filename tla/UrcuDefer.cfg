SPECIFICATION UrcuSpec
CONSTANTS
    Readers = {r1}
    MaxThreads = 1
    MaxBlocks = 2
    MaxRegistrations = 1
    MaxDepth = 1
    StoreBuffer = 2
    None = None
INVARIANT
    DeferredToAllReaders
CHECK_DEADLOCK FALSE
