SPECIFICATION FairSpec
CONSTANTS
    ping = ping
    pong = pong
    NoThread = NoThread
    Clients = {c1, c2}
    Workers = {w1}
    Tuples <- OneTuple
    CondPartitions = 2
    PartitionOf <- OnePartition
    Patterns <- OneTuplePatterns
    Derived <- NoTuples
    DirectTuples <- NoTuples
    Kinds = {"out", "in", "guard", "close", "delete", "eval"}
    MaxCount = 2
    MaxKept = 0
INVARIANT
    NoUseAfterFree
PROPERTIES
    ClosedReturns
    DeleteReturns
