SPECIFICATION Spec
CONSTANTS
    ping = ping
    pong = pong
    NoThread = NoThread
    Clients = {c1, c2}
    Workers = {}
    Tuples <- OneTuple
    CondPartitions = 2
    PartitionOf <- OnePartition
    Patterns <- OneTuplePatterns
    Derived <- NoTuples
    DirectTuples <- NoTuples
    Kinds = {"out", "in"}
    MaxCount = 3
    MaxKept = 1
INVARIANT
    InConsumes
