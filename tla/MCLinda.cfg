SPECIFICATION Spec
CONSTANTS
    ping = ping
    pong = pong
    NoThread = NoThread
    Clients = {c1, c2, c3}
    Workers = {}
    Tuples <- MCTuples
    CondPartitions = 3
    PartitionOf <- MCPartitionOf
    Patterns <- MCPatterns
    Derived <- MCDerived
    DirectTuples <- MCDirectTuples
    Kinds = {"out", "in", "rd", "inp", "rdp", "put", "drop"}
    MaxCount = 3
    MaxKept = 1
SYMMETRY ClientSymmetry
INVARIANTS
    Conservation
    NoLostWakeup
    NoLockCycle
