SPECIFICATION Spec
CONSTANTS
    NoThread = NoThread
    Threads = {t1, t2, t3, t4}
    MaxLevel = 3
    MaxFrames = 2
    MaxSlot = 3
SYMMETRY ThreadSymmetry
INVARIANTS
    OwnerHoldsLock
    NoDeadlock
PROPERTIES
    TransactionKeepsLock
    ImplementsTxLock
