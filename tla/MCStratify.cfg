SPECIFICATION Spec
CONSTANTS
    p = p
    q = q
    r = r
    Preds <- MCPreds
    Programs <- MCPrograms
    MaxStratum = 3
CHECK_DEADLOCK FALSE
INVARIANTS
    Sound
    RefusedRightly
    Lowest
