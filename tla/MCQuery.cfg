SPECIFICATION FairSpec
CONSTANTS
    X = X
    Y = Y
    Z = Z
    W = W
    NoVar = NoVar
    Symbols = {1, 2, 3, 4, 5, 6}
    Names <- Shuffled
    Var = {X, Y, Z}
    Facts <- FiveFacts
    Asked <- MCAsked
    Modifiers <- MCModifiers
    Interned <- Lean
    Starving = {"spo", "pos", "osp", "index", "open", "sort_var", "collect", "negate"}
INVARIANTS
    Sound
    Complete
    Ordered
    LocksReturned
PROPERTY
    CallsReturn
CHECK_DEADLOCK FALSE
