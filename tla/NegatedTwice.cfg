SPECIFICATION FairSpec
CONSTANTS
    X = X
    Y = Y
    Z = Z
    W = W
    NoVar = NoVar
    Symbols = {1, 2, 3, 4, 5, 6}
    Names <- Shuffled
    Var = {X, Y, Z}
    Facts <- FiveFacts
    Asked <- Twice
    Modifiers <- Plain
    Interned <- Lean
    Starving = {}
PROPERTY
    CallsReturn
CHECK_DEADLOCK FALSE
