SPECIFICATION Spec
CONSTANTS
    X = X
    Y = Y
    Z = Z
    W = W
    NoVar = NoVar
    Symbols = {1, 2, 3, 4, 5, 6}
    Names <- Shuffled
    Var = {X, Y, Z}
    Facts <- FiveFacts
    Asked <- OnePattern
    Modifiers <- ByName
    Interned <- Lean
    Starving = {"sort_var"}
INVARIANT
    OrderKept
CHECK_DEADLOCK FALSE
