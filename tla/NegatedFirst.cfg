SPECIFICATION Spec
CONSTANTS
    X = X
    Y = Y
    Z = Z
    W = W
    NoVar = NoVar
    Symbols = {1, 2, 3, 4, 5, 6}
    Names <- Shuffled
    Var = {X, Y, Z}
    Facts <- FiveFacts
    Asked <- Excluding
    Modifiers <- Plain
    Interned <- Worn
    Starving = {}
INVARIANT
    NegationExcludes
CHECK_DEADLOCK FALSE
