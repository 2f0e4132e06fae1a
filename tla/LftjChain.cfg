SPECIFICATION Spec
CONSTANTS
    X = X
    Y = Y
    Z = Z
    Symbols = {1, 2, 3}
    Vars = {X, Y, Z}
    Calls <- Chain
INVARIANT
    ExactJoin
CHECK_DEADLOCK FALSE
