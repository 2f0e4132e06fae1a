SPECIFICATION FairSpec
CONSTANTS
    X = X
    Y = Y
    Z = Z
    Symbols = {1, 2, 3}
    Vars = {X, Y, Z}
    Calls <- AllCalls
INVARIANTS
    Exact
PROPERTY
    Terminates
CHECK_DEADLOCK FALSE
