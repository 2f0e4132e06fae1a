SPECIFICATION FairMagicSpec
CONSTANTS
    X = X
    Y = Y
    Z = Z
    U = U
    Var = {X, Y, Z, U}
    Values = {1, 2, 3}
    TrueValue = 0
    Predicates = {"edge", "path", "odd", "even", "peer", "far", "hub"}
    Inputs <- MCInputs
    Rounds <- MCRounds
INVARIANTS
    Exact
    Safe
PROPERTY
    Terminates
CHECK_DEADLOCK FALSE
