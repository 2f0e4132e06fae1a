SPECIFICATION Spec
CONSTANTS
    e1 = e1
    e2 = e2
    e3 = e3
    k1 = k1
    k2 = k2
    p1 = p1
    p2 = p2
    p3 = p3
    q1 = q1
    q2 = q2
    h1 = h1
    Atoms <- MCAtoms
    PredOf <- MCPredOf
    Programs <- Join
    Maintained <- Join
    Assertable = {e1, k1}
    Sizes <- Single
    SecondThread = TRUE
INVARIANT
    GraphExact
