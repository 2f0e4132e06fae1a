SPECIFICATION Spec
CONSTANTS
    a = a
    b = b
    c = c
    d = d
    e = e
    Free = Free
    Keys <- MCKeys
    Hash <- MCHash
    Sizes = {2, 3, 4, 5, 6, 7}
    MaxSlots = 14
INVARIANTS
    GetCorrect
    CountsExact
    LookupEnds
