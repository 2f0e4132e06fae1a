SPECIFICATION Spec
CONSTANTS
    a = a
    p = p
    b = b
    NoThread = NoThread
    Threads = {t1, t2}
    Symbols <- MCSymbols
    Facts <- MCFacts
    MaxJournal = 4
SYMMETRY ThreadSymmetry
INVARIANT
    PropAlone
