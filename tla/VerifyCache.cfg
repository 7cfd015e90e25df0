SPECIFICATION Spec
CONSTANTS
    p1 = p1  p2 = p2
    Procs = {p1, p2}
    Tokens <- ThreeTokens
    Expiry <- Expiries
    MaxSize = 1
    MaxTime = 4
SYMMETRY Symmetry
INVARIANTS OwnIdentity EntryWithinToken
