SPECIFICATION Spec
CONSTANTS
    None = None
    Keys = {k, l}
    Values = {x, y}
    Data = {d}
    Nonces = {empty, n, m, o}
    EmptyNonce = empty
    MAX_AGE = 1
    MAX_AHEAD = 0
    MaxTime = 2
    MaxSigned = 3
    MaxActions = 1
INVARIANTS
    MessagesCountOnce
    IdentityVouched
SYMMETRY Symmetry
CHECK_DEADLOCK FALSE
