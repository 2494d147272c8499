SPECIFICATION Spec
CONSTANTS
    None = None
    Accounts = {a, b}
    Values = {x, y}
    Salts = {s}
    Stakes = {1, 5}
    min_stake = 1
    COMMIT_PERIOD = 1
    REVEAL_PERIOD = 1
    ESCROW_LOCK = 1
    MaxBlock = 6
    MaxProposals = 2
INVARIANTS
    VotesDecide
    Solvent
    NothingStranded
PROPERTY
    OutcomeFinal
SYMMETRY Symmetry
CHECK_DEADLOCK FALSE
