SPECIFICATION ReleaseSpec
CONSTANTS
    NFiles = 2
    Contents = {c1, c2}
    Builders = {b1, b2}
    Enclaves = {e1}
    Runners = {r1}
    PlatformOf <- MCPlatformOf
    MaxStages = 2
    Casts <- MCCasts
    Zeros = Zeros
    Nothing = Nothing
    Torn = Torn
    None = None
    Garbage = Garbage
    Keys = {auth, other}
    Publisher = auth
    TrustRoot <- Pinned
    Validity = 1
    MaxTime = 2
    MaxSigned = 2
INVARIANTS
    RatchetHolds
    VerifiedPair
    ChainIsOneTree
    RevocationBound
    ReportedIsSigned
SYMMETRY MCSymmetry
CHECK_DEADLOCK FALSE
