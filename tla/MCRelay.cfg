SPECIFICATION Spec
CONSTANTS
    None = None
    k1 = k1
    k2 = k2
    Keys = {k1, k2}
    ISSUER = issuer
    Devices <- MCDevices
    Eats <- MCEats
    Nonces = {n1}
    Ttls = {0, 3}
    SKEW_SECS = 1
    MaxU64 = 3
    MaxDrift = 1
    MaxTime = 2
    MaxChallenges = 2
    MaxAttested = 2
    MaxIssued = 2
    MaxAccepted = 2
    MaxRestarts = 1
INVARIANTS
    ChallengeSpentOnce
    AcceptedInheritsAttestation
    InheritedTrustExpires
    CredentialUsable
CHECK_DEADLOCK FALSE
