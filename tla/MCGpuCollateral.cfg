SPECIFICATION CollateralSpec
CONSTANTS
    None = None
    g = g
    h = h
    k = k
    m = m
    n = n
    Leaf = Leaf
    Leaf2 = Leaf2
    Mid = Mid
    Old = Old
    Signer = Signer
    Root = Root
    Deputy = Deputy
    Devices <- MCDevices
    Manifests <- MCManifests
    Certs <- MCCerts
    Path <- MCPath
    Issuer <- MCIssuer
    NotAfter <- MCNotAfter
    Delegates <- MCDelegates
    NoCheck = {}
    Selectors <- MCSelectors
    Bundles <- MCBundles
    Imports <- MCImports
    Revocable = {Mid}
    Lag = 0
    StatusLife = 2
    MAX_OBJECTS = 5
    MAX_MANIFESTS = 1
    MaxClock = 2
    MaxImports = 1
    MaxTampered = 1
INVARIANTS
    RevokedIsRefused
    AcquiredIsUsable
    RefusedForCause
CHECK_DEADLOCK FALSE
