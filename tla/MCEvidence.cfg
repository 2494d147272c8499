CONSTANTS
    Gpus = {"g1", "g2", "g3"}
    Switches = {"s1", "s2"}
    Protected = {"g1", "g3"}
    Ls10 = {"s1", "s2"}
    Plugged <- MCPlugged
    MAX_GPUS = 2
    MAX_SWITCHES = 2
    MaxChanges = 2
    NoDevice = "none"
    Peers = {p1, p2}
    Headers <- MCHeaders
    MAX_HEADER = 3
    NAnswer = 2
    REQUEST_TIMEOUT = 2
    OUTPUT_TIMEOUT = 1
    MaxCollect = 1
    Nonce = "nonce"
    NVDEC = 2
    OPAQUE_BASE = 1000
    MAX_DEVICES = 2
    MAX_SWITCHES_ENROLLED = 2
    MAX_RIMS = 3
    MAX_FWIDS = 16
    ZeroDigest = "zero digest"
    Absent = Absent
    Missing = Missing
    MAX_CHAIN_CERTS = 4
    Pins <- MCPins
    Binding = "binding"
    Zero = "zero"
    ENTRY = 1
    MAX_TABLE = 3
    MAX_CERT = 2
    MAX_SPL = 3
    MAX_LEVELS = 2
    KdsLeaf <- MCKdsLeaf
    KdsIssuers <- MCKdsIssuers
    MaxClock = 3
SPECIFICATION Spec
INVARIANTS
    InventorySnapshot SwitchReportMatches ServedInTime
    InventoryExact FabricReciprocal MeasurementsDisposed
    CurrentTogether SignerIsAppraised NotOutranked
CHECK_DEADLOCK FALSE
