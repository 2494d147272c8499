SPECIFICATION Spec
CONSTANTS
    None = None
    Empty = Empty
    Torn = Torn
    Procs = {p, q}
    Bodies = {a, b}
    Ttls = {2}
    MAX_TTL = 1
    MAX_ATTEMPTS = 2
    MaxClock = 1
INVARIANTS
    GenuineBytes
PROPERTY
    CallsReturn
CHECK_DEADLOCK FALSE
