SPECIFICATION Spec
CONSTANTS
    None = None
    Requests = {2, 3}
    MAX_REQUEST = 2
    MAX_RESPONSE = 2
    MAX_DIAGNOSTIC = 1
    Responses = {1, 2, 3}
    PipeSize = 1
    Timeout = 1
CHECK_DEADLOCK FALSE
PROPERTY
    TimeBounded
