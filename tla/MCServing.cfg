CONSTANTS
    MAX_HTTP_HEADER_BYTES = 2
    NResponse = 3
    BufSize = 1
    Asked <- MCAsked
    Reqs = {r1, r2, r3}
    MaxFull = 1
    MaxReads = 1
    Window = 2
    MaxTime = 2
    Trees = {t0, t1}
    Boot = t0
    Unreadable = Unreadable
    NoQuote = NoQuote
SPECIFICATION Spec
INVARIANTS ChallengeAnswered FullRate
PROPERTIES RequestAnswered ThreadsEnd ChangeDetected
CHECK_DEADLOCK FALSE
