\* Two logins in flight: stale reads and stale writes of the counter.  Two calls of one
\* browser in flight, two pairs of tokens, every mode, with and without csrf tokens.
SPECIFICATION LoginSpec
CONSTANTS
    p1 = p1
    p2 = p2
    Requests = {p1, p2}
    Window = 1
    LockDuration = 2
    LockAt = 3
    MaxTime = 3
    Many = 6
    None = None
    Calls = {p1, p2}
    Modes = {"HYBRID", "COOKIES_ONLY", "RESPONSE_ONLY"}
    MaxIssues = 2
SYMMETRY Symmetry
INVARIANTS
    LockMatchesCounter
    FailuresCounted
    SessionsHeld
    CsrfExplained
PROPERTIES
    LockHolds
CHECK_DEADLOCK FALSE
