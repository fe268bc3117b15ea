\* Two requests with the same refresh token.
SPECIFICATION Spec
CONSTANTS
    u1 = u1
    t1 = t1
    t2 = t2
    t3 = t3
    p1 = p1
    p2 = p2
    s1 = s1
    Users = {u1}
    RefreshTokens = {t1, t2, t3}
    ResetTokens = {}
    Requests = {p1, p2}
    Secrets = {s1}
    Unverified = {}
    None = None
SYMMETRY Symmetry
INVARIANTS
    ExchangedOnce
CHECK_DEADLOCK FALSE
