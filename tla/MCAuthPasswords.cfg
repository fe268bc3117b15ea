\* One user, two requests in flight, two sessions, one reset token.
SPECIFICATION Spec
CONSTANTS
    u1 = u1
    t1 = t1
    t2 = t2
    r1 = r1
    p1 = p1
    p2 = p2
    s1 = s1
    s2 = s2
    Users = {u1}
    RefreshTokens = {t1, t2}
    ResetTokens = {r1}
    Requests = {p1, p2}
    Secrets = {s1, s2}
    Unverified = {}
    None = None
SYMMETRY Symmetry
INVARIANTS
    SessionsFollowPassword
    SpentBeforeReplaced
    RevokedFamiliesStayDead
PROPERTIES
    ImplementsLifecycle
CHECK_DEADLOCK FALSE
