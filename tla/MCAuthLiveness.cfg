\* Fair handlers: one session, one reset token, two requests.
\* Two passwords, secrets and options; two services, two keys and every way of writing them.
SPECIFICATION SecretsSpec
CONSTANTS
    u1 = u1
    t1 = t1
    r1 = r1
    p1 = p1
    p2 = p2
    s1 = s1
    s2 = s2
    Users = {u1}
    RefreshTokens = {t1}
    ResetTokens = {r1}
    Requests = {p1, p2}
    Secrets = {s1, s2}
    Unverified = {}
    None = None
    Words = {"word", "other word"}
    HmacSecrets = {"old secret", "new secret"}
    Argon2Options = {"old options", "new options"}
    Logins = {"login"}
    Plaintexts = {"text", "other text"}
    KeyMaterials = {"old key", "new key"}
    Services = {"backend", "auth-service"}
INVARIANTS
    PasswordOutlivesSecret
    FieldReadsBack
PROPERTIES
    PasswordChangeEndsSessions
CHECK_DEADLOCK FALSE
