\* Access tokens: two requests of any kind at the same time, and a Redis that can
\* always fail.  Starts: two instances of any release, one edit by an administrator.
SPECIFICATION AccessSpec
CONSTANTS
    p1 = p1
    p2 = p2
    r1 = r1
    r2 = r2
    k1 = k1
    k2 = k2
    k3 = k3
    u1 = u1
    u2 = u2
    x1 = x1
    Roles = {r1, r2}
    Requests = {p1, p2}
    Unreliable = {"get", "set", "del"}
    MaxVersion = 3
    None = None
    Instances = {p1, p2}
    Releases = {"old", "new"}
    Types = {"ADMIN", "USER"}
    Admin = "ADMIN"
    Permissions = {"read", "edit"}
    PermissionsOf <- Grants
    RoleIds = {k1, k2, k3}
    Names = {"ADMIN", "USER"}
    People = {u1, u2}
    Emails = {"admin@", "other@"}
    AdminEmail = "admin@"
    Texts = {x1}
    MaxEdits = 1
    Missing = Missing
SYMMETRY Symmetry
INVARIANTS
    CurrentTokensAreCurrent
    InvalidatedStaysInvalid
    AbilitiesRight
    SeedingRight
CHECK_DEADLOCK FALSE
