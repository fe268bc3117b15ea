\* One instance that starts again after an edit by an administrator.
SPECIFICATION AccessSpec
CONSTANTS
    p1 = p1
    r1 = r1
    k1 = k1
    k2 = k2
    u1 = u1
    u2 = u2
    x1 = x1
    Roles = {r1}
    Requests = {p1}
    Unreliable = {}
    MaxVersion = 1
    None = None
    Instances = {p1}
    Releases = {"old"}
    Types = {"ADMIN", "USER"}
    Admin = "ADMIN"
    Permissions = {"read", "edit"}
    PermissionsOf <- Grants
    RoleIds = {k1, k2}
    Names = {"ADMIN", "USER"}
    People = {u1, u2}
    Emails = {"admin@"}
    AdminEmail = "admin@"
    Texts = {x1}
    MaxEdits = 1
    Missing = Missing
INVARIANT SeedingIdempotent
CHECK_DEADLOCK FALSE
