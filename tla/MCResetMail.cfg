\* One start, and one user who has forgotten a password.
SPECIFICATION NotifySpec
CONSTANTS
    Notifications = {}
    DispatchBatchLimit = 1
    InApp = {}
    Unsupported = {}
    Workers = {}
    Attempts = 1
    LocksExpire = FALSE
    MaxMishaps = 0
    None = None
    Owners = {}
    PageSizes = {}
    Shown = 1
    MaxInbox = 0
    MaxTasks = 0
    Undecided = Undecided
    i1 = i1
    p1 = p1
    s1 = s1
    c1 = c1
    t1 = t1
    t2 = t2
    Instances = {i1}
    Producers = {p1}
    Senders = {s1}
    Letters = {c1}
    Rows = {t1, t2}
    Seeded <- MCSeeded
    OnDisk = {"notification"}
    Purposes = {"forgot"}
    MaxEdits = 0
    Nothing = Nothing
INVARIANT ResetMailNeedsNoFile
CHECK_DEADLOCK FALSE
