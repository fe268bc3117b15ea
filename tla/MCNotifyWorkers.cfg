\* One mail, one unsupported notification, a dispatcher that reads one of them, two workers
\* that can lose their locks, and two mishaps of the mail, or of the other while it is
\* alone; or two users, three requests and a client that walks through a list of at most
\* three; or two starts, two edits of templates, and a mail that is wanted, made and sent.
SPECIFICATION NotifySpec
CONSTANTS
    w1 = w1
    w2 = w2
    Notifications = {1, 2}
    DispatchBatchLimit = 1
    InApp = {}
    Unsupported = {2}
    Workers = {w1, w2}
    Attempts = 2
    LocksExpire = TRUE
    MaxMishaps = 2
    None = None
    u1 = u1
    u2 = u2
    Owners = {u1, u2}
    PageSizes = {1}
    Shown = 1
    MaxInbox = 3
    MaxTasks = 3
    Undecided = Undecided
    i1 = i1
    i2 = i2
    p1 = p1
    s1 = s1
    c1 = c1
    t1 = t1
    t2 = t2
    t3 = t3
    Instances = {i1, i2}
    Producers = {p1}
    Senders = {s1}
    Letters = {c1}
    Rows = {t1, t2, t3}
    Seeded <- MCSeeded
    OnDisk = {"notification"}
    Purposes = {"forgot", "admin", "locked"}
    MaxEdits = 2
    Nothing = Nothing
SYMMETRY Symmetry
INVARIANTS
    OneMailUnlessMishap
    NobodyForgotten
    
    RenderedFromItsTemplate
    LinksHold
    SeedingIsComplete
PROPERTIES
    SettledStaysSettled
CHECK_DEADLOCK FALSE
