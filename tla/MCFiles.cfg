\* A user and a manager, two files, two requests, two puts; two of the three names share a key.
\* One HTTP request that names a language in up to two places.
\* Two requests about two rows and two addresses.  Two things the log may tell of, read row by row.
SPECIFICATION FilesSpec
CONSTANTS
    u1 = u1
    m1 = m1
    f1 = f1
    f2 = f2
    p1 = p1
    p2 = p2
    plain = plain
    twin = twin
    dotted = dotted
    s1 = s1
    s2 = s2
    Users = {u1, m1}
    Managers = {m1}
    FileIds = {f1, f2}
    Names = {plain, twin, dotted}
    BadNames = {dotted}
    Slugs = {s1, s2}
    Slug <- MCSlug
    Requests = {p1, p2}
    MaxPuts = 2
    None = None
    TranslationKeys <- MCKeys
    Dictionary <- MCDictionary
    Prose = {"a text"}
    Internals = {"Failed query: SQL and its parameters"}
    Submitted = {"one", "other"}
    MaxAsked = 2
    Absent = Absent
    Callers = {p1, p2}
    Accounts = {f1, f2}
    Addresses = {plain, twin}
    Happenings = 2
    LogPages = {1}
    Settings = {"registration"}
    Nobody = Nobody
    NoRow = NoRow
SYMMETRY Symmetry
INVARIANTS
    FilesRight
    NothingLeaks
    AnswerInLanguage
    CreationsAnswered
    LogIsTrue
    LogReadOnce
PROPERTIES
    ImplementsArchive
CHECK_DEADLOCK FALSE
