\* Fair producers and workers; no code dispatches RetryFailedMails.
SPECIFICATION FairSpec
CONSTANTS
    m1 = m1
    w1 = w1
    w2 = w2
    j1 = j1
    j2 = j2
    j3 = j3
    Mails = {m1}
    Workers = {w1, w2}
    Jobs = {j1, j2, j3}
    Retriers = {}
    MaxAttempts = 5
    MaxMishaps = 1
    None = None
PROPERTIES
    FailedIsTriedAgain
CHECK_DEADLOCK FALSE
