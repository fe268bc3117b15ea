\* One mail, two workers, two calls of RetryFailedMails that may meet; or a notification of
\* a channel nobody serves and a mail, a dispatcher that reads one of them, and a worker that
\* can lose its lock, all of them fair; or two log lines on their way to Graylog.
SPECIFICATION QueueSpec
CONSTANTS
    m1 = m1
    w1 = w1
    w2 = w2
    j1 = j1
    j2 = j2
    j3 = j3
    r1 = r1
    r2 = r2
    Notifications = {1, 2}
    DispatchBatchLimit = 1
    DispatchWorkers = {w1}
    Mails = {m1}
    Workers = {w1, w2}
    Jobs = {j1, j2, j3}
    Retriers = {r1, r2}
    MaxAttempts = 2
    MaxMishaps = 2
    None = None
    MaxLines = 2
INVARIANTS
    DeliveryRight
PROPERTIES
    MailSettles
    PendingSettles
    LinesArrive
CHECK_DEADLOCK FALSE
