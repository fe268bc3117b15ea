----------------------------- MODULE MailDelivery -----------------------------
(***************************************************************************)
(* Mails on their way out: rows of `mail`, the BullMQ queue `mail` with    *)
(* its workers, the SMTP server, and the handler RetryFailedMails.         *)
(*                                                                         *)
(* A mail's job has no id of its own and one attempt: what brings a failed *)
(* mail back is RetryFailedMails alone, and no code dispatches it.         *)
(* Retriers = {} is the program as it is; with Retriers the handler is     *)
(* run by somebody.  A job whose worker died or lost its lock is given to  *)
(* another worker, once.                                                   *)
(***************************************************************************)
EXTENDS Naturals, FiniteSets

CONSTANTS
    Mails,        \* the mails that can be created (bounds the model)
    Jobs,         \* the jobs that can be added (bounds the model)
    Workers,      \* workers of the queue `mail`
    Retriers,     \* calls of RetryFailedMails that can be in flight together
    MaxAttempts,  \* a mail that has failed so often is not retried
    MaxMishaps,   \* bounds crashes, lost locks, lost answers and doubled retries per mail
    None

ASSUME MailDeliveryAssumption ==
    /\ MaxAttempts \in Nat \ {0} /\ MaxMishaps \in Nat
    /\ IsFiniteSet(Jobs) /\ IsFiniteSet(Workers) /\ IsFiniteSet(Retriers)
    /\ None \notin Mails \cup Jobs

VARIABLES
    row,        \* row[m]: status and attempts of the mail
    producing,  \* mails inserted by a producer that has not added the job yet
    job,        \* job[j]: its state, its mail, and if its worker was lost before
    worker,     \* worker[w]: the job w works at, and how far it is
    retrier,    \* retrier[r]: what RetryFailedMails has read and is busy with
    accepted,   \* accepted[m]: how often the SMTP server has taken m
    mishaps,    \* mishaps[m]: crashes, lost locks, lost answers and doubled retries
    dropped     \* mails whose job could not be added, or ended without a trace

vars == <<row, producing, job, worker, retrier, accepted, mishaps, dropped>>

-----------------------------------------------------------------------------
Counts == 0 .. MaxAttempts + MaxMishaps
MailRow == [status : {"absent", "pending", "sent", "failed"}, attempts : Counts]
Job == [state : {"unused", "queued", "active", "over"},
        mail : Mails \cup {None}, stalled : BOOLEAN]
Idle == [step |-> "idle", job |-> None, attempts |-> 0, lock |-> FALSE]
Worker == [step : {"idle", "send", "mark", "catch", "fail", "end"},
           job : Jobs \cup {None}, attempts : Counts, lock : BOOLEAN]
Resting == [todo |-> {}, adding |-> None]
Retrier == [todo : SUBSET Mails, adding : Mails \cup {None}]

\* Every variable has its type.
TypeOK ==
    /\ row \in [Mails -> MailRow]
    /\ producing \subseteq Mails
    /\ job \in [Jobs -> Job]
    /\ worker \in [Workers -> Worker]
    /\ retrier \in [Retriers -> Retrier]
    /\ accepted \in [Mails -> Nat]
    /\ mishaps \in [Mails -> 0 .. MaxMishaps]
    /\ dropped \subseteq Mails

Mishap(m) ==
    /\ mishaps[m] < MaxMishaps
    /\ mishaps' = [mishaps EXCEPT ![m] = @ + 1]

-----------------------------------------------------------------------------
(* Producers *)

\* The row is inserted.  (Without its template the mail is refused.)
Insert(m) ==
    /\ row[m].status = "absent"
    /\ row' = [row EXCEPT ![m].status = "pending"]
    /\ producing' = producing \cup {m}
    /\ UNCHANGED <<job, worker, retrier, accepted, mishaps, dropped>>

\* addToQueue: a new job, whatever jobs the mail had before; or an error.
AddToQueue(m) == LET unused == {j \in Jobs : job[j].state = "unused"} IN
    \/ /\ unused # {}
       /\ job' = [job EXCEPT ![CHOOSE j \in unused : TRUE] =
                    [state |-> "queued", mail |-> m, stalled |-> FALSE]]
       /\ UNCHANGED dropped
    \/ dropped' = dropped \cup {m} /\ UNCHANGED job

\* The producer adds the job; when it cannot, the row stays behind.
Produce(m) ==
    /\ m \in producing
    /\ producing' = producing \ {m}
    /\ AddToQueue(m)
    /\ UNCHANGED <<row, worker, retrier, accepted, mishaps>>

-----------------------------------------------------------------------------
(* MailProcessor: MailService.sendMail.  The row is not looked at before. *)

Goto(w, step) == worker' = [worker EXCEPT ![w].step = step]

MailOf(w) == job[worker[w].job].mail

Take(w, j) ==
    /\ worker[w] = Idle
    /\ job[j].state = "queued"
    /\ job' = [job EXCEPT ![j].state = "active"]
    /\ worker' = [worker EXCEPT ![w] = [Idle EXCEPT !.step = "send", !.job = j,
                                                    !.lock = TRUE]]
    /\ UNCHANGED <<row, producing, retrier, accepted, mishaps, dropped>>

\* No template, or the server refuses; or it takes the mail; or its answer is lost.
Send(w) == LET m == MailOf(w) IN
    /\ worker[w].step = "send"
    /\ \/ Goto(w, "catch") /\ UNCHANGED <<accepted, mishaps>>
       \/ /\ accepted' = [accepted EXCEPT ![m] = @ + 1]
          /\ \/ Goto(w, "mark") /\ UNCHANGED mishaps
             \/ Goto(w, "catch") /\ Mishap(m)
    /\ UNCHANGED <<row, producing, job, retrier, dropped>>

\* update: the UPDATE, then findById; each of them can fail.
Mark(w) == LET m == MailOf(w) IN
    /\ worker[w].step = "mark"
    /\ \/ row' = [row EXCEPT ![m].status = "sent"] /\ Goto(w, "end") /\ UNCHANGED mishaps
       \/ row' = [row EXCEPT ![m].status = "sent"] /\ Goto(w, "catch") /\ Mishap(m)
       \/ UNCHANGED row /\ Goto(w, "catch") /\ Mishap(m)
    /\ UNCHANGED <<producing, job, retrier, accepted, dropped>>

\* The catch block reads the mail's attempts; an error ends it.
Catch(w) == LET m == MailOf(w) IN
    /\ worker[w].step = "catch"
    /\ \/ /\ worker' = [worker EXCEPT ![w] = [@ EXCEPT !.step = "fail",
                                                       !.attempts = row[m].attempts]]
          /\ UNCHANGED dropped
       \/ Goto(w, "end") /\ dropped' = dropped \cup {m}
    /\ UNCHANGED <<row, producing, job, retrier, accepted, mishaps>>

\* Mutant of Fail: the failure is counted, the status is not set.
FailCounts(w) == LET m == MailOf(w) IN
    /\ worker[w].step = "fail"
    /\ \/ /\ row' = [row EXCEPT ![m].attempts = worker[w].attempts + 1]
          /\ UNCHANGED dropped
       \/ dropped' = dropped \cup {m} /\ UNCHANGED row
    /\ Goto(w, "end")
    /\ UNCHANGED <<producing, job, retrier, accepted, mishaps>>

\* The mail is FAILED and its attempts are one more than was read.  The job
\* fails in any case.
Fail(w) == LET m == MailOf(w) IN
    /\ worker[w].step = "fail"
    /\ \/ /\ row' = [row EXCEPT ![m] = [status |-> "failed",
                                        attempts |-> worker[w].attempts + 1]]
          /\ UNCHANGED dropped
       \/ dropped' = dropped \cup {m} /\ UNCHANGED row
    /\ Goto(w, "end")
    /\ UNCHANGED <<producing, job, retrier, accepted, mishaps>>

\* The job is completed or failed, and that is all: it has one attempt.
End(w) ==
    /\ worker[w].step = "end"
    /\ job' = IF worker[w].lock THEN [job EXCEPT ![worker[w].job].state = "over"] ELSE job
    /\ worker' = [worker EXCEPT ![w] = Idle]
    /\ UNCHANGED <<row, producing, retrier, accepted, mishaps, dropped>>

\* The queue takes job j back from a worker that no longer renews its lock.
Stall(j) ==
    /\ Mishap(job[j].mail)
    /\ job' = [job EXCEPT ![j] = [state |-> IF @.stalled THEN "over" ELSE "queued",
                                  mail |-> @.mail, stalled |-> TRUE]]
    /\ dropped' = IF job[j].stalled THEN dropped \cup {job[j].mail} ELSE dropped

\* The process of w stops; the queue notices when the lock runs out.
Die(w) ==
    /\ worker[w] # Idle
    /\ IF worker[w].lock THEN Stall(worker[w].job) ELSE UNCHANGED <<job, mishaps, dropped>>
    /\ worker' = [worker EXCEPT ![w] = Idle]
    /\ UNCHANGED <<row, producing, retrier, accepted>>

\* The lock of w runs out although w is still at work.
LoseLock(w) ==
    /\ worker[w].lock
    /\ Stall(worker[w].job)
    /\ worker' = [worker EXCEPT ![w].lock = FALSE]
    /\ UNCHANGED <<row, producing, retrier, accepted>>

-----------------------------------------------------------------------------
(* RetryFailedMails *)

\* Mutant of CanRetry: only the attempts count.
CanRetryAny(m) == row[m].status # "absent" /\ row[m].attempts < MaxAttempts

CanRetry(m) == row[m].status = "failed" /\ row[m].attempts < MaxAttempts

\* What can be retried is read at once, before the loop.
RetryList(r) ==
    /\ retrier[r] = Resting
    /\ \E m \in Mails : CanRetry(m)
    /\ retrier' = [retrier EXCEPT ![r].todo = {m \in Mails : CanRetry(m)}]
    /\ UNCHANGED <<row, producing, job, worker, accepted, mishaps, dropped>>

\* Another call has read the mail as one that can be retried, and is yet to update it.
Doubled(r, m) == \E s \in Retriers \ {r} : m \in retrier[s].todo

\* One of them is made PENDING again, whatever it is now; the other columns stay.
\* The first error, or a crash, ends the call.
RetryUpdate(r, m) ==
    /\ m \in retrier[r].todo
    /\ retrier[r].adding = None
    /\ \/ /\ row' = [row EXCEPT ![m].status = "pending"]
          /\ retrier' = [retrier EXCEPT ![r] = [todo |-> @.todo \ {m}, adding |-> m]]
          /\ IF Doubled(r, m) THEN Mishap(m) ELSE UNCHANGED mishaps
          /\ UNCHANGED dropped
       \/ /\ row' = [row EXCEPT ![m].status = "pending"]
          /\ retrier' = [retrier EXCEPT ![r] = Resting]
          /\ dropped' = dropped \cup {m}
          /\ UNCHANGED mishaps
       \/ /\ retrier' = [retrier EXCEPT ![r] = Resting]
          /\ UNCHANGED <<row, dropped, mishaps>>
    /\ UNCHANGED <<producing, job, worker, accepted>>

RetryAdd(r) == LET m == retrier[r].adding IN
    /\ m # None
    /\ AddToQueue(m)
    /\ retrier' = [retrier EXCEPT ![r] = IF UNCHANGED job THEN Resting
                                         ELSE [@ EXCEPT !.adding = None]]
    /\ UNCHANGED <<row, producing, worker, accepted, mishaps>>

-----------------------------------------------------------------------------
Init ==
    /\ row = [m \in Mails |-> [status |-> "absent", attempts |-> 0]]
    /\ producing = {}
    /\ job = [j \in Jobs |-> [state |-> "unused", mail |-> None, stalled |-> FALSE]]
    /\ worker = [w \in Workers |-> Idle]
    /\ retrier = [r \in Retriers |-> Resting]
    /\ accepted = [m \in Mails |-> 0]
    /\ mishaps = [m \in Mails |-> 0]
    /\ dropped = {}

Process(w) ==
    \/ \E j \in Jobs : Take(w, j)
    \/ Send(w) \/ Mark(w) \/ Catch(w) \/ Fail(w) \/ End(w)

Retry(r) ==
    \/ RetryList(r) \/ RetryAdd(r)
    \/ \E m \in Mails : RetryUpdate(r, m)

Next ==
    \/ \E m \in Mails : Insert(m) \/ Produce(m)
    \/ \E w \in Workers : Process(w) \/ Die(w) \/ LoseLock(w)
    \/ \E r \in Retriers : Retry(r)

Spec == Init /\ [][Next]_vars

\* Producers, workers and calls of RetryFailedMails go on when a query, the queue
\* or the SMTP server answers.
Fairness ==
    /\ \A m \in Mails : WF_vars(Produce(m))
    /\ \A w \in Workers : WF_vars(Process(w))
    /\ \A r \in Retriers : WF_vars(RetryAdd(r))

FairSpec == Spec /\ Fairness

-----------------------------------------------------------------------------
(* Properties *)

\* A mail is SENT only if the SMTP server has taken it.
SentMeansAccepted ==
    \A m \in Mails : row[m].status = "sent" => accepted[m] >= 1

\* The server takes a mail again only after a crash, a lost lock, a lost answer, or
\* when two calls of RetryFailedMails have it in their lists at the same time: calls
\* that come one after the other send none twice.
AcceptedOncePerMishap ==
    \A m \in Mails : accepted[m] <= 1 + mishaps[m]

\* A PENDING mail is on its way: its producer or a retry is about to add a job,
\* or the queue has one.  The exceptions are mails whose job could not be added or
\* ended without a trace in the row; nothing in the program looks for those.
PendingIsCarried ==
    \A m \in Mails : row[m].status = "pending" =>
        \/ m \in producing \cup dropped
        \/ \E r \in Retriers : retrier[r].adding = m
        \/ \E j \in Jobs : job[j].mail = m /\ job[j].state \in {"queued", "active"}

\* A mail is tried MaxAttempts times, and once more for each mishap.
AttemptsBounded ==
    \A m \in Mails : row[m].attempts <= MaxAttempts + mishaps[m]

\* Rows, jobs and the SMTP server agree, through failures, retries and crashes (MailService
\* and the processor of the queue).
DeliveryRight ==
    /\ TypeOK /\ SentMeansAccepted /\ AcceptedOncePerMishap
    /\ PendingIsCarried /\ AttemptsBounded

\* A mail does not stay PENDING, unless its job is lost.
MailSettles ==
    \A m \in Mails : row[m].status = "pending" ~> (row[m].status # "pending" \/ m \in dropped)

\* What the documentation of the mail module says: a failed mail is tried again, up
\* to MaxAttempts times.
FailedIsTriedAgain ==
    \A m \in Mails : row[m].status = "failed" /\ row[m].attempts < MaxAttempts
                        ~> row[m].status # "failed"
=============================================================================
