------------------------- MODULE NotificationDispatch -------------------------
(***************************************************************************)
(* Notifications on their way to the user: rows of `notification`, the     *)
(* BullMQ queue `notifications`, its workers, and the scheduled dispatcher *)
(* that picks up what the queue has lost.                                  *)
(*                                                                         *)
(* The job of a notification has the notification's id, so the queue takes *)
(* it once: adding it again does nothing as long as the queue knows it,    *)
(* finished or not.  Finished jobs are forgotten when enough later ones    *)
(* have finished (removeOnComplete, removeOnFail).  A job whose worker     *)
(* died is given to another one, once; the second time it counts as failed.*)
(*                                                                         *)
(* The dispatcher reads no more than a batch of the oldest rows, so the    *)
(* rows that stay pending can keep it from the others.                     *)
(***************************************************************************)
EXTENDS Naturals, FiniteSets

CONSTANTS
    Notifications,  \* the notifications that can be created (bounds the model): numbers
                    \* in the order of createdAt
    DispatchBatchLimit, \* how many rows the dispatcher reads: 100 in the code
    InApp,          \* those for the channel IN_APP
    Unsupported,    \* those for a channel other than IN_APP and EMAIL
    Workers,        \* workers of the queue `notifications`
    Attempts,       \* how often the queue tries a job
    LocksExpire,    \* can a worker that is alive lose the lock of its job?
    MaxMishaps,     \* bounds crashes, lost locks and lost answers per notification
    None

ASSUME NotificationDispatchAssumption ==
    /\ InApp \cup Unsupported \subseteq Notifications
    /\ InApp \cap Unsupported = {}
    /\ Attempts \in Nat \ {0} /\ MaxMishaps \in Nat
    /\ LocksExpire \in BOOLEAN /\ IsFiniteSet(Workers)
    /\ None \notin Notifications
ASSUME DispatchOrderAssumption ==
    Notifications \subseteq Nat /\ DispatchBatchLimit \in Nat \ {0}

VARIABLES
    row,        \* row[n]: status and deletedAt of the notification
    postponed,  \* notifications whose nextAttemptAt lies in the future
    creating,   \* created notifications whose first enqueue is under way
    listed,     \* what the scheduled dispatcher has read and not enqueued yet
    job,        \* job[n]: the job with the id of n
    worker,     \* worker[w]: the job w works at, and how far it is
    mails,      \* mails[n]: mails queued for n
    mishaps,    \* mishaps[n]: what went wrong after a mail of n was queued
    unwritten   \* notifications whose job made an attempt that left no trace in
                \* the row, or was taken from a worker that may still write it

vars == <<row, postponed, creating, listed, job, worker, mails, mishaps, unwritten>>

-----------------------------------------------------------------------------
Row == [status : {"absent", "pending", "sent", "failed"}, deleted : BOOLEAN]
Job == [state : {"unknown", "queued", "active", "completed", "failed"},
        made : 0 .. Attempts, stalls : 0 .. 1]
NoJob == [state |-> "unknown", made |-> 0, stalls |-> 0]
Idle == [step |-> "idle", at |-> None, made |-> 0, lock |-> FALSE]
Worker == [step : {"idle", "send", "reject", "mark", "fail", "complete", "throw"},
           at : Notifications \cup {None}, made : 0 .. Attempts, lock : BOOLEAN]

\* Every variable has its type.
TypeOK ==
    /\ row \in [Notifications -> Row]
    /\ postponed \subseteq Notifications
    /\ creating \subseteq Notifications
    /\ listed \subseteq Notifications
    /\ job \in [Notifications -> Job]
    /\ worker \in [Workers -> Worker]
    /\ mails \in [Notifications -> Nat]
    /\ mishaps \in [Notifications -> 0 .. MaxMishaps]
    /\ unwritten \subseteq Notifications

Pending(n) == row[n].status = "pending" /\ ~row[n].deleted

Mishap(n) ==
    /\ mishaps[n] < MaxMishaps
    /\ mishaps' = [mishaps EXCEPT ![n] = @ + 1]

-----------------------------------------------------------------------------
(* Creating and deleting a notification *)

Create(n) ==
    /\ row[n].status = "absent"
    /\ row' = [row EXCEPT ![n].status = IF n \in InApp THEN "sent" ELSE "pending"]
    /\ creating' = IF n \in InApp THEN creating ELSE creating \cup {n}
    /\ UNCHANGED <<postponed, listed, job, worker, mails, mishaps, unwritten>>

\* queue.add: nothing happens if there is a job of this id.
Add(n) == job' = IF job[n].state = "unknown"
                 THEN [job EXCEPT ![n] = [NoJob EXCEPT !.state = "queued"]] ELSE job

\* The handler does not wait for the enqueue, and only logs when it fails.
Enqueue(n) ==
    /\ n \in creating
    /\ creating' = creating \ {n}
    /\ Add(n) \/ UNCHANGED job
    /\ UNCHANGED <<row, postponed, listed, worker, mails, mishaps, unwritten>>

DeleteByUser(n) ==
    /\ row[n].status # "absent"
    /\ ~row[n].deleted
    /\ row' = [row EXCEPT ![n].deleted = TRUE]
    /\ UNCHANGED <<postponed, creating, listed, job, worker, mails, mishaps, unwritten>>

-----------------------------------------------------------------------------
(* The scheduled dispatcher *)

\* findPendingForDispatch: pending notifications whose time has come, the oldest ones.
Due(n) == Pending(n) /\ n \notin postponed
Batch ==
    {n \in Notifications :
        Due(n) /\ Cardinality({m \in Notifications : m < n /\ Due(m)}) < DispatchBatchLimit}

ListPending ==
    /\ listed' = listed \cup Batch
    /\ UNCHANGED <<row, postponed, creating, job, worker, mails, mishaps, unwritten>>

ComesDue(n) ==
    /\ n \in postponed
    /\ postponed' = postponed \ {n}
    /\ UNCHANGED <<row, creating, listed, job, worker, mails, mishaps, unwritten>>

\* Of what was listed one is enqueued, or lost when the queue or the process fails.
EnqueueListed(n) ==
    /\ n \in listed
    /\ listed' = listed \ {n}
    /\ Add(n) \/ UNCHANGED job
    /\ UNCHANGED <<row, postponed, creating, worker, mails, mishaps, unwritten>>

-----------------------------------------------------------------------------
(* A worker processes a job *)

Goto(w, step) == worker' = [worker EXCEPT ![w].step = step]

\* An idle worker is given a job that waits.
Begin(w, n, step) ==
    /\ worker[w] = Idle
    /\ job[n].state = "queued"
    /\ job' = [job EXCEPT ![n].state = "active"]
    /\ worker' = [worker EXCEPT ![w] =
         [step |-> step, at |-> n, made |-> job[n].made, lock |-> TRUE]]
    /\ UNCHANGED <<row, postponed, creating, listed, mails, mishaps>>

\* Mutant of Take: the status of the row is not looked at.
TakeAnyStatus(w, n) ==
    /\ Begin(w, n, IF n \in Unsupported THEN "reject" ELSE "send")
    /\ UNCHANGED unwritten

\* findById tells whether anything is left to do.
Take(w, n) ==
    /\ Begin(w, n, IF ~Pending(n) THEN "complete"
                   ELSE IF n \in Unsupported THEN "reject" ELSE "send")
    /\ UNCHANGED unwritten

\* findById fails, outside the try block: the attempt is used up.
TakeFails(w, n) ==
    /\ Begin(w, n, "throw")
    /\ unwritten' = unwritten \cup {n}

\* dispatchEmail: no user, no template or no database, and nothing is sent; or
\* the mail is queued; or it is queued and the answer of the queue is lost.
Send(w) == LET n == worker[w].at IN
    /\ worker[w].step = "send"
    /\ \/ Goto(w, "fail") /\ UNCHANGED <<mails, mishaps>>
       \/ /\ mails' = [mails EXCEPT ![n] = @ + 1]
          /\ \/ Goto(w, "mark") /\ UNCHANGED mishaps
             \/ Goto(w, "fail") /\ Mishap(n)
    /\ UNCHANGED <<row, postponed, creating, listed, job, unwritten>>

\* An UPDATE of the row unless it is deleted.
SetStatus(n, status) ==
    row' = IF row[n].deleted THEN row ELSE [row EXCEPT ![n].status = status]

\* markDispatchFailed: the row is pending until a later time, or failed.
Failed(n, next) ==
    /\ SetStatus(n, IF next THEN "pending" ELSE "failed")
    /\ postponed' = IF row[n].deleted THEN postponed
                    ELSE IF next THEN postponed \cup {n} ELSE postponed \ {n}

\* markDispatchSent; an error is caught like one of dispatchEmail.
Mark(w) ==
    /\ worker[w].step = "mark"
    /\ \/ /\ SetStatus(worker[w].at, "sent")
          /\ Goto(w, "complete")
          /\ UNCHANGED mishaps
       \/ Goto(w, "fail") /\ Mishap(worker[w].at) /\ UNCHANGED row
    /\ UNCHANGED <<postponed, creating, listed, job, mails, unwritten>>

\* A channel nobody serves: failed at once; if the UPDATE fails it is caught.
Reject(w) ==
    /\ worker[w].step = "reject"
    /\ \/ Failed(worker[w].at, FALSE) /\ Goto(w, "complete")
       \/ Goto(w, "fail") /\ UNCHANGED <<row, postponed>>
    /\ UNCHANGED <<creating, listed, job, mails, mishaps, unwritten>>

\* Mutant of HasNext: off by one.
HasOneMore(made) == made < Attempts

\* getNextAttemptAt: is there an attempt after the present one?
HasNext(made) == made + 1 < Attempts

\* The catch block: markDispatchFailed, then the error is thrown again unless
\* this was the last attempt.  When that UPDATE fails, its error is thrown.
Fail(w) == LET n == worker[w].at
               next == HasNext(worker[w].made) IN
    /\ worker[w].step = "fail"
    /\ \/ /\ Failed(n, next)
          /\ Goto(w, IF next THEN "throw" ELSE "complete")
          /\ UNCHANGED unwritten
       \/ /\ Goto(w, "throw")
          /\ unwritten' = unwritten \cup {n}
          /\ UNCHANGED <<row, postponed>>
    /\ UNCHANGED <<creating, listed, job, mails, mishaps>>

-----------------------------------------------------------------------------
(* The queue and the processes *)

\* process() has returned: the job is completed.  It has thrown: the job is
\* tried again, up to Attempts times.  A worker without its lock changes nothing.
Settle(w) == LET n == worker[w].at IN
    /\ worker[w].step \in {"complete", "throw"}
    /\ job' = IF ~worker[w].lock THEN job
              ELSE IF worker[w].step = "complete"
              THEN [job EXCEPT ![n].state = "completed"]
              ELSE [job EXCEPT ![n] =
                      [state |-> IF @.made + 1 < Attempts THEN "queued" ELSE "failed",
                       made |-> @.made + 1, stalls |-> @.stalls]]
    /\ worker' = [worker EXCEPT ![w] = Idle]
    /\ UNCHANGED <<row, postponed, creating, listed, mails, mishaps, unwritten>>

\* The queue takes the job of n from a worker that no longer renews its lock.
Stall(n) ==
    /\ Mishap(n)
    /\ job' = [job EXCEPT ![n] = [state |-> IF @.stalls = 0 THEN "queued" ELSE "failed",
                                  made |-> @.made, stalls |-> 1]]
    /\ unwritten' = unwritten \cup {n}

\* The process of w stops.  The queue notices when the lock runs out, a while
\* later; until then nobody else touches the job.
Die(w) ==
    /\ worker[w] # Idle
    /\ IF worker[w].lock THEN Stall(worker[w].at) ELSE UNCHANGED <<job, mishaps, unwritten>>
    /\ worker' = [worker EXCEPT ![w] = Idle]
    /\ UNCHANGED <<row, postponed, creating, listed, mails>>

\* The lock of w runs out although w is still at work.
LoseLock(w) ==
    /\ LocksExpire
    /\ worker[w].lock
    /\ Stall(worker[w].at)
    /\ worker' = [worker EXCEPT ![w].lock = FALSE]
    /\ UNCHANGED <<row, postponed, creating, listed, mails>>

\* The queue forgets a finished job, and takes a new one of the same id.
Forget(n) ==
    /\ job[n].state \in {"completed", "failed"}
    /\ job' = [job EXCEPT ![n] = NoJob]
    /\ unwritten' = IF \E w \in Workers : worker[w].at = n
                    THEN unwritten ELSE unwritten \ {n}
    /\ UNCHANGED <<row, postponed, creating, listed, worker, mails, mishaps>>

-----------------------------------------------------------------------------
Init ==
    /\ row = [n \in Notifications |-> [status |-> "absent", deleted |-> FALSE]]
    /\ postponed = {}
    /\ creating = {}
    /\ listed = {}
    /\ job = [n \in Notifications |-> NoJob]
    /\ worker = [w \in Workers |-> Idle]
    /\ mails = [n \in Notifications |-> 0]
    /\ mishaps = [n \in Notifications |-> 0]
    /\ unwritten = {}

Process(w) ==
    \/ \E n \in Notifications : Take(w, n) \/ TakeFails(w, n)
    \/ Send(w) \/ Mark(w) \/ Reject(w) \/ Fail(w) \/ Settle(w)

Next ==
    \/ \E n \in Notifications :
          \/ Create(n) \/ Enqueue(n) \/ DeleteByUser(n)
          \/ ComesDue(n) \/ EnqueueListed(n) \/ Forget(n)
    \/ ListPending
    \/ \E w \in Workers : Process(w) \/ Die(w) \/ LoseLock(w)

Spec == Init /\ [][Next]_vars

\* The scheduler runs, time passes, workers take what is queued and go on when a query
\* is answered.  Adding a job succeeds if it is tried again and again.
Fairness ==
    /\ \A w \in Workers : WF_vars(Process(w))
    /\ WF_vars(ListPending)
    /\ \A n \in Notifications :
          WF_vars(ComesDue(n)) /\ SF_vars(EnqueueListed(n) /\ Add(n))

FairSpec == Spec /\ Fairness

-----------------------------------------------------------------------------
(* Properties *)

\* A notification is SENT only when a mail was queued for it, and more than one
\* mail is queued only when an answer was lost, a process died or a lock ran
\* out: neither the retries of the queue, nor the dispatcher adding the job
\* again, nor a queue that has forgotten it send one twice.
OneMailUnlessMishap ==
    \A n \in Notifications \ InApp :
        /\ row[n].status = "sent" => mails[n] >= 1
        /\ mails[n] <= 1 + mishaps[n]

\* A pending notification is not forgotten: the queue has its job to do, or
\* does not know it and takes it from the dispatcher.  The exception: attempts
\* of the last job left no trace in the row, because a query failed or a
\* process died, or a worker that has lost the job made the row pending late; as
\* long as the queue remembers the finished job, the dispatcher adds it in vain.
NobodyForgotten ==
    \A n \in Notifications :
        Pending(n) /\ job[n].state \in {"completed", "failed"} => n \in unwritten

\* What has been sent or has failed is settled: no late write makes the
\* notification pending again, unless its job was taken from a worker that may
\* still write.
SettledStaysSettled ==
    [][\A n \in Notifications :
          row[n].status \in {"sent", "failed"} =>
              \/ row'[n].status = row[n].status
              \/ LocksExpire /\ n \in unwritten]_vars

\* The batch is full of older notifications that are pending although attempts of their
\* jobs have left no trace: the dispatcher adds these in vain, and reads no others.
Crowded(n) ==
    Cardinality({m \in unwritten : m < n /\ Pending(m)}) >= DispatchBatchLimit

\* A pending notification is sent, fails or is deleted at last, although the dispatcher
\* reads the oldest rows only.  The exceptions: attempts of its own job leave no trace in
\* the row, or a worker that has lost its lock writes the row late; or so many older
\* notifications are left like that as the dispatcher reads rows.
PendingSettles ==
    \A n \in Notifications :
        Pending(n) ~> (~Pending(n) \/ n \in unwritten \/ Crowded(n))

-----------------------------------------------------------------------------
(* Why the invariants hold *)

Busy == {w \in Workers : worker[w] # Idle}

\* A job in progress has at most one worker that holds its lock.  The others are
\* late: they have lost it.
OneHolderPerJob ==
    /\ \A w \in Busy : LET n == worker[w].at IN
          /\ n \in Notifications
          /\ worker[w].step # "idle"
          /\ IF worker[w].lock THEN job[n].state = "active" /\ worker[w].made = job[n].made
             ELSE LocksExpire /\ n \in unwritten
    /\ \A v, w \in Busy :
          worker[v].at = worker[w].at /\ worker[v].lock /\ worker[w].lock => v = w
    /\ \A n \in Notifications : job[n].state \in {"queued", "active"} => job[n].made < Attempts

\* Nothing is done for a row that is not there; in-app rows are sent at once.
RowsComeFirst ==
    /\ \A n \in Notifications : row[n].status = "absent" =>
          /\ n \notin creating \cup listed
          /\ job[n].state = "unknown"
          /\ \A w \in Workers : worker[w].at # n
    /\ \A n \in InApp : row[n].status \in {"absent", "sent"}

\* A worker at a step that sends or writes has a pending row, unless it or another
\* one is late; one that lets go of its job leaves a settled row, a next attempt,
\* or no trace.
FitsAt(w) == LET n == worker[w].at IN
    /\ worker[w].step \in {"send", "reject", "mark", "fail"} =>
          /\ n \notin InApp
          /\ row[n].status = "pending" \/ (LocksExpire /\ n \in unwritten)
    /\ worker[w].step = "mark" => mails[n] >= 1
    /\ \/ worker[w].step \notin {"complete", "throw"}
       \/ worker[w].step = "throw" /\ HasNext(worker[w].made)
       \/ Pending(n) => n \in unwritten

WorkersFit == \A w \in Busy : FitsAt(w)

\* The steps from which a worker can queue a mail or make its row pending.
Sending == {"send", "reject", "fail"}

\* The late workers that can do so.
Late(n) == {w \in Workers : worker[w].at = n /\ ~worker[w].lock /\ worker[w].step \in Sending}

\* The worker with the lock of n is at one of these steps.
HeldAt(n, steps) ==
    \E w \in Workers : worker[w].at = n /\ worker[w].lock /\ worker[w].step \in steps

\* A mail of n may be queued by a worker with the lock, the present or the next one.
Open(n) ==
    \/ row[n].status = "absent"
    \/ Pending(n) /\ ~HeldAt(n, {"mark"})
    \/ HeldAt(n, Sending)

\* How many mails of n may still be queued without another mishap, at most.
Chances(n) == Cardinality(Late(n)) + (IF Open(n) THEN 1 ELSE 0)

\* They count with the mails that were queued.
MailsAccounted ==
    \A n \in Notifications \ InApp : mails[n] + Chances(n) <= 1 + mishaps[n]

\* The inductive invariant of NotificationProofs.
Inductive ==
    /\ TypeOK
    /\ OneHolderPerJob
    /\ RowsComeFirst
    /\ WorkersFit
    /\ MailsAccounted
    /\ OneMailUnlessMishap
    /\ NobodyForgotten
=============================================================================
