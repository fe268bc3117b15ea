---------------------------- MODULE MCMailDelivery ----------------------------
(***************************************************************************)
(* Small instances for TLC of MailDelivery, of GelfShipping, and of        *)
(* NotificationDispatch with a worker that can lose its lock.  They        *)
(* share no state: a behaviour belongs to one of the parts, and the others *)
(* stay as they were initially, where none of their fair steps is enabled. *)
(***************************************************************************)
EXTENDS MailDelivery, GelfShipping

CONSTANTS Notifications, DispatchBatchLimit, DispatchWorkers

VARIABLES notification, postponed, creating, listed, notificationJob, notificationWorker,
          mails, notificationMishaps, unwritten, part

Dispatch == INSTANCE NotificationDispatch WITH
    Workers <- DispatchWorkers, InApp <- {}, Unsupported <- {1},
    Attempts <- 3, LocksExpire <- TRUE, MaxMishaps <- 3,
    row <- notification, job <- notificationJob, worker <- notificationWorker,
    mishaps <- notificationMishaps

DispatchVars == <<notification, postponed, creating, listed, notificationJob,
                  notificationWorker, mails, notificationMishaps, unwritten>>
QueueVars == <<part, vars, shippingVars, DispatchVars>>

\* Mishaps and deletions befall a notification that is alone.
Undisturbed(n) == notificationMishaps[n] = 0 /\ ~notification[n].deleted
DisturbedAlone ==
    \A n \in Notifications : Undisturbed(n) \/
        \A m \in Notifications \ {n} : notification[m].status = "absent"

QueueInit ==
    /\ Init /\ ShippingInit /\ Dispatch!Init
    /\ part \in {"delivery", "logs", "notification"}
    /\ part # "logs" => protocol = "udp"
QueueNext ==
    /\ UNCHANGED part
    /\ \/ /\ part = "delivery" /\ Next
          /\ UNCHANGED <<shippingVars, DispatchVars>>
       \/ /\ part = "logs" /\ ShippingNext
          /\ UNCHANGED <<vars, DispatchVars>>
       \/ /\ part = "notification" /\ Dispatch!Next /\ DisturbedAlone'
          /\ UNCHANGED <<vars, shippingVars>>
QueueSpec ==
    /\ QueueInit /\ [][QueueNext]_QueueVars
    /\ Fairness /\ ShippingFairness /\ Dispatch!Fairness

\* NotificationDispatch: a pending notification is settled, or an attempt of its job left
\* no trace in its row, or such rows crowd the batch (the processor, the queue and the
\* scheduled dispatcher).
PendingSettles == Dispatch!PendingSettles
=============================================================================
