------------------------ MODULE MCNotificationDispatch ------------------------
(***************************************************************************)
(* Small instances of NotificationDispatch, of NotificationInbox and of    *)
(* MailComposition for TLC.  A behaviour belongs to one of the parts, and  *)
(* the others stay as they were initially.                                 *)
(***************************************************************************)
EXTENDS NotificationDispatch, NotificationInbox, MailComposition, TLC

VARIABLE part

NotifyVars == <<part, vars, inboxVars, compositionVars>>
NotifyInit ==
    /\ Init /\ InboxInit /\ CompositionInit
    /\ part \in {"dispatch", "inbox", "composition"}

\* Mishaps befall a mail, deletions and the other mishaps a notification that is alone.
Undisturbed(n) == (n \in Unsupported => mishaps[n] = 0) /\ ~row[n].deleted
DisturbedAlone ==
    \A n \in Notifications : Undisturbed(n) \/
        \A m \in Notifications \ {n} : row[m].status = "absent"

NotifyNext ==
    /\ UNCHANGED part
    /\ \/ /\ part = "dispatch" /\ Next /\ DisturbedAlone'
          /\ UNCHANGED <<inboxVars, compositionVars>>
       \/ part = "inbox" /\ InboxNext /\ UNCHANGED <<vars, compositionVars>>
       \/ part = "composition" /\ CompositionNext /\ UNCHANGED <<vars, inboxVars>>
NotifySpec == NotifyInit /\ [][NotifyNext]_NotifyVars

\* A template that has a file, and one that has none.
MCSeeded == <<"notification", "reset-password">>

\* Workers are interchangeable (safety runs only).
Symmetry == Permutations(Workers)
=============================================================================
