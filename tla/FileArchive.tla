------------------------------ MODULE FileArchive ------------------------------
(***************************************************************************)
(* What files promise to their users, however requests to them meet and    *)
(* fail.  A file has an owner for ever, and among the owner's files, the   *)
(* removed ones too, a name of its own.  A version belongs to one file for *)
(* ever, and the current version of a file is one of its versions.  What   *)
(* is delivered is a version of a file, to its owner or to a manager.      *)
(***************************************************************************)
CONSTANTS Users, Managers, FileIds, Names, Puts, Requests, None

VARIABLES
    catalog,   \* catalog[f]: name, owner and current version of f, and if it is removed
    edition,   \* edition[n]: the file of version n, or None
    delivered  \* delivered[p]: what the request p was sent, or None

archiveVars == <<catalog, edition, delivered>>

Entered(f) == catalog[f] # None
\* No other file of the user has the name.
Free(f, user, name) ==
    \A g \in FileIds \ {f} :
        Entered(g) /\ catalog[g].user = user => catalog[g].name # name

Init ==
    /\ catalog = [f \in FileIds |-> None]
    /\ edition = [n \in Puts |-> None]
    /\ delivered = [p \in Requests |-> None]

\* A file appears with its first version.
Publish(f, n) ==
    /\ ~Entered(f)
    /\ \E user \in Users, name \in Names :
          /\ Free(f, user, name)
          /\ catalog' = [catalog EXCEPT ![f] =
                           [name |-> name, user |-> user, last |-> n, deleted |-> FALSE]]

\* A further one becomes the current one, or not yet.
Renew(f, n) ==
    /\ Entered(f)
    /\ catalog' \in {catalog, [catalog EXCEPT ![f].last = n]}

\* Version n is recorded once, of one file.
Record(f, n) ==
    /\ edition[n] = None
    /\ edition' = [edition EXCEPT ![n] = f]
    /\ Publish(f, n) \/ Renew(f, n)
    /\ UNCHANGED delivered

\* Whoever comes last decides which of its versions is the current one.
Point(f, n) ==
    /\ edition[n] = f
    /\ catalog' = [catalog EXCEPT ![f].last = n]
    /\ UNCHANGED <<edition, delivered>>

Rename(f) ==
    /\ Entered(f)
    /\ \E name \in Names :
          /\ Free(f, catalog[f].user, name)
          /\ catalog' = [catalog EXCEPT ![f].name = name]
    /\ UNCHANGED <<edition, delivered>>

\* A removed file does not come back.
Remove(f) ==
    /\ Entered(f)
    /\ catalog' = [catalog EXCEPT ![f].deleted = TRUE]
    /\ UNCHANGED <<edition, delivered>>

\* Version n of f is sent to somebody who may have it.
Deliver(f, n) ==
    /\ edition[n] = f
    /\ \E user \in Managers \cup {catalog[f].user}, p \in Requests :
          delivered' = [delivered EXCEPT ![p] = [to |-> user, file |-> f, version |-> n]]
    /\ UNCHANGED <<catalog, edition>>

Forget(p) ==
    /\ delivered' = [delivered EXCEPT ![p] = None]
    /\ UNCHANGED <<catalog, edition>>

Next ==
    \/ \E f \in FileIds, n \in Puts : Record(f, n) \/ Point(f, n) \/ Deliver(f, n)
    \/ \E f \in FileIds : Rename(f) \/ Remove(f)
    \/ \E p \in Requests : Forget(p)

ArchiveSpec == Init /\ [][Next]_archiveVars
=============================================================================
