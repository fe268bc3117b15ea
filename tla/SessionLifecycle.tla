--------------------------- MODULE SessionLifecycle ---------------------------
(***************************************************************************)
(* What the refresh-token store promises, whatever the request handlers of *)
(* auth-service do in between.  A refresh token is issued once, to one     *)
(* user, and from then on it can only be revoked.  A token issued in       *)
(* exchange for another one (rotation) belongs to the same user, and the   *)
(* token it replaces is already revoked when it appears.  A revocation     *)
(* never crosses users.                                                    *)
(***************************************************************************)
CONSTANTS Users, RefreshTokens, None

VARIABLES
    owner,    \* owner[t]: the user of t, None before t is issued
    live,     \* the tokens that can still be exchanged or used to log out
    parent    \* parent[t]: the token t was exchanged for, None after a login

lifecycleVars == <<owner, live, parent>>

Issued == {t \in RefreshTokens : owner[t] # None}

Init ==
    /\ owner = [t \in RefreshTokens |-> None]
    /\ live = {}
    /\ parent = [t \in RefreshTokens |-> None]

\* A login opens a session: a token without a predecessor.
Open(u, t) ==
    /\ t \notin Issued
    /\ owner' = [owner EXCEPT ![t] = u]
    /\ live' = live \cup {t}
    /\ UNCHANGED parent

\* A rotation continues a session: the predecessor is spent.
Rotate(old, t) ==
    /\ old \in Issued \ live
    /\ t \notin Issued
    /\ owner' = [owner EXCEPT ![t] = owner[old]]
    /\ parent' = [parent EXCEPT ![t] = old]
    /\ live' = live \cup {t}

\* Rotation and logout end one token, a password change all of one user's.
Revoke(u, dead) ==
    /\ dead # {}
    /\ dead \subseteq live
    /\ \A t \in dead : owner[t] = u
    /\ live' = live \ dead
    /\ UNCHANGED <<owner, parent>>

Next ==
    \/ \E u \in Users, t \in RefreshTokens : Open(u, t)
    \/ \E old, t \in RefreshTokens : Rotate(old, t)
    \/ \E u \in Users, dead \in SUBSET RefreshTokens : Revoke(u, dead)

LifecycleSpec == Init /\ [][Next]_lifecycleVars
=============================================================================
