----------------------------- MODULE AuthSessions -----------------------------
(***************************************************************************)
(* Sessions of auth-service: the `refresh` and `password_reset_token`      *)
(* tables, the password columns of `user`, and the six gRPC handlers that  *)
(* read and write them.  Node.js runs one handler until its next `await`,  *)
(* so every database call of a handler is one step here and the steps of   *)
(* different requests interleave.  What a handler keeps in local variables *)
(* across an await (a row read earlier, a verified password) is kept in    *)
(* `req`, and may be out of date when the handler uses it.                 *)
(*                                                                         *)
(* The failed-login columns of the same rows are in LoginLockout, the      *)
(* tokenVersion column and the role in AccessVersion: each UPDATE of the   *)
(* code sets only the columns it names.                                    *)
(***************************************************************************)
EXTENDS Naturals, FiniteSets

CONSTANTS
    Users,          \* rows of table `user`
    RefreshTokens,  \* the refresh tokens that can be issued (bounds the model)
    ResetTokens,    \* the password reset tokens that can be issued (bounds the model)
    Requests,       \* requests that can be in flight at the same time
    Secrets,        \* what a user may type as a password
    Unverified,     \* users whose `verified` is false: no handler ever changes it
    None            \* SQL NULL, "no row", "no value"

ASSUME AuthSessionsAssumption ==
    /\ Unverified \subseteq Users
    /\ None \notin Users \cup RefreshTokens \cup ResetTokens \cup Secrets
    /\ RefreshTokens \cap ResetTokens = {}

VARIABLES
    users,      \* users[u]: password, legacy (HMAC hash), blocked, deleted
    refresh,    \* refresh[t]: userId (None: no row yet), isRevoked
    reset,      \* reset[r]: userId (None: no row yet), isUsed
    expired,    \* tokens whose expiresAt lies in the past
    pc,         \* pc[p]: the await at which request p stands
    req,        \* req[p]: the locals of request p
    history     \* what only the properties look at, see below

vars == <<users, refresh, reset, expired, pc, req, history>>

-----------------------------------------------------------------------------
(* Types *)

UserRow == [password : Secrets \cup {None}, legacy : BOOLEAN,
            blocked : BOOLEAN, deleted : BOOLEAN]
RefreshRow == [userId : Users \cup {None}, isRevoked : BOOLEAN]
ResetRow == [userId : Users \cup {None}, isUsed : BOOLEAN]

LoginSteps == {"login_rehash", "login_issue"}
RotationSteps == {"refresh_user", "refresh_revoke", "refresh_issue"}
ResetSteps == {"reset_write", "reset_mark", "reset_revoke"}
ChangeSteps == {"change_write", "change_revoke"}
\* The password has been written and the sessions have not been revoked yet.
RevokeDue == {"reset_mark", "reset_revoke", "change_revoke"}
Steps == {"idle", "refresh_reuse", "forgot_create"}
         \cup LoginSteps \cup RotationSteps \cup ResetSteps \cup ChangeSteps

Locals == [user : Users \cup {None},
           token : RefreshTokens \cup ResetTokens \cup {None},
           secret : Secrets \cup {None}]
NoLocals == [user |-> None, token |-> None, secret |-> None]

\* history.opened[t]   the password that opened the session t belongs to
\* history.parent[t]   the token t was exchanged for
\* history.family[t]   the token of the login that t descends from
\* history.burnt       families that existed when a revokeAllForUser ran
\* history.survivor    tokens whose request, or that of a predecessor, read its
\*                     evidence before a revokeAllForUser and inserted the row
\*                     after it
\* history.overtaken   requests a revokeAllForUser has overtaken in that way
\* history.lapsed      users with a password write that no revokeAllForUser
\*                     will follow: the handler died in between, or the write
\*                     was a rehash of a password that had just been replaced
History == [opened : [RefreshTokens -> Secrets \cup {None}],
            parent : [RefreshTokens -> RefreshTokens \cup {None}],
            family : [RefreshTokens -> RefreshTokens \cup {None}],
            burnt : SUBSET RefreshTokens,
            survivor : SUBSET RefreshTokens,
            overtaken : SUBSET Requests,
            lapsed : SUBSET Users]

\* Every variable holds a value of its column's or its local's type.
TypeOK ==
    /\ users \in [Users -> UserRow]
    /\ refresh \in [RefreshTokens -> RefreshRow]
    /\ reset \in [ResetTokens -> ResetRow]
    /\ expired \subseteq RefreshTokens \cup ResetTokens
    /\ pc \in [Requests -> Steps]
    /\ req \in [Requests -> Locals]
    /\ history \in History

-----------------------------------------------------------------------------
(* Queries of the handlers *)

Found(u) == ~users[u].deleted
Issued(t) == refresh[t].userId # None
Active(t) == Issued(t) /\ ~refresh[t].isRevoked
ResetValid(r) == reset[r].userId # None /\ ~reset[r].isUsed /\ r \notin expired
MayEnter(u) == u \notin Unverified /\ ~users[u].blocked

Goto(p, step) == pc' = [pc EXCEPT ![p] = step]

\* The handler of p returns (or throws): its locals are gone.
Finish(p) ==
    /\ pc' = [pc EXCEPT ![p] = "idle"]
    /\ req' = [req EXCEPT ![p] = NoLocals]

\* A new request p starts and leaves its first await with these locals.
Begin(p, step, locals) ==
    /\ pc[p] = "idle"
    /\ pc' = [pc EXCEPT ![p] = step]
    /\ req' = [req EXCEPT ![p] = locals]

\* Mutant of RevokeAllForUser: a WHERE that matches no row.
RevokesNobody(u) == UNCHANGED refresh

\* UPDATE refresh SET isRevoked = true WHERE userId = u
RevokeAllForUser(u) ==
    refresh' = [t \in RefreshTokens |->
                  IF refresh[t].userId = u
                  THEN [refresh[t] EXCEPT !.isRevoked = TRUE] ELSE refresh[t]]

\* Requests that have read what entitles them to issue a token of u.
Entitled(u) == {q \in Requests : pc[q] \in LoginSteps \cup RotationSteps
                                  /\ req[q].user = u}

FamiliesOf(u) == {history.family[t] : t \in {x \in RefreshTokens : refresh[x].userId = u}}

\* The last step of a password change, a password reset, and of the answer to
\* a revoked token: every session of the user ends, and p returns.
RevokeAll(p, step) ==
    /\ pc[p] = step
    /\ RevokeAllForUser(req[p].user)
    /\ history' = [history EXCEPT
                     !.burnt = @ \cup FamiliesOf(req[p].user),
                     !.overtaken = @ \cup Entitled(req[p].user),
                     !.lapsed = @ \ {req[p].user}]
    /\ Finish(p)
    /\ UNCHANGED <<users, reset, expired>>

\* UPDATE user SET password = <argon2id hash of secret> WHERE id = u
WritePassword(u, secret) ==
    users' = [users EXCEPT ![u] = [@ EXCEPT !.password = secret, !.legacy = FALSE]]

\* Mutant of InsertRefresh: an upsert, which revives the row it hits.
UpsertRefresh(u, t) ==
    refresh' = [refresh EXCEPT ![t] = [userId |-> u, isRevoked |-> FALSE]]

\* INSERT INTO refresh (userId, isRevoked) VALUES (user, false)
InsertRefresh(u, t) ==
    /\ ~Issued(t)
    /\ refresh' = [refresh EXCEPT ![t] = [userId |-> u, isRevoked |-> FALSE]]

\* INSERT INTO password_reset_token (userId, isUsed) VALUES (user, false)
InsertReset(u) ==
    \E r \in ResetTokens :
        /\ reset[r].userId = None
        /\ reset' = [reset EXCEPT ![r] = [userId |-> u, isUsed |-> FALSE]]

\* A token issued by an overtaken request is a survivor of the revocation.
Inherit(p, t) == IF p \in history.overtaken
                 THEN history.survivor \cup {t} ELSE history.survivor

-----------------------------------------------------------------------------
(* login *)

\* findByEmail, the checks on the row, and verifyPassword against that row.  A
\* rejected login only touches the failed-login columns (LoginLockout).
LoginRead(p) == \E u \in Users :
    /\ Found(u)
    /\ MayEnter(u)
    /\ users[u].password # None
    /\ Begin(p, IF users[u].legacy THEN "login_rehash" ELSE "login_issue",
             [user |-> u, token |-> None, secret |-> users[u].password])
    /\ UNCHANGED <<users, refresh, reset, expired, history>>

\* A password that matched a legacy hash is stored again as Argon2id.
LoginRehash(p) == LET u == req[p].user IN
    /\ pc[p] = "login_rehash"
    /\ WritePassword(u, req[p].secret)
    /\ Goto(p, "login_issue")
    /\ history' = [history EXCEPT
                     !.lapsed = IF users[u].password = req[p].secret
                                THEN @ ELSE @ \cup {u}]
    /\ UNCHANGED <<refresh, reset, expired, req>>

LoginIssue(p) == \E t \in RefreshTokens :
    /\ pc[p] = "login_issue"
    /\ InsertRefresh(req[p].user, t)
    /\ history' = [history EXCEPT
                     !.opened[t] = req[p].secret,
                     !.family[t] = t,
                     !.survivor = Inherit(p, t),
                     !.overtaken = @ \ {p}]
    /\ Finish(p)
    /\ UNCHANGED <<users, reset, expired>>

-----------------------------------------------------------------------------
(* refresh *)

\* Mutant of RefreshRead: a revoked token is exchanged like any other.
RefreshReadAnyRow(p) == \E t \in RefreshTokens :
    /\ Issued(t)
    /\ t \notin expired
    /\ Begin(p, "refresh_user",
             [user |-> refresh[t].userId, token |-> t, secret |-> None])
    /\ history' = [history EXCEPT
                     !.overtaken = IF t \in history.survivor
                                   THEN @ \cup {p} ELSE @]
    /\ UNCHANGED <<users, refresh, reset, expired>>

\* The JWT is verified and its row read: unknown and expired tokens are
\* answered at once (the JWT expires with the row, and is looked at first), a
\* revoked one is taken for a stolen one.
RefreshRead(p) == \E t \in RefreshTokens :
    /\ Issued(t)
    /\ t \notin expired
    /\ Begin(p, IF refresh[t].isRevoked THEN "refresh_reuse" ELSE "refresh_user",
             [user |-> refresh[t].userId, token |-> t, secret |-> None])
    /\ history' = [history EXCEPT
                     !.overtaken = IF t \in history.survivor
                                   THEN @ \cup {p} ELSE @]
    /\ UNCHANGED <<users, refresh, reset, expired>>

RefreshReuse(p) == RevokeAll(p, "refresh_reuse")

\* Mutant of RefreshUser: the new token is issued before the old one is revoked.
RefreshUserKeepsOld(p) ==
    /\ pc[p] = "refresh_user"
    /\ IF Found(req[p].user) /\ MayEnter(req[p].user)
       THEN Goto(p, "refresh_issue") /\ UNCHANGED <<req, history>>
       ELSE Finish(p) /\ history' = [history EXCEPT !.overtaken = @ \ {p}]
    /\ UNCHANGED <<users, refresh, reset, expired>>

RefreshUser(p) ==
    /\ pc[p] = "refresh_user"
    /\ IF Found(req[p].user) /\ MayEnter(req[p].user)
       THEN Goto(p, "refresh_revoke") /\ UNCHANGED <<req, history>>
       ELSE Finish(p) /\ history' = [history EXCEPT !.overtaken = @ \ {p}]
    /\ UNCHANGED <<users, refresh, reset, expired>>

\* revokeById: unconditional, it does not tell whether it changed the row.
RefreshRevoke(p) ==
    /\ pc[p] = "refresh_revoke"
    /\ refresh' = [refresh EXCEPT ![req[p].token].isRevoked = TRUE]
    /\ Goto(p, "refresh_issue")
    /\ UNCHANGED <<users, reset, expired, req, history>>

RefreshIssue(p) == \E t \in RefreshTokens :
    /\ pc[p] = "refresh_issue"
    /\ InsertRefresh(req[p].user, t)
    /\ history' = [history EXCEPT
                     !.opened[t] = history.opened[req[p].token],
                     !.parent[t] = req[p].token,
                     !.family[t] = history.family[req[p].token],
                     !.survivor = Inherit(p, t),
                     !.overtaken = @ \ {p}]
    /\ Finish(p)
    /\ UNCHANGED <<users, reset, expired>>

-----------------------------------------------------------------------------
(* logout: one UPDATE, conditional on the token not being revoked *)

Logout == \E t \in RefreshTokens :
    /\ Active(t)
    /\ t \notin expired
    /\ refresh' = [refresh EXCEPT ![t].isRevoked = TRUE]
    /\ UNCHANGED <<users, reset, expired, pc, req, history>>

-----------------------------------------------------------------------------
(* forgot password, reset password, change password *)

ForgotRead(p) == \E u \in Users :
    /\ Found(u)
    /\ ~users[u].blocked
    /\ Begin(p, "forgot_create", [user |-> u, token |-> None, secret |-> None])
    /\ UNCHANGED <<users, refresh, reset, expired, history>>

ForgotCreate(p) ==
    /\ pc[p] = "forgot_create"
    /\ InsertReset(req[p].user)
    /\ Finish(p)
    /\ UNCHANGED <<users, refresh, expired, history>>

\* The administrator's variant, in the backend: blocked users get a link too.
AdminResetRead(p) == \E u \in Users :
    /\ Found(u)
    /\ Begin(p, "forgot_create", [user |-> u, token |-> None, secret |-> None])
    /\ UNCHANGED <<users, refresh, reset, expired, history>>

ResetRead(p) == \E r \in ResetTokens, new \in Secrets :
    /\ ResetValid(r)
    /\ Begin(p, "reset_write",
             [user |-> reset[r].userId, token |-> r, secret |-> new])
    /\ UNCHANGED <<users, refresh, reset, expired, history>>

ResetWrite(p) ==
    /\ pc[p] = "reset_write"
    /\ WritePassword(req[p].user, req[p].secret)
    /\ Goto(p, "reset_mark")
    /\ UNCHANGED <<refresh, reset, expired, req, history>>

\* Mutant of ResetMark: the handler returns without revoking the sessions.
ResetMarkIsLast(p) ==
    /\ pc[p] = "reset_mark"
    /\ reset' = [reset EXCEPT ![req[p].token].isUsed = TRUE]
    /\ Finish(p)
    /\ UNCHANGED <<users, refresh, expired, history>>

ResetMark(p) ==
    /\ pc[p] = "reset_mark"
    /\ reset' = [reset EXCEPT ![req[p].token].isUsed = TRUE]
    /\ Goto(p, "reset_revoke")
    /\ UNCHANGED <<users, refresh, expired, req, history>>

ResetRevoke(p) == RevokeAll(p, "reset_revoke")

\* The current password is verified against the row read here.
ChangeRead(p) == \E u \in Users, new \in Secrets :
    /\ Found(u)
    /\ users[u].password # None
    /\ Begin(p, "change_write", [user |-> u, token |-> None, secret |-> new])
    /\ UNCHANGED <<users, refresh, reset, expired, history>>

ChangeWrite(p) ==
    /\ pc[p] = "change_write"
    /\ WritePassword(req[p].user, req[p].secret)
    /\ Goto(p, "change_revoke")
    /\ UNCHANGED <<refresh, reset, expired, req, history>>

ChangeRevoke(p) == RevokeAll(p, "change_revoke")

-----------------------------------------------------------------------------
(* The rest of the world *)

\* A request dies at an await: a query fails and the handler throws, or the
\* process is restarted.
Die(p) ==
    /\ pc[p] # "idle"
    /\ history' = [history EXCEPT
                     !.overtaken = @ \ {p},
                     !.lapsed = IF pc[p] \in RevokeDue
                                THEN @ \cup {req[p].user} ELSE @]
    /\ Finish(p)
    /\ UNCHANGED <<users, refresh, reset, expired>>

\* An administrator blocks, unblocks or deletes a user (the backend writes
\* the same table).
SetBlocked(u) ==
    /\ Found(u)
    /\ users' = [users EXCEPT ![u].blocked = ~@]
    /\ UNCHANGED <<refresh, reset, expired, pc, req, history>>

Delete(u) ==
    /\ Found(u)
    /\ users' = [users EXCEPT ![u].deleted = TRUE]
    /\ UNCHANGED <<refresh, reset, expired, pc, req, history>>

\* The clock passes the expiresAt of a token.
Expire ==
    /\ \/ \E t \in RefreshTokens : Issued(t) /\ expired' = expired \cup {t}
       \/ \E r \in ResetTokens : reset[r].userId # None /\ expired' = expired \cup {r}
    /\ UNCHANGED <<users, refresh, reset, pc, req, history>>

-----------------------------------------------------------------------------
Init ==
    /\ users \in [Users -> {row \in UserRow : /\ row.legacy => row.password # None
                                             /\ ~row.blocked /\ ~row.deleted}]
    /\ refresh = [t \in RefreshTokens |-> [userId |-> None, isRevoked |-> FALSE]]
    /\ reset = [r \in ResetTokens |-> [userId |-> None, isUsed |-> FALSE]]
    /\ expired = {}
    /\ pc = [p \in Requests |-> "idle"]
    /\ req = [p \in Requests |-> NoLocals]
    /\ history = [opened |-> [t \in RefreshTokens |-> None],
                  parent |-> [t \in RefreshTokens |-> None],
                  family |-> [t \in RefreshTokens |-> None], burnt |-> {},
                  survivor |-> {}, overtaken |-> {}, lapsed |-> {}]

\* The steps a request takes by itself once it has started.
Continue(p) ==
    \/ LoginRehash(p) \/ LoginIssue(p)
    \/ RefreshReuse(p) \/ RefreshUser(p) \/ RefreshRevoke(p) \/ RefreshIssue(p)
    \/ ForgotCreate(p)
    \/ ResetWrite(p) \/ ResetMark(p) \/ ResetRevoke(p)
    \/ ChangeWrite(p) \/ ChangeRevoke(p)

Start(p) ==
    \/ LoginRead(p) \/ RefreshRead(p) \/ ForgotRead(p) \/ AdminResetRead(p)
    \/ ResetRead(p) \/ ChangeRead(p)

Next ==
    \/ \E p \in Requests : Start(p) \/ Continue(p) \/ Die(p)
    \/ \E u \in Users : SetBlocked(u) \/ Delete(u)
    \/ Logout
    \/ Expire

Spec == Init /\ [][Next]_vars

\* A handler whose query is answered goes on: Node.js resumes it.  Requests
\* are started by clients, who owe nothing.
FairSpec == Spec /\ \A p \in Requests : WF_vars(Continue(p))

-----------------------------------------------------------------------------
(* Properties *)

\* Users whose password has been written without the end, so far, of the
\* sessions it should end: that is still to come, or a handler died before it.
Owed == {req[p].user : p \in {q \in Requests : pc[q] \in RevokeDue}}
        \cup history.lapsed

\* Rotation spends before it issues: whatever requests interleave and wherever
\* they die, the token another one was exchanged for is revoked, and it was of
\* the same user (refresh-tokens.handler.ts: revokeById comes before create).
SpentBeforeReplaced ==
    \A t \in RefreshTokens : history.parent[t] # None =>
        /\ refresh[history.parent[t]].isRevoked
        /\ refresh[history.parent[t]].userId = refresh[t].userId

\* README.md:302 "so tokens can be revoked server-side (logout, or bulk-revoked
\* on password change)": a session is as old as the password.  An active token,
\* or any token it comes from by rotation, was opened with the password the user
\* has now.  The exceptions are exactly these: the handler that changed the
\* password has not reached its revokeAllForUser, died before it, or was undone
\* by a login's rehash; or the token was issued by a request which that
\* revokeAllForUser overtook between two of its awaits.
SessionsFollowPassword ==
    \A t \in RefreshTokens :
        (Active(t) /\ t \notin history.survivor) =>
            \/ history.opened[t] = users[refresh[t].userId].password
            \/ refresh[t].userId \in Owed

\* What a revokeAllForUser ends stays ended: after a revoked token was presented
\* again, or the password changed, no token of the families that existed then
\* is active or becomes active by any number of rotations, unless it descends
\* from a request that was between two awaits at that moment.
RevokedFamiliesStayDead ==
    \A t \in RefreshTokens :
        Active(t) /\ t \notin history.survivor
            => history.family[t] \notin history.burnt

\* The store implements the life cycle of a session: SessionLifecycle.
Lifecycle == INSTANCE SessionLifecycle WITH
    owner <- [t \in RefreshTokens |-> refresh[t].userId],
    live <- {t \in RefreshTokens : Active(t)},
    parent <- history.parent
ImplementsLifecycle == Lifecycle!LifecycleSpec

\* A changed password ends the sessions: an active token of a user whose
\* password was just written is revoked at last, or the handler died.
PasswordChangeEndsSessions ==
    \A t \in RefreshTokens, p \in Requests :
        (Active(t) /\ pc[p] \in RevokeDue /\ req[p].user = refresh[t].userId)
        ~> (~Active(t) \/ refresh[t].userId \in history.lapsed)

-----------------------------------------------------------------------------
(* Why the invariants hold: what the rows and the locals say of each other *)

\* A request in flight has the locals its step needs.
LocalsFit ==
    \A p \in Requests :
        /\ pc[p] # "idle" => req[p].user \in Users
        /\ pc[p] \in LoginSteps \cup {"reset_write", "change_write"}
               => req[p].secret \in Secrets
        /\ pc[p] \in ResetSteps => req[p].token \in ResetTokens
        /\ pc[p] \in RotationSteps =>
               /\ req[p].token \in RefreshTokens
               /\ refresh[req[p].token].userId = req[p].user
        /\ pc[p] = "refresh_issue" => refresh[req[p].token].isRevoked

\* What history says of a token, it says of an issued one; a family has one user.
HistoryFits ==
    /\ \A t \in RefreshTokens :
          /\ refresh[t].isRevoked => Issued(t)
          /\ history.parent[t] # None => Issued(t)
          /\ Issued(t) =>
                /\ history.family[t] \in RefreshTokens
                /\ refresh[history.family[t]].userId = refresh[t].userId
    /\ \A t \in history.burnt \cup history.survivor : Issued(t)

\* What entitles a request to issue a token still holds when it issues it,
\* unless a revocation has overtaken the request.
EvidenceHolds ==
    \A p \in Requests \ history.overtaken : LET u == req[p].user IN
        /\ pc[p] \in LoginSteps =>
              req[p].secret = users[u].password \/ u \in Owed
        /\ pc[p] \in RotationSteps =>
              /\ \/ history.opened[req[p].token] = users[u].password
                 \/ u \in Owed
              /\ history.family[req[p].token] \notin history.burnt

\* The inductive invariant of the proofs in AuthSessionsProofs: an entitled
\* request never issues a session the properties above forbid.
Inductive ==
    /\ TypeOK /\ LocalsFit /\ HistoryFits /\ EvidenceHolds
    /\ SpentBeforeReplaced /\ SessionsFollowPassword /\ RevokedFamiliesStayDead

-----------------------------------------------------------------------------
(* What the repository says of these handlers and an interleaving refutes *)

\* refresh-tokens.handler.ts:64 "CRITICAL: Revoke old refresh token (rotation)":
\* a refresh token is exchanged at most once.
ExchangedOnce ==
    \A t \in RefreshTokens :
        Cardinality({c \in RefreshTokens : history.parent[c] = t}) <= 1
=============================================================================
