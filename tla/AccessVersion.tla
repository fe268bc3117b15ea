---------------------------- MODULE AccessVersion -----------------------------
(***************************************************************************)
(* How an access token loses its force.  A token carries the role and the  *)
(* tokenVersion its user had when auth-service read the row; the backend   *)
(* accepts it while that version is current.  Changing a role or blocking  *)
(* a user increments the version; the current version is cached in Redis   *)
(* without an expiry, rewritten by whoever changes it and restored from    *)
(* the database by whoever misses it.  One user is modelled: rows and      *)
(* cache keys of different users have nothing in common.                   *)
(***************************************************************************)
EXTENDS Naturals

CONSTANTS
    Roles,
    Requests,       \* requests that can be in flight at the same time
    Unreliable,     \* the Redis commands that can fail: of "get", "set", "del"
    MaxVersion,     \* bounds the model
    None            \* "no key", "not in the payload"

ASSUME AccessVersionAssumption ==
    /\ Unreliable \subseteq {"get", "set", "del"}
    /\ MaxVersion \in Nat \ {0}
    /\ None \notin Roles \cup BOOLEAN \cup Nat

VARIABLES
    row,        \* roleId, blocked, tokenVersion and deletedAt of the user
    cache,      \* the Redis key auth:user:<id>:tokenVersion
    tokens,     \* the access tokens that have been issued
    pc,         \* pc[p]: the await at which request p stands
    local,      \* local[p]: what p has read, and is going to write
    unbumped,   \* the row was changed and nobody is going to change the version
    announced,  \* the last version an administrator has been told of
    lapsed      \* who left an old version in the key: a check or a bump that carried
                \* it past a later bump, or Redis, which did not delete it; or nobody
\* Only the properties look at the last three.

vars == <<row, cache, tokens, pc, local, unbumped, announced, lapsed>>

-----------------------------------------------------------------------------
Versions == 1 .. MaxVersion
UserRow == [role : Roles, blocked : BOOLEAN, version : Versions, deleted : BOOLEAN]
AccessToken == [role : Roles, version : Versions]
Payload == [role : Roles \cup {None}, blocked : BOOLEAN \cup {None}]
BumpDue == {"bump_clear", "bump_increment"}
Steps == {"idle", "update_write", "bump_set", "bump_retract", "unlock_write",
          "check_read", "check_set", "issue_sign"} \cup BumpDue
\* late (history): a bump has incremented the version while this request carried it.
Locals == [read : UserRow \cup {None}, version : Versions \cup {None}, late : BOOLEAN]
NoLocals == [read |-> None, version |-> None, late |-> FALSE]
Carries(p) == pc[p] \in {"check_set", "bump_set"}
Lapses == {"none", "check", "bump", "redis"}

\* Every variable has its type.
TypeOK ==
    /\ row \in UserRow
    /\ cache \in Versions \cup {None}
    /\ tokens \subseteq AccessToken
    /\ pc \in [Requests -> Steps]
    /\ local \in [Requests -> Locals]
    /\ unbumped \in BOOLEAN
    /\ announced \in Versions
    /\ lapsed \in Lapses

Goto(p, step) == pc' = [pc EXCEPT ![p] = step]
Finish(p) ==
    /\ Goto(p, "idle")
    /\ local' = [local EXCEPT ![p] = NoLocals]
Begin(p, step, locals) ==
    /\ pc[p] = "idle"
    /\ Goto(p, step)
    /\ local' = [local EXCEPT ![p] = locals]

-----------------------------------------------------------------------------
(* An administrator updates or unlocks the user *)

UpdateRead(p) ==
    /\ ~row.deleted
    /\ Begin(p, "update_write", [NoLocals EXCEPT !.read = row])
    /\ UNCHANGED <<row, cache, tokens, unbumped, announced, lapsed>>

\* Mutant of Changes: blocking is not a reason to invalidate.
ChangesRole(previous, payload) == payload.role # None /\ payload.role # previous.role

\* shouldInvalidateAccessTokens: against the row read before the write.
Changes(previous, payload) ==
    \/ payload.role # None /\ payload.role # previous.role
    \/ payload.blocked # None /\ payload.blocked # previous.blocked

\* Another update has changed what this one compares with.
Crossed(p) ==
    local[p].read.role # row.role \/ local[p].read.blocked # row.blocked

\* The payload has been there from the beginning, and matters only now.
UpdateWrite(p) == \E payload \in Payload :
    LET bump == Changes(local[p].read, payload) IN
    /\ pc[p] = "update_write"
    /\ row' = [row EXCEPT
                 !.role = IF payload.role = None THEN @ ELSE payload.role,
                 !.blocked = IF payload.blocked = None THEN @ ELSE payload.blocked]
    /\ Goto(p, IF bump THEN "bump_clear" ELSE "idle")
    /\ local' = [local EXCEPT ![p] = NoLocals]
    /\ unbumped' = (unbumped \/ (~bump /\ Crossed(p) /\ row' # row))
    /\ UNCHANGED <<cache, tokens, announced, lapsed>>

\* A Redis command fails, and the error is caught.
RedisFails(command) == command \in Unreliable /\ UNCHANGED cache

\* Mutant of ClearCachedVersion: it deletes another key.
ClearsAnotherKey == UNCHANGED cache

ClearCachedVersion == cache' = None

BumpClear(p) ==
    /\ pc[p] = "bump_clear"
    /\ ClearCachedVersion \/ RedisFails("del")
    /\ Goto(p, "bump_increment")
    /\ UNCHANGED <<row, tokens, local, unbumped, announced, lapsed>>

BumpIncrement(p) ==
    /\ pc[p] = "bump_increment"
    /\ row.version < MaxVersion
    /\ row' = [row EXCEPT !.version = @ + 1]
    /\ local' = [q \in Requests |->
                    IF q = p THEN [local[p] EXCEPT !.version = row.version + 1]
                    ELSE [local[q] EXCEPT !.late = @ \/ Carries(q)]]
    /\ Goto(p, "bump_set")
    /\ unbumped' = FALSE
    /\ UNCHANGED <<cache, tokens, announced, lapsed>>

\* The tokens of older versions are reported to be invalidated.
Announce(version) == announced' = IF version > announced THEN version ELSE announced

\* SET to the version that p carries.
CacheVersion(p) ==
    /\ cache' = local[p].version
    /\ lapsed' = IF ~local[p].late THEN "none"
                 ELSE IF pc[p] = "check_set" THEN "check" ELSE "bump"

BumpSet(p) ==
    /\ pc[p] = "bump_set"
    /\ \/ CacheVersion(p) /\ Announce(local[p].version) /\ Finish(p)
       \/ /\ RedisFails("set")
          /\ Goto(p, "bump_retract")
          /\ UNCHANGED <<announced, local, lapsed>>
    /\ UNCHANGED <<row, tokens, unbumped>>

\* The new version could not be cached: at least the old one goes.
BumpRetract(p) ==
    /\ pc[p] = "bump_retract"
    /\ \/ ClearCachedVersion /\ UNCHANGED lapsed
       \/ RedisFails("del") /\ lapsed' = "redis"
    /\ Announce(local[p].version)
    /\ Finish(p)
    /\ UNCHANGED <<row, tokens, unbumped>>

UnlockRead(p) ==
    /\ ~row.deleted
    /\ Begin(p, "unlock_write", NoLocals)
    /\ UNCHANGED <<row, cache, tokens, unbumped, announced, lapsed>>

\* Unlocking clears `blocked` and leaves the version alone.
UnlockWrite(p) ==
    /\ pc[p] = "unlock_write"
    /\ row' = [row EXCEPT !.blocked = FALSE]
    /\ Finish(p)
    /\ UNCHANGED <<cache, tokens, unbumped, announced, lapsed>>

Delete ==
    /\ ~row.deleted
    /\ row' = [row EXCEPT !.deleted = TRUE]
    /\ UNCHANGED <<cache, tokens, pc, local, unbumped, announced, lapsed>>

-----------------------------------------------------------------------------
(* auth-service issues an access token: login and refresh *)

\* Mutant of IssueRead: the refresh handler does not look at `blocked`.
IssueReadAnyUser(p) ==
    /\ ~row.deleted
    /\ Begin(p, "issue_sign", [NoLocals EXCEPT !.read = row])
    /\ UNCHANGED <<row, cache, tokens, unbumped, announced, lapsed>>

IssueRead(p) ==
    /\ ~row.deleted
    /\ ~row.blocked
    /\ Begin(p, "issue_sign", [NoLocals EXCEPT !.read = row])
    /\ UNCHANGED <<row, cache, tokens, unbumped, announced, lapsed>>

IssueSign(p) ==
    /\ pc[p] = "issue_sign"
    /\ tokens' = tokens \cup
          {[role |-> local[p].read.role, version |-> local[p].read.version]}
    /\ Finish(p)
    /\ UNCHANGED <<row, cache, unbumped, announced, lapsed>>

-----------------------------------------------------------------------------
(* The backend checks one: getCurrentVersion.  With a hit it answers at once *)
(* and changes nothing.                                                      *)

CheckMiss(p) ==
    /\ cache = None \/ "get" \in Unreliable
    /\ Begin(p, "check_read", NoLocals)
    /\ UNCHANGED <<row, cache, tokens, unbumped, announced, lapsed>>

CheckRead(p) ==
    /\ pc[p] = "check_read"
    /\ IF row.deleted
       THEN Finish(p)
       ELSE /\ local' = [local EXCEPT ![p].version = row.version]
            /\ Goto(p, "check_set")
    /\ UNCHANGED <<row, cache, tokens, unbumped, announced, lapsed>>

CheckSet(p) ==
    /\ pc[p] = "check_set"
    /\ CacheVersion(p) \/ (RedisFails("set") /\ UNCHANGED lapsed)
    /\ Finish(p)
    /\ UNCHANGED <<row, tokens, unbumped, announced>>

-----------------------------------------------------------------------------
(* A request dies at an await; Redis loses the key *)

Die(p) ==
    /\ pc[p] # "idle"
    /\ unbumped' = (unbumped \/ pc[p] \in BumpDue)
    /\ Finish(p)
    /\ UNCHANGED <<row, cache, tokens, announced, lapsed>>

Evict ==
    /\ cache # None
    /\ cache' = None
    /\ UNCHANGED <<row, tokens, pc, local, unbumped, announced, lapsed>>

Init ==
    /\ row \in [role : Roles, blocked : {FALSE}, version : {1}, deleted : {FALSE}]
    /\ cache = None
    /\ tokens = {}
    /\ pc = [p \in Requests |-> "idle"]
    /\ local = [p \in Requests |-> NoLocals]
    /\ unbumped = FALSE
    /\ announced = 1
    /\ lapsed = "none"

Next ==
    \/ \E p \in Requests :
          \/ UpdateRead(p) \/ UpdateWrite(p) \/ BumpClear(p) \/ BumpIncrement(p)
          \/ BumpSet(p) \/ BumpRetract(p) \/ UnlockRead(p) \/ UnlockWrite(p)
          \/ IssueRead(p) \/ IssueSign(p)
          \/ CheckMiss(p) \/ CheckRead(p) \/ CheckSet(p) \/ Die(p)
    \/ Delete
    \/ Evict

Spec == Init /\ [][Next]_vars

-----------------------------------------------------------------------------
(* Properties *)

\* The row has been changed and the version has not yet been.
BumpOwed == unbumped \/ \E p \in Requests : pc[p] \in BumpDue

\* Nobody acts on a role that was taken away: a token of the current version
\* carries the current role, and there is none of a blocked user, from the
\* moment the version is incremented; tokens signed from a row read before the
\* update included.  The exceptions: a handler died before the increment, or
\* compared the new role with a row that another update had changed meanwhile.
CurrentTokensAreCurrent ==
    BumpOwed \/ \A t \in tokens :
        t.version = row.version => t.role = row.role /\ ~row.blocked

\* The cache is never ahead of the database, so a token can be accepted too
\* long and never too early; nor does anybody announce a version to come.
CacheNeverAhead ==
    /\ cache # None => cache <= row.version
    /\ announced <= row.version

\* user-update.handler.ts:31 "User access tokens invalidated": once the log says
\* so, the cached version accepts no token of an older one, whatever Redis
\* refused on the way.  Three things can put or leave an old version there, and
\* `lapsed` names the one that did: a check, or another bump, that carried its
\* version to the SET while a later bump incremented it, and a Redis that took
\* neither the new version nor the deletion of the old one.  Nothing else does: no
\* request that read the row after the last increment, no eviction, no request
\* that died, no update without a bump.
InvalidatedStaysInvalid == cache # None /\ cache < announced => lapsed # "none"

\* A token about to be signed is as current as an issued one, and nobody
\* carries a version to come.
LocalsFit ==
    \A p \in Requests :
        /\ pc[p] = "update_write" => local[p].read \in UserRow
        /\ pc[p] = "issue_sign" =>
              /\ local[p].read \in UserRow
              /\ local[p].read.version <= row.version
              /\ \/ BumpOwed
                 \/ local[p].read.version = row.version
                       => local[p].read.role = row.role /\ ~row.blocked
        /\ pc[p] \in {"check_set", "bump_set", "bump_retract"} =>
              local[p].version \in 1 .. row.version
        /\ Carries(p) /\ ~local[p].late => local[p].version = row.version

\* The inductive invariant of AccessProofs.
Inductive ==
    /\ TypeOK /\ LocalsFit /\ CurrentTokensAreCurrent
    /\ CacheNeverAhead /\ InvalidatedStaysInvalid
    /\ \A t \in tokens : t.version <= row.version
=============================================================================
