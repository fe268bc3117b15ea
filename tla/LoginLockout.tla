----------------------------- MODULE LoginLockout -----------------------------
(***************************************************************************)
(* Brute-force protection of one account: the three failed-login columns   *)
(* of its row in `user`, which every login of auth-service reads first and *)
(* writes last.  Between the two lies the Argon2 verification, so the      *)
(* values a login writes are computed from a row that other logins may     *)
(* have changed meanwhile.  Logins of other accounts touch other rows.     *)
(*                                                                         *)
(* `now` counts ticks of the clock; Window and LockDuration are            *)
(* FAILED_LOGIN_WINDOW_MS and LOCK_DURATION_MS in ticks.                   *)
(***************************************************************************)
EXTENDS Integers, FiniteSets

CONSTANTS
    Requests,       \* logins that can be in flight at the same time
    Window,         \* how long failed attempts are counted together
    LockDuration,   \* how long a locked account stays locked
    LockAt,         \* LOCK_ATTEMPT_THRESHOLD
    MaxTime,        \* where the clock of the model stops
    Many,           \* how far the properties count the failures of one tick
    None            \* SQL NULL

ASSUME LoginLockoutAssumption ==
    /\ Window \in Nat /\ LockDuration \in Nat /\ MaxTime \in Nat
    /\ LockAt \in Nat \ {0} /\ Many \in Nat /\ LockAt <= Many
    /\ Window < LockDuration
    /\ None \notin Int

VARIABLES
    row,        \* the failed-login columns of the account
    blocked,    \* its `blocked` column
    now,
    pc,         \* pc[p]: where login p stands
    local,      \* local[p]: the columns p has read, or is about to write
    rejected,   \* rejected[p]: when p found the password wrong
    failures,   \* failures[t]: failures of tick t stored so far (up to Many)
    overtaken,  \* logins in flight whose row has been written since they read it
    disturbed   \* when the count was last broken: by a success, an unlock, or
                \* the write of an overtaken login
\* Only the properties look at the last four.

vars == <<row, blocked, now, pc, local, rejected, failures, overtaken, disturbed>>

-----------------------------------------------------------------------------
Times == 0 .. MaxTime
Columns == [failedLoginAttempts : 0 .. LockAt,
            failedLoginWindowStartedAt : Times \cup {None},
            lockedUntil : LockDuration .. MaxTime + LockDuration \cup {None}]
Cleared == [failedLoginAttempts |-> 0, failedLoginWindowStartedAt |-> None,
            lockedUntil |-> None]

\* The columns have their types; in particular the counter never passes the
\* threshold, although no guard of the code stops it there.
TypeOK ==
    /\ row \in Columns
    /\ blocked \in BOOLEAN
    /\ now \in Times
    /\ pc \in [Requests -> {"idle", "verify", "write"}]
    /\ local \in [Requests -> Columns]
    /\ rejected \in [Requests -> Times \cup {None}]
    /\ failures \in [Times -> 0 .. Many]
    /\ overtaken \subseteq Requests
    /\ disturbed \in Times \cup {-1}

LockedAt(c, t) == c.lockedUntil # None /\ c.lockedUntil > t
Locked == LockedAt(row, now)

\* Login p answers, or dies.
Finish(p) ==
    /\ pc' = [pc EXCEPT ![p] = "idle"]
    /\ local' = [local EXCEPT ![p] = Cleared]
    /\ rejected' = [rejected EXCEPT ![p] = None]

InFlight == {p \in Requests : pc[p] # "idle"}

-----------------------------------------------------------------------------
(* A login *)

\* Mutant of Read: lockedUntil is not looked at.
ReadIfNotBlocked(p) ==
    /\ pc[p] = "idle"
    /\ ~blocked
    /\ pc' = [pc EXCEPT ![p] = "verify"]
    /\ local' = [local EXCEPT ![p] = row]
    /\ UNCHANGED <<row, blocked, now, rejected, failures, overtaken, disturbed>>

\* findByEmail and the checks on the row.  A blocked or locked account is
\* turned away, nothing is written.
Read(p) ==
    /\ pc[p] = "idle"
    /\ ~blocked
    /\ ~Locked
    /\ pc' = [pc EXCEPT ![p] = "verify"]
    /\ local' = [local EXCEPT ![p] = row]
    /\ UNCHANGED <<row, blocked, now, rejected, failures, overtaken, disturbed>>

\* Mutant of WindowOpen: a window that never ends.
WindowOnceOpen(c, t) == c.failedLoginWindowStartedAt # None

\* The window of the columns c is still open at time t.
WindowOpen(c, t) ==
    /\ c.failedLoginWindowStartedAt # None
    /\ t - c.failedLoginWindowStartedAt <= Window

\* Mutant of AfterFailure: `>` for `>=`.
AfterOneMoreFailure(c, t) ==
    LET attempts == IF WindowOpen(c, t) THEN c.failedLoginAttempts + 1 ELSE 1
    IN  [failedLoginAttempts |-> attempts,
         failedLoginWindowStartedAt |->
             IF WindowOpen(c, t) THEN c.failedLoginWindowStartedAt ELSE t,
         lockedUntil |-> IF attempts > LockAt THEN t + LockDuration ELSE None]

\* rejectInvalidCredentials: what a failure at time t makes of the columns.
AfterFailure(c, t) ==
    LET attempts == IF WindowOpen(c, t) THEN c.failedLoginAttempts + 1 ELSE 1
    IN  [failedLoginAttempts |-> attempts,
         failedLoginWindowStartedAt |->
             IF WindowOpen(c, t) THEN c.failedLoginWindowStartedAt ELSE t,
         lockedUntil |-> IF attempts >= LockAt THEN t + LockDuration ELSE None]

\* The password is wrong, or the account has none.
Reject(p) ==
    /\ pc[p] = "verify"
    /\ pc' = [pc EXCEPT ![p] = "write"]
    /\ local' = [local EXCEPT ![p] = AfterFailure(@, now)]
    /\ rejected' = [rejected EXCEPT ![p] = now]
    /\ UNCHANGED <<row, blocked, now, failures, overtaken, disturbed>>

\* The password is right: the columns are cleared, if the row read showed any.
Accept(p) ==
    /\ pc[p] = "verify"
    /\ local' = [local EXCEPT ![p] = Cleared]
    /\ IF local[p] = Cleared
       THEN pc' = [pc EXCEPT ![p] = "idle"] /\ overtaken' = overtaken \ {p}
       ELSE pc' = [pc EXCEPT ![p] = "write"] /\ UNCHANGED overtaken
    /\ disturbed' = now
    /\ UNCHANGED <<row, blocked, now, rejected, failures>>

\* UPDATE user SET failedLoginAttempts = .. WHERE id = .., whatever the row
\* contains by now.
Write(p) ==
    /\ pc[p] = "write"
    /\ row' = local[p]
    /\ failures' = IF rejected[p] = None THEN failures
                   ELSE [failures EXCEPT ![rejected[p]] = IF @ < Many THEN @ + 1 ELSE @]
    /\ overtaken' = InFlight \ {p}
    /\ disturbed' = IF p \in overtaken THEN now ELSE disturbed
    /\ Finish(p)
    /\ UNCHANGED <<blocked, now>>

\* A query fails or the process is restarted.
Die(p) ==
    /\ pc[p] # "idle"
    /\ overtaken' = overtaken \ {p}
    /\ Finish(p)
    /\ UNCHANGED <<row, blocked, now, failures, disturbed>>

-----------------------------------------------------------------------------
(* The administrator and the clock *)

Unlock ==
    /\ row' = Cleared
    /\ blocked' = FALSE
    /\ overtaken' = InFlight
    /\ disturbed' = now
    /\ UNCHANGED <<now, pc, local, rejected, failures>>

Block ==
    /\ blocked' = TRUE
    /\ UNCHANGED <<row, now, pc, local, rejected, failures, overtaken, disturbed>>

Tick ==
    /\ now < MaxTime
    /\ now' = now + 1
    /\ UNCHANGED <<row, blocked, pc, local, rejected, failures, overtaken, disturbed>>

-----------------------------------------------------------------------------
Init ==
    /\ row = Cleared
    /\ blocked = FALSE
    /\ now = 0
    /\ pc = [p \in Requests |-> "idle"]
    /\ local = [p \in Requests |-> Cleared]
    /\ rejected = [p \in Requests |-> None]
    /\ failures = [t \in Times |-> 0]
    /\ overtaken = {}
    /\ disturbed = -1

Next ==
    \/ \E p \in Requests : Read(p) \/ Reject(p) \/ Accept(p) \/ Write(p) \/ Die(p)
    \/ Unlock
    \/ Block
    \/ Tick

Spec == Init /\ [][Next]_vars

-----------------------------------------------------------------------------
(* Properties *)

\* The failures of a tick are numbered, to count them.
FailureRows == UNION {{t} \X (1 .. failures[t]) : t \in Times}

\* Failures between two ticks, and those since the count was last broken.
FailuresIn(first, last) == Cardinality({f \in FailureRows : f[1] \in first .. last})
RecentFailures ==
    FailuresIn(IF disturbed < now - Window THEN now - Window ELSE disturbed + 1, now)

\* The counter reaches the threshold exactly in a locked row, and never passes
\* it: that the code locks with `>=` and never clears the counter when a lock
\* runs out is harmless because a lock outlives the window it was set in.
LockedRow(c) ==
    /\ c.lockedUntil # None <=> c.failedLoginAttempts = LockAt
    /\ c.lockedUntil # None =>
          /\ c.failedLoginWindowStartedAt # None
          /\ c.lockedUntil >= c.failedLoginWindowStartedAt + LockDuration
LockMatchesCounter == LockedRow(row)

\* Nobody is locked out, or counted, for less than the failures it takes: the
\* counter never exceeds the failures stored for the window it was opened in,
\* even when stale writes bring an older counter back.
NoFalseLock ==
    row.failedLoginAttempts > 0 =>
        /\ row.failedLoginWindowStartedAt # None
        /\ row.failedLoginAttempts <=
              FailuresIn(row.failedLoginWindowStartedAt,
                         row.failedLoginWindowStartedAt + Window)

\* README.md:305 "5th failure locks the account for 30 minutes": a lock ends
\* when its time is up or an administrator lifts it.  The exception: a login
\* that read the row before another one locked it writes its own columns.
LockHolds ==
    [][Locked => \/ Locked'
                 \/ Unlock
                 \/ now' >= row.lockedUntil
                 \/ \E p \in overtaken : Write(p)]_vars

\* Logins can fail at most this often within the length of a window: the end of
\* one counting window and the whole of the next.  The count begins anew when
\* an overtaken login writes an older one back.
GuessesBounded == RecentFailures <= 2 * LockAt - 1

\* Failures count as much as they should, and no more (LoginUserHandler, whose
\* concurrent requests read and write the counter by two queries).
FailuresCounted == NoFalseLock /\ GuessesBounded

-----------------------------------------------------------------------------
(* Why the counter stays in bounds *)

\* Columns at rest, read, or computed are those of an account at some time up
\* to now.
ColumnsFit(c) ==
    /\ LockedRow(c)
    /\ c.failedLoginWindowStartedAt # None => c.failedLoginWindowStartedAt <= now
    /\ c.failedLoginAttempts > 0 => c.failedLoginWindowStartedAt # None

\* A login in flight found the account unlocked; unless it is overtaken nobody
\* has locked the account since.
LockersOvertake == \A p \in InFlight \ overtaken : ~Locked

\* The inductive invariant of LoginProofs: a login that verifies a
\* password has read columns that were not locked.
Inductive ==
    /\ TypeOK
    /\ ColumnsFit(row)
    /\ LockersOvertake
    /\ \A p \in Requests :
          /\ ColumnsFit(local[p])
          /\ pc[p] = "verify" => ~LockedAt(local[p], now)
=============================================================================
