-------------------------------- MODULE LoginProofs -------------------------------
(***************************************************************************)
(* Proofs about the two sides of a login.  LoginLockout: for any number of *)
(* concurrent logins, any threshold, and any window shorter than the lock. *)
(* AuthGateway: for any number of concurrent requests of a browser, in     *)
(* every auth.mode.                                                        *)
(***************************************************************************)
EXTENDS LoginLockout, AuthGateway, FiniteSetTheorems, TLAPS

USE LoginLockoutAssumption

-----------------------------------------------------------------------------
(* The columns *)

\* Cleared columns are those of an account that nobody failed to log in to.
LEMMA ClearedFits ==
    /\ Cleared \in Columns
    /\ ColumnsFit(Cleared)
    /\ \A t : ~LockedAt(Cleared, t)
BY DEF Cleared, Columns, ColumnsFit, LockedRow, LockedAt

\* The heart of it: a login that was not turned away and fails writes a counter
\* within bounds.  Had it read a full counter, the lock set with it would have
\* run out, and the window, which is shorter and was opened no later, as well.
LEMMA AfterFailureFits ==
    ASSUME NEW c \in Columns, now \in Times, ColumnsFit(c), ~LockedAt(c, now)
    PROVE  /\ AfterFailure(c, now) \in Columns
           /\ ColumnsFit(AfterFailure(c, now))
<1> DEFINE new == AfterFailure(c, now)
<1>1. CASE WindowOpen(c, now)
  <2>1. c.failedLoginAttempts < LockAt
    <3>1. SUFFICES ASSUME c.failedLoginAttempts = LockAt PROVE FALSE
      BY DEF Columns
    <3>2. /\ c.lockedUntil # None
          /\ c.lockedUntil >= c.failedLoginWindowStartedAt + LockDuration
      BY <3>1 DEF ColumnsFit, LockedRow
    <3>3. c.lockedUntil <= now
      BY <3>2 DEF LockedAt, Columns, Times
    <3> QED BY <1>1, <3>2, <3>3 DEF WindowOpen, Columns, Times
  <2>2. /\ new.failedLoginAttempts = c.failedLoginAttempts + 1
        /\ new.failedLoginWindowStartedAt = c.failedLoginWindowStartedAt
        /\ new.lockedUntil = IF c.failedLoginAttempts + 1 >= LockAt
                             THEN now + LockDuration ELSE None
    BY <1>1 DEF AfterFailure
  <2>3. c.failedLoginWindowStartedAt \in Times /\ c.failedLoginWindowStartedAt <= now
    BY <1>1 DEF WindowOpen, ColumnsFit, Columns, Times
  <2>4. new \in Columns
    BY <1>1, <2>1, <2>3 DEF AfterFailure, Columns, Times
  <2> QED BY <2>1, <2>2, <2>3, <2>4 DEF ColumnsFit, LockedRow, Columns, Times
<1>2. CASE ~WindowOpen(c, now)
  <2>1. /\ new.failedLoginAttempts = 1
        /\ new.failedLoginWindowStartedAt = now
        /\ new.lockedUntil = IF 1 >= LockAt THEN now + LockDuration ELSE None
    BY <1>2 DEF AfterFailure
  <2>2. new \in Columns
    BY <1>2 DEF AfterFailure, Columns, Times
  <2> QED BY <2>1, <2>2 DEF ColumnsFit, LockedRow, Columns, Times
<1> QED BY <1>1, <1>2

-----------------------------------------------------------------------------
(* The invariant *)

LEMMA InitInductive == Init => Inductive
<1> SUFFICES ASSUME Init PROVE Inductive OBVIOUS
<1>1. TypeOK
  <2>1. now \in Times BY DEF Init, Times
  <2>2. failures \in [Times -> 0 .. Many] BY DEF Init
  <2>3. overtaken \subseteq Requests /\ disturbed \in Times \cup {-1} BY DEF Init
  <2> QED BY <2>1, <2>2, <2>3, ClearedFits DEF Init, TypeOK
<1>2. LockersOvertake BY DEF Init, LockersOvertake, InFlight
<1> QED BY <1>1, <1>2, ClearedFits DEF Init, Inductive

\* A login that ends leaves cleared locals behind.
LEMMA FinishFits ==
    ASSUME Inductive, NEW p \in Requests, Finish(p), UNCHANGED now
    PROVE  /\ pc' \in [Requests -> {"idle", "verify", "write"}]
           /\ local' \in [Requests -> Columns]
           /\ rejected' \in [Requests -> Times \cup {None}]
           /\ \A q \in Requests : ColumnsFit(local[q])'
           /\ \A q \in Requests : pc'[q] = "verify" => ~LockedAt(local'[q], now')
BY ClearedFits DEF Inductive, TypeOK, Finish, ColumnsFit

LEMMA ReadStep ==
    ASSUME Inductive, NEW p \in Requests, Read(p)
    PROVE  Inductive'
<1>1. TypeOK' BY DEF Inductive, TypeOK, Read
<1>2. ColumnsFit(row)' BY DEF Inductive, Read, ColumnsFit
<1>3. \A q \in Requests : ColumnsFit(local[q])'
  BY DEF Inductive, TypeOK, Read, ColumnsFit
<1>4. \A q \in Requests : pc'[q] = "verify" => ~LockedAt(local'[q], now')
  BY DEF Inductive, TypeOK, Read, Locked
<1>5. LockersOvertake'
  BY DEF Inductive, TypeOK, LockersOvertake, InFlight, Locked, Read
<1> QED BY <1>1, <1>2, <1>3, <1>4, <1>5 DEF Inductive

LEMMA RejectStep ==
    ASSUME Inductive, NEW p \in Requests, Reject(p)
    PROVE  Inductive'
<1>1. /\ AfterFailure(local[p], now) \in Columns
      /\ ColumnsFit(AfterFailure(local[p], now))
  BY AfterFailureFits DEF Inductive, TypeOK, Reject
<1>2. TypeOK' BY <1>1 DEF Inductive, TypeOK, Reject
<1>3. ColumnsFit(row)' BY DEF Inductive, Reject, ColumnsFit
<1>4. \A q \in Requests : ColumnsFit(local[q])'
  BY <1>1 DEF Inductive, TypeOK, Reject, ColumnsFit
<1>5. \A q \in Requests : pc'[q] = "verify" => ~LockedAt(local'[q], now')
  BY DEF Inductive, TypeOK, Reject
<1>6. LockersOvertake'
  BY DEF Inductive, TypeOK, LockersOvertake, InFlight, Locked, Reject
<1> QED BY <1>2, <1>3, <1>4, <1>5, <1>6 DEF Inductive

LEMMA AcceptStep ==
    ASSUME Inductive, NEW p \in Requests, Accept(p)
    PROVE  Inductive'
<1>1. TypeOK' BY ClearedFits DEF Inductive, TypeOK, Accept, Times
<1>2. ColumnsFit(row)' BY DEF Inductive, Accept, ColumnsFit
<1>3. \A q \in Requests : ColumnsFit(local[q])'
  BY ClearedFits DEF Inductive, TypeOK, Accept, ColumnsFit
<1>4. \A q \in Requests : pc'[q] = "verify" => ~LockedAt(local'[q], now')
  BY DEF Inductive, TypeOK, Accept
<1>5. LockersOvertake'
  BY DEF Inductive, TypeOK, LockersOvertake, InFlight, Locked, Accept
<1> QED BY <1>1, <1>2, <1>3, <1>4, <1>5 DEF Inductive

LEMMA WriteStep ==
    ASSUME Inductive, NEW p \in Requests, Write(p)
    PROVE  Inductive'
<1>1. failures' \in [Times -> 0 .. Many]
  BY DEF Inductive, TypeOK, Write, Times
<1>2. row' \in Columns /\ ColumnsFit(row)'
  BY DEF Inductive, TypeOK, Write, ColumnsFit
<1>3. Finish(p) /\ UNCHANGED <<blocked, now>> BY DEF Write
<1>4. overtaken' \subseteq Requests /\ disturbed' \in Times \cup {-1}
  BY DEF Inductive, TypeOK, Write, InFlight
<1>5. LockersOvertake'
  BY DEF Inductive, TypeOK, LockersOvertake, InFlight, Write, Finish
<1> QED BY <1>1, <1>2, <1>3, <1>4, <1>5, FinishFits DEF Inductive, TypeOK

LEMMA DieStep ==
    ASSUME Inductive, NEW p \in Requests, Die(p)
    PROVE  Inductive'
<1>1. ColumnsFit(row)' BY DEF Inductive, Die, ColumnsFit
<1>2. Finish(p) /\ UNCHANGED <<row, blocked, now, failures, disturbed>> BY DEF Die
<1>3. overtaken' \subseteq Requests BY DEF Inductive, TypeOK, Die
<1>4. LockersOvertake'
  BY DEF Inductive, TypeOK, LockersOvertake, InFlight, Locked, Die, Finish
<1> QED BY <1>1, <1>2, <1>3, <1>4, FinishFits DEF Inductive, TypeOK

LEMMA TickStep ==
    ASSUME Inductive, Tick
    PROVE  Inductive'
<1>1. now \in Times /\ now' \in Times /\ now <= now'
  BY DEF Inductive, TypeOK, Tick, Times
<1>2. TypeOK' BY <1>1 DEF Inductive, TypeOK, Tick
<1>3. ColumnsFit(row)'
  <2>1. row \in Columns /\ ColumnsFit(row) BY DEF Inductive, TypeOK
  <2>2. UNCHANGED row BY DEF Tick
  <2> QED BY <1>1, <2>1, <2>2 DEF Columns, Times, ColumnsFit, LockedRow
<1>4. ASSUME NEW q \in Requests
      PROVE  /\ ColumnsFit(local[q])'
             /\ pc'[q] = "verify" => ~LockedAt(local'[q], now')
  <2>1. local[q] \in Columns /\ ColumnsFit(local[q])
        /\ (pc[q] = "verify" => ~LockedAt(local[q], now))
    BY DEF Inductive, TypeOK
  <2>2. UNCHANGED <<local, pc>> BY DEF Tick
  <2> QED BY <1>1, <2>1, <2>2 DEF Columns, Times, ColumnsFit, LockedRow, LockedAt
<1>5. LockersOvertake'
  <2>1. row \in Columns /\ LockersOvertake BY DEF Inductive, TypeOK
  <2>2. UNCHANGED <<row, pc, overtaken>> BY DEF Tick
  <2> QED BY <1>1, <2>1, <2>2
             DEF Columns, Times, LockersOvertake, InFlight, Locked, LockedAt
<1> QED BY <1>2, <1>3, <1>4, <1>5 DEF Inductive

\* An administrator clears the row; logins keep what they have read.
LEMMA AdministrationStep ==
    ASSUME Inductive, Unlock \/ Block \/ UNCHANGED vars
    PROVE  Inductive'
<1>1. UNCHANGED <<now, pc, local, rejected, failures>> /\ row' \in {row, Cleared}
  BY DEF Unlock, Block, vars
<1>2. TypeOK'
  BY <1>1, ClearedFits DEF Inductive, TypeOK, Times, InFlight, Unlock, Block, vars
<1>3. ColumnsFit(row)'
  BY <1>1, ClearedFits DEF Inductive, ColumnsFit
<1>4. LockersOvertake'
  BY DEF Inductive, LockersOvertake, InFlight, Locked, Unlock, Block, vars
<1> QED BY <1>1, <1>2, <1>3, <1>4 DEF Inductive, ColumnsFit

LEMMA NextInductive == Inductive /\ [Next]_vars => Inductive'
<1> SUFFICES ASSUME Inductive, [Next]_vars PROVE Inductive' OBVIOUS
<1>1. ASSUME NEW p \in Requests, Read(p) PROVE Inductive' BY <1>1, ReadStep
<1>2. ASSUME NEW p \in Requests, Reject(p) PROVE Inductive' BY <1>2, RejectStep
<1>3. ASSUME NEW p \in Requests, Accept(p) PROVE Inductive' BY <1>3, AcceptStep
<1>4. ASSUME NEW p \in Requests, Write(p) PROVE Inductive' BY <1>4, WriteStep
<1>5. ASSUME NEW p \in Requests, Die(p) PROVE Inductive' BY <1>5, DieStep
<1>6. CASE Tick BY <1>6, TickStep
<1>7. CASE Unlock \/ Block \/ UNCHANGED vars BY <1>7, AdministrationStep
<1> QED BY <1>1, <1>2, <1>3, <1>4, <1>5, <1>6, <1>7 DEF Next

\* The inductive invariant holds in every reachable state.
THEOREM Invariance == Spec => []Inductive
BY InitInductive, NextInductive, PTL DEF Spec

\* The counter of failed logins never passes the threshold, and it reaches it
\* exactly in a locked row, however logins interleave: LockMatchesCounter.
THEOREM CounterIsBounded == Spec => []LockMatchesCounter
<1>1. Inductive => LockMatchesCounter
  BY DEF Inductive, ColumnsFit, LockMatchesCounter
<1> QED BY <1>1, Invariance, PTL

\* Every column and every local variable has its type, the bound included.
THEOREM TypeCorrect == Spec => []TypeOK
BY Invariance, PTL DEF Inductive

\* Only the clock, an administrator, or a login that was overtaken ends a lock,
\* whatever the number of logins: LockHolds.
THEOREM LocksHold == Spec => LockHolds
<1> DEFINE Lifted == \/ Locked' \/ Unlock \/ now' >= row.lockedUntil
                     \/ \E p \in overtaken : Write(p)
<1>1. Inductive /\ [Next]_vars => [Locked => Lifted]_vars
  <2> SUFFICES ASSUME Inductive, Next, Locked PROVE Lifted OBVIOUS
  <2>1. ASSUME NEW p \in Requests, Write(p) PROVE Lifted
    <3>1. p \in InFlight BY <2>1 DEF Write, InFlight
    <3> QED BY <2>1, <3>1 DEF Inductive, LockersOvertake
  <2>2. CASE UNCHANGED <<row, now>> BY <2>2 DEF Locked
  <2>3. CASE Tick
    <3>1. row.lockedUntil \in Int /\ now' \in Int
      BY <2>3 DEF Inductive, TypeOK, Columns, Times, Tick, Locked, LockedAt
    <3>2. UNCHANGED row BY <2>3 DEF Tick
    <3> QED BY <3>1, <3>2 DEF Locked, LockedAt
  <2> QED BY <2>1, <2>2, <2>3 DEF Next, Read, Reject, Accept, Die, Block
<1> QED BY <1>1, Invariance, PTL DEF Spec, LockHolds

-----------------------------------------------------------------------------
(* LoginLockout: failures are counted *)

\* Failures in store: numbered, as FailureRows has them.
Rows == SUBSET (Times \X (1 .. Many))
Within(R, first, last) == {f \in R : f[1] \in first .. last}

\* The failures that the count has not been broken after.
Fresh(R, broken) == {f \in R : f[1] > broken}

\* The columns c count no more failures than there are in their window, but for one that is
\* about to be stored.
Backed(R, c, extra) ==
    c.failedLoginAttempts > 0 =>
        c.failedLoginAttempts - extra <=
            Cardinality(Within(R, c.failedLoginWindowStartedAt,
                                  c.failedLoginWindowStartedAt + Window))

\* What a login holds by its step: nothing, the columns it has read, or those it writes.
Holds(R, step, c, at) ==
    /\ step # "write" => at = None
    /\ step = "verify" => Backed(R, c, 0)
    /\ step = "write" /\ at = None => c = Cleared
    /\ step = "write" /\ at # None =>
          /\ Backed(R, c, 1)
          /\ c.failedLoginWindowStartedAt # None
          /\ at \in c.failedLoginWindowStartedAt .. c.failedLoginWindowStartedAt + Window

\* The columns count every fresh failure of their window; those of the window before have
\* not locked the account; later ones there are none.
Counted(F, c) == LET start == c.failedLoginWindowStartedAt IN
    /\ start = None => F = {}
    /\ start # None =>
          /\ Cardinality({f \in F : f[1] >= start}) <= c.failedLoginAttempts
          /\ Cardinality({f \in F : start - Window <= f[1] /\ f[1] < start}) <= LockAt - 1
          /\ \A f \in F : f[1] <= start + Window
    /\ c.lockedUntil # None => \A f \in F : f[1] + LockDuration <= c.lockedUntil

\* A login that nobody has overtaken writes what its failure, or its success, makes of the
\* columns `current` that are in the row.
InOrder(F, current, step, c, at) ==
    /\ step = "verify" => c = current
    /\ step = "write" /\ at # None =>
          /\ c = AfterFailure(current, at)
          /\ ~LockedAt(current, at)
          /\ \A f \in F : f[1] <= at
    /\ step = "write" /\ at = None => F = {}

CountInductive ==
    /\ Inductive
    /\ disturbed <= now /\ \A f \in FailureRows : f[1] <= now
    /\ \A p \in Requests : rejected[p] # None => rejected[p] <= now
    /\ Backed(FailureRows, row, 0)
    /\ Counted(Fresh(FailureRows, disturbed), row)
    /\ \A p \in Requests : Holds(FailureRows, pc[p], local[p], rejected[p])
    /\ \A p \in InFlight \ overtaken :
          InOrder(Fresh(FailureRows, disturbed), row, pc[p], local[p], rejected[p])

\* Failures are finitely many, and the more the more are counted.
LEMMA RowsAreFinite ==
    ASSUME NEW R \in Rows
    PROVE  /\ IsFiniteSet(R) /\ Cardinality(R) \in Nat
           /\ \A f \in R : f[1] \in Times
           /\ \A S \in SUBSET R : S \in Rows /\ Cardinality(S) <= Cardinality(R)
<1>1. IsFiniteSet(Times \X (1 .. Many))
  <2>1. IsFiniteSet(Times) /\ IsFiniteSet(1 .. Many)
    BY FS_Interval DEF Times
  <2> QED
    BY <2>1, FS_Product
<1>2. IsFiniteSet(R)
  BY <1>1, FS_Subset DEF Rows
<1> QED
  BY <1>2, FS_Subset, FS_CardinalityType DEF Rows

\* What a failure makes of the rows that count it.
LEMMA OneMore ==
    ASSUME NEW R \in Rows, NEW S \in SUBSET R, NEW x, NEW T, T \subseteq S \cup {x}
    PROVE  Cardinality(T) <= Cardinality(S) + 1 /\ Cardinality(T) \in Nat /\ Cardinality(S) \in Nat
<1>1. IsFiniteSet(S) /\ Cardinality(S) \in Nat
  BY RowsAreFinite
<1>2. IsFiniteSet(S \cup {x}) /\ Cardinality(S \cup {x}) \in Nat
  BY <1>1, FS_AddElement, FS_CardinalityType
<1>3. Cardinality(S \cup {x}) <= Cardinality(S) + 1
  <2>1. Cardinality(S \cup {x}) = IF x \in S THEN Cardinality(S) ELSE Cardinality(S) + 1
    BY <1>1, FS_AddElement
  <2> QED
    BY <1>1, <2>1
<1>4. IsFiniteSet(T) /\ Cardinality(T) <= Cardinality(S \cup {x}) /\ Cardinality(T) \in Nat
  BY <1>2, FS_Subset, FS_CardinalityType
<1> QED
  BY <1>1, <1>2, <1>3, <1>4

\* With nothing fresh, any columns have counted everything.
LEMMA NothingToCount ==
    ASSUME NEW c \in Columns
    PROVE  Counted({}, c)
<1>1. /\ {f \in {} : f[1] >= c.failedLoginWindowStartedAt} = {}
      /\ {f \in {} : c.failedLoginWindowStartedAt - Window <= f[1]
                     /\ f[1] < c.failedLoginWindowStartedAt} = {}
  OBVIOUS
<1>2. c.failedLoginAttempts >= 0 /\ LockAt - 1 >= 0
  BY DEF Columns
<1> QED
  BY <1>1, <1>2, FS_EmptySet DEF Counted

\* The count stays right when it is broken.
LEMMA FewerToCount ==
    ASSUME NEW c \in Columns, NEW F \in Rows, NEW G \in SUBSET F, Counted(F, c)
    PROVE  Counted(G, c)
<1> DEFINE start == c.failedLoginWindowStartedAt
<1>1. start = None => G = {}
  BY DEF Counted
<1>2. ASSUME start # None
      PROVE  /\ Cardinality({f \in G : f[1] >= start}) <= c.failedLoginAttempts
             /\ Cardinality({f \in G : start - Window <= f[1] /\ f[1] < start}) <= LockAt - 1
  <2>1. PICK A : A = {f \in F : f[1] >= start}
    OBVIOUS
  <2>2. PICK B : B = {f \in F : start - Window <= f[1] /\ f[1] < start}
    OBVIOUS
  <2>3. PICK A2 : A2 = {f \in G : f[1] >= start}
    OBVIOUS
  <2>4. PICK B2 : B2 = {f \in G : start - Window <= f[1] /\ f[1] < start}
    OBVIOUS
  <2>5. Cardinality(A) <= c.failedLoginAttempts /\ Cardinality(B) <= LockAt - 1
    BY <1>2, <2>1, <2>2 DEF Counted
  <2>6. A \in Rows /\ B \in Rows /\ A2 \subseteq A /\ B2 \subseteq B
    BY <2>1, <2>2, <2>3, <2>4, RowsAreFinite
  <2>7. /\ Cardinality(A) \in Nat /\ Cardinality(B) \in Nat
        /\ Cardinality(A2) \in Nat /\ Cardinality(B2) \in Nat
        /\ Cardinality(A2) <= Cardinality(A) /\ Cardinality(B2) <= Cardinality(B)
    BY <2>6, RowsAreFinite
  <2>8. c.failedLoginAttempts \in Nat
    BY DEF Columns
  <2>9. Cardinality(A2) <= c.failedLoginAttempts /\ Cardinality(B2) <= LockAt - 1
    BY <2>5, <2>7, <2>8
  <2> QED
    BY <2>3, <2>4, <2>9
<1>3. start # None => \A f \in G : f[1] <= start + Window
  BY DEF Counted
<1>4. c.lockedUntil # None => \A f \in G : f[1] + LockDuration <= c.lockedUntil
  BY DEF Counted
<1> QED
  BY <1>1, <1>2, <1>3, <1>4 DEF Counted

\* Columns, taken apart once.
LEMMA ColumnsTyped ==
    ASSUME NEW c \in Columns
    PROVE  /\ c.failedLoginAttempts \in Nat /\ c.failedLoginAttempts <= LockAt
           /\ c.failedLoginWindowStartedAt \in Times \cup {None}
           /\ c.lockedUntil \in Nat \cup {None}
           /\ Times \subseteq Nat /\ None \notin Times
BY DEF Columns, Times

\* A failure that is written in order is counted: in the window that the row has open, or as
\* the first of a new one.  A row that had locked the account has outlived its failures.
LEMMA FailureCounts ==
    ASSUME NEW c \in Columns, LockedRow(c), NEW at \in Times, ~LockedAt(c, at),
           c.failedLoginWindowStartedAt # None => c.failedLoginWindowStartedAt <= at,
           NEW F \in Rows, Counted(F, c), \A f \in F : f[1] <= at,
           NEW G \in Rows, NEW x, x[1] = at, G \subseteq F \cup {x}
    PROVE  Counted(G, AfterFailure(c, at))
<1> DEFINE start == c.failedLoginWindowStartedAt
<1>1. /\ c.failedLoginAttempts \in Nat /\ c.failedLoginAttempts <= LockAt
      /\ start \in Times \cup {None} /\ c.lockedUntil \in Nat \cup {None}
      /\ at \in Nat /\ Times \subseteq Nat /\ None \notin Times
  BY ColumnsTyped
<1>2. (\A f \in F : f[1] \in Nat) /\ (\A f \in G : f[1] \in Nat)
  BY <1>1, RowsAreFinite
<1>3. \A f \in G : f \in F \/ f = x
  OBVIOUS
<1>4. PICK new : new = AfterFailure(c, at)
  OBVIOUS
<1>5. new.lockedUntil # None => \A f \in G : f[1] + LockDuration <= new.lockedUntil
  <2>1. new.lockedUntil \in {at + LockDuration, None}
    BY <1>4 DEF AfterFailure
  <2> QED
    BY <1>1, <1>2, <1>3, <2>1
<1>6. CASE WindowOpen(c, at)
  <2>1. /\ new.failedLoginAttempts = c.failedLoginAttempts + 1
        /\ new.failedLoginWindowStartedAt = start
    BY <1>4, <1>6 DEF AfterFailure
  <2>2. start # None /\ start \in Nat /\ start <= at /\ at <= start + Window
    <3>1. start # None /\ at - start <= Window
      BY <1>6 DEF WindowOpen
    <3>2. start \in Nat /\ start <= at
      BY <1>1, <3>1
    <3> QED
      BY <1>1, <3>1, <3>2
  <2>3. Cardinality({f \in G : f[1] >= start}) <= new.failedLoginAttempts
    <3>1. PICK S : S = {f \in F : f[1] >= start}
      OBVIOUS
    <3>2. PICK T : T = {f \in G : f[1] >= start}
      OBVIOUS
    <3>3. S \in SUBSET F /\ T \subseteq S \cup {x}
      BY <1>3, <3>1, <3>2
    <3>4. /\ Cardinality(T) <= Cardinality(S) + 1
          /\ Cardinality(T) \in Nat /\ Cardinality(S) \in Nat
      BY <3>3, OneMore
    <3>5. Cardinality(S) <= c.failedLoginAttempts
      BY <2>2, <3>1 DEF Counted
    <3> QED
      BY <1>1, <2>1, <3>2, <3>4, <3>5
  <2>4. Cardinality({f \in G : start - Window <= f[1] /\ f[1] < start}) <= LockAt - 1
    <3>1. PICK S : S = {f \in F : start - Window <= f[1] /\ f[1] < start}
      OBVIOUS
    <3>2. PICK T : T = {f \in G : start - Window <= f[1] /\ f[1] < start}
      OBVIOUS
    <3>3. S \in Rows /\ T \in SUBSET S
      <4>1. T \subseteq S
        BY <1>1, <1>2, <1>3, <2>2, <3>1, <3>2
      <4> QED
        BY <3>1, <4>1, RowsAreFinite
    <3>4. Cardinality(T) <= Cardinality(S) /\ Cardinality(T) \in Nat /\ Cardinality(S) \in Nat
      BY <3>3, RowsAreFinite
    <3>5. Cardinality(S) <= LockAt - 1
      BY <2>2, <3>1 DEF Counted
    <3>6. Cardinality(T) <= LockAt - 1
      BY <3>4, <3>5
    <3> QED
      BY <3>2, <3>6
  <2>5. \A f \in G : f[1] <= start + Window
    <3>1. \A f \in F : f[1] <= start + Window
      BY <2>2 DEF Counted
    <3> QED
      BY <1>3, <2>2, <3>1
  <2> QED
    BY <1>4, <1>5, <2>1, <2>2, <2>3, <2>4, <2>5 DEF Counted
<1>7. CASE ~WindowOpen(c, at)
  <2>1. new.failedLoginAttempts = 1 /\ new.failedLoginWindowStartedAt = at
    BY <1>4, <1>7 DEF AfterFailure
  <2>2. ASSUME start # None PROVE start \in Nat /\ at > start + Window
    <3>1. ~(at - start <= Window)
      BY <1>7, <2>2 DEF WindowOpen
    <3>2. start \in Nat
      BY <1>1, <2>2
    <3> QED
      BY <1>1, <3>1, <3>2
  <2>3. \A f \in F : f[1] < at
    <3>1. CASE start = None
      BY <3>1 DEF Counted
    <3>2. CASE start # None
      <4>1. \A f \in F : f[1] <= start + Window
        BY <3>2 DEF Counted
      <4> QED
        BY <1>1, <1>2, <2>2, <3>2, <4>1
    <3> QED
      BY <3>1, <3>2
  <2>4. Cardinality({f \in G : f[1] >= at}) <= 1
    <3>1. PICK T : T = {f \in G : f[1] >= at}
      OBVIOUS
    <3>2. T \subseteq {} \cup {x}
      BY <1>1, <1>2, <1>3, <2>3, <3>1
    <3>3. Cardinality(T) <= Cardinality({}) + 1
      BY <3>2, OneMore
    <3> QED
      BY <3>1, <3>3, FS_EmptySet
  <2>5. Cardinality({f \in G : at - Window <= f[1] /\ f[1] < at}) <= LockAt - 1
    <3>1. PICK T : T = {f \in G : at - Window <= f[1] /\ f[1] < at}
      OBVIOUS
    <3>2. \A f \in T : f \in F /\ at - Window <= f[1]
      BY <1>1, <1>3, <3>1
    <3>3. ASSUME T = {} PROVE Cardinality(T) <= LockAt - 1
      BY <3>3, FS_EmptySet
    <3>4. CASE start = None
      <4>1. T = {}
        BY <3>2, <3>4 DEF Counted
      <4> QED
        BY <3>1, <3>3, <4>1
    <3>5. CASE start # None /\ c.lockedUntil # None
      <4>1. \A f \in F : f[1] + LockDuration <= c.lockedUntil
        BY <3>5 DEF Counted
      <4>2. c.lockedUntil \in Nat /\ c.lockedUntil <= at
        BY <1>1, <3>5 DEF LockedAt
      <4>3. T = {}
        <5> SUFFICES ASSUME NEW f \in T PROVE FALSE
          OBVIOUS
        <5>1. f[1] \in Nat /\ at - Window <= f[1] /\ f[1] + LockDuration <= c.lockedUntil
          BY <1>2, <3>2, <4>1
        <5> QED
          BY <1>1, <4>2, <5>1
      <4> QED
        BY <3>1, <3>3, <4>3
    <3>6. CASE start # None /\ c.lockedUntil = None
      <4>1. c.failedLoginAttempts # LockAt
        BY <3>6 DEF LockedRow
      <4>2. PICK S : S = {f \in F : f[1] >= start}
        OBVIOUS
      <4>3. Cardinality(S) <= c.failedLoginAttempts
        BY <3>6, <4>2 DEF Counted
      <4>4. S \in Rows /\ T \in SUBSET S
        <5>1. T \subseteq S
          BY <1>1, <1>2, <2>2, <3>2, <3>6, <4>2
        <5> QED
          BY <4>2, <5>1, RowsAreFinite
      <4>5. Cardinality(T) <= Cardinality(S) /\ Cardinality(T) \in Nat /\ Cardinality(S) \in Nat
        BY <4>4, RowsAreFinite
      <4>6. Cardinality(T) <= LockAt - 1
        BY <1>1, <4>1, <4>3, <4>5
      <4> QED
        BY <3>1, <4>6
    <3> QED
      BY <3>4, <3>5, <3>6
  <2>6. \A f \in G : f[1] <= at + Window
    BY <1>1, <1>2, <1>3
  <2>7. at # None
    BY <1>1
  <2> QED
    BY <1>4, <1>5, <2>1, <2>4, <2>5, <2>6, <2>7 DEF Counted
<1> QED
  BY <1>6, <1>7

\* Within the length of a window there are the failures of the window that is open, which
\* may have locked the account, and some of the one before, which have not.
LEMMA GuessesAreFew ==
    ASSUME NEW c \in Columns, NEW t \in Times,
           c.failedLoginWindowStartedAt # None => c.failedLoginWindowStartedAt <= t,
           NEW F \in Rows, Counted(F, c), NEW T \in SUBSET F, \A f \in T : f[1] >= t - Window
    PROVE  Cardinality(T) <= 2 * LockAt - 1
<1> DEFINE start == c.failedLoginWindowStartedAt
<1>1. /\ c.failedLoginAttempts \in Nat /\ c.failedLoginAttempts <= LockAt
      /\ start \in Times \cup {None} /\ t \in Nat /\ Times \subseteq Nat
  BY ColumnsTyped
<1>2. CASE start = None
  <2>1. T = {}
    BY <1>2 DEF Counted
  <2> QED
    BY <2>1, FS_EmptySet
<1>3. CASE start # None
  <2>1. PICK A : A = {f \in F : f[1] >= start}
    OBVIOUS
  <2>2. PICK B : B = {f \in F : start - Window <= f[1] /\ f[1] < start}
    OBVIOUS
  <2>3. Cardinality(A) <= c.failedLoginAttempts /\ Cardinality(B) <= LockAt - 1
    BY <1>3, <2>1, <2>2 DEF Counted
  <2>4. T \subseteq A \cup B
    <3>1. \A f \in F : f[1] \in Nat
      BY <1>1, RowsAreFinite
    <3>2. start \in Nat /\ start <= t
      BY <1>1, <1>3
    <3> QED
      BY <1>1, <2>1, <2>2, <3>1, <3>2
  <2>5. A \in SUBSET F /\ B \in SUBSET F
    BY <2>1, <2>2
  <2>6. /\ IsFiniteSet(A) /\ IsFiniteSet(B) /\ Cardinality(A) \in Nat /\ Cardinality(B) \in Nat
        /\ Cardinality(A \cap B) \in Nat /\ A \cup B \in Rows
    <3>1. A \in Rows /\ B \in Rows /\ A \cap B \in Rows /\ A \cup B \in Rows
      BY <2>5 DEF Rows
    <3> QED
      BY <3>1, RowsAreFinite
  <2>7. Cardinality(A \cup B) <= Cardinality(A) + Cardinality(B)
    <3>1. Cardinality(A \cup B) = Cardinality(A) + Cardinality(B) - Cardinality(A \cap B)
      BY <2>6, FS_Union
    <3> QED
      BY <2>6, <3>1
  <2>8. /\ Cardinality(T) <= Cardinality(A \cup B) /\ Cardinality(T) \in Nat
        /\ Cardinality(A \cup B) \in Nat
    BY <2>4, <2>6, RowsAreFinite
  <2> QED
    BY <1>1, <2>3, <2>6, <2>7, <2>8
<1> QED
  BY <1>2, <1>3

\* More failures back whatever fewer did.
LEMMA MoreBack ==
    ASSUME NEW c \in Columns, NEW R \in Rows, NEW S \in Rows, R \subseteq S, NEW extra \in Nat,
           Backed(R, c, extra)
    PROVE  Backed(S, c, extra)
<1> SUFFICES ASSUME c.failedLoginAttempts > 0
             PROVE  c.failedLoginAttempts - extra <=
                        Cardinality(Within(S, c.failedLoginWindowStartedAt,
                                              c.failedLoginWindowStartedAt + Window))
  BY DEF Backed
<1>1. PICK A : A = Within(R, c.failedLoginWindowStartedAt, c.failedLoginWindowStartedAt + Window)
  OBVIOUS
<1>2. PICK B : B = Within(S, c.failedLoginWindowStartedAt, c.failedLoginWindowStartedAt + Window)
  OBVIOUS
<1>3. B \in Rows /\ A \in SUBSET B
  <2>1. B \subseteq S /\ A \subseteq B
    BY <1>1, <1>2 DEF Within
  <2> QED
    BY <2>1, RowsAreFinite
<1>4. Cardinality(A) <= Cardinality(B) /\ Cardinality(A) \in Nat /\ Cardinality(B) \in Nat
  BY <1>3, RowsAreFinite
<1>5. c.failedLoginAttempts - extra <= Cardinality(A)
  BY <1>1 DEF Backed
<1>6. c.failedLoginAttempts \in Nat
  BY ColumnsTyped
<1>7. c.failedLoginAttempts - extra <= Cardinality(B)
  BY <1>4, <1>5, <1>6
<1> QED
  BY <1>2, <1>7

\* The failure that a login was about to store is stored; or there are as many in its tick as
\* the properties count, which is enough for any counter.
LEMMA StoredBacks ==
    ASSUME NEW c \in Columns, NEW R \in Rows, NEW at \in Times,
           c.failedLoginWindowStartedAt # None,
           at \in c.failedLoginWindowStartedAt .. c.failedLoginWindowStartedAt + Window,
           \/ {at} \X (1 .. Many) \subseteq R
           \/ \E Q \in Rows, k \in Nat :
                 R = Q \cup {<<at, k>>} /\ <<at, k>> \notin Q /\ Backed(Q, c, 1)
    PROVE  Backed(R, c, 0)
<1> SUFFICES ASSUME c.failedLoginAttempts > 0
             PROVE  c.failedLoginAttempts - 0 <=
                        Cardinality(Within(R, c.failedLoginWindowStartedAt,
                                              c.failedLoginWindowStartedAt + Window))
  BY DEF Backed
<1>1. PICK B : B = Within(R, c.failedLoginWindowStartedAt, c.failedLoginWindowStartedAt + Window)
  OBVIOUS
<1>2. B \in Rows /\ Cardinality(B) \in Nat
  <2>1. B \subseteq R
    BY <1>1 DEF Within
  <2> QED
    BY <2>1, RowsAreFinite
<1>3. c.failedLoginAttempts \in Nat /\ c.failedLoginAttempts <= LockAt
  BY ColumnsTyped
<1>4. ASSUME {at} \X (1 .. Many) \subseteq R PROVE c.failedLoginAttempts <= Cardinality(B)
  <2>1. {at} \X (1 .. Many) \subseteq B
    BY <1>1, <1>4 DEF Within
  <2>2. Cardinality({at} \X (1 .. Many)) = Many
    <3>1. IsFiniteSet({at}) /\ Cardinality({at}) = 1
      BY FS_Singleton
    <3>2. IsFiniteSet(1 .. Many) /\ Cardinality(1 .. Many) = Many
      BY FS_Interval, SMTT(30)
    <3>3. Cardinality({at} \X (1 .. Many)) = 1 * Many
      BY <3>1, <3>2, FS_Product
    <3> QED
      BY <3>3
  <2>3. Many <= Cardinality(B)
    BY <1>2, <2>1, <2>2, RowsAreFinite
  <2> QED
    BY <1>2, <1>3, <2>3
<1>5. ASSUME NEW Q \in Rows, NEW k \in Nat, R = Q \cup {<<at, k>>}, <<at, k>> \notin Q,
             Backed(Q, c, 1)
      PROVE  c.failedLoginAttempts <= Cardinality(B)
  <2>1. PICK A : A = Within(Q, c.failedLoginWindowStartedAt,
                               c.failedLoginWindowStartedAt + Window)
    OBVIOUS
  <2>2. B = A \cup {<<at, k>>} /\ <<at, k>> \notin A
    BY <1>1, <1>5, <2>1 DEF Within
  <2>3. IsFiniteSet(A) /\ Cardinality(A) \in Nat
    <3>1. A \subseteq Q
      BY <2>1 DEF Within
    <3>2. A \in Rows
      BY <3>1, RowsAreFinite
    <3> QED
      BY <3>2, RowsAreFinite
  <2>4. Cardinality(B) = Cardinality(A) + 1
    BY <2>2, <2>3, FS_AddElement
  <2>5. c.failedLoginAttempts - 1 <= Cardinality(A)
    BY <1>5, <2>1 DEF Backed
  <2> QED
    BY <1>3, <2>3, <2>4, <2>5
<1>6. c.failedLoginAttempts <= Cardinality(B)
  BY <1>4, <1>5
<1> QED
  BY <1>1, <1>3, <1>6

-----------------------------------------------------------------------------
(* LoginLockout: the count, step by step *)

\* Typing, taken apart once.
LEMMA CountTyped ==
    ASSUME CountInductive
    PROVE  /\ Inductive /\ FailureRows \in Rows /\ now \in Times /\ Times \subseteq Nat
           /\ row \in Columns /\ LockedRow(row)
           /\ row.failedLoginWindowStartedAt # None => row.failedLoginWindowStartedAt <= now
           /\ disturbed \in Int /\ disturbed <= now
           /\ pc \in [Requests -> {"idle", "verify", "write"}]
           /\ local \in [Requests -> Columns]
           /\ rejected \in [Requests -> Times \cup {None}]
           /\ failures \in [Times -> 0 .. Many]
           /\ \A f \in FailureRows : f[1] <= now /\ f[1] \in Times
           /\ Fresh(FailureRows, disturbed) \in Rows
           /\ Fresh(FailureRows, now) = {}
<1>1. Inductive /\ TypeOK /\ ColumnsFit(row)
  BY DEF CountInductive, Inductive
<1>2. now \in Times /\ Times \subseteq Nat /\ disturbed \in Int
  BY <1>1 DEF TypeOK, Times
<1>3. failures \in [Times -> 0 .. Many]
  BY <1>1 DEF TypeOK
<1>4. FailureRows \in Rows
  <2> SUFFICES ASSUME NEW f \in FailureRows PROVE f \in Times \X (1 .. Many)
    BY DEF Rows
  <2>1. PICK t \in Times : f \in {t} \X (1 .. failures[t])
    BY DEF FailureRows
  <2>2. failures[t] \in 0 .. Many
    BY <1>3
  <2> QED
    BY <2>1, <2>2
<1>5. \A f \in FailureRows : f[1] <= now /\ f[1] \in Times
  BY <1>4, RowsAreFinite DEF CountInductive
<1>6. Fresh(FailureRows, disturbed) \in Rows
  BY <1>4, RowsAreFinite DEF Fresh
<1>7. Fresh(FailureRows, now) = {}
  <2>1. ASSUME NEW f \in FailureRows PROVE ~(f[1] > now)
    <3>1. f[1] \in Nat /\ now \in Nat /\ f[1] <= now
      BY <1>2, <1>5
    <3> QED
      BY <3>1
  <2> QED
    BY <2>1 DEF Fresh
<1> QED
  BY <1>1, <1>2, <1>3, <1>4, <1>5, <1>6, <1>7 DEF TypeOK, ColumnsFit, CountInductive

LEMMA CountInit == Init => CountInductive
<1> SUFFICES ASSUME Init PROVE CountInductive
  OBVIOUS
<1>1. FailureRows = {}
  <2> SUFFICES ASSUME NEW f \in FailureRows PROVE FALSE
    OBVIOUS
  <2>1. PICK t \in Times : f \in {t} \X (1 .. failures[t])
    BY DEF FailureRows
  <2>2. failures[t] = 0
    BY DEF Init
  <2> QED
    BY <2>1, <2>2
<1>2. Backed(FailureRows, row, 0)
  BY DEF Init, Cleared, Backed
<1>3. Counted(Fresh(FailureRows, disturbed), row)
  <2>1. Fresh(FailureRows, disturbed) = {}
    BY <1>1 DEF Fresh
  <2>2. row \in Columns
    BY ClearedFits DEF Init
  <2> QED
    BY <2>1, <2>2, NothingToCount
<1>4. \A p \in Requests : Holds(FailureRows, pc[p], local[p], rejected[p])
  BY DEF Init, Holds
<1>5. InFlight = {}
  BY DEF Init, InFlight
<1>6. Inductive
  BY InitInductive
<1>7. /\ disturbed <= now /\ \A f \in FailureRows : f[1] <= now
      /\ \A p \in Requests : rejected[p] = None
  BY <1>1 DEF Init
<1> QED
  BY <1>2, <1>3, <1>4, <1>5, <1>6, <1>7 DEF CountInductive

\* A step that leaves the row and the failures alone, but may break the count.
LEMMA CountStands ==
    ASSUME CountInductive, Inductive', UNCHANGED <<row, failures>>, now <= now', now' \in Times,
           disturbed' \in Int, disturbed <= disturbed', disturbed' <= now',
           \A p \in Requests : rejected'[p] # None => rejected'[p] <= now',
           \A p \in Requests : Holds(FailureRows, pc'[p], local'[p], rejected'[p]),
           \A p \in InFlight' \ overtaken' :
              InOrder(Fresh(FailureRows, disturbed'), row, pc'[p], local'[p], rejected'[p])
    PROVE  CountInductive'
<1>1. FailureRows' = FailureRows
  BY DEF FailureRows
<1>2. Fresh(FailureRows, disturbed') \subseteq Fresh(FailureRows, disturbed)
  BY CountTyped DEF Fresh
<1>3. Counted(Fresh(FailureRows, disturbed'), row)
  BY <1>2, CountTyped, FewerToCount DEF CountInductive
<1>4. \A f \in FailureRows : f[1] <= now'
  BY CountTyped
<1> QED
  BY <1>1, <1>3, <1>4 DEF CountInductive

\* With fewer fresh failures, whoever was in order still is.
LEMMA OrderStands ==
    ASSUME NEW F, NEW G \in SUBSET F, NEW current, NEW step, NEW c, NEW at,
           InOrder(F, current, step, c, at)
    PROVE  InOrder(G, current, step, c, at)
BY DEF InOrder

LEMMA CountRead ==
    ASSUME CountInductive, NEW p \in Requests, Read(p)
    PROVE  CountInductive'
<1>1. /\ UNCHANGED <<row, blocked, now, rejected, failures, overtaken, disturbed>>
      /\ pc' = [pc EXCEPT ![p] = "verify"] /\ local' = [local EXCEPT ![p] = row]
      /\ pc[p] = "idle"
  BY DEF Read
<1>2. Inductive'
  BY ReadStep DEF CountInductive
<1>3. ASSUME NEW q \in Requests PROVE Holds(FailureRows, pc'[q], local'[q], rejected'[q])
  <2>1. Holds(FailureRows, pc[q], local[q], rejected[q]) /\ Backed(FailureRows, row, 0)
    BY DEF CountInductive
  <2>2. CASE q = p
    BY <1>1, <2>1, <2>2, CountTyped DEF Holds
  <2>3. CASE q # p
    BY <1>1, <2>1, <2>3, CountTyped
  <2> QED
    BY <2>2, <2>3
<1>4. ASSUME NEW q \in InFlight' \ overtaken'
      PROVE  InOrder(Fresh(FailureRows, disturbed'), row, pc'[q], local'[q], rejected'[q])
  <2>1. q \in Requests
    BY DEF InFlight
  <2>2. CASE q = p
    BY <1>1, <2>1, <2>2, CountTyped DEF InOrder
  <2>3. CASE q # p
    <3>1. pc'[q] = pc[q] /\ local'[q] = local[q] /\ q \in InFlight \ overtaken
      BY <1>1, <1>4, <2>1, <2>3, CountTyped DEF InFlight
    <3> QED
      BY <1>1, <3>1 DEF CountInductive
  <2> QED
    BY <2>2, <2>3
<1> QED
  BY <1>1, <1>2, <1>3, <1>4, CountTyped, CountStands DEF CountInductive

\* The columns that a failure makes count it.
LEMMA RejectHolds ==
    ASSUME NEW R \in Rows, NEW c \in Columns, NEW t \in Times, Backed(R, c, 0),
           c.failedLoginWindowStartedAt # None => c.failedLoginWindowStartedAt <= t
    PROVE  Holds(R, "write", AfterFailure(c, t), t)
<1>1. PICK new : new = AfterFailure(c, t)
  OBVIOUS
<1>2. /\ c.failedLoginAttempts \in Nat /\ t \in Nat /\ t # None
      /\ c.failedLoginWindowStartedAt \in Times \cup {None} /\ Times \subseteq Nat
  BY ColumnsTyped
<1>3. CASE WindowOpen(c, t)
  <2>1. /\ new.failedLoginAttempts = c.failedLoginAttempts + 1
        /\ new.failedLoginWindowStartedAt = c.failedLoginWindowStartedAt
    BY <1>1, <1>3 DEF AfterFailure
  <2>2. PICK B : B = Within(R, c.failedLoginWindowStartedAt,
                               c.failedLoginWindowStartedAt + Window)
    OBVIOUS
  <2>3. Cardinality(B) \in Nat
    <3>1. B \subseteq R
      BY <2>2 DEF Within
    <3> QED
      BY <3>1, RowsAreFinite
  <2>4. c.failedLoginAttempts <= Cardinality(B)
    BY <1>2, <2>2, <2>3 DEF Backed
  <2>5. Backed(R, new, 1)
    BY <1>2, <2>1, <2>2, <2>3, <2>4 DEF Backed
  <2>6. /\ c.failedLoginWindowStartedAt # None /\ t - c.failedLoginWindowStartedAt <= Window
    BY <1>3 DEF WindowOpen
  <2>7. c.failedLoginWindowStartedAt \in Nat /\ c.failedLoginWindowStartedAt <= t
    BY <1>2, <2>6
  <2>8. t \in c.failedLoginWindowStartedAt .. c.failedLoginWindowStartedAt + Window
    BY <1>2, <2>6, <2>7
  <2> QED
    BY <1>1, <1>2, <2>1, <2>5, <2>6, <2>8 DEF Holds
<1>4. CASE ~WindowOpen(c, t)
  <2>1. new.failedLoginAttempts = 1 /\ new.failedLoginWindowStartedAt = t
    BY <1>1, <1>4 DEF AfterFailure
  <2>2. Cardinality(Within(R, t, t + Window)) \in Nat
    <3>1. Within(R, t, t + Window) \subseteq R
      BY DEF Within
    <3> QED
      BY <3>1, RowsAreFinite
  <2>3. Backed(R, new, 1)
    BY <2>1, <2>2 DEF Backed
  <2> QED
    BY <1>1, <1>2, <2>1, <2>3 DEF Holds
<1> QED
  BY <1>3, <1>4

LEMMA CountReject ==
    ASSUME CountInductive, NEW p \in Requests, Reject(p)
    PROVE  CountInductive'
<1>1. /\ UNCHANGED <<row, blocked, now, failures, overtaken, disturbed>>
      /\ pc' = [pc EXCEPT ![p] = "write"]
      /\ local' = [local EXCEPT ![p] = AfterFailure(local[p], now)]
      /\ rejected' = [rejected EXCEPT ![p] = now]
      /\ pc[p] = "verify"
  BY DEF Reject
<1>2. Inductive'
  BY RejectStep DEF CountInductive
<1>3. /\ local[p] \in Columns /\ Backed(FailureRows, local[p], 0)
      /\ local[p].failedLoginWindowStartedAt # None => local[p].failedLoginWindowStartedAt <= now
      /\ ~LockedAt(local[p], now)
  <2>1. Holds(FailureRows, pc[p], local[p], rejected[p])
    BY DEF CountInductive
  <2>2. ColumnsFit(local[p]) /\ ~LockedAt(local[p], now)
    BY <1>1, CountTyped DEF Inductive
  <2> QED
    BY <1>1, <2>1, <2>2, CountTyped DEF Holds, ColumnsFit
<1>4. ASSUME NEW q \in Requests PROVE Holds(FailureRows, pc'[q], local'[q], rejected'[q])
  <2>1. Holds(FailureRows, pc[q], local[q], rejected[q])
    BY DEF CountInductive
  <2>2. CASE q = p
    <3>1. Holds(FailureRows, "write", AfterFailure(local[p], now), now)
      BY <1>3, CountTyped, RejectHolds
    <3> QED
      BY <1>1, <2>2, <3>1, CountTyped
  <2>3. CASE q # p
    BY <1>1, <2>1, <2>3, CountTyped
  <2> QED
    BY <2>2, <2>3
<1>5. ASSUME NEW q \in InFlight' \ overtaken'
      PROVE  InOrder(Fresh(FailureRows, disturbed'), row, pc'[q], local'[q], rejected'[q])
  <2>1. q \in Requests
    BY DEF InFlight
  <2>2. q \in InFlight \ overtaken
    BY <1>1, <1>5, <2>1, CountTyped DEF InFlight
  <2>3. InOrder(Fresh(FailureRows, disturbed), row, pc[q], local[q], rejected[q])
    BY <2>2 DEF CountInductive
  <2>4. CASE q = p
    <3>1. local[p] = row
      BY <1>1, <2>3, <2>4 DEF InOrder
    <3>2. pc'[q] = "write" /\ local'[q] = AfterFailure(row, now) /\ rejected'[q] = now
      BY <1>1, <2>4, <3>1, CountTyped
    <3>3. \A f \in Fresh(FailureRows, disturbed) : f[1] <= now
      BY CountTyped DEF Fresh
    <3>4. now # None
      BY CountTyped
    <3> QED
      BY <1>1, <1>3, <3>1, <3>2, <3>3, <3>4 DEF InOrder
  <2>5. CASE q # p
    BY <1>1, <2>1, <2>3, <2>5, CountTyped
  <2> QED
    BY <2>4, <2>5
<1>6. \A q \in Requests : rejected'[q] # None => rejected'[q] <= now'
  BY <1>1, CountTyped DEF CountInductive
<1> QED
  BY <1>1, <1>2, <1>4, <1>5, <1>6, CountTyped, CountStands

\* A login that succeeds breaks the count, and with it all failures so far are past.
LEMMA CountAccept ==
    ASSUME CountInductive, NEW p \in Requests, Accept(p)
    PROVE  CountInductive'
<1>1. /\ UNCHANGED <<row, blocked, now, rejected, failures>> /\ disturbed' = now
      /\ local' = [local EXCEPT ![p] = Cleared] /\ pc[p] = "verify"
      /\ \/ pc' = [pc EXCEPT ![p] = "idle"] /\ overtaken' = overtaken \ {p}
         \/ pc' = [pc EXCEPT ![p] = "write"] /\ UNCHANGED overtaken
  BY DEF Accept
<1>2. Inductive'
  BY AcceptStep DEF CountInductive
<1>3. rejected[p] = None
  <2>1. Holds(FailureRows, pc[p], local[p], rejected[p])
    BY DEF CountInductive
  <2> QED
    BY <1>1, <2>1 DEF Holds
<1>4. Fresh(FailureRows, disturbed') = {}
  BY <1>1, CountTyped
<1>5. ASSUME NEW q \in Requests PROVE Holds(FailureRows, pc'[q], local'[q], rejected'[q])
  <2>1. Holds(FailureRows, pc[q], local[q], rejected[q])
    BY DEF CountInductive
  <2>2. CASE q = p
    <3>1. local'[q] = Cleared /\ rejected'[q] = None /\ pc'[q] # "verify"
      BY <1>1, <1>3, <2>2, CountTyped
    <3> QED
      BY <3>1 DEF Holds
  <2>3. CASE q # p
    BY <1>1, <2>1, <2>3, CountTyped
  <2> QED
    BY <2>2, <2>3
<1>6. ASSUME NEW q \in InFlight' \ overtaken'
      PROVE  InOrder({}, row, pc'[q], local'[q], rejected'[q])
  <2>1. q \in Requests
    BY DEF InFlight
  <2>2. CASE q = p
    BY <1>1, <1>3, <2>2, CountTyped DEF InOrder
  <2>3. CASE q # p
    <3>1. pc'[q] = pc[q] /\ local'[q] = local[q] /\ q \in InFlight \ overtaken
      BY <1>1, <1>6, <2>1, <2>3, CountTyped DEF InFlight
    <3>2. InOrder(Fresh(FailureRows, disturbed), row, pc[q], local[q], rejected[q])
      BY <3>1 DEF CountInductive
    <3>3. InOrder({}, row, pc[q], local[q], rejected[q])
      BY <3>2, OrderStands
    <3> QED
      BY <1>1, <3>1, <3>3
  <2> QED
    BY <2>2, <2>3
<1>7. disturbed' \in Int /\ disturbed <= disturbed' /\ disturbed' <= now'
  BY <1>1, CountTyped
<1> QED
  BY <1>1, <1>2, <1>4, <1>5, <1>6, <1>7, CountTyped, CountStands DEF CountInductive

LEMMA CountDie ==
    ASSUME CountInductive, NEW p \in Requests, Die(p)
    PROVE  CountInductive'
<1>1. /\ UNCHANGED <<row, blocked, now, failures, disturbed>>
      /\ overtaken' = overtaken \ {p}
      /\ pc' = [pc EXCEPT ![p] = "idle"] /\ rejected' = [rejected EXCEPT ![p] = None]
      /\ local' = [local EXCEPT ![p] = Cleared]
  BY DEF Die, Finish
<1>2. Inductive'
  BY DieStep DEF CountInductive
<1>3. ASSUME NEW q \in Requests PROVE Holds(FailureRows, pc'[q], local'[q], rejected'[q])
  <2>1. Holds(FailureRows, pc[q], local[q], rejected[q])
    BY DEF CountInductive
  <2>2. CASE q = p
    BY <1>1, <2>2, CountTyped DEF Holds
  <2>3. CASE q # p
    BY <1>1, <2>1, <2>3, CountTyped
  <2> QED
    BY <2>2, <2>3
<1>4. ASSUME NEW q \in InFlight' \ overtaken'
      PROVE  InOrder(Fresh(FailureRows, disturbed'), row, pc'[q], local'[q], rejected'[q])
  <2>1. q \in Requests /\ q # p
    BY <1>1, <1>4, CountTyped DEF InFlight
  <2>2. /\ pc'[q] = pc[q] /\ local'[q] = local[q] /\ rejected'[q] = rejected[q]
        /\ q \in InFlight \ overtaken
    BY <1>1, <1>4, <2>1, CountTyped DEF InFlight
  <2> QED
    BY <1>1, <2>2 DEF CountInductive
<1>5. \A q \in Requests : rejected'[q] # None => rejected'[q] <= now'
  BY <1>1, CountTyped DEF CountInductive
<1> QED
  BY <1>1, <1>2, <1>3, <1>4, <1>5, CountTyped, CountStands

LEMMA CountTick ==
    ASSUME CountInductive, Tick \/ Block \/ UNCHANGED vars
    PROVE  CountInductive'
<1>1. /\ UNCHANGED <<row, pc, local, rejected, failures, overtaken, disturbed>>
      /\ now' \in {now, now + 1} /\ now' \in Times
  BY CountTyped DEF Tick, Block, vars, Times
<1>2. Inductive'
  BY TickStep, AdministrationStep DEF CountInductive
<1>3. now <= now' /\ disturbed' \in Int /\ disturbed <= disturbed' /\ disturbed' <= now'
  BY <1>1, CountTyped
<1>4. \A q \in Requests : Holds(FailureRows, pc'[q], local'[q], rejected'[q])
  BY <1>1 DEF CountInductive
<1>5. ASSUME NEW q \in InFlight' \ overtaken'
      PROVE  InOrder(Fresh(FailureRows, disturbed'), row, pc'[q], local'[q], rejected'[q])
  <2>1. q \in InFlight \ overtaken
    BY <1>1, <1>5 DEF InFlight
  <2> QED
    BY <1>1, <2>1 DEF CountInductive
<1>6. ASSUME NEW q \in Requests, rejected'[q] # None PROVE rejected'[q] <= now'
  <2>1. rejected'[q] = rejected[q] /\ rejected[q] \in Times
    BY <1>1, <1>6, CountTyped
  <2>2. rejected[q] <= now
    BY <1>6, <2>1 DEF CountInductive
  <2> QED
    BY <1>1, <1>3, <2>1, <2>2, CountTyped
<1> QED
  BY <1>1, <1>2, <1>3, <1>4, <1>5, <1>6, CountStands

\* The numbered failures, as a set of pairs.
LEMMA RowsListed ==
    ASSUME NEW g \in [Times -> 0 .. Many]
    PROVE  UNION {{t} \X (1 .. g[t]) : t \in Times} = {f \in Times \X (1 .. Many) : f[2] <= g[f[1]]}
<1>1. ASSUME NEW f \in UNION {{t} \X (1 .. g[t]) : t \in Times}
      PROVE  f \in Times \X (1 .. Many) /\ f[2] <= g[f[1]]
  <2>1. PICK t \in Times : f \in {t} \X (1 .. g[t])
    OBVIOUS
  <2>2. g[t] \in 0 .. Many
    OBVIOUS
  <2> QED
    BY <2>1, <2>2
<1>2. ASSUME NEW f \in Times \X (1 .. Many), f[2] <= g[f[1]]
      PROVE  f \in {f[1]} \X (1 .. g[f[1]]) /\ f[1] \in Times
  <2>1. f = <<f[1], f[2]>> /\ f[1] \in Times /\ f[2] \in 1 .. Many /\ g[f[1]] \in 0 .. Many
    OBVIOUS
  <2> QED
    BY <1>2, <2>1
<1> QED
  BY <1>1, <1>2

\* A failure that is stored gets a number of its own, unless its tick has as many as the
\* properties count.
LEMMA FailureStored ==
    ASSUME CountInductive, failures' \in [Times -> 0 .. Many], NEW at \in Times,
           failures' = [failures EXCEPT ![at] = IF failures[at] < Many THEN failures[at] + 1
                                                ELSE failures[at]]
    PROVE  \/ FailureRows' = FailureRows /\ {at} \X (1 .. Many) \subseteq FailureRows
           \/ \E k \in 1 .. Many :
                 FailureRows' = FailureRows \cup {<<at, k>>} /\ <<at, k>> \notin FailureRows
<1>1. failures \in [Times -> 0 .. Many] /\ failures[at] \in 0 .. Many
  BY CountTyped
<1>2. FailureRows = {f \in Times \X (1 .. Many) : f[2] <= failures[f[1]]}
  BY <1>1, RowsListed DEF FailureRows
<1>3. FailureRows' = {f \in Times \X (1 .. Many) : f[2] <= failures'[f[1]]}
  BY RowsListed DEF FailureRows
<1>4. ASSUME failures[at] < Many
      PROVE  \E k \in 1 .. Many :
                FailureRows' = FailureRows \cup {<<at, k>>} /\ <<at, k>> \notin FailureRows
  <2>1. PICK k \in 1 .. Many : k = failures[at] + 1
    BY <1>1, <1>4
  <2>2. failures'[at] = k /\ failures[at] = k - 1
    BY <1>1, <1>4, <2>1
  <2>3. \A t \in Times : t # at => failures'[t] = failures[t]
    BY <1>1
  <2>4. <<at, k>> \notin FailureRows
    BY <1>2, <2>2
  <2>5. ASSUME NEW f \in Times \X (1 .. Many)
        PROVE  f[2] <= failures'[f[1]] <=> f[2] <= failures[f[1]] \/ f = <<at, k>>
    <3>1. f = <<f[1], f[2]>> /\ f[1] \in Times /\ f[2] \in 1 .. Many
      OBVIOUS
    <3>2. CASE f[1] = at
      <4>1. f[2] <= k <=> f[2] <= k - 1 \/ f[2] = k
        BY <3>1
      <4>2. f[2] = k <=> f = <<at, k>>
        BY <3>1, <3>2
      <4> QED
        BY <2>2, <3>2, <4>1, <4>2
    <3>3. CASE f[1] # at
      BY <2>3, <3>1, <3>3
    <3> QED
      BY <3>2, <3>3
  <2>6. <<at, k>> \in Times \X (1 .. Many)
    OBVIOUS
  <2>7. FailureRows' = FailureRows \cup {<<at, k>>}
    BY <1>2, <1>3, <2>5, <2>6
  <2> QED
    BY <2>4, <2>7
<1>5. ASSUME ~(failures[at] < Many)
      PROVE  FailureRows' = FailureRows /\ {at} \X (1 .. Many) \subseteq FailureRows
  <2>1. failures' = failures /\ failures[at] = Many
    BY <1>1, <1>5
  <2> QED
    BY <1>2, <1>3, <2>1
<1> QED
  BY <1>4, <1>5

LEMMA CountUnlock ==
    ASSUME CountInductive, Unlock
    PROVE  CountInductive'
<1>1. /\ UNCHANGED <<now, pc, local, rejected, failures>>
      /\ row' = Cleared /\ overtaken' = InFlight /\ disturbed' = now
  BY DEF Unlock
<1>2. Inductive'
  BY AdministrationStep DEF CountInductive
<1>3. FailureRows' = FailureRows
  BY <1>1 DEF FailureRows
<1>4. Backed(FailureRows, Cleared, 0)
  BY DEF Backed, Cleared
<1>5. Counted(Fresh(FailureRows, now), Cleared)
  BY ClearedFits, CountTyped, NothingToCount
<1>6. InFlight' \ overtaken' = {}
  BY <1>1 DEF InFlight
<1>7. now <= now /\ \A f \in FailureRows : f[1] <= now
  BY CountTyped
<1> QED
  BY <1>1, <1>2, <1>3, <1>4, <1>5, <1>6, <1>7 DEF CountInductive

\* What a login writes is backed, and it has counted every failure that no login overtook.
LEMMA CountWrite ==
    ASSUME CountInductive, NEW p \in Requests, Write(p)
    PROVE  CountInductive'
<1> DEFINE at == rejected[p]
<1>1. /\ row' = local[p] /\ now' = now /\ overtaken' = InFlight \ {p} /\ pc[p] = "write"
      /\ pc' = [pc EXCEPT ![p] = "idle"] /\ rejected' = [rejected EXCEPT ![p] = None]
      /\ local' = [local EXCEPT ![p] = Cleared]
      /\ disturbed' = IF p \in overtaken THEN now ELSE disturbed
  BY DEF Write, Finish
<1>2. Inductive'
  BY WriteStep DEF CountInductive
<1>3. failures' \in [Times -> 0 .. Many] /\ local[p] \in Columns
  BY <1>2, CountTyped DEF Inductive, TypeOK
<1>4. Holds(FailureRows, "write", local[p], at)
  BY <1>1 DEF CountInductive
<1>5. /\ FailureRows \subseteq FailureRows' /\ FailureRows' \in Rows
      /\ Backed(FailureRows', local[p], 0)
      /\ at = None => FailureRows' = FailureRows
      /\ at # None => \E x : x[1] = at /\ FailureRows' \subseteq FailureRows \cup {x}
  <2>1. CASE at = None
    <3>1. FailureRows' = FailureRows
      BY <2>1 DEF Write, FailureRows
    <3>2. Backed(FailureRows, local[p], 0)
      BY <1>4, <2>1 DEF Holds, Backed, Cleared
    <3> QED
      BY <2>1, <3>1, <3>2, CountTyped
  <2>2. CASE at # None
    <3>1. at \in Times
      BY <2>2, CountTyped
    <3>2. failures' = [failures EXCEPT ![at] = IF failures[at] < Many THEN failures[at] + 1
                                               ELSE failures[at]]
      BY <2>2 DEF Write
    <3>3. /\ local[p].failedLoginWindowStartedAt # None /\ Backed(FailureRows, local[p], 1)
          /\ at \in local[p].failedLoginWindowStartedAt ..
                       local[p].failedLoginWindowStartedAt + Window
      BY <1>4, <2>2 DEF Holds
    <3>4. CASE FailureRows' = FailureRows /\ {at} \X (1 .. Many) \subseteq FailureRows
      <4>1. FailureRows \in Rows
        BY CountTyped
      <4>2. Backed(FailureRows, local[p], 0)
        BY <1>3, <3>1, <3>3, <3>4, <4>1, StoredBacks
      <4>3. FailureRows \subseteq FailureRows \cup {<<at, 1>>} /\ <<at, 1>>[1] = at
        OBVIOUS
      <4> QED
        BY <2>2, <3>4, <4>1, <4>2, <4>3
    <3>5. ASSUME NEW k \in 1 .. Many,
                 FailureRows' = FailureRows \cup {<<at, k>>}, <<at, k>> \notin FailureRows
          PROVE  /\ FailureRows' \in Rows /\ Backed(FailureRows', local[p], 0)
                 /\ <<at, k>>[1] = at
      <4>1. FailureRows \in Rows /\ k \in Nat
        BY CountTyped
      <4>2. FailureRows' \in Rows
        BY <3>1, <3>5, <4>1 DEF Rows
      <4>3. Backed(FailureRows', local[p], 0)
        BY <1>3, <3>1, <3>3, <3>5, <4>1, <4>2, StoredBacks
      <4> QED
        BY <4>2, <4>3
    <3>6. CASE \E k \in 1 .. Many :
                  FailureRows' = FailureRows \cup {<<at, k>>} /\ <<at, k>> \notin FailureRows
      <4>1. PICK k \in 1 .. Many :
                  FailureRows' = FailureRows \cup {<<at, k>>} /\ <<at, k>> \notin FailureRows
        BY <3>6
      <4>2. FailureRows' \in Rows /\ Backed(FailureRows', local[p], 0) /\ <<at, k>>[1] = at
        BY <3>5, <4>1
      <4> QED
        BY <2>2, <4>1, <4>2
    <3> QED
      BY <1>3, <3>1, <3>2, <3>4, <3>6, FailureStored
  <2> QED
    BY <2>1, <2>2
<1>6. at # None => at \in Times /\ at <= now
  BY CountTyped DEF CountInductive
<1>7. \A f \in FailureRows' : f[1] <= now
  BY <1>5, <1>6, CountTyped
<1>8. disturbed' <= now
  BY <1>1, CountTyped
<1>9. Counted(Fresh(FailureRows', disturbed'), local[p])
  <2>1. CASE p \in overtaken
    <3>1. Fresh(FailureRows', now) = {}
      <4>1. ASSUME NEW f \in FailureRows' PROVE ~(f[1] > now)
        <5>1. f[1] \in Times /\ f[1] <= now
          BY <1>5, <1>7, RowsAreFinite
        <5> QED
          BY <5>1, CountTyped
      <4> QED
        BY <4>1 DEF Fresh
    <3> QED
      BY <1>1, <1>3, <2>1, <3>1, NothingToCount
  <2>2. CASE p \notin overtaken
    <3>1. disturbed' = disturbed
      BY <1>1, <2>2
    <3>2. InOrder(Fresh(FailureRows, disturbed), row, "write", local[p], at)
      <4>1. p \in InFlight \ overtaken
        BY <1>1, <2>2 DEF InFlight
      <4> QED
        BY <1>1, <4>1 DEF CountInductive
    <3>3. CASE at = None
      BY <1>3, <1>5, <3>1, <3>2, <3>3, NothingToCount DEF InOrder
    <3>4. CASE at # None
      <4>1. PICK F : F = Fresh(FailureRows, disturbed)
        OBVIOUS
      <4>2. PICK x : x[1] = at /\ FailureRows' \subseteq FailureRows \cup {x}
        BY <1>5, <3>4
      <4>3. PICK G : G = Fresh(FailureRows', disturbed)
        OBVIOUS
      <4>4. F \in Rows /\ G \in Rows /\ G \subseteq F \cup {x}
        <5>1. F \in Rows
          BY <4>1, CountTyped
        <5>2. G \subseteq FailureRows'
          BY <4>3 DEF Fresh
        <5>3. G \in Rows
          BY <1>5, <5>2, RowsAreFinite
        <5>4. G \subseteq F \cup {x}
          BY <4>1, <4>2, <4>3 DEF Fresh
        <5> QED
          BY <5>1, <5>3, <5>4
      <4>5. /\ local[p] = AfterFailure(row, at) /\ ~LockedAt(row, at)
            /\ \A f \in F : f[1] <= at
        BY <3>2, <3>4, <4>1 DEF InOrder
      <4>6. Counted(F, row)
        BY <4>1 DEF CountInductive
      <4>7. row.failedLoginWindowStartedAt # None => row.failedLoginWindowStartedAt <= at
        <5>1. Holds(FailureRows, "write", AfterFailure(row, at), at)
          BY <1>4, <4>5
        <5>2. PICK start : start = AfterFailure(row, at).failedLoginWindowStartedAt
          OBVIOUS
        <5>3. start \in Times /\ at \in start .. start + Window
          <6>1. start # None /\ at \in start .. start + Window
            BY <3>4, <5>1, <5>2 DEF Holds
          <6>2. start \in Times \cup {None}
            BY <1>3, <4>5, <5>2, ColumnsTyped
          <6> QED
            BY <6>1, <6>2
        <5>4. CASE WindowOpen(row, at)
          <6>1. start = row.failedLoginWindowStartedAt
            BY <5>2, <5>4 DEF AfterFailure
          <6> QED
            BY <5>3, <6>1, CountTyped
        <5>5. CASE ~WindowOpen(row, at)
          <6> SUFFICES ASSUME row.failedLoginWindowStartedAt # None
                       PROVE  row.failedLoginWindowStartedAt <= at
            OBVIOUS
          <6>1. ~(at - row.failedLoginWindowStartedAt <= Window)
            BY <5>5 DEF WindowOpen
          <6>2. row.failedLoginWindowStartedAt \in Nat /\ at \in Nat
            BY <1>6, <3>4, ColumnsTyped, CountTyped
          <6> QED
            BY <6>1, <6>2
        <5> QED
          BY <5>4, <5>5
      <4>8. Counted(G, AfterFailure(row, at))
        BY <1>6, <3>4, <4>2, <4>4, <4>5, <4>6, <4>7, CountTyped, FailureCounts
      <4> QED
        BY <3>1, <4>3, <4>5, <4>8
    <3> QED
      BY <3>3, <3>4
  <2> QED
    BY <2>1, <2>2
<1>10. ASSUME NEW q \in Requests PROVE Holds(FailureRows', pc'[q], local'[q], rejected'[q])
  <2>1. Holds(FailureRows, pc[q], local[q], rejected[q])
    BY DEF CountInductive
  <2>2. CASE q = p
    <3>1. pc'[q] = "idle" /\ rejected'[q] = None
      BY <1>1, <2>2, CountTyped
    <3> QED
      BY <3>1 DEF Holds
  <2>3. CASE q # p
    <3>1. pc'[q] = pc[q] /\ local'[q] = local[q] /\ rejected'[q] = rejected[q]
      BY <1>1, <2>3, CountTyped
    <3>2. local[q] \in Columns /\ FailureRows \in Rows
      BY CountTyped
    <3>3. /\ Backed(FailureRows, local[q], 0) => Backed(FailureRows', local[q], 0)
          /\ Backed(FailureRows, local[q], 1) => Backed(FailureRows', local[q], 1)
      <4>1. 0 \in Nat /\ 1 \in Nat
        OBVIOUS
      <4> QED
        BY <1>5, <3>2, <4>1, MoreBack
    <3> QED
      BY <2>1, <3>1, <3>3 DEF Holds
  <2> QED
    BY <2>2, <2>3
<1>11. InFlight' \ overtaken' = {}
  BY <1>1, CountTyped DEF InFlight
<1>12. \A q \in Requests : rejected'[q] # None => rejected'[q] <= now'
  BY <1>1, CountTyped DEF CountInductive
<1> QED
  BY <1>1, <1>2, <1>5, <1>7, <1>8, <1>9, <1>10, <1>11, <1>12 DEF CountInductive

LEMMA CountNext == CountInductive /\ [Next]_vars => CountInductive'
<1> SUFFICES ASSUME CountInductive, [Next]_vars PROVE CountInductive'
  OBVIOUS
<1>1. ASSUME NEW p \in Requests, Read(p) \/ Reject(p) \/ Accept(p) \/ Write(p) \/ Die(p)
      PROVE  CountInductive'
  BY <1>1, CountRead, CountReject, CountAccept, CountWrite, CountDie
<1>2. CASE Unlock
  BY <1>2, CountUnlock
<1>3. CASE Tick \/ Block \/ UNCHANGED vars
  BY <1>3, CountTick
<1> QED
  BY <1>1, <1>2, <1>3 DEF Next

\* A login's window and counter, against the failures stored meanwhile by all logins that
\* read, compute and write them by two queries (LoginUserHandler).
THEOREM CountInvariance == Spec => []CountInductive
BY CountInit, CountNext, PTL DEF Spec

\* No account is locked for fewer failures than it takes, whatever stale counters logins
\* write; and as long as no login writes one, the length of a window sees fewer than twice
\* the threshold.
THEOREM FailuresAreCounted == Spec => []FailuresCounted
<1>1. CountInductive => NoFalseLock
  <2> SUFFICES ASSUME CountInductive, row.failedLoginAttempts > 0 PROVE
          /\ row.failedLoginWindowStartedAt # None
          /\ row.failedLoginAttempts <=
                FailuresIn(row.failedLoginWindowStartedAt,
                           row.failedLoginWindowStartedAt + Window)
    BY DEF NoFalseLock
  <2>1. row.failedLoginWindowStartedAt # None
    BY DEF CountInductive, Inductive, ColumnsFit
  <2>2. row.failedLoginAttempts - 0 <=
            Cardinality(Within(FailureRows, row.failedLoginWindowStartedAt,
                                            row.failedLoginWindowStartedAt + Window))
    BY DEF CountInductive, Backed
  <2>3. row.failedLoginAttempts \in Nat
    BY CountTyped, ColumnsTyped
  <2>4. row.failedLoginAttempts <=
            Cardinality(Within(FailureRows, row.failedLoginWindowStartedAt,
                                            row.failedLoginWindowStartedAt + Window))
    BY <2>2, <2>3
  <2> QED
    BY <2>1, <2>4 DEF FailuresIn, Within
<1>2. CountInductive => GuessesBounded
  <2> SUFFICES ASSUME CountInductive PROVE RecentFailures <= 2 * LockAt - 1
    BY DEF GuessesBounded
  <2>1. PICK first : first = IF disturbed < now - Window THEN now - Window ELSE disturbed + 1
    OBVIOUS
  <2>2. PICK F : F = Fresh(FailureRows, disturbed)
    OBVIOUS
  <2>3. PICK T : T = {f \in FailureRows : f[1] \in first .. now}
    OBVIOUS
  <2>4. /\ first \in Int /\ disturbed < first /\ now - Window <= first
        /\ now \in Nat /\ disturbed \in Int
    BY <2>1, CountTyped
  <2>5. \A f \in T : f \in FailureRows /\ f[1] > disturbed /\ f[1] >= now - Window
    BY <2>3, <2>4
  <2>6. T \in SUBSET F /\ \A f \in T : f[1] >= now - Window
    BY <2>2, <2>5 DEF Fresh
  <2>7. F \in Rows /\ Counted(F, row)
    BY <2>2, CountTyped DEF CountInductive
  <2>8. Cardinality(T) <= 2 * LockAt - 1
    BY <2>6, <2>7, CountTyped, GuessesAreFew
  <2> QED
    BY <2>1, <2>3, <2>8 DEF RecentFailures, FailuresIn
<1> QED
  BY <1>1, <1>2, CountInvariance, PTL DEF FailuresCounted

-----------------------------------------------------------------------------
(* AuthGateway: the inductive invariant *)

\* What the answer of p makes of the browser: nothing, and a pair that was issued for it is
\* lost; or the pair, in cookies, body or both; or its cookies alone; or, after a logout,
\* that the script forgets what it knows.
Answered(p) == LET c == call[p]  n == call[p].result.issue IN
    \/ /\ c.answer.cookies = {} /\ c.answer.message # "logoutFailed"
       /\ c.answer.message = "ok" => c.kind \notin MovesTokens
       /\ n # 0 => n \in fate.lost
    \/ /\ c.kind \in {"login", "refresh"} /\ n # 0
       /\ c.answer.message = "ok" /\ c.answer.cookies = AuthCookies(n)
       /\ c.answer.body.refresh = InBody(n) /\ c.answer.body.csrf \in {0, n}
       /\ config.csrf /\ config.mode # "COOKIES_ONLY" => c.answer.body.csrf = n
    \/ /\ c.kind = "login" /\ n # 0 /\ fate.halved
       /\ c.answer.message = "internal"
       /\ config.mode # "RESPONSE_ONLY" /\ c.answer.cookies = AuthCookies(n)
    \/ /\ c.kind = "logout" /\ c.answer.cookies = {} /\ n = 0
       /\ c.answer.message = IF c.result.reason = "" THEN "ok" ELSE "logoutFailed"

\* Auth-service has taken the session of the logout p away, and its handler answers.
LoggedOut(p) ==
    /\ call[p].kind = "logout"
    /\ \/ call[p].step = "told"
       \/ call[p].step = "answered" /\ call[p].answer.message \in {"ok", "logoutFailed"}

\* The locals of a request fit its step.
CallFits(p) == LET c == call[p]  n == call[p].result.issue IN
    /\ c.step \in {"idle", "sent", "asking"} => n = 0
    /\ c.step = "asking" /\ c.kind \in {"refresh", "logout"} => RefreshToken(p) # 0
    /\ n <= service.issued
    /\ n # 0 => c.kind \in {"login", "refresh"}
    /\ c.step = "told" => /\ c.kind \in {"login", "refresh"} /\ c.result.reason = "" => n # 0
                          /\ c.result.reason # "" => n = 0
    /\ c.step = "profile" => c.kind = "login" /\ n # 0 /\ c.answer.cookies = AuthCookies(n)
    /\ c.step = "answered" => Answered(p)
    /\ LoggedOut(p) => fate.left # {}
CallsFit == \A p \in Calls : CallFits(p)

\* The cookies of the browser are those of one pair, or none; the csrf token that its script
\* knows is that of its cookies, unless a login failed half-way; and it knows one, unless it
\* was told none or has logged out.
BrowserFits ==
    /\ jar # NoTokens => /\ jar.access # 0 /\ jar.refresh = jar.access
                         /\ jar.csrf = IF config.csrf THEN jar.access ELSE 0
                         /\ config.mode # "RESPONSE_ONLY"
    /\ jar.refresh <= service.issued /\ memory.refresh <= service.issued
    /\ ~fate.halved /\ jar.access # 0 => memory.csrf \in {0, jar.access}
    /\ jar.access # 0 /\ memory.csrf = 0 =>
          \/ fate.halved \/ ~config.csrf
          \/ config.mode = "COOKIES_ONLY" \/ fate.left # {}

\* A request carries the csrf token of its cookies, or its script knows none.
CsrfFits(p) ==
    call[p].step = "sent" /\ config.csrf /\ ~fate.halved /\ call[p].cookies.access # 0 =>
        /\ call[p].cookies.csrf # 0
        /\ \/ call[p].header = call[p].cookies.csrf
           \/ /\ ~config.reads /\ call[p].header = 0
              /\ config.mode = "COOKIES_ONLY" \/ fate.left # {}
CsrfsFit == \A p \in Calls : CsrfFits(p)

\* The requests that move tokens; and those of them that have used up the session that the
\* browser still holds.
Movers == {p \in Calls : call[p].step # "idle" /\ call[p].kind \in MovesTokens}
Exchanged(p) == call[p].kind = "refresh" /\ call[p].result.issue # 0
Consumed(p) == Exchanged(p) \/ LoggedOut(p)

\* One request at a time moves tokens: it carries what the browser holds.
MoverFits(p) ==
    /\ call[p].step \in {"sent", "asking"} =>
          call[p].cookies = jar /\ call[p].body \in {NoTokens, memory}
    /\ call[p].kind = "login" \/ Consumed(p) => Held \cap service.live = {}
    /\ ~fate.ended /\ call[p].result.issue # 0 => call[p].result.issue \in service.live
    /\ ~fate.ended /\ fate.lost = {} /\ LoggedOut(p) =>
          call[p].result.reason = "" \/ memory.refresh = 0
OneMover == \A p, q \in Movers : p = q
OneSession ==
    jar.refresh # 0 /\ memory.refresh \in service.live => memory.refresh = jar.refresh
MoversFit == \A p \in Movers : MoverFits(p)
LiveIsHeld == service.live \subseteq Held \cup OnItsWay \cup fate.lost
HeldIsLive ==
    ~fate.ended /\ fate.lost = {} =>
        /\ \/ jar.refresh \in service.live \cup fate.left \cup {0}
           \/ \E p \in Movers : Exchanged(p)
        /\ \/ memory.refresh \in service.live \cup {0}
           \/ \E p \in Movers : Consumed(p)

GateInductive ==
    /\ GateTypeOK /\ CallsFit /\ BrowserFits /\ CsrfsFit
    /\ ~fate.crossed => OneMover /\ OneSession /\ MoversFit /\ LiveIsHeld /\ HeldIsLive

\* What typing says of a request, taken apart once.
LEMMA CallTyped ==
    ASSUME GateTypeOK, NEW q \in Calls
    PROVE  /\ call[q] \in Call
           /\ call[q].step \in {"idle", "sent", "asking", "told", "profile", "answered"}
           /\ call[q].kind \in Kinds
           /\ call[q].cookies \in Tokens /\ call[q].body \in Tokens
           /\ call[q].header \in 0 .. MaxIssues
           /\ call[q].result \in Result
           /\ call[q].result.issue \in 0 .. MaxIssues
           /\ call[q].answer \in Answer
           /\ call[q].answer.body \in Tokens
           /\ call[q].answer.cookies \in {{}} \cup {{t} : t \in Tokens}
<1>1. call[q] \in Call
  BY DEF GateTypeOK
<1>2. /\ call[q].result \in Result /\ call[q].answer \in Answer
      /\ call[q].step \in {"idle", "sent", "asking", "told", "profile", "answered"}
      /\ call[q].kind \in Kinds
      /\ call[q].cookies \in Tokens /\ call[q].body \in Tokens
      /\ call[q].header \in 0 .. MaxIssues
  BY <1>1 DEF Call
<1>3. call[q].result.issue \in 0 .. MaxIssues
  BY <1>2 DEF Result
<1>4. /\ call[q].answer.body \in Tokens
      /\ call[q].answer.cookies \in {{}} \cup {{t} : t \in Tokens}
  BY <1>2 DEF Answer
<1> QED
  BY <1>1, <1>2, <1>3, <1>4

\* A request that a step leaves alone still fits: pairs are issued, answers lost and logins
\* fail half-way for good.
LEMMA OthersFit ==
    ASSUME GateTypeOK, GateTypeOK', NEW q \in Calls, CallFits(q), CsrfFits(q),
           call'[q] = call[q], config' = config,
           service.issued <= service'.issued,
           fate.lost \subseteq fate'.lost, fate.halved => fate'.halved,
           fate.left \subseteq fate'.left
    PROVE  CallFits(q)' /\ CsrfFits(q)'
<1>1. /\ call[q].result.issue \in Nat /\ service.issued \in Nat /\ service'.issued \in Nat
  BY CallTyped, AuthGatewayAssumption DEF GateTypeOK
<1>2. Answered(q) => Answered(q)'
  BY DEF Answered, AuthCookies, InBody
<1>3. CallFits(q)'
  <2>1. CallFits(q) /\ call'[q] = call[q] /\ AuthCookies(call[q].result.issue)' =
                                              AuthCookies(call[q].result.issue)
    BY DEF AuthCookies
  <2>2. call[q].result.issue <= service'.issued
    <3>1. call[q].result.issue <= service.issued
      BY DEF CallFits
    <3> QED
      BY <1>1, <3>1
  <2>3. \/ RefreshToken(q)' # 0
        \/ ~(call[q].step = "asking" /\ call[q].kind \in {"refresh", "logout"})
    BY DEF CallFits, RefreshToken
  <2>4. LoggedOut(q)' => fate'.left # {}
    BY DEF CallFits, LoggedOut
  <2> QED
    BY <1>2, <2>1, <2>2, <2>3, <2>4 DEF CallFits, AuthCookies
<1>4. CsrfFits(q)'
  BY DEF CsrfFits
<1> QED
  BY <1>3, <1>4

\* A request goes on inside the backend, from step to step, and is answered there; neither
\* the browser nor auth-service moves.  Whether it has used up a session stays as it is,
\* unless it is a logout whose answer is lost.
LEMMA CallMoves ==
    ASSUME GateInductive, NEW p \in Calls, NEW c \in Call,
           call' = [call EXCEPT ![p] = c],
           call[p].step # "idle", c.step \notin {"idle", "sent"},
           c.kind = call[p].kind, c.result = call[p].result,
           UNCHANGED <<config, jar, memory, service>>,
           fate' \in Fate, fate.lost \subseteq fate'.lost,
           fate.crossed => fate'.crossed, fate.halved => fate'.halved,
           fate'.ended = fate.ended, fate'.left = fate.left,
           CallFits(p)',
           c.step = "asking" => /\ call[p].step = "sent"
                                /\ c.cookies = call[p].cookies /\ c.body = call[p].body,
           ~fate'.crossed => (LoggedOut(p)' => LoggedOut(p)),
           ~fate'.crossed => (LoggedOut(p) => LoggedOut(p)')
    PROVE  GateInductive'
<1>1. /\ GateTypeOK /\ BrowserFits /\ CallFits(p) /\ \A q \in Calls : CallFits(q) /\ CsrfFits(q)
  BY DEF GateInductive, CallsFit, CsrfsFit
<1>2. GateTypeOK'
  BY <1>1 DEF GateTypeOK
<1>3. call'[p] = c /\ \A q \in Calls : q # p => call'[q] = call[q]
  BY <1>1 DEF GateTypeOK
<1>4. service.issued <= service'.issued
  BY <1>1, AuthGatewayAssumption DEF GateTypeOK
<1>5. \A q \in Calls : q # p => CallFits(q)' /\ CsrfFits(q)'
  BY <1>1, <1>2, <1>3, <1>4, OthersFit
<1>6. CsrfFits(p)'
  BY <1>3 DEF CsrfFits
<1>7. BrowserFits'
  BY <1>1 DEF BrowserFits
<1>8. ASSUME ~fate'.crossed
      PROVE  (OneMover /\ OneSession /\ MoversFit /\ LiveIsHeld /\ HeldIsLive)'
  <2>1. /\ OneMover /\ OneSession /\ MoversFit /\ LiveIsHeld /\ HeldIsLive
        /\ Held' = Held
    BY <1>8 DEF GateInductive, Fate, Held
  <2>2. Movers' = Movers
    BY <1>3 DEF Movers
  <2>3. OneMover' /\ OneSession'
    BY <2>1, <2>2 DEF OneMover, OneSession
  <2>4. \A q \in Movers :
           (Exchanged(q)' <=> Exchanged(q)) /\ (LoggedOut(q)' <=> LoggedOut(q))
    <3>1. (Exchanged(p)' <=> Exchanged(p)) /\ (LoggedOut(p)' <=> LoggedOut(p))
      BY <1>3, <1>8 DEF Exchanged
    <3> QED
      BY <1>3, <3>1 DEF Exchanged, LoggedOut, Movers
  <2>5. ASSUME NEW q \in Movers' PROVE MoverFits(q)'
    <3>1. q \in Calls /\ q \in Movers /\ MoverFits(q)
      BY <2>1, <2>2, <2>5 DEF Movers, MoversFit
    <3>2. /\ call'[q].kind = call[q].kind /\ call'[q].result = call[q].result
          /\ call'[q].step \in {"sent", "asking"} =>
                /\ call[q].step \in {"sent", "asking"}
                /\ call'[q].cookies = call[q].cookies /\ call'[q].body = call[q].body
      BY <1>3, <3>1
    <3>3. fate'.lost = {} => fate.lost = {}
      OBVIOUS
    <3>4. Consumed(q)' <=> Consumed(q)
      BY <2>4, <3>1 DEF Consumed
    <3> QED
      BY <2>1, <2>4, <3>1, <3>2, <3>3, <3>4 DEF MoverFits
  <2>6. LiveIsHeld'
    <3>1. OnItsWay \subseteq OnItsWay'
      BY <1>3 DEF OnItsWay
    <3> QED
      BY <2>1, <3>1 DEF LiveIsHeld
  <2>7. HeldIsLive'
    <3>1. fate'.lost = {} => fate.lost = {}
      OBVIOUS
    <3> QED
      BY <2>1, <2>2, <2>4, <3>1 DEF HeldIsLive, Consumed
  <2> QED
    BY <2>1, <2>3, <2>5, <2>6, <2>7 DEF MoversFit
<1>9. CallsFit' /\ CsrfsFit'
  BY <1>5, <1>6 DEF CallsFit, CsrfsFit
<1> QED
  BY <1>2, <1>7, <1>8, <1>9 DEF GateInductive

-----------------------------------------------------------------------------
(* AuthGateway: the steps of the backend *)

\* What an answer forgets.
LEMMA AnswersAreCalls ==
    ASSUME GateTypeOK, NEW p \in Calls, NEW answer \in Answer, Respond(p, answer)
    PROVE  \E c \in Call :
              /\ call' = [call EXCEPT ![p] = c]
              /\ c.step = "answered" /\ c.kind = call[p].kind /\ c.result = call[p].result
              /\ c.answer = answer
<1>1. PICK k, r : k = call[p].kind /\ r = call[p].result
  OBVIOUS
<1>2. k \in Kinds /\ r \in Result
  BY <1>1, CallTyped
<1>3. NoTokens \in Tokens /\ 0 \in 0 .. MaxIssues
  BY AuthGatewayAssumption DEF NoTokens, Tokens
<1>4. PICK c : c = [step |-> "answered", kind |-> k, cookies |-> NoTokens,
                    body |-> NoTokens, header |-> 0, result |-> r, answer |-> answer]
  OBVIOUS
<1>5. c \in Call
  BY <1>2, <1>3, <1>4 DEF Call
<1>6. c = Bare("answered", k, r, answer)
  BY <1>4 DEF Bare
<1>7. call' = [call EXCEPT ![p] = c]
  BY <1>1, <1>6 DEF Respond
<1> QED
  BY <1>1, <1>4, <1>5, <1>7

\* A refusal that the gateway words itself.
LEMMA PlainIsAnswer ==
    ASSUME NEW status \in {200, 400, 401, 403, 429, 500}, NEW message \in Messages
    PROVE  /\ Plain(status, message) \in Answer /\ NoAnswer \in Answer
           /\ Plain(status, message).cookies = {} /\ NoAnswer.cookies = {}
           /\ Plain(status, message).message = message
           /\ Plain(status, message).status = status
           /\ Plain(status, message).body = NoTokens
           /\ NoAnswer.message = "ok"
<1>1. NoTokens \in Tokens
  BY AuthGatewayAssumption DEF NoTokens, Tokens
<1>2. "ok" \in Messages /\ 200 \in {200, 400, 401, 403, 429, 500}
  BY DEF Messages
<1>3. Plain(status, message) = [status |-> status, message |-> message,
                                cookies |-> {}, body |-> NoTokens]
  BY DEF Plain
<1>4. Plain(status, message) \in Answer /\ NoAnswer \in Answer
  BY <1>1, <1>2, <1>3 DEF Answer, NoAnswer
<1> QED
  BY <1>3, <1>4 DEF NoAnswer

\* An answer without cookies ends a request that holds no pair, or whose pair is lost with
\* it; and that is not a logout which has used up its session.
LEMMA Refuses ==
    ASSUME GateInductive, NEW p \in Calls, NEW answer \in Answer, Respond(p, answer),
           call[p].step # "idle", answer.cookies = {},
           answer.message = "ok" => call[p].kind \notin MovesTokens,
           UNCHANGED <<config, jar, memory, service>>,
           fate' \in Fate, fate.lost \subseteq fate'.lost,
           fate.crossed => fate'.crossed, fate.halved => fate'.halved,
           fate'.ended = fate.ended, fate'.left = fate.left,
           call[p].result.issue # 0 => call[p].result.issue \in fate'.lost,
           answer.message # "logoutFailed",
           ~fate'.crossed => ~LoggedOut(p)
    PROVE  GateInductive'
<1>1. GateTypeOK /\ CallFits(p)
  BY DEF GateInductive, CallsFit
<1>2. PICK c \in Call :
          /\ call' = [call EXCEPT ![p] = c]
          /\ c.step = "answered" /\ c.kind = call[p].kind /\ c.result = call[p].result
          /\ c.answer = answer
  BY <1>1, AnswersAreCalls
<1>3. call'[p] = c
  BY <1>1, <1>2 DEF GateTypeOK
<1>4. Answered(p)'
  BY <1>2, <1>3 DEF Answered
<1>5. ~LoggedOut(p)'
  BY <1>2, <1>3 DEF LoggedOut, MovesTokens
<1>6. CallFits(p)'
  BY <1>1, <1>2, <1>3, <1>4, <1>5 DEF CallFits
<1> QED
  BY <1>2, <1>5, <1>6, CallMoves

\* A request that auth-service has not heard of yet is refused.
LEMMA RefusesEarly ==
    ASSUME GateInductive, NEW p \in Calls, NEW answer \in Answer, Respond(p, answer),
           call[p].step = "sent", answer.cookies = {}, answer.message # "logoutFailed",
           answer.message = "ok" => call[p].kind \notin MovesTokens,
           UNCHANGED <<config, jar, memory, service, fate>>
    PROVE  GateInductive'
<1>1. CallFits(p) /\ fate \in Fate
  BY DEF GateInductive, CallsFit, GateTypeOK
<1>2. call[p].result.issue = 0 /\ ~LoggedOut(p)
  BY <1>1 DEF CallFits, LoggedOut
<1> QED
  BY <1>1, <1>2, Refuses

\* The guards and the controller refuse before auth-service is asked.
LEMMA EarlyAnswers ==
    ASSUME GateInductive, NEW p \in Calls,
           Throttle(p) \/ CsrfGuard(p) \/ JwtAuthGuard(p) \/ Serve(p) \/ NoToken(p)
    PROVE  GateInductive'
<1>1. /\ {"throttled", "csrf", "unauthorized", "noToken", "ok"} \subseteq Messages
      /\ {429, 403, 401, 200} \subseteq {200, 400, 401, 403, 429, 500}
  BY DEF Messages
<1>2. CASE Throttle(p)
  BY <1>1, <1>2, PlainIsAnswer, RefusesEarly DEF Throttle
<1>3. CASE CsrfGuard(p)
  BY <1>1, <1>3, PlainIsAnswer, RefusesEarly DEF CsrfGuard
<1>4. CASE JwtAuthGuard(p)
  BY <1>1, <1>4, PlainIsAnswer, RefusesEarly DEF JwtAuthGuard
<1>5. CASE Serve(p)
  BY <1>1, <1>5, PlainIsAnswer, RefusesEarly DEF Serve, MovesTokens
<1>6. CASE NoToken(p)
  BY <1>1, <1>6, PlainIsAnswer, RefusesEarly DEF NoToken
<1> QED
  BY <1>2, <1>3, <1>4, <1>5, <1>6

\* A handler asks auth-service.
LEMMA AsksKeep ==
    ASSUME GateInductive, NEW p \in Calls, Ask(p)
    PROVE  GateInductive'
<1>1. GateTypeOK /\ CallFits(p) /\ fate \in Fate /\ call[p] \in Call
  BY CallTyped DEF GateInductive, CallsFit, GateTypeOK
<1>2. PICK c : c = [call[p] EXCEPT !.step = "asking"]
  OBVIOUS
<1>3. /\ c \in Call /\ c.step = "asking" /\ c.kind = call[p].kind /\ c.result = call[p].result
      /\ c.cookies = call[p].cookies /\ c.body = call[p].body
  BY <1>1, <1>2 DEF Call
<1>4. call' = [call EXCEPT ![p] = c] /\ call[p].step = "sent"
  BY <1>2 DEF Ask, Step
<1>5. call'[p] = c
  BY <1>1, <1>4 DEF GateTypeOK
<1>6. LoggedOut(p)' <=> LoggedOut(p)
  BY <1>3, <1>4, <1>5 DEF LoggedOut
<1>7. CallFits(p)'
  BY <1>1, <1>3, <1>4, <1>5 DEF CallFits, RefreshToken, Ask, LoggedOut
<1> QED
  BY <1>1, <1>3, <1>4, <1>6, <1>7, CallMoves DEF Ask

\* A call to auth-service that fails loses what it was told.
LEMMA FailuresKeep ==
    ASSUME GateInductive, NEW p \in Calls, GrpcFail(p)
    PROVE  GateInductive'
<1>1. GateTypeOK /\ CallFits(p) /\ fate \in Fate /\ call[p].result.issue \in 0 .. MaxIssues
  BY CallTyped DEF GateInductive, CallsFit, GateTypeOK
<1>2. /\ "internal" \in Messages /\ 500 \in {200, 400, 401, 403, 429, 500}
  BY DEF Messages
<1>3. PICK n : n = call[p].result.issue
  OBVIOUS
<1>4. /\ fate'.lost = fate.lost \cup ({n} \ {0})
      /\ fate'.ended = fate.ended /\ fate'.halved = fate.halved /\ fate'.left = fate.left
      /\ DOMAIN fate' = DOMAIN fate
  BY <1>1, <1>3 DEF GrpcFail, Fate
<1>5. /\ fate'.crossed <=> fate.crossed \/ call[p].kind = "logout"
      /\ fate'.crossed \in BOOLEAN
  BY <1>1 DEF GrpcFail, Fate
<1>6. fate'.lost \in SUBSET Issues
  BY <1>1, <1>3, <1>4, AuthGatewayAssumption DEF Fate, Issues
<1>7. fate' \in Fate
  <2>1. fate' = [lost |-> fate'.lost, crossed |-> fate'.crossed, ended |-> fate'.ended,
                 halved |-> fate'.halved, left |-> fate'.left]
    BY <1>1 DEF GrpcFail, Fate
  <2> QED
    BY <1>1, <1>4, <1>5, <1>6, <2>1 DEF Fate
<1>8. n # 0 => n \in fate'.lost
  BY <1>4
<1>9. ~fate'.crossed => ~LoggedOut(p)
  BY <1>5 DEF LoggedOut
<1>10. PICK answer \in Answer : /\ Respond(p, answer) /\ answer.cookies = {}
                               /\ answer.message = "internal"
  BY <1>2, PlainIsAnswer DEF GrpcFail
<1>11. call[p].step # "idle" /\ UNCHANGED <<config, jar, memory, service>>
  BY DEF GrpcFail
<1> QED
  BY <1>3, <1>4, <1>5, <1>7, <1>8, <1>9, <1>10, <1>11, Refuses

-----------------------------------------------------------------------------
(* AuthGateway: the handlers, after the answer of auth-service *)

\* An answer that does what an answer may do ends a request.
LEMMA Completes ==
    ASSUME GateInductive, NEW p \in Calls, NEW answer \in Answer, Respond(p, answer),
           call[p].step # "idle", Answered(p)',
           UNCHANGED <<config, jar, memory, service>>,
           fate' \in Fate, fate.lost \subseteq fate'.lost,
           fate.crossed => fate'.crossed, fate.halved => fate'.halved,
           fate'.ended = fate.ended, fate'.left = fate.left,
           call[p].kind = "logout" => (LoggedOut(p)' <=> LoggedOut(p))
    PROVE  GateInductive'
<1>1. GateTypeOK /\ CallFits(p)
  BY DEF GateInductive, CallsFit
<1>2. PICK c \in Call :
          /\ call' = [call EXCEPT ![p] = c]
          /\ c.step = "answered" /\ c.kind = call[p].kind /\ c.result = call[p].result
          /\ c.answer = answer
  BY <1>1, AnswersAreCalls
<1>3. call'[p] = c
  BY <1>1, <1>2 DEF GateTypeOK
<1>4. LoggedOut(p)' <=> LoggedOut(p)
  BY <1>2, <1>3 DEF LoggedOut
<1>5. CallFits(p)'
  BY <1>1, <1>2, <1>3, <1>4 DEF CallFits
<1> QED
  BY <1>2, <1>4, <1>5, CallMoves

\* The browser drops no cookie when clearAuthCookies names another path than theirs.
LEMMA ClearingMisses == ClearCookies = {}
BY DEF ClearCookies, SetPath, ClearPath

\* Cookies of a pair are cookies.
LEMMA CookiesAreAnswers ==
    ASSUME GateTypeOK, NEW n \in 0 .. MaxIssues
    PROVE  /\ AuthCookies(n) \in {{}} \cup {{t} : t \in Tokens}
           /\ InBody(n) \in 0 .. MaxIssues
<1>1. 0 \in 0 .. MaxIssues
  BY AuthGatewayAssumption
<1>2. \A m \in 0 .. MaxIssues : [access |-> n, refresh |-> n, csrf |-> m] \in Tokens
  BY DEF Tokens
<1>3. (IF config.csrf THEN n ELSE 0) \in 0 .. MaxIssues
  BY <1>1
<1>4. AuthCookies(n) \in {{}} \cup {{t} : t \in Tokens}
  BY <1>2, <1>3 DEF AuthCookies
<1> QED
  BY <1>1, <1>4 DEF InBody

\* A login is refused, or sets its cookies and goes on to read the profile.
LEMMA LoginKeeps ==
    ASSUME GateInductive, NEW p \in Calls, Login(p)
    PROVE  GateInductive'
<1>1. /\ GateTypeOK /\ CallFits(p) /\ fate \in Fate /\ call[p] \in Call
      /\ call[p].result.issue \in 0 .. MaxIssues /\ call[p].answer \in Answer
      /\ call[p].step = "told" /\ call[p].kind = "login"
      /\ UNCHANGED <<config, jar, memory, service, fate>>
  BY CallTyped DEF GateInductive, CallsFit, GateTypeOK, Login
<1>2. CASE call[p].result.reason # ""
  <2>1. call[p].result.issue = 0
    BY <1>1, <1>2 DEF CallFits
  <2>2. "refused" \in Messages /\ LoginStatus(call[p].result.reason) \in {401, 403}
    BY DEF Messages, LoginStatus
  <2>3. PICK status \in {200, 400, 401, 403, 429, 500} : Respond(p, Plain(status, "refused"))
    <3>1. Respond(p, Plain(LoginStatus(call[p].result.reason), "refused"))
      BY <1>2, Zenon DEF Login
    <3> QED
      BY <2>2, <3>1
  <2>4. ~LoggedOut(p)
    BY <1>1 DEF LoggedOut
  <2>5. PICK answer \in Answer : /\ Respond(p, answer) /\ answer.cookies = {}
                                /\ answer.message = "refused"
    BY <2>2, <2>3, PlainIsAnswer
  <2> QED
    BY <1>1, <2>1, <2>4, <2>5, Refuses
<1>3. CASE call[p].result.reason = ""
  <2>1. PICK n : n = call[p].result.issue
    OBVIOUS
  <2>2. n # 0 /\ n \in 0 .. MaxIssues
    BY <1>1, <1>3, <2>1 DEF CallFits
  <2>3. PICK a : a = [NoAnswer EXCEPT !.cookies = AuthCookies(n)]
    OBVIOUS
  <2>4. a \in Answer /\ a.cookies = AuthCookies(n)
    <3>1. NoAnswer \in Answer
      BY AuthGatewayAssumption DEF NoAnswer, Answer, Messages, NoTokens, Tokens
    <3> QED
      BY <1>1, <2>2, <2>3, <3>1, CookiesAreAnswers DEF Answer
  <2>5. PICK c : c = [call[p] EXCEPT !.step = "profile", !.answer = a]
    OBVIOUS
  <2>6. /\ c \in Call /\ c.step = "profile" /\ c.kind = call[p].kind
        /\ c.result = call[p].result /\ c.answer = a
    BY <1>1, <2>4, <2>5 DEF Call
  <2>7. call' = [call EXCEPT ![p] = c]
    <3>1. call' = [call EXCEPT ![p] = [@ EXCEPT !.step = "profile",
              !.answer = [NoAnswer EXCEPT !.cookies = AuthCookies(call[p].result.issue)]]]
      BY <1>3, Zenon DEF Login
    <3>2. call' = [call EXCEPT ![p] = [@ EXCEPT !.step = "profile", !.answer = a]]
      BY <2>1, <2>3, <3>1
    <3> QED
      BY <2>5, <3>2
  <2>8. call'[p] = c
    BY <1>1, <2>7 DEF GateTypeOK
  <2>9. CallFits(p)'
    BY <1>1, <2>1, <2>2, <2>4, <2>6, <2>8 DEF CallFits, AuthCookies, LoggedOut
  <2>10. ~LoggedOut(p)' /\ ~LoggedOut(p)
    BY <1>1, <2>6, <2>8 DEF LoggedOut
  <2> QED
    BY <1>1, <2>6, <2>7, <2>9, <2>10, CallMoves
<1> QED
  BY <1>2, <1>3

\* The profile is read, or the error carries the cookies.
LEMMA ProfileKeeps ==
    ASSUME GateInductive, NEW p \in Calls, Profile(p)
    PROVE  GateInductive'
<1>1. /\ GateTypeOK /\ CallFits(p) /\ fate \in Fate
      /\ call[p].answer.cookies \in {{}} \cup {{t} : t \in Tokens}
      /\ call[p].step = "profile"
      /\ UNCHANGED <<config, jar, memory, service>>
  BY CallTyped DEF GateInductive, CallsFit, GateTypeOK, Profile
<1>2. PICK n : n = call[p].result.issue
  OBVIOUS
<1>3. /\ n \in 0 .. MaxIssues /\ n # 0 /\ call[p].kind = "login"
      /\ call[p].answer.cookies = AuthCookies(n)
  BY <1>1, <1>2, CallTyped DEF CallFits
<1>4. InBody(n) \in 0 .. MaxIssues /\ 0 \in 0 .. MaxIssues
  BY <1>1, <1>3, CookiesAreAnswers, AuthGatewayAssumption
<1>5. PICK k \in {0, n} :
          /\ k = IF config.csrf THEN InBody(n) ELSE 0
          /\ config.csrf /\ config.mode # "COOKIES_ONLY" => k = n
  BY DEF InBody
<1>6. PICK b : b = [access |-> InBody(n), refresh |-> InBody(n), csrf |-> k]
  OBVIOUS
<1>7. b \in Tokens
  BY <1>3, <1>4, <1>5, <1>6 DEF Tokens
<1>8. call[p].kind # "logout" /\ AuthCookies(n)' = AuthCookies(n) /\ InBody(n)' = InBody(n)
  BY <1>1, <1>3 DEF AuthCookies, InBody
<1>9. ASSUME NEW answer \in Answer, Respond(p, answer)
      PROVE  /\ call'[p].kind = "login" /\ call'[p].result.issue = n
             /\ call'[p].answer = answer
  BY <1>1, <1>2, <1>3, <1>9, AnswersAreCalls DEF GateTypeOK
<1>10. CASE /\ Respond(p, [status |-> 200, message |-> "ok",
                           cookies |-> call[p].answer.cookies, body |-> b])
            /\ UNCHANGED fate
  <2>1. PICK answer : answer = [status |-> 200, message |-> "ok",
                                cookies |-> call[p].answer.cookies, body |-> b]
    OBVIOUS
  <2>2. answer \in Answer
    BY <1>1, <1>7, <2>1 DEF Answer, Messages
  <2>3. Respond(p, answer)
    BY <1>10, <2>1
  <2>4. /\ call'[p].kind = "login" /\ call'[p].result.issue = n
        /\ call'[p].answer.message = "ok" /\ call'[p].answer.cookies = AuthCookies(n)'
        /\ call'[p].answer.body.refresh = InBody(n)'
        /\ call'[p].answer.body.csrf \in {0, n}
        /\ config'.csrf /\ config'.mode # "COOKIES_ONLY" => call'[p].answer.body.csrf = n
    BY <1>1, <1>3, <1>5, <1>6, <1>8, <1>9, <2>1, <2>2, <2>3
  <2>5. Answered(p)'
    BY <1>3, <2>4 DEF Answered, AuthCookies, InBody
  <2> QED
    BY <1>1, <1>8, <1>10, <2>2, <2>3, <2>5, Completes
<1>11. CASE /\ Respond(p, [Plain(500, "internal") EXCEPT !.cookies = call[p].answer.cookies])
            /\ fate' = [fate EXCEPT !.halved = TRUE,
                            !.lost = IF call[p].answer.cookies = {} THEN @ \cup {n} ELSE @]
  <2>1. PICK answer : answer = [Plain(500, "internal") EXCEPT
                                    !.cookies = call[p].answer.cookies]
    OBVIOUS
  <2>2. /\ answer \in Answer /\ answer.cookies = call[p].answer.cookies
        /\ answer.message = "internal"
    <3>1. Plain(500, "internal") \in Answer /\ Plain(500, "internal").message = "internal"
      BY PlainIsAnswer DEF Messages
    <3> QED
      BY <1>1, <2>1, <3>1 DEF Answer
  <2>3. Respond(p, answer)
    BY <1>11, <2>1
  <2>4. /\ fate' \in Fate /\ fate.lost \subseteq fate'.lost /\ fate'.halved
        /\ fate'.crossed = fate.crossed /\ fate'.ended = fate.ended
        /\ fate'.left = fate.left
        /\ call[p].answer.cookies = {} => n \in fate'.lost
    <3>1. PICK l : l = IF call[p].answer.cookies = {} THEN fate.lost \cup {n} ELSE fate.lost
      OBVIOUS
    <3>2. l \in SUBSET Issues /\ fate.lost \subseteq l
          /\ (call[p].answer.cookies = {} => n \in l)
      BY <1>1, <1>3, <3>1, AuthGatewayAssumption DEF Fate, Issues
    <3>3. fate' = [fate EXCEPT !.halved = TRUE, !.lost = l]
      BY <1>11, <3>1
    <3> QED
      BY <1>1, <3>2, <3>3 DEF Fate
  <2>5. AuthCookies(n) = {} <=> config.mode = "RESPONSE_ONLY"
    BY DEF AuthCookies
  <2>6. Answered(p)'
    BY <1>1, <1>3, <1>8, <1>9, <2>2, <2>3, <2>4, <2>5 DEF Answered, AuthCookies
  <2> QED
    BY <1>1, <1>8, <2>2, <2>3, <2>4, <2>6, Completes
<1> QED
  BY <1>2, <1>5, <1>6, <1>10, <1>11 DEF Profile

\* A pair that was issued again is answered in cookies, the body, or both.
LEMMA RefreshKeeps ==
    ASSUME GateInductive, NEW p \in Calls, Refresh(p)
    PROVE  GateInductive'
<1>1. /\ GateTypeOK /\ CallFits(p) /\ fate \in Fate
      /\ call[p].step = "told" /\ call[p].kind = "refresh"
      /\ UNCHANGED <<config, jar, memory, service, fate>>
  BY DEF GateInductive, CallsFit, GateTypeOK, Refresh
<1>2. CASE call[p].result.reason # ""
  <2>1. call[p].result.issue = 0
    BY <1>1, <1>2 DEF CallFits
  <2>2. /\ {"refused", "tokenRevoked"} \subseteq Messages
        /\ {401, 403} \subseteq {200, 400, 401, 403, 429, 500}
    BY DEF Messages
  <2>3. PICK status \in {401, 403}, message \in {"refused", "tokenRevoked"} :
            Respond(p, Plain(status, message))
    BY <1>2, ZenonT(40) DEF Refresh, RefreshStatus
  <2>4. /\ status \in {200, 400, 401, 403, 429, 500} /\ message \in Messages
        /\ message \notin {"ok", "logoutFailed"}
    BY <2>2
  <2>5. ~LoggedOut(p)
    BY <1>1 DEF LoggedOut
  <2>6. PICK answer \in Answer : /\ Respond(p, answer) /\ answer.cookies = {}
                                /\ answer.message \notin {"ok", "logoutFailed"}
    BY <2>3, <2>4, PlainIsAnswer
  <2> QED
    BY <1>1, <2>1, <2>5, <2>6, Refuses
<1>3. CASE call[p].result.reason = ""
  <2>1. PICK n : n = call[p].result.issue
    OBVIOUS
  <2>2. n # 0 /\ n \in 0 .. MaxIssues
    BY <1>1, <1>3, <2>1, CallTyped DEF CallFits
  <2>3. PICK b : b = [access |-> InBody(n), refresh |-> InBody(n), csrf |-> n]
    OBVIOUS
  <2>4. b \in Tokens
    BY <1>1, <2>2, <2>3, CookiesAreAnswers DEF Tokens
  <2>5. PICK answer : answer = [status |-> 200, message |-> "ok", cookies |-> AuthCookies(n),
                                body |-> b]
    OBVIOUS
  <2>6. answer \in Answer
    BY <1>1, <2>2, <2>4, <2>5, CookiesAreAnswers DEF Answer, Messages
  <2>7. Respond(p, answer)
    BY <1>3, <2>1, <2>3, <2>5 DEF Refresh
  <2>8. /\ call'[p].kind = "refresh" /\ call'[p].result.issue = n /\ call'[p].answer = answer
    BY <1>1, <2>1, <2>6, <2>7, AnswersAreCalls DEF GateTypeOK
  <2>9. AuthCookies(n)' = AuthCookies(n) /\ InBody(n)' = InBody(n)
    BY <1>1 DEF AuthCookies, InBody
  <2>10. Answered(p)'
    BY <2>2, <2>3, <2>5, <2>8, <2>9 DEF Answered, AuthCookies, InBody
  <2> QED
    BY <1>1, <2>6, <2>7, <2>10, Completes
<1> QED
  BY <1>2, <1>3

\* A logout answers whether auth-service took the session away.
LEMMA LogoutKeeps ==
    ASSUME GateInductive, NEW p \in Calls, Logout(p)
    PROVE  GateInductive'
<1>1. /\ GateTypeOK /\ CallFits(p) /\ fate \in Fate
      /\ call[p].step = "told" /\ call[p].kind = "logout"
      /\ UNCHANGED <<config, jar, memory, service, fate>>
  BY DEF GateInductive, CallsFit, GateTypeOK, Logout
<1>2. PICK m \in {"ok", "logoutFailed"} :
          m = IF call[p].result.reason = "" THEN "ok" ELSE "logoutFailed"
  OBVIOUS
<1>3. PICK answer : answer = [Plain(200, m) EXCEPT !.cookies = ClearCookies]
  OBVIOUS
<1>4. answer \in Answer /\ answer.cookies = ClearCookies /\ answer.message = m
  <2>1. m \in Messages /\ ClearCookies \in {{}} \cup {{t} : t \in Tokens}
    BY ClearingMisses DEF Messages
  <2>2. Plain(200, m) \in Answer /\ Plain(200, m).message = m
    BY <2>1, PlainIsAnswer
  <2> QED
    BY <1>3, <2>1, <2>2 DEF Answer
<1>5. Respond(p, answer)
  BY <1>2, <1>3 DEF Logout
<1>6. /\ call'[p].kind = "logout" /\ call'[p].result = call[p].result
      /\ call'[p].answer = answer /\ call'[p].step = "answered"
  BY <1>1, <1>4, <1>5, AnswersAreCalls DEF GateTypeOK
<1>7. Answered(p)'
  BY <1>1, <1>2, <1>4, <1>6, ClearingMisses DEF Answered, CallFits
<1>8. LoggedOut(p)' /\ LoggedOut(p)
  BY <1>1, <1>2, <1>4, <1>6 DEF LoggedOut
<1> QED
  BY <1>1, <1>4, <1>5, <1>7, <1>8, Completes

\* The handlers of passwords answer without cookies.
LEMMA PasswordHandlersKeep ==
    ASSUME GateInductive, NEW p \in Calls, ChangePassword(p) \/ ForgotPassword(p)
    PROVE  GateInductive'
<1>1. /\ GateTypeOK /\ CallFits(p) /\ fate \in Fate
      /\ call[p].step = "told" /\ call[p].kind \in {"change", "forgot"}
      /\ UNCHANGED <<config, jar, memory, service, fate>>
  BY DEF GateInductive, CallsFit, GateTypeOK, ChangePassword, ForgotPassword
<1>2. call[p].result.issue = 0 /\ call[p].kind \notin MovesTokens /\ call[p].kind # "logout"
  BY <1>1 DEF CallFits, MovesTokens
<1>3. PICK answer \in Answer : /\ Respond(p, answer) /\ answer.cookies = {}
                              /\ answer.message # "logoutFailed"
  <2>1. "refused" \in Messages /\ "ok" \in Messages
    BY DEF Messages
  <2>2. \/ Respond(p, NoAnswer)
        \/ \E status \in {400, 401} : Respond(p, Plain(status, "refused"))
    BY DEF ChangePassword, ForgotPassword, ChangeStatus
  <2> QED
    BY <2>1, <2>2, PlainIsAnswer
<1>4. ~LoggedOut(p)
  BY <1>1 DEF LoggedOut
<1> QED
  BY <1>1, <1>2, <1>3, <1>4, Refuses

-----------------------------------------------------------------------------
(* AuthGateway: the steps of auth-service *)

\* The least that the sets of the model contain.
LEMMA LeastFits ==
    /\ MaxIssues \in Nat /\ 0 \in 0 .. MaxIssues
    /\ NoTokens \in Tokens /\ NoAnswer \in Answer
    /\ "" \in Reasons /\ "revoked" \in Reasons /\ "failed" \in Reasons
<1>1. MaxIssues \in Nat /\ 0 \in 0 .. MaxIssues
  BY AuthGatewayAssumption
<1>2. NoTokens \in Tokens
  BY <1>1 DEF NoTokens, Tokens
<1>3. "ok" \in Messages
  BY DEF Messages
<1>4. NoAnswer \in Answer
  BY <1>2, <1>3 DEF NoAnswer, Answer
<1>5. "" \in Reasons /\ "revoked" \in Reasons /\ "failed" \in Reasons
  BY DEF Reasons
<1> QED
  BY <1>1, <1>2, <1>4, <1>5

\* Pairs are numbered in the order of their issue.
LEMMA IssuesOrdered ==
    /\ \A a \in 0 .. MaxIssues : a \in Nat /\ 0 <= a /\ a <= a
    /\ \A a, b, c \in 0 .. MaxIssues : a <= b /\ b <= c => a <= c
    /\ \A a \in 0 .. MaxIssues : a < MaxIssues =>
          a + 1 \in 0 .. MaxIssues /\ a + 1 \in Issues /\ a + 1 # 0 /\ a <= a + 1
          /\ \A b \in 0 .. MaxIssues : b <= a => b # a + 1
    /\ 0 \notin Issues
    /\ \A a \in 0 .. MaxIssues : a # 0 => a \in Issues
BY AuthGatewayAssumption DEF Issues

\* A request that was told something is a request.
LEMMA TellsARequest ==
    ASSUME GateTypeOK, NEW p \in Calls, NEW n \in 0 .. MaxIssues,
           NEW reason \in Reasons,
           Tell(p, reason, n)
    PROVE  /\ call' \in [Calls -> Call]
           /\ call'[p].step = "told" /\ call'[p].kind = call[p].kind
           /\ call'[p].result.reason = reason /\ call'[p].result.issue = n
           /\ \A q \in Calls : q # p => call'[q] = call[q]
<1>1. PICK k, r : k = call[p].kind /\ r = [reason |-> reason, issue |-> n]
  OBVIOUS
<1>2. k \in Kinds /\ r \in Result /\ r.reason = reason /\ r.issue = n
  BY <1>1, CallTyped DEF Result
<1>3. NoTokens \in Tokens /\ NoAnswer \in Answer /\ 0 \in 0 .. MaxIssues
  BY LeastFits
<1>5. PICK c : c = Bare("told", k, r, NoAnswer)
  OBVIOUS
<1>6. c \in Call /\ c.step = "told" /\ c.kind = k /\ c.result = r
  BY <1>2, <1>3, <1>5 DEF Call, Bare
<1>7. call' = [call EXCEPT ![p] = c]
  BY <1>1, <1>5 DEF Tell
<1> QED
  BY <1>1, <1>2, <1>6, <1>7 DEF GateTypeOK

\* What auth-service tells a request, whatever it does to its sessions, fits the request and
\* leaves the browser and the other requests alone.
LEMMA TellingFits ==
    ASSUME GateInductive, NEW p \in Calls, NEW n \in 0 .. MaxIssues,
           NEW reason \in Reasons,
           Tell(p, reason, n),
           service' \in [issued : 0 .. MaxIssues, live : SUBSET Issues],
           service.issued <= service'.issued, n <= service'.issued,
           n # 0 <=> call[p].kind \in {"login", "refresh"} /\ reason = "",
           fate' \in Fate, fate'.lost = fate.lost, fate'.crossed = fate.crossed,
           fate'.halved = fate.halved, fate.left \subseteq fate'.left,
           call[p].kind = "logout" => fate'.left # {}
    PROVE  /\ GateTypeOK' /\ CallsFit' /\ BrowserFits' /\ CsrfsFit'
           /\ Held' = Held /\ Movers' = Movers
           /\ \A q \in Movers : q # p => /\ Exchanged(q)' <=> Exchanged(q)
                                         /\ LoggedOut(q)' <=> LoggedOut(q)
           /\ OnItsWay \ {0} \subseteq OnItsWay' /\ n \in OnItsWay'
<1>1. /\ GateTypeOK /\ BrowserFits /\ \A q \in Calls : CallFits(q) /\ CsrfFits(q)
      /\ call[p].step = "asking" /\ call[p].result.issue = 0
      /\ UNCHANGED <<config, jar, memory>>
  BY DEF GateInductive, CallsFit, CsrfsFit, Tell, CallFits
<1>2. /\ call' \in [Calls -> Call]
      /\ call'[p].step = "told" /\ call'[p].kind = call[p].kind
      /\ call'[p].result.reason = reason /\ call'[p].result.issue = n
      /\ \A q \in Calls : q # p => call'[q] = call[q]
  BY <1>1, TellsARequest
<1>3. GateTypeOK'
  BY <1>1, <1>2 DEF GateTypeOK
<1>4. \A q \in Calls : q # p => CallFits(q)' /\ CsrfFits(q)'
  BY <1>1, <1>2, <1>3, OthersFit
<1>5. CallFits(p)' /\ CsrfFits(p)'
  <2>1. CallFits(p)'
    BY <1>2 DEF CallFits, LoggedOut
  <2>2. CsrfFits(p)'
    BY <1>2 DEF CsrfFits
  <2> QED
    BY <2>1, <2>2
<1>6. BrowserFits'
  <2>1. /\ jar.refresh \in 0 .. MaxIssues /\ memory.refresh \in 0 .. MaxIssues
        /\ service.issued \in 0 .. MaxIssues /\ service'.issued \in 0 .. MaxIssues
    BY <1>1 DEF GateTypeOK, Tokens
  <2>2. jar.refresh <= service'.issued /\ memory.refresh <= service'.issued
    <3>1. jar.refresh <= service.issued /\ memory.refresh <= service.issued
      BY <1>1 DEF BrowserFits
    <3> QED
      BY <2>1, <3>1, IssuesOrdered, Zenon
  <2> QED
    BY <1>1, <2>2 DEF BrowserFits
<1>7. Held' = Held /\ Movers' = Movers
  <2>1. Movers' = Movers
    BY <1>1, <1>2 DEF Movers
  <2> QED
    BY <1>1, <2>1 DEF Held
<1>8. \A q \in Movers : q # p => /\ Exchanged(q)' <=> Exchanged(q)
                                 /\ LoggedOut(q)' <=> LoggedOut(q)
  BY <1>2 DEF Exchanged, LoggedOut, Movers
<1>9. OnItsWay \ {0} \subseteq OnItsWay' /\ n \in OnItsWay'
  <2>1. n \in OnItsWay'
    BY <1>2 DEF OnItsWay
  <2>2. ASSUME NEW m \in OnItsWay \ {0} PROVE m \in OnItsWay'
    <3>1. PICK q \in Calls : call[q].step # "idle" /\ call[q].result.issue = m
      BY <2>2 DEF OnItsWay
    <3>2. CASE q # p
      BY <1>2, <3>1, <3>2 DEF OnItsWay
    <3>3. CASE q = p
      <4>1. m = 0
        BY <1>1, <3>1, <3>3
      <4> QED
        BY <4>1
    <3> QED
      BY <3>2, <3>3
  <2> QED
    BY <2>1, <2>2
<1> QED
  BY <1>3, <1>4, <1>5, <1>6, <1>7, <1>8, <1>9 DEF CallsFit, CsrfsFit

\* The only request that moves tokens, when one is under way.
LEMMA OnlyMover ==
    ASSUME GateInductive, ~fate.crossed, NEW p \in Movers
    PROVE  /\ Movers = {p} /\ MoverFits(p)
           /\ OneSession /\ LiveIsHeld /\ HeldIsLive
<1>1. OneMover /\ MoversFit /\ OneSession /\ LiveIsHeld /\ HeldIsLive
  BY DEF GateInductive
<1> QED
  BY <1>1 DEF OneMover, MoversFit

\* The refresh token that such a request carries is the only one of the browser that
\* auth-service may still accept.
LEMMA HeldIsCarried ==
    ASSUME GateTypeOK, OneSession, NEW p \in Calls, MoverFits(p), CallFits(p),
           call[p].step = "asking", call[p].kind \in {"refresh", "logout"}
    PROVE  /\ Held \cap service.live \subseteq {RefreshToken(p)}
           /\ RefreshToken(p) # 0
           /\ jar.refresh \in {0, RefreshToken(p)}
           /\ jar.refresh = 0 => memory.refresh = RefreshToken(p)
<1>1. call[p].cookies = jar /\ call[p].body \in {NoTokens, memory} /\ NoTokens.refresh = 0
  BY DEF MoverFits, NoTokens
<1>2. RefreshToken(p) # 0
  BY DEF CallFits
<1>3. /\ jar.refresh # 0 => RefreshToken(p) = jar.refresh
      /\ jar.refresh = 0 => RefreshToken(p) = memory.refresh
  BY <1>1, <1>2 DEF RefreshToken
<1> QED
  BY <1>2, <1>3 DEF OneSession, Held

\* Nothing is issued, and no session ends.
LEMMA PlainTellKeeps ==
    ASSUME GateInductive, NEW p \in Calls,
           NEW reason \in Reasons,
           Tell(p, reason, 0), UNCHANGED <<service, fate>>,
           call[p].kind # "logout",
           reason = "" => call[p].kind \notin {"login", "refresh"}
    PROVE  GateInductive'
<1>1. /\ GateTypeOK /\ CallFits(p) /\ call[p].step = "asking" /\ call[p].result.issue = 0
      /\ service \in [issued : 0 .. MaxIssues, live : SUBSET Issues]
      /\ 0 \in 0 .. MaxIssues /\ fate \in Fate /\ UNCHANGED <<config, jar, memory>>
  BY LeastFits DEF GateInductive, CallsFit, GateTypeOK, Tell, CallFits
<1>2. 0 <= service'.issued /\ service.issued <= service'.issued
  <2>1. service.issued \in 0 .. MaxIssues /\ service'.issued = service.issued
    BY <1>1
  <2> QED
    BY <2>1, IssuesOrdered
<1>3. /\ GateTypeOK' /\ CallsFit' /\ BrowserFits' /\ CsrfsFit'
      /\ Held' = Held /\ Movers' = Movers
      /\ \A q \in Movers : q # p => /\ Exchanged(q)' <=> Exchanged(q)
                                    /\ LoggedOut(q)' <=> LoggedOut(q)
      /\ OnItsWay \ {0} \subseteq OnItsWay'
  BY <1>1, <1>2, TellingFits
<1>4. /\ call'[p].step = "told" /\ call'[p].kind = call[p].kind
      /\ call'[p].result.issue = 0
      /\ \A q \in Calls : q # p => call'[q] = call[q]
  BY <1>1, TellsARequest
<1>5. ~Exchanged(p) /\ ~Exchanged(p)' /\ ~LoggedOut(p) /\ ~LoggedOut(p)'
  BY <1>1, <1>4 DEF Exchanged, LoggedOut
<1>6. ASSUME ~fate'.crossed
      PROVE  (OneMover /\ OneSession /\ MoversFit /\ LiveIsHeld /\ HeldIsLive)'
  <2>1. OneMover /\ OneSession /\ MoversFit /\ LiveIsHeld /\ HeldIsLive
    BY <1>6 DEF GateInductive
  <2>2. OneMover' /\ OneSession'
    BY <1>1, <1>3, <2>1 DEF OneMover, OneSession
  <2>3. ASSUME NEW q \in Movers' PROVE MoverFits(q)'
    <3>1. MoverFits(q) /\ q \in Calls
      BY <1>3, <2>1, <2>3 DEF MoversFit, Movers
    <3>2. CASE q = p
      BY <1>1, <1>3, <1>4, <1>5, <3>1, <3>2 DEF MoverFits, Consumed
    <3>3. CASE q # p
      <4>1. Consumed(q)' <=> Consumed(q)
        BY <1>4, <3>1, <3>3 DEF Consumed, Exchanged, LoggedOut
      <4>2. call'[q] = call[q] /\ (LoggedOut(q)' <=> LoggedOut(q))
        BY <1>4, <3>1, <3>3 DEF LoggedOut
      <4> QED
        BY <1>1, <1>3, <3>1, <4>1, <4>2 DEF MoverFits
    <3> QED
      BY <3>2, <3>3
  <2>4. LiveIsHeld'
    <3>1. 0 \notin service.live /\ service' = service /\ fate' = fate
      BY <1>1, IssuesOrdered
    <3> QED
      BY <1>3, <2>1, <3>1 DEF LiveIsHeld
  <2>5. HeldIsLive'
    <3>1. \A q \in Movers : (Exchanged(q)' <=> Exchanged(q)) /\ (Consumed(q)' <=> Consumed(q))
      <4>1. (Exchanged(p)' <=> Exchanged(p)) /\ (Consumed(p)' <=> Consumed(p))
        BY <1>5 DEF Consumed
      <4> QED
        BY <1>4, <4>1 DEF Consumed, Exchanged, LoggedOut, Movers
    <3> QED
      BY <1>1, <1>3, <2>1, <3>1 DEF HeldIsLive
  <2> QED
    BY <2>2, <2>3, <2>4, <2>5 DEF MoversFit
<1> QED
  BY <1>3, <1>6 DEF GateInductive

\* A pair is issued: to a login, or in exchange for the session that the browser holds.
LEMMA IssuesKeep ==
    ASSUME GateInductive, NEW p \in Calls, NEW used,
           \/ call[p].kind = "login" /\ used = {}
           \/ /\ call[p].kind = "refresh" /\ used = {RefreshToken(p)}
              /\ RefreshToken(p) \in service.live,
           IssuePair(p, service.live \ used), UNCHANGED fate
    PROVE  GateInductive'
<1>1. /\ GateTypeOK /\ BrowserFits /\ CallFits(p) /\ call[p].step = "asking"
      /\ call[p].result.issue = 0
      /\ service.issued \in 0 .. MaxIssues /\ service.live \in SUBSET Issues
      /\ fate \in Fate /\ UNCHANGED <<config, jar, memory>>
  BY DEF GateInductive, CallsFit, GateTypeOK, IssuePair, Tell, CallFits
<1>2. PICK n : n = service.issued + 1
  OBVIOUS
<1>3. /\ n \in 0 .. MaxIssues /\ n \in Issues /\ n # 0
      /\ service.issued <= n /\ n <= n
      /\ \A b \in 0 .. MaxIssues : b <= service.issued => b # n
  <2>1. service.issued < MaxIssues
    BY DEF IssuePair
  <2> QED
    BY <1>1, <1>2, <2>1, IssuesOrdered
<1>4. service'.issued = n /\ service'.live = (service.live \ used) \cup {n}
  BY <1>2 DEF IssuePair
<1>5. service' \in [issued : 0 .. MaxIssues, live : SUBSET Issues]
  BY <1>1, <1>2, <1>3 DEF IssuePair
<1>6. Tell(p, "", n)
  BY <1>2 DEF IssuePair
<1>7. /\ GateTypeOK' /\ CallsFit' /\ BrowserFits' /\ CsrfsFit'
      /\ Held' = Held /\ Movers' = Movers
      /\ OnItsWay \ {0} \subseteq OnItsWay' /\ n \in OnItsWay'
  BY <1>1, <1>3, <1>4, <1>5, <1>6, LeastFits, TellingFits
<1>8. /\ call'[p].step = "told" /\ call'[p].kind = call[p].kind
      /\ call'[p].result.issue = n
  BY <1>1, <1>3, <1>6, LeastFits, TellsARequest
<1>9. p \in Movers
  BY <1>1 DEF Movers, MovesTokens
<1>10. ASSUME ~fate'.crossed
      PROVE  (OneMover /\ OneSession /\ MoversFit /\ LiveIsHeld /\ HeldIsLive)'
  <2>1. /\ Movers = {p} /\ MoverFits(p) /\ OneSession /\ LiveIsHeld /\ HeldIsLive
    BY <1>9, <1>10, OnlyMover
  <2>2. n \notin Held
    <3>1. jar.refresh \in 0 .. MaxIssues /\ memory.refresh \in 0 .. MaxIssues
      BY <1>1 DEF GateTypeOK, Tokens
    <3> QED
      BY <1>1, <1>3, <3>1 DEF BrowserFits, Held
  <2>4. call[p].kind = "refresh" => Held \cap service.live \subseteq {RefreshToken(p)}
    BY <1>1, <2>1, HeldIsCarried
  <2>5. Held \cap service'.live = {}
    BY <1>4, <2>1, <2>2, <2>4 DEF MoverFits
  <2>6. MoverFits(p)'
    <3>1. n \in service'.live /\ Held' \cap service'.live = {} /\ ~LoggedOut(p)'
      BY <1>4, <1>7, <1>8, <2>5 DEF LoggedOut
    <3> QED
      BY <1>7, <1>8, <3>1 DEF MoverFits
  <2>7. LiveIsHeld'
    <3>1. 0 \notin service.live /\ fate'.lost = fate.lost
      BY <1>1, IssuesOrdered
    <3> QED
      BY <1>4, <1>7, <2>1, <2>5, <3>1 DEF LiveIsHeld
  <2>8. HeldIsLive'
    <3>1. CASE call[p].kind = "refresh"
      <4>1. Exchanged(p)' /\ Consumed(p)'
        BY <1>3, <1>8, <3>1 DEF Exchanged, Consumed
      <4> QED
        BY <1>7, <1>9, <4>1 DEF HeldIsLive
    <3>2. CASE call[p].kind = "login"
      <4>1. ~Exchanged(p) /\ ~LoggedOut(p) /\ service.live \subseteq service'.live
        BY <1>4, <3>2 DEF Exchanged, LoggedOut
      <4> QED
        BY <1>1, <2>1, <4>1 DEF HeldIsLive, Consumed
    <3> QED
      BY <3>1, <3>2
  <2>9. OneMover'
    BY <1>7, <2>1 DEF OneMover
  <2>10. OneSession'
    <3>1. 0 \notin service'.live
      BY <1>1, <1>3, <1>4, IssuesOrdered
    <3>2. memory'.refresh \notin service'.live
      BY <1>1, <2>5, <3>1 DEF Held
    <3> QED
      BY <3>2 DEF OneSession
  <2> QED
    BY <1>7, <2>1, <2>6, <2>7, <2>8, <2>9, <2>10 DEF MoversFit
<1> QED
  BY <1>7, <1>10 DEF GateInductive

\* Auth-service ends all sessions.
LEMMA EndsKeep ==
    ASSUME GateInductive, NEW p \in Calls,
           \/ call[p].kind = "refresh" /\ Tell(p, "revoked", 0)
           \/ call[p].kind = "change" /\ Tell(p, "", 0),
           service' = [service EXCEPT !.live = {}],
           fate' = [fate EXCEPT !.ended = TRUE]
    PROVE  GateInductive'
<1>1. /\ GateTypeOK /\ CallFits(p) /\ call[p].step = "asking" /\ call[p].result.issue = 0
      /\ service \in [issued : 0 .. MaxIssues, live : SUBSET Issues]
      /\ 0 \in 0 .. MaxIssues /\ fate \in Fate /\ UNCHANGED <<config, jar, memory>>
  BY LeastFits DEF GateInductive, CallsFit, GateTypeOK, Tell, CallFits
<1>2. PICK reason \in {"", "revoked"} :
          Tell(p, reason, 0) /\ (reason = "" <=> call[p].kind # "refresh")
                             /\ call[p].kind \in {"refresh", "change"}
  OBVIOUS
<1>3. /\ service' \in [issued : 0 .. MaxIssues, live : SUBSET Issues]
      /\ service'.live = {} /\ service'.issued = service.issued
      /\ service.issued <= service'.issued /\ 0 <= service'.issued
  <2>1. /\ service.issued \in 0 .. MaxIssues /\ service'.issued = service.issued
        /\ service' \in [issued : 0 .. MaxIssues, live : SUBSET Issues]
        /\ service'.live = {}
    BY <1>1
  <2> QED
    BY <2>1, IssuesOrdered
<1>4. /\ fate' \in Fate /\ fate'.lost = fate.lost /\ fate'.crossed = fate.crossed
      /\ fate'.halved = fate.halved /\ fate'.left = fate.left /\ fate'.ended = TRUE
  BY <1>1 DEF Fate
<1>5. /\ GateTypeOK' /\ CallsFit' /\ BrowserFits' /\ CsrfsFit'
      /\ Held' = Held /\ Movers' = Movers
      /\ \A q \in Movers : q # p => /\ Exchanged(q)' <=> Exchanged(q)
                                    /\ LoggedOut(q)' <=> LoggedOut(q)
  BY <1>1, <1>2, <1>3, <1>4, LeastFits, TellingFits
<1>6. /\ call'[p].step = "told" /\ call'[p].kind = call[p].kind
      /\ \A q \in Calls : q # p => call'[q] = call[q]
  BY <1>1, <1>2, LeastFits, TellsARequest
<1>7. ASSUME ~fate'.crossed
      PROVE  (OneMover /\ OneSession /\ MoversFit /\ LiveIsHeld /\ HeldIsLive)'
  <2>1. OneMover /\ OneSession /\ MoversFit /\ LiveIsHeld /\ HeldIsLive
    BY <1>4, <1>7 DEF GateInductive
  <2>2. OneMover' /\ OneSession'
    BY <1>3, <1>5, <2>1 DEF OneMover, OneSession
  <2>3. ASSUME NEW q \in Movers' PROVE MoverFits(q)'
    <3>1. MoverFits(q) /\ q \in Calls
      BY <1>5, <2>1, <2>3 DEF MoversFit, Movers
    <3>2. CASE q = p
      BY <1>3, <1>4, <1>6, <1>2, <3>2 DEF MoverFits
    <3>3. CASE q # p
      BY <1>1, <1>3, <1>4, <1>5, <1>6, <3>1, <3>3 DEF MoverFits
    <3> QED
      BY <3>2, <3>3
  <2>4. LiveIsHeld' /\ HeldIsLive'
    BY <1>3, <1>4 DEF LiveIsHeld, HeldIsLive
  <2> QED
    BY <2>2, <2>3, <2>4 DEF MoversFit
<1> QED
  BY <1>5, <1>7 DEF GateInductive

\* A logout takes its session away, if that is still accepted.
LEMMA ServiceLogoutKeeps ==
    ASSUME GateInductive, NEW p \in Calls, ServiceLogout(p)
    PROVE  GateInductive'
<1>1. /\ GateTypeOK /\ CallFits(p) /\ call[p].step = "asking" /\ call[p].result.issue = 0
      /\ call[p].kind = "logout"
      /\ service \in [issued : 0 .. MaxIssues, live : SUBSET Issues]
      /\ 0 \in 0 .. MaxIssues /\ fate \in Fate
      /\ jar.refresh \in 0 .. MaxIssues /\ memory.refresh \in 0 .. MaxIssues
      /\ UNCHANGED <<config, jar, memory>>
  BY LeastFits
     DEF GateInductive, CallsFit, GateTypeOK, ServiceLogout, Tell, CallFits, Tokens
<1>2. PICK reason \in {"", "failed"} :
          reason = IF RefreshToken(p) \in service.live THEN "" ELSE "failed"
  OBVIOUS
<1>3. Tell(p, reason, 0)
  BY <1>2 DEF ServiceLogout
<1>4. PICK t : t = RefreshToken(p)
  OBVIOUS
<1>5. t # 0 /\ t \in Issues
  <2>1. /\ call[p].cookies.refresh \in 0 .. MaxIssues /\ call[p].body.refresh \in 0 .. MaxIssues
    BY <1>1, CallTyped DEF Tokens
  <2>2. t # 0 /\ t \in 0 .. MaxIssues
    BY <1>1, <1>4, <2>1 DEF CallFits, RefreshToken
  <2>3. \A m \in 0 .. MaxIssues : m # 0 => m \in Issues
    BY IssuesOrdered
  <2> QED
    BY <2>2, <2>3
<1>6. /\ service' \in [issued : 0 .. MaxIssues, live : SUBSET Issues]
      /\ service'.live = service.live \ {t} /\ service'.issued = service.issued
      /\ service.issued <= service'.issued /\ 0 <= service'.issued
  <2>1. service.issued \in 0 .. MaxIssues /\ service.live \ {t} \in SUBSET Issues
    BY <1>1
  <2>2. service' = [service EXCEPT !.live = @ \ {t}]
    BY <1>4 DEF ServiceLogout
  <2>3. /\ service' \in [issued : 0 .. MaxIssues, live : SUBSET Issues]
        /\ service'.live = service.live \ {t} /\ service'.issued = service.issued
    BY <1>1, <2>1, <2>2
  <2> QED
    BY <2>1, <2>3, IssuesOrdered
<1>7. /\ fate' \in Fate /\ fate'.left = fate.left \cup {t}
      /\ fate'.lost = fate.lost /\ fate'.crossed = fate.crossed
      /\ fate'.ended = fate.ended /\ fate'.halved = fate.halved
  <2>1. fate' = [fate EXCEPT !.left = @ \cup {t}]
    BY <1>4 DEF ServiceLogout
  <2> QED
    BY <1>1, <1>5, <2>1 DEF Fate
<1>8. /\ GateTypeOK' /\ CallsFit' /\ BrowserFits' /\ CsrfsFit'
      /\ Held' = Held /\ Movers' = Movers
      /\ OnItsWay \ {0} \subseteq OnItsWay'
  BY <1>1, <1>2, <1>3, <1>6, <1>7, LeastFits, TellingFits
<1>9. /\ call'[p].step = "told" /\ call'[p].kind = "logout"
      /\ call'[p].result.reason = reason /\ call'[p].result.issue = 0
  BY <1>1, <1>2, <1>3, LeastFits, TellsARequest
<1>10. p \in Movers
  BY <1>1 DEF Movers, MovesTokens
<1>11. ASSUME ~fate'.crossed
      PROVE  (OneMover /\ OneSession /\ MoversFit /\ LiveIsHeld /\ HeldIsLive)'
  <2>1. /\ Movers = {p} /\ MoverFits(p) /\ OneSession /\ LiveIsHeld /\ HeldIsLive
    BY <1>1, <1>7, <1>10, <1>11, OnlyMover
  <2>2. /\ Held \cap service.live \subseteq {t}
        /\ jar.refresh \in {0, t} /\ (jar.refresh = 0 => memory.refresh = t)
    BY <1>1, <1>4, <2>1, HeldIsCarried
  <2>3. Held \cap service'.live = {}
    BY <1>6, <2>2
  <2>4. /\ ~Exchanged(p) /\ ~LoggedOut(p) /\ LoggedOut(p)' /\ Consumed(p)'
    BY <1>1, <1>9 DEF Exchanged, LoggedOut, Consumed
  <2>5. ~fate.ended /\ fate.lost = {} => reason = "" \/ memory.refresh = 0
    <3> SUFFICES ASSUME ~fate.ended, fate.lost = {}, t \notin service.live
                 PROVE  memory.refresh = 0
      BY <1>2, <1>4
    <3>1. memory.refresh \in service.live \cup {0}
      BY <2>1, <2>4 DEF HeldIsLive, Consumed
    <3>2. memory.refresh = 0 \/ memory.refresh \notin service.live
      BY <2>2 DEF Held
    <3> QED
      BY <3>1, <3>2
  <2>6. MoverFits(p)'
    BY <1>1, <1>7, <1>8, <1>9, <2>3, <2>5 DEF MoverFits
  <2>7. LiveIsHeld'
    <3>1. 0 \notin service.live
      BY <1>1, IssuesOrdered
    <3>2. Held \cap service'.live = {} /\ service'.live \subseteq service.live
      BY <1>6, <2>3
    <3> QED
      BY <1>7, <1>8, <2>1, <3>1, <3>2 DEF LiveIsHeld
  <2>8. HeldIsLive'
    <3>1. jar'.refresh \in fate'.left \cup {0}
      BY <1>1, <1>7, <2>2
    <3> QED
      BY <1>8, <1>10, <2>4, <3>1 DEF HeldIsLive
  <2>9. OneMover' /\ OneSession'
    BY <1>1, <1>6, <1>8, <2>1 DEF OneMover, OneSession
  <2> QED
    BY <1>8, <2>1, <2>6, <2>7, <2>8, <2>9 DEF MoversFit
<1> QED
  BY <1>8, <1>11 DEF GateInductive

-----------------------------------------------------------------------------
(* AuthGateway: the steps of the browser *)

\* A request is over: the others are as they were.
LEMMA RequestEnds ==
    ASSUME GateInductive, NEW p \in Calls, call[p].step = "answered",
           call' = [call EXCEPT ![p] = Idle],
           UNCHANGED <<config, service>>,
           jar' \in Tokens, memory' \in Tokens, fate' \in Fate,
           fate.lost \subseteq fate'.lost, fate'.halved = fate.halved,
           fate'.left = fate.left
    PROVE  /\ GateTypeOK' /\ CallsFit' /\ CsrfsFit'
           /\ Movers' = Movers \ {p}
           /\ \A q \in Movers' : /\ Exchanged(q)' <=> Exchanged(q)
                                 /\ LoggedOut(q)' <=> LoggedOut(q)
           /\ \A q \in Calls : q # p => call'[q] = call[q]
           /\ \A m \in OnItsWay : m \in OnItsWay' \/ m = call[p].result.issue
<1>1. /\ GateTypeOK /\ \A q \in Calls : CallFits(q) /\ CsrfFits(q)
      /\ service \in [issued : 0 .. MaxIssues, live : SUBSET Issues]
  BY DEF GateInductive, CallsFit, CsrfsFit, GateTypeOK
<1>2. Idle \in Call
  <2>1. "" \in Reasons /\ 0 \in 0 .. MaxIssues /\ NoTokens \in Tokens /\ NoAnswer \in Answer
    BY LeastFits
  <2>2. [reason |-> "", issue |-> 0] \in Result
    BY <2>1 DEF Result
  <2> QED
    BY <2>1, <2>2 DEF Idle, Call, Kinds, AuthRoutes
<1>3. /\ call' \in [Calls -> Call] /\ call'[p] = Idle
      /\ \A q \in Calls : q # p => call'[q] = call[q]
  BY <1>1, <1>2 DEF GateTypeOK
<1>4. GateTypeOK'
  BY <1>1, <1>3 DEF GateTypeOK
<1>5. service.issued <= service'.issued
  BY <1>1, IssuesOrdered
<1>6. \A q \in Calls : q # p => CallFits(q)' /\ CsrfFits(q)'
  BY <1>1, <1>3, <1>4, <1>5, OthersFit
<1>7. /\ Idle.step = "idle" /\ Idle.result.issue = 0
  BY DEF Idle
<1>8. CallFits(p)' /\ CsrfFits(p)'
  <2>1. 0 <= service'.issued
    BY <1>1, IssuesOrdered
  <2>2. CallFits(p)'
    BY <1>3, <1>7, <2>1 DEF CallFits, LoggedOut
  <2>3. CsrfFits(p)'
    BY <1>3, <1>7 DEF CsrfFits
  <2> QED
    BY <2>2, <2>3
<1>9. Movers' = Movers \ {p}
  BY <1>3, <1>7 DEF Movers
<1>10. \A q \in Movers' : (Exchanged(q)' <=> Exchanged(q)) /\ (LoggedOut(q)' <=> LoggedOut(q))
  BY <1>3, <1>9 DEF Exchanged, LoggedOut, Movers
<1>11. \A m \in OnItsWay : m \in OnItsWay' \/ m = call[p].result.issue
  BY <1>3 DEF OnItsWay
<1> QED
  BY <1>3, <1>4, <1>6, <1>8, <1>9, <1>10, <1>11 DEF CallsFit, CsrfsFit

\* An answer that never arrives loses its pair.
LEMMA LosesKeep ==
    ASSUME GateInductive, NEW p \in Calls, Lose(p)
    PROVE  GateInductive'
<1>1. /\ GateTypeOK /\ BrowserFits /\ fate \in Fate /\ jar \in Tokens /\ memory \in Tokens
      /\ call[p].result.issue \in 0 .. MaxIssues /\ call[p].step = "answered"
      /\ UNCHANGED <<config, jar, memory, service>>
  BY CallTyped DEF GateInductive, GateTypeOK, Lose
<1>2. PICK n : n = call[p].result.issue
  OBVIOUS
<1>3. /\ fate'.lost = fate.lost \cup ({n} \ {0})
      /\ fate'.ended = fate.ended /\ fate'.halved = fate.halved /\ fate'.left = fate.left
  BY <1>1, <1>2 DEF Lose, Fate
<1>4. /\ fate'.crossed <=> fate.crossed \/ call[p].kind = "logout"
      /\ fate'.crossed \in BOOLEAN
  BY <1>1 DEF Lose, Fate
<1>5. fate' \in Fate
  <2>1. fate' = [lost |-> fate'.lost, crossed |-> fate'.crossed, ended |-> fate'.ended,
                 halved |-> fate'.halved, left |-> fate'.left]
    BY <1>1 DEF Lose, Fate
  <2>2. fate'.lost \in SUBSET Issues
    BY <1>1, <1>2, <1>3 DEF Fate, Issues
  <2> QED
    BY <1>1, <1>3, <1>4, <2>1, <2>2 DEF Fate
<1>6. /\ GateTypeOK' /\ CallsFit' /\ CsrfsFit'
      /\ Movers' = Movers \ {p}
      /\ \A q \in Movers' : /\ Exchanged(q)' <=> Exchanged(q)
                            /\ LoggedOut(q)' <=> LoggedOut(q)
      /\ \A q \in Calls : q # p => call'[q] = call[q]
      /\ \A m \in OnItsWay : m \in OnItsWay' \/ m = call[p].result.issue
  <2>1. call' = [call EXCEPT ![p] = Idle] /\ jar' \in Tokens /\ memory' \in Tokens
    BY <1>1 DEF Lose
  <2>2. fate.lost \subseteq fate'.lost /\ UNCHANGED <<config, service>>
    BY <1>1, <1>3
  <2>3. call[p].step = "answered" /\ fate'.halved = fate.halved /\ fate'.left = fate.left
    BY <1>1, <1>3
  <2> QED
    BY <1>5, <2>1, <2>2, <2>3, RequestEnds
<1>7. BrowserFits'
  BY <1>1, <1>3 DEF BrowserFits
<1>8. ASSUME ~fate'.crossed
      PROVE  (OneMover /\ OneSession /\ MoversFit /\ LiveIsHeld /\ HeldIsLive)'
  <2>1. /\ OneMover /\ OneSession /\ MoversFit /\ LiveIsHeld /\ HeldIsLive
        /\ Held' = Held
    BY <1>1, <1>4, <1>8 DEF GateInductive, Held
  <2>2. OneMover' /\ OneSession'
    BY <1>1, <1>6, <2>1 DEF OneMover, OneSession
  <2>3. ASSUME NEW q \in Movers' PROVE MoverFits(q)'
    <3>1. MoverFits(q) /\ q \in Calls /\ q # p
      BY <1>6, <2>1, <2>3 DEF MoversFit, Movers
    <3>2. fate'.lost = {} => fate.lost = {}
      BY <1>3
    <3> QED
      BY <1>1, <1>3, <1>6, <2>1, <2>3, <3>1, <3>2 DEF MoverFits, Consumed
  <2>4. LiveIsHeld'
    <3>1. 0 \notin service.live
      BY <1>1, IssuesOrdered DEF GateTypeOK
    <3> QED
      BY <1>1, <1>2, <1>3, <1>6, <2>1, <3>1 DEF LiveIsHeld
  <2>5. HeldIsLive'
    <3>1. fate'.lost = {} => n = 0 /\ fate.lost = {}
      BY <1>3
    <3>2. fate'.lost = {} => ~Exchanged(p) /\ ~LoggedOut(p)
      BY <1>2, <1>4, <1>8, <3>1 DEF Exchanged, LoggedOut
    <3> QED
      BY <1>1, <1>3, <1>6, <2>1, <3>1, <3>2 DEF HeldIsLive, Consumed
  <2> QED
    BY <2>2, <2>3, <2>4, <2>5 DEF MoversFit
<1> QED
  BY <1>6, <1>7, <1>8 DEF GateInductive

\* What an answer makes of the browser: what it was told of one pair, or nothing.
LEMMA ReceivedFits ==
    ASSUME GateInductive, NEW p \in Calls, Receive(p)
    PROVE  /\ jar' \in Tokens /\ memory' \in Tokens /\ BrowserFits'
           /\ \/ /\ jar' = jar /\ memory' = memory /\ ~LoggedOut(p)
                 /\ call[p].result.issue # 0 => call[p].result.issue \in fate.lost
              \/ /\ call[p].kind \in {"login", "refresh"} /\ call[p].result.issue # 0
                 /\ call[p].result.issue \in Held' /\ ~LoggedOut(p)
                 /\ jar'.refresh \in {0, call[p].result.issue}
                 /\ \/ memory'.refresh \in {0, call[p].result.issue}
                    \/ memory' = memory /\ call[p].kind = "login"
              \/ /\ call[p].kind = "logout" /\ LoggedOut(p) /\ jar' = jar
                 /\ memory' \in {memory, NoTokens} /\ call[p].result.issue = 0
                 /\ call[p].result.reason = "" => memory' = NoTokens
<1>1. /\ GateTypeOK /\ BrowserFits /\ CallFits(p) /\ call[p].step = "answered" /\ Answered(p)
      /\ jar \in Tokens /\ memory \in Tokens /\ NoTokens \in Tokens
      /\ call[p].result.issue \in 0 .. MaxIssues
      /\ call[p].answer.body \in Tokens
      /\ call[p].answer.cookies \in {{}} \cup {{t} : t \in Tokens}
      /\ UNCHANGED <<config, service, fate>>
  BY CallTyped, LeastFits DEF GateInductive, CallsFit, GateTypeOK, Receive, CallFits
<1>2. PICK n, answer : n = call[p].result.issue /\ answer = call[p].answer
  OBVIOUS
<1>3. /\ jar' \in IF answer.cookies = {} THEN {jar} ELSE answer.cookies
      /\ memory' = IF answer.message # "ok" THEN memory
                   ELSE IF call[p].kind = "logout" THEN NoTokens
                   ELSE IF call[p].kind \in {"login", "refresh"} THEN answer.body
                   ELSE memory
  BY <1>2 DEF Receive
<1>4. jar' \in Tokens /\ memory' \in Tokens
  BY <1>1, <1>2, <1>3
<1>5. n <= service.issued /\ n \in 0 .. MaxIssues
  BY <1>1, <1>2 DEF CallFits
<1>6. NoTokens.access = 0 /\ NoTokens.refresh = 0 /\ NoTokens.csrf = 0
  BY DEF NoTokens
<1>7. 0 <= service.issued
  BY <1>1, IssuesOrdered DEF GateTypeOK
<1>8. CASE /\ answer.cookies = {} /\ answer.message # "logoutFailed"
           /\ answer.message = "ok" => call[p].kind \notin MovesTokens
           /\ n # 0 => n \in fate.lost
  <2>1. jar' = jar /\ memory' = memory
    BY <1>3, <1>8 DEF MovesTokens
  <2>2. BrowserFits'
    BY <1>1, <2>1 DEF BrowserFits
  <2>3. ~LoggedOut(p)
    BY <1>1, <1>2, <1>8 DEF LoggedOut, MovesTokens
  <2> QED
    BY <1>2, <1>4, <1>8, <2>1, <2>2, <2>3
<1>9. CASE /\ call[p].kind \in {"login", "refresh"} /\ n # 0
           /\ answer.message = "ok" /\ answer.cookies = AuthCookies(n)
           /\ answer.body.refresh = InBody(n) /\ answer.body.csrf \in {0, n}
           /\ config.csrf /\ config.mode # "COOKIES_ONLY" => answer.body.csrf = n
  <2>1. memory' = answer.body /\ ~LoggedOut(p)
    BY <1>3, <1>9 DEF LoggedOut
  <2>2. CASE config.mode = "RESPONSE_ONLY"
    <3>1. /\ jar' = jar /\ jar = NoTokens /\ answer.body.refresh = n
      BY <1>1, <1>3, <1>9, <2>2 DEF AuthCookies, BrowserFits, InBody
    <3>2. BrowserFits'
      BY <1>1, <1>5, <1>6, <1>7, <2>1, <3>1 DEF BrowserFits
    <3>3. n \in Held'
      BY <1>6, <1>9, <2>1, <3>1 DEF Held
    <3> QED
      BY <1>2, <1>4, <1>6, <1>9, <2>1, <3>1, <3>2, <3>3
  <2>3. CASE config.mode # "RESPONSE_ONLY"
    <3>1. jar' = [access |-> n, refresh |-> n, csrf |-> IF config.csrf THEN n ELSE 0]
      BY <1>3, <1>9, <2>3 DEF AuthCookies
    <3>2. answer.body.refresh \in {0, n}
      BY <1>9 DEF InBody
    <3>3. BrowserFits'
      BY <1>1, <1>5, <1>7, <1>9, <2>1, <2>3, <3>1, <3>2 DEF BrowserFits
    <3>4. n \in Held'
      BY <1>9, <2>1, <3>1, <3>2 DEF Held
    <3> QED
      BY <1>2, <1>4, <1>9, <2>1, <3>1, <3>2, <3>3, <3>4
  <2> QED
    BY <2>2, <2>3
<1>10. CASE /\ call[p].kind = "login" /\ n # 0 /\ fate.halved
            /\ answer.message = "internal"
            /\ config.mode # "RESPONSE_ONLY" /\ answer.cookies = AuthCookies(n)
  <2>1. /\ jar' = [access |-> n, refresh |-> n, csrf |-> IF config.csrf THEN n ELSE 0]
        /\ memory' = memory
    BY <1>3, <1>10 DEF AuthCookies
  <2>2. BrowserFits'
    BY <1>1, <1>5, <1>10, <2>1 DEF BrowserFits
  <2>3. n \in Held' /\ ~LoggedOut(p)
    BY <1>10, <2>1 DEF Held, LoggedOut
  <2> QED
    BY <1>2, <1>4, <1>10, <2>1, <2>2, <2>3
<1>11. CASE /\ call[p].kind = "logout" /\ answer.cookies = {} /\ n = 0
            /\ answer.message = IF call[p].result.reason = "" THEN "ok" ELSE "logoutFailed"
  <2>1. LoggedOut(p) /\ fate.left # {} /\ fate' = fate
    BY <1>1, <1>2, <1>11 DEF LoggedOut, CallFits
  <2>2. jar' = jar /\ memory' \in {memory, NoTokens}
    BY <1>3, <1>11
  <2>3. BrowserFits'
    BY <1>1, <1>6, <1>7, <2>1, <2>2 DEF BrowserFits
  <2>4. call[p].result.reason = "" => memory' = NoTokens
    BY <1>3, <1>11
  <2> QED
    BY <1>2, <1>4, <1>11, <2>1, <2>2, <2>3, <2>4
<1> QED
  BY <1>1, <1>2, <1>8, <1>9, <1>10, <1>11 DEF Answered

\* The answer arrives: the browser comes to hold the pair, or its script forgets its session.
LEMMA ReceivesKeep ==
    ASSUME GateInductive, NEW p \in Calls, Receive(p)
    PROVE  GateInductive'
<1>1. /\ GateTypeOK /\ fate \in Fate /\ call[p].step = "answered"
      /\ UNCHANGED <<config, service, fate>>
  BY DEF GateInductive, GateTypeOK, Receive
<1>2. jar' \in Tokens /\ memory' \in Tokens /\ BrowserFits'
  BY ReceivedFits
<1>3. PICK n : n = call[p].result.issue
  OBVIOUS
<1>4. /\ GateTypeOK' /\ CallsFit' /\ CsrfsFit'
      /\ Movers' = Movers \ {p}
      /\ \A q \in Movers' : /\ Exchanged(q)' <=> Exchanged(q)
                            /\ LoggedOut(q)' <=> LoggedOut(q)
      /\ \A q \in Calls : q # p => call'[q] = call[q]
      /\ \A m \in OnItsWay : m \in OnItsWay' \/ m = call[p].result.issue
  <2>1. /\ fate' \in Fate /\ fate.lost \subseteq fate'.lost /\ fate'.halved = fate.halved
        /\ fate'.left = fate.left
    BY <1>1
  <2>2. call' = [call EXCEPT ![p] = Idle] /\ UNCHANGED <<config, service>>
    BY <1>1 DEF Receive
  <2>3. jar' \in Tokens /\ memory' \in Tokens /\ call[p].step = "answered"
    BY <1>1, <1>2
  <2> QED
    BY <2>1, <2>2, <2>3, RequestEnds
<1>5. 0 \notin service.live
  BY <1>1, IssuesOrdered DEF GateTypeOK
<1>6. ASSUME ~fate'.crossed
      PROVE  (OneMover /\ OneSession /\ MoversFit /\ LiveIsHeld /\ HeldIsLive)'
  <2>1. OneMover /\ OneSession /\ MoversFit /\ LiveIsHeld /\ HeldIsLive
    BY <1>1, <1>6 DEF GateInductive
  <2>2. OneMover'
    BY <1>4, <2>1 DEF OneMover
  <2>3. CASE /\ jar' = jar /\ memory' = memory /\ ~LoggedOut(p)
             /\ n # 0 => n \in fate.lost
    <3>1. OneSession' /\ Held' = Held
      BY <1>1, <2>1, <2>3 DEF OneSession, Held
    <3>2. ASSUME NEW q \in Movers' PROVE MoverFits(q)'
      <4>1. MoverFits(q) /\ q \in Calls /\ q # p /\ call'[q] = call[q]
        BY <1>4, <2>1, <3>2 DEF MoversFit, Movers
      <4> QED
        BY <1>1, <1>4, <2>3, <3>1, <3>2, <4>1 DEF MoverFits, Consumed
    <3>3. LiveIsHeld'
      BY <1>1, <1>3, <1>4, <1>5, <2>1, <2>3, <3>1 DEF LiveIsHeld
    <3>4. HeldIsLive'
      <4>1. fate.lost = {} => ~Exchanged(p)
        BY <1>3, <2>3 DEF Exchanged
      <4> QED
        BY <1>1, <1>4, <2>1, <2>3, <4>1 DEF HeldIsLive, Consumed
    <3> QED
      BY <2>2, <3>1, <3>2, <3>3, <3>4 DEF MoversFit
  <2>4. CASE call[p].kind \in MovesTokens
    <3>1. p \in Movers
      BY <1>1, <2>4 DEF Movers
    <3>2. Movers' = {} /\ MoverFits(p) /\ Movers = {p}
      BY <1>4, <2>1, <3>1 DEF OneMover, MoversFit
    <3>3. CASE /\ call[p].kind \in {"login", "refresh"} /\ n # 0 /\ n \in Held'
               /\ ~LoggedOut(p) /\ jar'.refresh \in {0, n}
               /\ \/ memory'.refresh \in {0, n}
                  \/ memory' = memory /\ call[p].kind = "login"
      <4>1. Held \cap service.live = {}
        BY <1>3, <3>2, <3>3 DEF MoverFits, Consumed, Exchanged
      <4>2. ~fate.ended => n \in service.live
        BY <1>3, <3>2, <3>3 DEF MoverFits
      <4>3. memory'.refresh \in {0, n} \/ memory'.refresh \notin service.live
        BY <3>3, <4>1, <1>1, IssuesOrdered DEF Held, GateTypeOK
      <4>4. OneSession'
        BY <1>1, <3>3, <4>3, <1>5 DEF OneSession
      <4>5. HeldIsLive'
        <5>1. memory' = memory /\ call[p].kind = "login" /\ ~fate.ended /\ fate.lost = {} =>
                 memory.refresh \in service.live \cup {0}
          BY <2>1, <3>2, <3>3 DEF HeldIsLive, Consumed, Exchanged
        <5> QED
          BY <1>1, <3>3, <4>2, <5>1 DEF HeldIsLive
      <4>6. LiveIsHeld'
        BY <1>1, <1>3, <1>4, <2>1, <3>3, <4>1 DEF LiveIsHeld
      <4> QED
        BY <2>2, <3>2, <4>4, <4>5, <4>6 DEF MoversFit
    <3>4. CASE /\ call[p].kind = "logout" /\ LoggedOut(p) /\ jar' = jar
               /\ memory' \in {memory, NoTokens} /\ n = 0
               /\ call[p].result.reason = "" => memory' = NoTokens
      <4>1. Held \cap service.live = {} /\ NoTokens.refresh = 0
        BY <3>2, <3>4 DEF MoverFits, Consumed, NoTokens
      <4>2. ~fate.ended /\ fate.lost = {} => memory'.refresh = 0
        BY <3>2, <3>4, <4>1 DEF MoverFits
      <4>3. OneSession'
        BY <1>1, <1>5, <2>1, <3>4, <4>1 DEF OneSession
      <4>4. HeldIsLive'
        <5>1. ~Exchanged(p)
          BY <3>4 DEF Exchanged
        <5> QED
          BY <1>1, <2>1, <3>2, <3>4, <4>2, <5>1 DEF HeldIsLive
      <4>5. LiveIsHeld'
        BY <1>1, <1>3, <1>4, <1>5, <2>1, <3>4, <4>1 DEF LiveIsHeld
      <4> QED
        BY <2>2, <3>2, <4>3, <4>4, <4>5 DEF MoversFit
    <3> QED
      BY <1>3, <2>3, <3>3, <3>4, ReceivedFits
  <2> QED
    BY <1>3, <2>3, <2>4, ReceivedFits DEF MovesTokens
<1> QED
  BY <1>2, <1>4, <1>6 DEF GateInductive

\* A request is sent with what the browser holds.
LEMMA SendsKeep ==
    ASSUME GateInductive, NEW p \in Calls, NEW kind \in Kinds, Send(p, kind)
    PROVE  GateInductive'
<1>1. /\ GateTypeOK /\ BrowserFits /\ fate \in Fate /\ jar \in Tokens /\ memory \in Tokens
      /\ \A q \in Calls : CallFits(q) /\ CsrfFits(q)
      /\ call[p].step = "idle" /\ UNCHANGED <<config, jar, memory, service>>
      /\ service \in [issued : 0 .. MaxIssues, live : SUBSET Issues]
  BY DEF GateInductive, GateTypeOK, CallsFit, CsrfsFit, Send
<1>2. PICK body \in {NoTokens, memory},
           header \in IF CsrfTokens = {} THEN {0} ELSE CsrfTokens :
        call' = [call EXCEPT ![p] =
           [step |-> "sent", kind |-> kind,
            cookies |-> IF kind \in AuthRoutes THEN jar ELSE NoTokens, body |-> body,
            header |-> header, result |-> Idle.result, answer |-> NoAnswer]]
  BY DEF Send
<1>3. PICK cookies \in {jar, NoTokens} :
          cookies = IF kind \in AuthRoutes THEN jar ELSE NoTokens
  OBVIOUS
<1>4. PICK c : c = [step |-> "sent", kind |-> kind, cookies |-> cookies, body |-> body,
                    header |-> header, result |-> [reason |-> "", issue |-> 0],
                    answer |-> NoAnswer]
  OBVIOUS
<1>5. call' = [call EXCEPT ![p] = c]
  <2>1. Idle.result = [reason |-> "", issue |-> 0]
    BY DEF Idle
  <2> QED
    BY <1>2, <1>3, <1>4, <2>1
<1>6. c \in Call
  <2>1. header \in 0 .. MaxIssues /\ body \in Tokens
    BY <1>1, <1>2, LeastFits DEF CsrfTokens, Tokens
  <2>2. [reason |-> "", issue |-> 0] \in Result
    BY LeastFits DEF Result
  <2> QED
    BY <1>1, <1>3, <1>4, <2>1, <2>2, LeastFits DEF Call
<1>7. /\ call' \in [Calls -> Call] /\ call'[p] = c
      /\ \A q \in Calls : q # p => call'[q] = call[q]
  BY <1>1, <1>5, <1>6 DEF GateTypeOK
<1>8. /\ c.step = "sent" /\ c.kind = kind /\ c.cookies = cookies /\ c.body = body
      /\ c.header = header /\ c.result.issue = 0
      /\ kind \in MovesTokens => cookies = jar
  BY <1>3, <1>4 DEF MovesTokens, AuthRoutes
<1>9. /\ fate' \in Fate /\ fate'.lost = fate.lost /\ fate'.ended = fate.ended
      /\ fate'.halved = fate.halved /\ fate'.left = fate.left
      /\ fate'.crossed <=> \/ fate.crossed
                           \/ kind \in MovesTokens /\ Movers # {}
                           \/ kind = "login" /\ Held \cap service.live # {}
  BY <1>1 DEF Send, Fate, Movers
<1>10. GateTypeOK'
  BY <1>1, <1>7, <1>9 DEF GateTypeOK
<1>11. service.issued <= service'.issued /\ 0 <= service'.issued
  BY <1>1, IssuesOrdered
<1>12. \A q \in Calls : q # p => CallFits(q)' /\ CsrfFits(q)'
  BY <1>1, <1>7, <1>9, <1>10, <1>11, OthersFit
<1>13. CallFits(p)'
  BY <1>7, <1>8, <1>11 DEF CallFits, LoggedOut
<1>14. CsrfFits(p)'
  <2>1. SUFFICES ASSUME config.csrf, ~fate.halved, cookies.access # 0
                 PROVE  /\ cookies.csrf # 0
                        /\ \/ header = cookies.csrf
                           \/ /\ ~config.reads /\ header = 0
                              /\ config.mode = "COOKIES_ONLY" \/ fate.left # {}
    BY <1>1, <1>7, <1>8, <1>9 DEF CsrfFits
  <2>2. cookies = jar /\ jar # NoTokens
    BY <1>3, <2>1 DEF NoTokens
  <2>3. jar.csrf = jar.access /\ jar.csrf # 0 /\ memory.csrf \in {0, jar.csrf}
    BY <1>1, <2>1, <2>2 DEF BrowserFits
  <2>4. CASE CsrfTokens # {}
    <3>1. header \in CsrfTokens
      BY <1>2, <2>4
    <3> QED
      BY <2>2, <2>3, <3>1 DEF CsrfTokens
  <2>5. CASE CsrfTokens = {}
    <3>1. header = 0
      BY <1>2, <2>5
    <3>2. memory.csrf = 0 /\ ~config.reads
      BY <2>3, <2>5 DEF CsrfTokens
    <3> QED
      BY <1>1, <2>1, <2>2, <2>3, <3>1, <3>2 DEF BrowserFits
  <2> QED
    BY <2>4, <2>5
<1>15. BrowserFits'
  BY <1>1, <1>9 DEF BrowserFits
<1>16. ASSUME ~fate'.crossed
      PROVE  (OneMover /\ OneSession /\ MoversFit /\ LiveIsHeld /\ HeldIsLive)'
  <2>1. /\ OneMover /\ OneSession /\ MoversFit /\ LiveIsHeld /\ HeldIsLive
        /\ Held' = Held
    BY <1>1, <1>9, <1>16 DEF GateInductive, Held
  <2>2. /\ p \notin Movers /\ ~Exchanged(p)' /\ ~LoggedOut(p)'
        /\ \A q \in Movers : q # p /\ (Exchanged(q)' <=> Exchanged(q))
                                   /\ (LoggedOut(q)' <=> LoggedOut(q))
    BY <1>1, <1>7, <1>8 DEF Movers, Exchanged, LoggedOut
  <2>3. LiveIsHeld'
    <3>1. OnItsWay \subseteq OnItsWay'
      BY <1>1, <1>7 DEF OnItsWay
    <3> QED
      BY <1>1, <1>9, <2>1, <3>1 DEF LiveIsHeld
  <2>4. CASE kind \in MovesTokens
    <3>1. Movers = {} /\ Movers' = {p}
      <4>1. Movers = {}
        BY <1>9, <1>16, <2>4
      <4> QED
        BY <1>7, <1>8, <2>4, <4>1 DEF Movers
    <3>2. OneMover' /\ OneSession'
      BY <1>1, <2>1, <3>1 DEF OneMover, OneSession
    <3>3. MoverFits(p)'
      BY <1>1, <1>2, <1>7, <1>8, <1>9, <1>16, <2>1, <2>2, <2>4 DEF MoverFits, Consumed
    <3>4. HeldIsLive'
      BY <1>1, <1>9, <2>1, <3>1 DEF HeldIsLive
    <3> QED
      BY <2>3, <3>1, <3>2, <3>3, <3>4 DEF MoversFit
  <2>5. CASE kind \notin MovesTokens
    <3>1. Movers' = Movers
      BY <1>1, <1>7, <1>8, <2>5 DEF Movers
    <3>2. OneMover' /\ OneSession' /\ HeldIsLive'
      BY <1>1, <1>9, <2>1, <2>2, <3>1 DEF OneMover, OneSession, HeldIsLive, Consumed
    <3>3. ASSUME NEW q \in Movers' PROVE MoverFits(q)'
      <4>1. MoverFits(q) /\ call'[q] = call[q]
        BY <1>7, <2>1, <2>2, <3>1, <3>3 DEF MoversFit, Movers
      <4> QED
        BY <1>1, <1>9, <2>1, <2>2, <3>1, <3>3, <4>1 DEF MoverFits, Consumed
    <3> QED
      BY <2>3, <3>2, <3>3 DEF MoversFit
  <2> QED
    BY <2>4, <2>5
<1> QED
  BY <1>10, <1>12, <1>13, <1>14, <1>15, <1>16 DEF GateInductive, CallsFit, CsrfsFit

-----------------------------------------------------------------------------
(* AuthGateway: the results *)

LEMMA GateInitFits == GateInit => GateInductive
<1> SUFFICES ASSUME GateInit PROVE GateInductive
  OBVIOUS
<1>1. Idle \in Call /\ Idle.step = "idle" /\ Idle.result.issue = 0
  <2>1. [reason |-> "", issue |-> 0] \in Result
    BY LeastFits DEF Result
  <2> QED
    BY <2>1, LeastFits DEF Idle, Call, Kinds, AuthRoutes
<1>2. /\ fate.lost = {} /\ fate.crossed = FALSE /\ fate.ended = FALSE /\ fate.halved = FALSE
      /\ fate.left = {} /\ service.issued = 0 /\ service.live = {}
      /\ \A q \in Calls : call[q] = Idle
      /\ jar = NoTokens /\ memory = NoTokens
  BY DEF GateInit
<1>3. GateTypeOK
  <2>1. fate \in Fate
    BY DEF GateInit, Fate
  <2>2. service \in [issued : 0 .. MaxIssues, live : SUBSET Issues]
    BY LeastFits DEF GateInit
  <2> QED
    BY <1>1, <2>1, <2>2, LeastFits DEF GateInit, GateTypeOK
<1>4. NoTokens.access = 0 /\ NoTokens.refresh = 0 /\ NoTokens.csrf = 0 /\ 0 <= 0
  BY DEF NoTokens
<1>5. CallsFit /\ CsrfsFit
  BY <1>1, <1>2, <1>4 DEF CallsFit, CallFits, CsrfsFit, CsrfFits, LoggedOut
<1>6. BrowserFits
  BY <1>2, <1>4 DEF BrowserFits
<1>7. Held = {} /\ Movers = {}
  BY <1>1, <1>2, <1>4 DEF Held, Movers
<1>8. OneMover /\ OneSession /\ MoversFit /\ LiveIsHeld /\ HeldIsLive
  BY <1>2, <1>4, <1>7 DEF OneMover, OneSession, MoversFit, LiveIsHeld, HeldIsLive
<1> QED
  BY <1>3, <1>5, <1>6, <1>8 DEF GateInductive

LEMMA GateNextKeeps == GateInductive /\ [GateNext]_gateVars => GateInductive'
<1> SUFFICES ASSUME GateInductive, [GateNext]_gateVars PROVE GateInductive'
  OBVIOUS
<1>1. CASE UNCHANGED gateVars
  <2>1. UNCHANGED <<config, jar, memory, service, call, fate>>
    BY <1>1 DEF gateVars
  <2>2. GateTypeOK' /\ BrowserFits' /\ CsrfsFit'
    BY <2>1 DEF GateInductive, GateTypeOK, BrowserFits, CsrfsFit, CsrfFits
  <2>3. \A q \in Calls : service.issued <= service'.issued /\ CallFits(q) /\ CsrfFits(q)
    BY <2>1, IssuesOrdered DEF GateInductive, GateTypeOK, CallsFit, CsrfsFit
  <2>4. \A q \in Calls : CallFits(q)'
    BY <2>1, <2>2, <2>3, OthersFit DEF GateInductive
  <2>5. ASSUME NEW q \in Calls
        PROVE  (Exchanged(q)' <=> Exchanged(q)) /\ (LoggedOut(q)' <=> LoggedOut(q))
    BY <2>1 DEF Exchanged, LoggedOut
  <2>6. /\ Movers' = Movers /\ Held' = Held /\ OnItsWay' = OnItsWay
        /\ \A q \in Movers : q \in Calls
    BY <2>1 DEF Movers, Held, OnItsWay
  <2>7. (OneMover /\ OneSession => OneMover' /\ OneSession')
    BY <2>1, <2>6 DEF OneMover, OneSession
  <2>8. MoversFit => MoversFit'
    BY <2>1, <2>5, <2>6 DEF MoversFit, MoverFits, Consumed
  <2>9. (LiveIsHeld /\ HeldIsLive => LiveIsHeld' /\ HeldIsLive')
    BY <2>1, <2>5, <2>6 DEF LiveIsHeld, HeldIsLive, Consumed
  <2> QED
    BY <2>1, <2>2, <2>4, <2>7, <2>8, <2>9 DEF GateInductive, CallsFit
<1>2. ASSUME NEW p \in Calls, NEW kind \in Kinds, Send(p, kind) PROVE GateInductive'
  BY <1>2, SendsKeep
<1>3. ASSUME NEW p \in Calls, Receive(p) PROVE GateInductive'
  BY <1>3, ReceivesKeep
<1>4. ASSUME NEW p \in Calls, Lose(p) PROVE GateInductive'
  BY <1>4, LosesKeep
<1>5. ASSUME NEW p \in Calls,
             Throttle(p) \/ CsrfGuard(p) \/ JwtAuthGuard(p) \/ Serve(p) \/ NoToken(p)
      PROVE  GateInductive'
  BY <1>5, EarlyAnswers
<1>6. ASSUME NEW p \in Calls, Ask(p) \/ GrpcFail(p) PROVE GateInductive'
  BY <1>6, AsksKeep, FailuresKeep
<1>7. ASSUME NEW p \in Calls, ServiceLogin(p) PROVE GateInductive'
  <2>1. CASE IssuePair(p, service.live) /\ UNCHANGED fate
    <3>1. service.live \ {} = service.live
      OBVIOUS
    <3> QED
      BY <1>7, <2>1, <3>1, IssuesKeep DEF ServiceLogin
  <2>2. CASE \E reason \in {"refused", "locked"} :
                 Tell(p, reason, 0) /\ UNCHANGED <<service, fate>>
    <3>1. PICK reason \in {"refused", "locked"} :
                 Tell(p, reason, 0) /\ UNCHANGED <<service, fate>>
      BY <2>2
    <3>2. reason \in Reasons /\ reason # "" /\ call[p].kind # "logout"
      BY <1>7 DEF Reasons, ServiceLogin
    <3> QED
      BY <3>1, <3>2, PlainTellKeeps
  <2> QED
    BY <1>7, <2>1, <2>2 DEF ServiceLogin
<1>8. ASSUME NEW p \in Calls, ServiceRefresh(p) PROVE GateInductive'
  <2>1. CASE /\ RefreshToken(p) \in service.live
             /\ IssuePair(p, service.live \ {RefreshToken(p)}) /\ UNCHANGED fate
    BY <1>8, <2>1, IssuesKeep DEF ServiceRefresh
  <2>2. CASE Tell(p, "refused", 0) /\ UNCHANGED <<service, fate>>
    <3>1. "refused" \in Reasons /\ call[p].kind # "logout"
      BY <1>8 DEF Reasons, ServiceRefresh
    <3> QED
      BY <2>2, <3>1, PlainTellKeeps
  <2>3. CASE /\ Tell(p, "revoked", 0)
             /\ service' = [service EXCEPT !.live = {}]
             /\ fate' = [fate EXCEPT !.ended = TRUE]
    BY <1>8, <2>3, EndsKeep DEF ServiceRefresh
  <2> QED
    BY <1>8, <2>1, <2>2, <2>3 DEF ServiceRefresh
<1>9. ASSUME NEW p \in Calls, ServiceLogout(p) PROVE GateInductive'
  BY <1>9, ServiceLogoutKeeps
<1>10. ASSUME NEW p \in Calls, ServiceChange(p) PROVE GateInductive'
  <2>1. CASE /\ Tell(p, "", 0)
             /\ service' = [service EXCEPT !.live = {}]
             /\ fate' = [fate EXCEPT !.ended = TRUE]
    BY <1>10, <2>1, EndsKeep DEF ServiceChange
  <2>2. CASE \E reason \in {"refused", "weak"} :
                 Tell(p, reason, 0) /\ UNCHANGED <<service, fate>>
    <3>1. PICK reason \in {"refused", "weak"} :
                 Tell(p, reason, 0) /\ UNCHANGED <<service, fate>>
      BY <2>2
    <3>2. reason \in Reasons /\ reason # "" /\ call[p].kind # "logout"
      BY <1>10 DEF Reasons, ServiceChange
    <3> QED
      BY <3>1, <3>2, PlainTellKeeps
  <2> QED
    BY <1>10, <2>1, <2>2 DEF ServiceChange
<1>11. ASSUME NEW p \in Calls, ServiceForgot(p) PROVE GateInductive'
  BY <1>11, LeastFits, PlainTellKeeps DEF ServiceForgot
<1>12. ASSUME NEW p \in Calls, Login(p) \/ Profile(p) \/ Refresh(p) \/ Logout(p)
       PROVE  GateInductive'
  BY <1>12, LoginKeeps, ProfileKeeps, RefreshKeeps, LogoutKeeps
<1>13. ASSUME NEW p \in Calls, ChangePassword(p) \/ ForgotPassword(p) PROVE GateInductive'
  BY <1>13, PasswordHandlersKeep
<1> QED
  BY <1>1, <1>2, <1>3, <1>4, <1>5, <1>6, <1>7, <1>8, <1>9, <1>10, <1>11, <1>12, <1>13
     DEF GateNext

\* Whatever requests of one browser are in flight together, in every auth.mode: a request
\* carries what fits its kind, and what controller, handlers and auth-service did for it.
THEOREM GateInvariance == GateSpec => []GateInductive
<1>1. GateInit => GateInductive
  BY GateInitFits
<1>2. GateInductive /\ [GateNext]_gateVars => GateInductive'
  BY GateNextKeeps
<1> QED
  BY <1>1, <1>2, PTL DEF GateSpec

\* Browser and auth-service stay in step (setAuthCookies, clearAuthCookies, the handlers of
\* login, refresh and logout): a session that can be refreshed is held by the browser, on its
\* way to it, or its answer was lost; what the script of a browser at rest knows is accepted,
\* and so is what its cookies hold, unless the user has logged out of it.
THEOREM SessionsStayHeld == GateSpec => []SessionsHeld
<1>1. GateInductive => SessionsHeld
  <2> SUFFICES ASSUME GateInductive, ~fate.crossed
               PROVE  /\ service.live \subseteq Held \cup OnItsWay \cup fate.lost
                      /\ Quiet /\ fate.lost = {} /\ ~fate.ended =>
                            /\ memory.refresh \in service.live \cup {0}
                            /\ jar.refresh \in service.live \cup fate.left \cup {0}
    BY DEF SessionsHeld
  <2>1. LiveIsHeld /\ HeldIsLive
    BY DEF GateInductive
  <2>2. Quiet => Movers = {}
    BY DEF Quiet, Movers
  <2> QED
    BY <2>1, <2>2 DEF LiveIsHeld, HeldIsLive
<1> QED
  BY <1>1, GateInvariance, PTL

\* CsrfGuard refuses a browser that sends its token back only without the cookies of a
\* session, after a login that failed half-way, or where the script may not read the cookie
\* and was told no token, by a login of COOKIES_ONLY or before a logout.
THEOREM RefusalsAreExplained == GateSpec => []CsrfExplained
<1>1. GateInductive => CsrfExplained
  BY DEF GateInductive, CsrfsFit, CsrfFits, CsrfExplained, CsrfAllows
<1> QED
  BY <1>1, GateInvariance, PTL
=============================================================================
