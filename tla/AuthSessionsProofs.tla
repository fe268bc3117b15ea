-------------------------- MODULE AuthSessionsProofs --------------------------
(***************************************************************************)
(* Proofs about AuthSessions, for any number of users, tokens, requests    *)
(* and passwords.  `Inductive` is preserved by every step: one lemma per   *)
(* action, or per group of actions that change the same things, with one   *)
(* step per conjunct.  The safety properties are conjuncts of it, and the  *)
(* refinement of SessionLifecycle follows from it step by step.            *)
(***************************************************************************)
EXTENDS AuthSessions, TLAPS

USE AuthSessionsAssumption

-----------------------------------------------------------------------------
(* Rows *)

\* Revoking a row and writing its password leave it a row.
LEMMA RevokedRow ==
    \A row \in RefreshRow : [row EXCEPT !.isRevoked = TRUE] \in RefreshRow
BY DEF RefreshRow

LEMMA WrittenRow ==
    \A row \in UserRow, secret \in Secrets :
        [row EXCEPT !.password = secret, !.legacy = FALSE] \in UserRow
BY DEF UserRow

-----------------------------------------------------------------------------
(* Login *)

\* A login that has verified the password holds the one the row has.
LEMMA LoginReadStep ==
    ASSUME Inductive, NEW p \in Requests, LoginRead(p)
    PROVE  Inductive'
<1>1. TypeOK'
    BY DEF Inductive, LoginRead, Begin, TypeOK, UserRow, Steps, LoginSteps, Locals
<1>2. Owed \subseteq Owed' BY DEF Inductive, LoginRead, Begin, Owed, RevokeDue, TypeOK
<1>3. LocalsFit'
    BY DEF Inductive, LoginRead, Begin, LocalsFit, RotationSteps, ResetSteps,
       TypeOK, UserRow
<1>4. HistoryFits' BY DEF Inductive, LoginRead, HistoryFits, Issued
<1>5. EvidenceHolds'
    BY <1>2 DEF Inductive, LoginRead, Begin, EvidenceHolds, RotationSteps, TypeOK
<1>6. SpentBeforeReplaced' BY DEF Inductive, LoginRead, SpentBeforeReplaced
<1>7. SessionsFollowPassword'
    BY <1>2 DEF Inductive, LoginRead, SessionsFollowPassword, Active, Issued
<1>8. RevokedFamiliesStayDead'
    BY DEF Inductive, LoginRead, RevokedFamiliesStayDead, Active, Issued
<1> QED BY <1>1, <1>3, <1>4, <1>5, <1>6, <1>7, <1>8 DEF Inductive

\* A rehash that changes the password leaves the user in `lapsed`.
LEMMA LoginRehashStep ==
    ASSUME Inductive, NEW p \in Requests, LoginRehash(p)
    PROVE  Inductive'
<1>u. req[p].user \in Users /\ req[p].secret \in Secrets
    BY DEF Inductive, LoginRehash, LocalsFit, LoginSteps
<1>h. history'.lapsed = IF users[req[p].user].password = req[p].secret
                        THEN history.lapsed ELSE history.lapsed \cup {req[p].user}
    BY DEF Inductive, LoginRehash, TypeOK
<1>s. history' = [history EXCEPT !.lapsed = history'.lapsed]
    BY DEF Inductive, LoginRehash, TypeOK
<1>1. TypeOK'
  <2>1. users' \in [Users -> UserRow]
      BY <1>u, WrittenRow DEF Inductive, LoginRehash, Goto, WritePassword, TypeOK
  <2>2. history' \in History BY <1>u, <1>h, <1>s DEF Inductive, TypeOK, History
  <2> QED BY <2>1, <2>2 DEF Inductive, LoginRehash, Goto, TypeOK, Steps, LoginSteps
<1>2. Owed \subseteq Owed'
    BY DEF Inductive, LoginRehash, Goto, Owed, RevokeDue, TypeOK, History
<1>w. /\ users'[req[p].user].password = req[p].secret
      /\ \A u \in Users \ {req[p].user} : users'[u].password = users[u].password
    BY <1>u DEF Inductive, LoginRehash, WritePassword, TypeOK
<1>o. users[req[p].user].password = req[p].secret \/ req[p].user \in Owed'
    BY <1>h DEF Owed
<1>3. LocalsFit'
    BY DEF Inductive, LoginRehash, Goto, LocalsFit, LoginSteps, RotationSteps,
       ResetSteps, TypeOK
<1>4. HistoryFits' BY DEF Inductive, LoginRehash, HistoryFits, Issued, TypeOK, History
<1>5. EvidenceHolds'
    BY <1>2, <1>w, <1>o DEF Inductive, LoginRehash, Goto, EvidenceHolds,
       LoginSteps, RotationSteps, LocalsFit, TypeOK, History
<1>6. SpentBeforeReplaced'
    BY DEF Inductive, LoginRehash, SpentBeforeReplaced, TypeOK, History
<1>7. SessionsFollowPassword'
    BY <1>2, <1>w, <1>o DEF Inductive, LoginRehash, SessionsFollowPassword, Active,
       Issued, TypeOK, RefreshRow, History
<1>8. RevokedFamiliesStayDead'
    BY DEF Inductive, LoginRehash, RevokedFamiliesStayDead, Active, Issued, TypeOK,
       History
<1> QED BY <1>1, <1>3, <1>4, <1>5, <1>6, <1>7, <1>8 DEF Inductive

\* A new session, opened with the password the login has verified.
LEMMA LoginIssueStep ==
    ASSUME Inductive, NEW p \in Requests, LoginIssue(p)
    PROVE  Inductive'
<1>1. PICK t \in RefreshTokens :
          /\ InsertRefresh(req[p].user, t)
          /\ history' = [history EXCEPT !.opened[t] = req[p].secret, !.family[t] = t,
                                        !.survivor = Inherit(p, t), !.overtaken = @ \ {p}]
    BY DEF Inductive, LoginIssue, Finish, NoLocals, InsertRefresh, Issued, Inherit
<1>u. req[p].user \in Users /\ req[p].secret \in Secrets
    BY DEF Inductive, LoginIssue, LocalsFit, LoginSteps
<1>h. /\ history'.opened = [history.opened EXCEPT ![t] = req[p].secret]
      /\ history'.family = [history.family EXCEPT ![t] = t]
      /\ history'.survivor = Inherit(p, t)
      /\ history'.overtaken = history.overtaken \ {p}
      /\ history'.parent = history.parent
      /\ history'.burnt = history.burnt
      /\ history'.lapsed = history.lapsed
    BY <1>1 DEF Inductive, TypeOK
<1>k. history' \in History BY <1>1, <1>h, <1>u DEF Inductive, TypeOK, History, Inherit
<1>2. TypeOK'
  <2>1. refresh' \in [RefreshTokens -> RefreshRow]
      BY <1>1, <1>u DEF Inductive, InsertRefresh, TypeOK, RefreshRow
  <2> QED BY <1>k, <2>1 DEF Inductive, LoginIssue, Finish, NoLocals, TypeOK, Steps, Locals
<1>3. Owed \subseteq Owed' BY DEF Inductive, LoginIssue, Finish, Owed, RevokeDue, TypeOK
<1>4. LocalsFit'
    BY DEF Inductive, LoginIssue, Finish, InsertRefresh, Issued, LocalsFit,
       LoginSteps, RotationSteps, ResetSteps, TypeOK
<1>5. HistoryFits'
    BY <1>1, <1>u DEF Inductive, HistoryFits, Issued, Inherit, InsertRefresh,
       TypeOK, History
<1>6. EvidenceHolds'
    BY <1>3 DEF Inductive, LoginIssue, Finish, InsertRefresh, Issued,
       EvidenceHolds, LoginSteps, RotationSteps, LocalsFit, TypeOK, History
<1>7. SpentBeforeReplaced'
    BY <1>1 DEF Inductive, SpentBeforeReplaced, HistoryFits, InsertRefresh, TypeOK,
       History
<1>8. SessionsFollowPassword'
    BY <1>3 DEF Inductive, LoginIssue, InsertRefresh, Issued, Inherit,
       SessionsFollowPassword, Active, EvidenceHolds, LoginSteps, TypeOK, History
<1>9. RevokedFamiliesStayDead'
    BY DEF Inductive, LoginIssue, InsertRefresh, Issued, Inherit,
       RevokedFamiliesStayDead, Active, HistoryFits, TypeOK, History
<1> QED BY <1>2, <1>4, <1>5, <1>6, <1>7, <1>8, <1>9 DEF Inductive

-----------------------------------------------------------------------------
(* Rotation *)

\* The exchange of a token is as entitled to go on as the token is.
LEMMA RefreshReadStep ==
    ASSUME Inductive, NEW p \in Requests, RefreshRead(p)
    PROVE  Inductive'
<1>1. PICK t \in RefreshTokens :
          /\ Issued(t)
          /\ Begin(p, IF refresh[t].isRevoked THEN "refresh_reuse" ELSE "refresh_user",
                   [user |-> refresh[t].userId, token |-> t, secret |-> None])
          /\ history' = [history EXCEPT !.overtaken = IF t \in history.survivor
                                                      THEN @ \cup {p} ELSE @]
    BY DEF Inductive, RefreshRead, Issued, Begin
<1>u. refresh[t].userId \in Users BY <1>1 DEF Inductive, TypeOK, RefreshRow, Issued
<1>h. history' \in History BY <1>1 DEF Inductive, TypeOK, History
<1>2. TypeOK'
    BY <1>1, <1>h, <1>u DEF Inductive, RefreshRead, Issued, Begin, TypeOK, Steps,
       LoginSteps, RotationSteps, Locals
<1>3. Owed \subseteq Owed' BY <1>1 DEF Inductive, Owed, RevokeDue, Begin, TypeOK, History
<1>4. LocalsFit'
    BY <1>1, <1>u DEF Inductive, RefreshRead, Begin, LocalsFit, LoginSteps,
       ResetSteps, TypeOK
<1>5. HistoryFits' BY DEF Inductive, RefreshRead, Issued, HistoryFits, TypeOK, History
<1>6. EvidenceHolds'
    BY <1>3 DEF Inductive, RefreshRead, Begin, EvidenceHolds, LoginSteps,
       RotationSteps, SessionsFollowPassword, Active, RevokedFamiliesStayDead,
       TypeOK, History
<1>7. SpentBeforeReplaced'
    BY DEF Inductive, RefreshRead, SpentBeforeReplaced, TypeOK, History
<1>8. SessionsFollowPassword'
    BY <1>3 DEF Inductive, RefreshRead, Issued, SessionsFollowPassword, Active,
       TypeOK, History
<1>9. RevokedFamiliesStayDead'
    BY DEF Inductive, RefreshRead, Issued, RevokedFamiliesStayDead, Active, TypeOK,
       History
<1> QED BY <1>2, <1>4, <1>5, <1>6, <1>7, <1>8, <1>9 DEF Inductive

\* A user who has been deleted or blocked since ends the exchange.
LEMMA RefreshUserStep ==
    ASSUME Inductive, NEW p \in Requests, RefreshUser(p)
    PROVE  Inductive'
<1>1. /\ pc[p] = "refresh_user"
      /\ \/ Goto(p, "refresh_revoke") /\ UNCHANGED <<req, history>>
         \/ Finish(p) /\ history' = [history EXCEPT !.overtaken = @ \ {p}]
      /\ UNCHANGED <<users, refresh, reset, expired>>
    BY DEF RefreshUser
<1>h. /\ history' = [history EXCEPT !.overtaken = history'.overtaken]
      /\ history'.overtaken \in {history.overtaken, history.overtaken \ {p}}
    BY <1>1 DEF Inductive, TypeOK, History
<1>c. \A q \in Requests \ history'.overtaken : pc'[q] # "idle" => q \notin history.overtaken
    BY <1>1, <1>h DEF Inductive, Finish, TypeOK
<1>2. TypeOK'
  <2>1. history' \in History BY <1>h DEF Inductive, TypeOK, History
  <2>2. pc' \in [Requests -> Steps] /\ req' \in [Requests -> Locals]
      BY <1>1 DEF Inductive, Finish, NoLocals, Goto, TypeOK, Steps, RotationSteps,
         Locals
  <2> QED BY <1>1, <2>1, <2>2 DEF Inductive, TypeOK
<1>3. Owed \subseteq Owed'
    BY <1>1 DEF Inductive, Owed, RevokeDue, Finish, Goto, TypeOK, History
<1>4. LocalsFit'
    BY <1>1 DEF Inductive, LocalsFit, LoginSteps, RotationSteps, ResetSteps,
       Finish, Goto, TypeOK
<1>5. HistoryFits' BY <1>1 DEF Inductive, HistoryFits, Issued, TypeOK, History
<1>6. EvidenceHolds'
    BY <1>1, <1>3 DEF Inductive, EvidenceHolds, LoginSteps, RotationSteps, Finish,
       Goto, TypeOK, History
<1>7. SpentBeforeReplaced' BY <1>1 DEF Inductive, SpentBeforeReplaced, TypeOK, History
<1>8. SessionsFollowPassword'
    BY <1>1, <1>3 DEF Inductive, SessionsFollowPassword, Active, Issued, TypeOK,
       History
<1>9. RevokedFamiliesStayDead'
    BY <1>1 DEF Inductive, RevokedFamiliesStayDead, Active, Issued, TypeOK, History
<1> QED BY <1>2, <1>4, <1>5, <1>6, <1>7, <1>8, <1>9 DEF Inductive

LEMMA RefreshRevokeStep ==
    ASSUME Inductive, NEW p \in Requests, RefreshRevoke(p)
    PROVE  Inductive'
<1>k. req[p].token \in RefreshTokens
    BY DEF Inductive, RefreshRevoke, LocalsFit, RotationSteps
<1>r. \A t \in RefreshTokens :
          refresh'[t] = IF t = req[p].token THEN [refresh[t] EXCEPT !.isRevoked = TRUE]
                        ELSE refresh[t]
    BY <1>k DEF Inductive, RefreshRevoke, Goto, TypeOK
<1>1. TypeOK'
  <2>1. refresh' \in [RefreshTokens -> RefreshRow]
      BY <1>k, RevokedRow DEF Inductive, RefreshRevoke, TypeOK
  <2> QED BY <2>1 DEF Inductive, RefreshRevoke, Goto, TypeOK, Steps, RotationSteps
<1>2. Owed \subseteq Owed' BY DEF Inductive, RefreshRevoke, Goto, Owed, RevokeDue, TypeOK
<1>3. LocalsFit'
    BY DEF Inductive, RefreshRevoke, Goto, LocalsFit, LoginSteps, RotationSteps,
       ResetSteps, TypeOK
<1>4. HistoryFits'
    BY DEF Inductive, RefreshRevoke, HistoryFits, Issued, LocalsFit, RotationSteps,
       TypeOK
<1>5. EvidenceHolds'
    BY <1>2 DEF Inductive, RefreshRevoke, Goto, EvidenceHolds, LoginSteps,
       RotationSteps, TypeOK
<1>6. SpentBeforeReplaced'
    BY DEF Inductive, RefreshRevoke, SpentBeforeReplaced, TypeOK, History
<1>7. SessionsFollowPassword'
    BY <1>2 DEF Inductive, RefreshRevoke, SessionsFollowPassword, Active, Issued,
       TypeOK
<1>8. RevokedFamiliesStayDead'
    BY DEF Inductive, RefreshRevoke, RevokedFamiliesStayDead, Active, Issued,
       TypeOK
<1> QED BY <1>1, <1>3, <1>4, <1>5, <1>6, <1>7, <1>8 DEF Inductive

\* The successor inherits the session and, with it, its entitlement.
LEMMA RefreshIssueStep ==
    ASSUME Inductive, NEW p \in Requests, RefreshIssue(p)
    PROVE  Inductive'
<1> DEFINE old == req[p].token
<1>1. PICK t \in RefreshTokens :
          /\ InsertRefresh(req[p].user, t)
          /\ history' = [history EXCEPT !.opened[t] = history.opened[old], !.parent[t] = old,
                                        !.family[t] = history.family[old],
                                        !.survivor = Inherit(p, t), !.overtaken = @ \ {p}]
    BY DEF Inductive, RefreshIssue, Finish, NoLocals, InsertRefresh, Issued,
       Inherit
<1>u. /\ req[p].user \in Users
      /\ old \in RefreshTokens
      /\ refresh[old].userId = req[p].user
      /\ refresh[old].isRevoked
    BY DEF Inductive, RefreshIssue, LocalsFit, RotationSteps
<1>h. /\ history'.opened = [history.opened EXCEPT ![t] = history.opened[old]]
      /\ history'.family = [history.family EXCEPT ![t] = history.family[old]]
      /\ history'.parent = [history.parent EXCEPT ![t] = old]
      /\ history'.survivor = Inherit(p, t)
      /\ history'.overtaken = history.overtaken \ {p}
      /\ history'.burnt = history.burnt
      /\ history'.lapsed = history.lapsed
    BY <1>1 DEF Inductive, TypeOK
<1>k. history' \in History
  <2>1. Inherit(p, t) \in SUBSET RefreshTokens BY DEF Inductive, Inherit, TypeOK, History
  <2>2. history.family[old] \in RefreshTokens /\ history.opened[old] \in Secrets \cup {None}
      BY <1>u DEF Inductive, HistoryFits, TypeOK, History
  <2> QED BY <1>1, <1>u, <2>1, <2>2 DEF Inductive, TypeOK, History
<1>2. TypeOK'
  <2>1. refresh' \in [RefreshTokens -> RefreshRow]
      BY <1>1, <1>u DEF Inductive, InsertRefresh, TypeOK, RefreshRow
  <2> QED
      BY <1>k, <2>1 DEF Inductive, RefreshIssue, Finish, NoLocals, TypeOK, Steps,
         Locals
<1>3. Owed \subseteq Owed' BY DEF Inductive, RefreshIssue, Finish, Owed, RevokeDue, TypeOK
<1>4. LocalsFit'
    BY DEF Inductive, RefreshIssue, Finish, InsertRefresh, Issued, LocalsFit,
       LoginSteps, RotationSteps, ResetSteps, TypeOK
<1>5. HistoryFits'
    BY <1>1, <1>u DEF Inductive, HistoryFits, Issued, Inherit, InsertRefresh,
       TypeOK, History
<1>6. EvidenceHolds'
    BY <1>3 DEF Inductive, RefreshIssue, Finish, InsertRefresh, Issued,
       EvidenceHolds, LoginSteps, RotationSteps, LocalsFit, TypeOK, History
<1>7. SpentBeforeReplaced'
    BY <1>1, <1>u DEF Inductive, SpentBeforeReplaced, HistoryFits, InsertRefresh,
       TypeOK, History
<1>8. SessionsFollowPassword'
    BY <1>3 DEF Inductive, RefreshIssue, InsertRefresh, Issued, Inherit,
       SessionsFollowPassword, Active, EvidenceHolds, RotationSteps, TypeOK,
       History
<1>9. RevokedFamiliesStayDead'
    BY DEF Inductive, RefreshIssue, InsertRefresh, Issued, Inherit,
       RevokedFamiliesStayDead, Active, EvidenceHolds, RotationSteps, TypeOK,
       History
<1> QED BY <1>2, <1>4, <1>5, <1>6, <1>7, <1>8, <1>9 DEF Inductive

LEMMA LogoutStep ==
    ASSUME Inductive, Logout
    PROVE  Inductive'
<1>1. PICK t \in RefreshTokens :
          Active(t) /\ refresh' = [refresh EXCEPT ![t].isRevoked = TRUE]
    BY DEF Inductive, Logout, Active, Issued
<1>r. \A x \in RefreshTokens :
          refresh'[x] = IF x = t THEN [refresh[x] EXCEPT !.isRevoked = TRUE] ELSE refresh[x]
    BY <1>1 DEF Inductive, TypeOK
<1>2. TypeOK'
  <2>1. refresh' \in [RefreshTokens -> RefreshRow]
      BY <1>1, RevokedRow DEF Inductive, TypeOK
  <2> QED BY <2>1 DEF Inductive, Logout, TypeOK
<1>3. Owed' = Owed BY DEF Logout, Owed
<1>4. LocalsFit' BY DEF Inductive, Logout, LocalsFit, TypeOK
<1>5. HistoryFits' BY DEF Inductive, Logout, Active, Issued, HistoryFits, TypeOK
<1>6. EvidenceHolds' BY <1>3 DEF Inductive, Logout, EvidenceHolds
<1>7. SpentBeforeReplaced' BY DEF Inductive, Logout, SpentBeforeReplaced, TypeOK, History
<1>8. SessionsFollowPassword'
    BY <1>3 DEF Inductive, Logout, Active, Issued, SessionsFollowPassword, TypeOK
<1>9. RevokedFamiliesStayDead'
    BY DEF Inductive, Logout, Active, Issued, RevokedFamiliesStayDead, TypeOK
<1> QED BY <1>2, <1>4, <1>5, <1>6, <1>7, <1>8, <1>9 DEF Inductive

-----------------------------------------------------------------------------
(* Passwords *)

\* A request about a password starts: it entitles nobody to a session yet.
LEMMA PasswordReadStep ==
    ASSUME Inductive, NEW p \in Requests,
           NEW step \in {"forgot_create", "reset_write", "change_write"},
           NEW locals \in Locals,
           locals.user \in Users,
           step # "forgot_create" => locals.secret \in Secrets,
           step = "reset_write" => locals.token \in ResetTokens,
           Begin(p, step, locals),
           UNCHANGED <<users, refresh, reset, expired, history>>
    PROVE  Inductive'
<1>1. TypeOK' BY DEF Inductive, Begin, TypeOK, Steps, ResetSteps, ChangeSteps
<1>2. Owed \subseteq Owed' BY DEF Inductive, Begin, Owed, RevokeDue, TypeOK
<1>3. LocalsFit'
    BY DEF Inductive, Begin, LocalsFit, LoginSteps, RotationSteps, ResetSteps,
       TypeOK
<1>4. HistoryFits' BY DEF Inductive, HistoryFits, Issued
<1>5. EvidenceHolds'
    BY <1>2 DEF Inductive, Begin, EvidenceHolds, LoginSteps, RotationSteps, TypeOK
<1>6. SpentBeforeReplaced' BY DEF Inductive, SpentBeforeReplaced
<1>7. SessionsFollowPassword'
    BY <1>2 DEF Inductive, SessionsFollowPassword, Active, Issued
<1>8. RevokedFamiliesStayDead' BY DEF Inductive, RevokedFamiliesStayDead, Active, Issued
<1> QED BY <1>1, <1>3, <1>4, <1>5, <1>6, <1>7, <1>8 DEF Inductive

LEMMA ForgotCreateStep ==
    ASSUME Inductive, NEW p \in Requests, ForgotCreate(p)
    PROVE  Inductive'
<1>1. TypeOK'
    BY DEF Inductive, ForgotCreate, Finish, NoLocals, InsertReset, TypeOK,
       ResetRow, Steps, Locals
<1>2. Owed \subseteq Owed' BY DEF Inductive, ForgotCreate, Finish, Owed, RevokeDue, TypeOK
<1>3. LocalsFit'
    BY DEF Inductive, ForgotCreate, Finish, LocalsFit, LoginSteps, RotationSteps,
       ResetSteps, TypeOK
<1>4. HistoryFits' BY DEF Inductive, ForgotCreate, HistoryFits, Issued
<1>5. EvidenceHolds'
    BY <1>2 DEF Inductive, ForgotCreate, Finish, EvidenceHolds, LoginSteps,
       RotationSteps, TypeOK
<1>6. SpentBeforeReplaced' BY DEF Inductive, ForgotCreate, SpentBeforeReplaced
<1>7. SessionsFollowPassword'
    BY <1>2 DEF Inductive, ForgotCreate, SessionsFollowPassword, Active, Issued
<1>8. RevokedFamiliesStayDead'
    BY DEF Inductive, ForgotCreate, RevokedFamiliesStayDead, Active, Issued
<1> QED BY <1>1, <1>3, <1>4, <1>5, <1>6, <1>7, <1>8 DEF Inductive

\* A written password is owed the end of the sessions: the handler is at a step
\* of RevokeDue now.
LEMMA PasswordWriteStep ==
    ASSUME Inductive, NEW p \in Requests,
           ResetWrite(p) \/ ChangeWrite(p)
    PROVE  Inductive'
<1>0. /\ \/ pc[p] = "reset_write" /\ Goto(p, "reset_mark")
         \/ pc[p] = "change_write" /\ Goto(p, "change_revoke")
      /\ WritePassword(req[p].user, req[p].secret)
      /\ UNCHANGED <<refresh, reset, expired, req, history>>
    BY DEF ResetWrite, ChangeWrite
<1>u. req[p].user \in Users /\ req[p].secret \in Secrets BY <1>0 DEF Inductive, LocalsFit
<1>w. \A u \in Users \ {req[p].user} : users'[u].password = users[u].password
    BY <1>0 DEF Inductive, WritePassword, TypeOK
<1>1. TypeOK'
  <2>1. users' \in [Users -> UserRow]
      BY <1>0, <1>u, WrittenRow DEF Inductive, WritePassword, TypeOK
  <2> QED BY <1>0, <2>1 DEF Inductive, Goto, TypeOK, Steps, ResetSteps, ChangeSteps
<1>2. Owed' = Owed \cup {req[p].user} BY <1>0 DEF Inductive, Owed, RevokeDue, Goto, TypeOK
<1>3. LocalsFit' BY <1>0 DEF Inductive, LocalsFit, RotationSteps, ResetSteps, Goto, TypeOK
<1>4. HistoryFits' BY <1>0 DEF Inductive, HistoryFits, Issued
<1>5. EvidenceHolds'
    BY <1>0, <1>2, <1>w DEF Inductive, EvidenceHolds, LoginSteps, RotationSteps,
       LocalsFit, Goto, TypeOK
<1>6. SpentBeforeReplaced' BY <1>0 DEF Inductive, SpentBeforeReplaced
<1>7. SessionsFollowPassword'
    BY <1>0, <1>2, <1>w DEF Inductive, SessionsFollowPassword, Active, Issued,
       TypeOK, RefreshRow
<1>8. RevokedFamiliesStayDead'
    BY <1>0 DEF Inductive, RevokedFamiliesStayDead, Active, Issued
<1> QED BY <1>1, <1>3, <1>4, <1>5, <1>6, <1>7, <1>8 DEF Inductive

LEMMA ResetMarkStep ==
    ASSUME Inductive, NEW p \in Requests, ResetMark(p)
    PROVE  Inductive'
<1>1. TypeOK'
  <2>1. req[p].token \in ResetTokens BY DEF Inductive, ResetMark, LocalsFit, ResetSteps
  <2>0. reset[req[p].token] \in ResetRow BY <2>1 DEF Inductive, TypeOK
  <2>2. [reset[req[p].token] EXCEPT !.isUsed = TRUE] \in ResetRow
      BY <2>0 DEF ResetRow
  <2>3. reset' \in [ResetTokens -> ResetRow]
      BY <2>1, <2>2 DEF Inductive, ResetMark, TypeOK
  <2> QED BY <2>3 DEF Inductive, ResetMark, Goto, TypeOK, Steps, ResetSteps
<1>2. Owed \subseteq Owed' BY DEF Inductive, ResetMark, Goto, Owed, RevokeDue, TypeOK
<1>3. LocalsFit'
    BY DEF Inductive, ResetMark, Goto, LocalsFit, LoginSteps, RotationSteps,
       ResetSteps, TypeOK
<1>4. HistoryFits' BY DEF Inductive, ResetMark, HistoryFits, Issued
<1>5. EvidenceHolds'
    BY <1>2 DEF Inductive, ResetMark, Goto, EvidenceHolds, LoginSteps,
       RotationSteps, TypeOK
<1>6. SpentBeforeReplaced' BY DEF Inductive, ResetMark, SpentBeforeReplaced
<1>7. SessionsFollowPassword'
    BY <1>2 DEF Inductive, ResetMark, SessionsFollowPassword, Active, Issued
<1>8. RevokedFamiliesStayDead'
    BY DEF Inductive, ResetMark, RevokedFamiliesStayDead, Active, Issued
<1> QED BY <1>1, <1>3, <1>4, <1>5, <1>6, <1>7, <1>8 DEF Inductive

\* The end of all sessions of a user: whoever is entitled to open or continue
\* one of them is overtaken, so nothing is owed any more.
LEMMA RevokeAllStep ==
    ASSUME Inductive, NEW p \in Requests,
           NEW step \in RevokeDue \cup {"refresh_reuse"}, RevokeAll(p, step)
    PROVE  Inductive'
<1> DEFINE v == req[p].user
<1>u. v \in Users BY DEF Inductive, RevokeAll, LocalsFit, RevokeDue
<1>r. \A t \in RefreshTokens :
          /\ refresh'[t].userId = refresh[t].userId
          /\ refresh'[t].isRevoked <=> (refresh[t].isRevoked \/ refresh[t].userId = v)
    BY DEF Inductive, RevokeAll, RevokeAllForUser, TypeOK
<1>h. /\ history'.burnt = history.burnt \cup FamiliesOf(v)
      /\ history'.overtaken = history.overtaken \cup Entitled(v)
      /\ history'.lapsed = history.lapsed \ {v}
      /\ history'.opened = history.opened
      /\ history'.parent = history.parent
      /\ history'.family = history.family
      /\ history'.survivor = history.survivor
    BY DEF Inductive, RevokeAll, TypeOK, History
<1>f. FamiliesOf(v) \subseteq {x \in RefreshTokens : refresh[x].userId = v}
    BY <1>u DEF Inductive, FamiliesOf, HistoryFits, Issued
<1>1. TypeOK'
  <2>1. refresh' \in [RefreshTokens -> RefreshRow]
      BY RevokedRow DEF Inductive, RevokeAll, RevokeAllForUser, TypeOK
  <2>2. history' \in History
      BY <1>h, <1>f DEF Inductive, RevokeAll, TypeOK, History, Entitled
  <2> QED BY <2>1, <2>2 DEF Inductive, RevokeAll, Finish, NoLocals, TypeOK, Steps, Locals
<1>2. Owed \subseteq Owed' \cup {v} BY DEF Inductive, RevokeAll, Finish, Owed, TypeOK
<1>3. LocalsFit'
  <2>1. /\ pc'[p] = "idle"
        /\ \A q \in Requests \ {p} : pc'[q] = pc[q] /\ req'[q] = req[q]
      BY DEF Inductive, RevokeAll, Finish, TypeOK
  <2> QED BY <1>r, <2>1 DEF Inductive, LocalsFit, LoginSteps, RotationSteps, ResetSteps
<1>4. HistoryFits'
    BY <1>r, <1>h, <1>f, <1>u DEF Inductive, HistoryFits, Issued, TypeOK, History
<1>e. \A q \in Requests : pc'[q] \in LoginSteps \cup RotationSteps =>
          /\ q # p /\ pc'[q] = pc[q] /\ req'[q] = req[q]
    BY DEF Inductive, RevokeAll, Finish, TypeOK, LoginSteps, RotationSteps
<1>v. \A q \in Requests \ history'.overtaken : pc'[q] \in LoginSteps \cup RotationSteps =>
          /\ q \notin history.overtaken
          /\ req[q].user \in Users \ {v}
    BY <1>e, <1>h DEF Inductive, Entitled, LocalsFit, LoginSteps, RotationSteps
<1>x. \A q \in Requests : pc[q] \in RotationSteps /\ req[q].user # v
          => history.family[req[q].token] \notin FamiliesOf(v)
    BY <1>f DEF Inductive, HistoryFits, Issued, LocalsFit, RotationSteps
<1>5. EvidenceHolds'
  <2>1. ASSUME NEW q \in Requests \ history'.overtaken, pc'[q] \in LoginSteps
        PROVE  req'[q].secret = users'[req'[q].user].password \/ req'[q].user \in Owed'
      BY <1>2, <1>e, <1>v, <2>1 DEF Inductive, RevokeAll, EvidenceHolds
  <2>2. ASSUME NEW q \in Requests \ history'.overtaken, pc'[q] \in RotationSteps
        PROVE  /\ \/ history'.opened[req'[q].token] = users'[req'[q].user].password
                  \/ req'[q].user \in Owed'
               /\ history'.family[req'[q].token] \notin history'.burnt
      BY <1>2, <1>e, <1>v, <1>x, <2>2 DEF Inductive, RevokeAll, EvidenceHolds
  <2> QED BY <2>1, <2>2 DEF EvidenceHolds
<1>6. SpentBeforeReplaced'
    BY <1>r, <1>h DEF Inductive, SpentBeforeReplaced, TypeOK, History
<1>7. SessionsFollowPassword'
    BY <1>2, <1>r DEF Inductive, RevokeAll, SessionsFollowPassword, Active, Issued
<1>8. RevokedFamiliesStayDead'
    BY <1>r, <1>f DEF Inductive, RevokeAll, RevokedFamiliesStayDead, Active,
       Issued, HistoryFits, TypeOK
<1> QED BY <1>1, <1>3, <1>4, <1>5, <1>6, <1>7, <1>8 DEF Inductive

-----------------------------------------------------------------------------
(* The rest of the world *)

LEMMA DieStep ==
    ASSUME Inductive, NEW p \in Requests, Die(p)
    PROVE  Inductive'
<1>h. /\ history'.overtaken = history.overtaken \ {p}
      /\ history'.lapsed = IF pc[p] \in RevokeDue
                           THEN history.lapsed \cup {req[p].user} ELSE history.lapsed
      /\ history'.burnt = history.burnt
      /\ history'.opened = history.opened
      /\ history'.parent = history.parent
      /\ history'.family = history.family
      /\ history'.survivor = history.survivor
    BY DEF Inductive, Die, TypeOK, History
<1>1. TypeOK'
  <2>1. req[p].user \in Users BY DEF Inductive, Die, LocalsFit
  <2>2. history' \in History BY <1>h, <2>1 DEF Inductive, Die, TypeOK, History
  <2> QED BY <2>2 DEF Inductive, Die, Finish, NoLocals, TypeOK, Steps, Locals
<1>2. Owed \subseteq Owed' BY DEF Inductive, Die, Finish, Owed, TypeOK
<1>3. LocalsFit'
    BY DEF Inductive, Die, Finish, LocalsFit, LoginSteps, RotationSteps,
       ResetSteps, TypeOK
<1>4. HistoryFits' BY DEF Inductive, Die, HistoryFits, Issued
<1>5. EvidenceHolds'
    BY <1>2 DEF Inductive, Die, Finish, EvidenceHolds, LoginSteps, RotationSteps,
       TypeOK
<1>6. SpentBeforeReplaced' BY DEF Inductive, Die, SpentBeforeReplaced
<1>7. SessionsFollowPassword'
    BY <1>2 DEF Inductive, Die, SessionsFollowPassword, Active, Issued
<1>8. RevokedFamiliesStayDead'
    BY DEF Inductive, Die, RevokedFamiliesStayDead, Active, Issued
<1> QED BY <1>1, <1>3, <1>4, <1>5, <1>6, <1>7, <1>8 DEF Inductive

\* Blocking and deleting a user leave passwords and sessions alone.
LEMMA AdministrationStep ==
    ASSUME Inductive, NEW u \in Users, SetBlocked(u) \/ Delete(u)
    PROVE  Inductive'
<1>0. UNCHANGED <<refresh, reset, expired, pc, req, history>> BY DEF SetBlocked, Delete
<1>w. \A x \in Users : users'[x] \in UserRow /\ users'[x].password = users[x].password
  <2>1. users[u] \in UserRow BY DEF Inductive, TypeOK
  <2>2. CASE SetBlocked(u)
    <3>1. users' = [users EXCEPT ![u] = [users[u] EXCEPT !.blocked = ~users[u].blocked]]
        BY <2>2 DEF SetBlocked
    <3>2. [users[u] EXCEPT !.blocked = ~users[u].blocked] \in UserRow
        BY <2>1 DEF Inductive, UserRow
    <3> QED BY <3>1, <3>2 DEF Inductive, TypeOK
  <2>3. CASE Delete(u)
    <3>1. users' = [users EXCEPT ![u] = [users[u] EXCEPT !.deleted = TRUE]]
        BY <2>3 DEF Delete
    <3>2. [users[u] EXCEPT !.deleted = TRUE] \in UserRow BY <2>1 DEF Inductive, UserRow
    <3> QED BY <3>1, <3>2 DEF Inductive, TypeOK
  <2> QED BY <2>2, <2>3
<1>1. TypeOK'
  <2>1. users' = [x \in Users |-> users'[x]] BY DEF Inductive, SetBlocked, Delete, TypeOK
  <2> QED BY <1>0, <1>w, <2>1 DEF Inductive, TypeOK
<1>2. Owed' = Owed BY <1>0 DEF Owed
<1>3. LocalsFit' BY <1>0 DEF Inductive, LocalsFit
<1>4. HistoryFits' BY <1>0 DEF Inductive, HistoryFits, Issued
<1>5. EvidenceHolds'
    BY <1>0, <1>2, <1>w DEF Inductive, EvidenceHolds, LoginSteps, RotationSteps,
       LocalsFit
<1>6. SpentBeforeReplaced' BY <1>0 DEF Inductive, SpentBeforeReplaced
<1>7. SessionsFollowPassword'
    BY <1>0, <1>2, <1>w DEF Inductive, SessionsFollowPassword, Active, Issued,
       TypeOK, RefreshRow
<1>8. RevokedFamiliesStayDead'
    BY <1>0 DEF Inductive, RevokedFamiliesStayDead, Active, Issued
<1> QED BY <1>1, <1>3, <1>4, <1>5, <1>6, <1>7, <1>8 DEF Inductive

\* The clock, and a step that changes nothing.
LEMMA ExpireStep ==
    ASSUME Inductive, Expire \/ UNCHANGED vars
    PROVE  Inductive'
<1>0. UNCHANGED <<users, refresh, reset, pc, req, history>> BY DEF Expire, vars
<1>1. TypeOK'
  <2>1. expired' \subseteq RefreshTokens \cup ResetTokens
      BY DEF Inductive, Expire, vars, TypeOK
  <2> QED BY <1>0, <2>1 DEF Inductive, TypeOK
<1>2. Owed' = Owed BY <1>0 DEF Owed
<1>3. LocalsFit' BY <1>0 DEF Inductive, LocalsFit
<1>4. HistoryFits' BY <1>0 DEF Inductive, HistoryFits, Issued
<1>5. EvidenceHolds' BY <1>0, <1>2 DEF Inductive, EvidenceHolds
<1>6. SpentBeforeReplaced' BY <1>0 DEF Inductive, SpentBeforeReplaced
<1>7. SessionsFollowPassword'
    BY <1>0, <1>2 DEF Inductive, SessionsFollowPassword, Active, Issued
<1>8. RevokedFamiliesStayDead'
    BY <1>0 DEF Inductive, RevokedFamiliesStayDead, Active, Issued
<1> QED BY <1>1, <1>3, <1>4, <1>5, <1>6, <1>7, <1>8 DEF Inductive

-----------------------------------------------------------------------------
(* The invariant *)

LEMMA InitInductive == Init => Inductive
<1> SUFFICES ASSUME Init PROVE Inductive OBVIOUS
<1>1. TypeOK
  <2>1. history \in History BY DEF Init, History
  <2> QED
      BY <2>1 DEF Init, TypeOK, RefreshRow, ResetRow, Steps, Locals,
         NoLocals
<1>2. LocalsFit BY DEF Init, LocalsFit, LoginSteps, RotationSteps, ResetSteps
<1>3. HistoryFits BY DEF Init, HistoryFits, Issued
<1>4. EvidenceHolds BY DEF Init, EvidenceHolds, LoginSteps, RotationSteps
<1>5. SpentBeforeReplaced BY DEF Init, SpentBeforeReplaced
<1>6. SessionsFollowPassword BY DEF Init, SessionsFollowPassword, Active, Issued
<1>7. RevokedFamiliesStayDead BY DEF Init, RevokedFamiliesStayDead
<1> QED BY <1>1, <1>2, <1>3, <1>4, <1>5, <1>6, <1>7 DEF Inductive

LEMMA NextInductive == Inductive /\ [Next]_vars => Inductive'
<1> SUFFICES ASSUME Inductive, [Next]_vars PROVE Inductive' OBVIOUS
<1>1. ASSUME NEW p \in Requests, Start(p) PROVE Inductive'
  <2>1. CASE LoginRead(p) BY <2>1, LoginReadStep
  <2>2. CASE RefreshRead(p) BY <2>2, RefreshReadStep
  <2>3. CASE ForgotRead(p) \/ AdminResetRead(p)
    <3>1. PICK u \in Users :
              /\ Begin(p, "forgot_create", [user |-> u, token |-> None, secret |-> None])
              /\ UNCHANGED <<users, refresh, reset, expired, history>>
        BY <2>3 DEF Inductive, ForgotRead, AdminResetRead
    <3>2. [user |-> u, token |-> None, secret |-> None] \in Locals BY DEF Locals
    <3> QED BY <3>1, <3>2, PasswordReadStep
  <2>4. CASE ResetRead(p)
    <3>1. PICK r \in ResetTokens, new \in Secrets :
              /\ ResetValid(r)
              /\ Begin(p, "reset_write", [user |-> reset[r].userId, token |-> r, secret |-> new])
              /\ UNCHANGED <<users, refresh, reset, expired, history>>
        BY <2>4 DEF ResetRead
    <3>2. reset[r].userId \in Users BY <3>1 DEF Inductive, ResetValid, TypeOK, ResetRow
    <3>3. [user |-> reset[r].userId, token |-> r, secret |-> new] \in Locals
        BY <3>2 DEF Locals
    <3> QED BY <3>1, <3>2, <3>3, PasswordReadStep
  <2>5. CASE ChangeRead(p)
    <3>1. PICK u \in Users, new \in Secrets :
              /\ Begin(p, "change_write", [user |-> u, token |-> None, secret |-> new])
              /\ UNCHANGED <<users, refresh, reset, expired, history>>
        BY <2>5 DEF ChangeRead
    <3>2. [user |-> u, token |-> None, secret |-> new] \in Locals BY DEF Locals
    <3> QED BY <3>1, <3>2, PasswordReadStep
  <2> QED BY <1>1, <2>1, <2>2, <2>3, <2>4, <2>5 DEF Start
<1>2. ASSUME NEW p \in Requests, Continue(p) PROVE Inductive'
  <2>1. CASE LoginRehash(p) \/ LoginIssue(p)
    BY <2>1, LoginRehashStep, LoginIssueStep
  <2>2. CASE RefreshUser(p) \/ RefreshRevoke(p) \/ RefreshIssue(p)
    BY <2>2, RefreshUserStep, RefreshRevokeStep, RefreshIssueStep
  <2>3. CASE RefreshReuse(p) \/ ResetRevoke(p) \/ ChangeRevoke(p)
    BY <2>3, RevokeAllStep DEF RefreshReuse, ResetRevoke, ChangeRevoke, RevokeDue
  <2>4. CASE ForgotCreate(p) BY <2>4, ForgotCreateStep
  <2>5. CASE ResetWrite(p) \/ ChangeWrite(p) BY <2>5, PasswordWriteStep
  <2>6. CASE ResetMark(p) BY <2>6, ResetMarkStep
  <2> QED BY <1>2, <2>1, <2>2, <2>3, <2>4, <2>5, <2>6 DEF Continue
<1>3. ASSUME NEW p \in Requests, Die(p) PROVE Inductive'
  BY <1>3, DieStep
<1>4. ASSUME NEW u \in Users, SetBlocked(u) \/ Delete(u) PROVE Inductive'
  BY <1>4, AdministrationStep
<1>5. CASE Logout BY <1>5, LogoutStep
<1>6. CASE Expire \/ UNCHANGED vars BY <1>6, ExpireStep
<1> QED BY <1>1, <1>2, <1>3, <1>4, <1>5, <1>6 DEF Next

\* The inductive invariant holds in every reachable state.
THEOREM Invariance == Spec => []Inductive
BY InitInductive, NextInductive, PTL DEF Spec

\* Every row and every local variable of a handler has its type.
THEOREM TypeCorrect == Spec => []TypeOK
BY Invariance, PTL DEF Inductive

\* A rotated refresh token is revoked before its successor exists, whatever
\* requests interleave and wherever they die.
THEOREM RotationSpends == Spec => []SpentBeforeReplaced
BY Invariance, PTL DEF Inductive

\* Active sessions were opened with the current password, but for the named
\* windows between two awaits of a handler.
THEOREM SessionsFollow == Spec => []SessionsFollowPassword
BY Invariance, PTL DEF Inductive

\* No token of a family that a revokeAllForUser ended is active again.
THEOREM DeadFamilies == Spec => []RevokedFamiliesStayDead
BY Invariance, PTL DEF Inductive

-----------------------------------------------------------------------------
(* Refinement *)

\* An action that touches neither the refresh rows nor the predecessors is a
\* stutter of SessionLifecycle.
LEMMA LifecycleStutter ==
    ASSUME UNCHANGED <<refresh, history.parent>>
    PROVE  UNCHANGED Lifecycle!lifecycleVars
BY DEF Lifecycle!lifecycleVars, Active, Issued

\* Revoking tokens of one user, and only those, is the abstract Revoke.
LEMMA LifecycleRevoke ==
    ASSUME Inductive, NEW u \in Users, NEW dead \in SUBSET RefreshTokens,
           \A t \in dead : refresh[t].userId = u,
           refresh' = [t \in RefreshTokens |->
                          IF t \in dead THEN [refresh[t] EXCEPT !.isRevoked = TRUE]
                          ELSE refresh[t]],
           UNCHANGED history.parent
    PROVE  [Lifecycle!Next]_(Lifecycle!lifecycleVars)
<1> DEFINE live == {t \in RefreshTokens : Active(t)}
<1>1. \A t \in RefreshTokens : refresh'[t].userId = refresh[t].userId
    BY DEF Inductive, TypeOK
<1>2. live' = live \ (dead \cap live) BY DEF Inductive, Active, Issued, TypeOK
<1>3. UNCHANGED [t \in RefreshTokens |-> refresh[t].userId] OBVIOUS
<1>4. CASE dead \cap live = {} BY <1>2, <1>4 DEF Lifecycle!lifecycleVars
<1>5. CASE dead \cap live # {}
  <2>1. Lifecycle!Revoke(u, dead \cap live) BY <1>2, <1>5 DEF Lifecycle!Revoke
  <2> QED BY <2>1 DEF Lifecycle!Next
<1> QED BY <1>4, <1>5

\* A login opens a session.
LEMMA LifecycleOpen ==
    ASSUME Inductive, NEW p \in Requests, LoginIssue(p)
    PROVE  Lifecycle!Next
<1>1. PICK t \in RefreshTokens :
          /\ InsertRefresh(req[p].user, t)
          /\ history'.parent = history.parent
    BY DEF Inductive, LoginIssue, TypeOK, History
<1>2. req[p].user \in Users BY DEF Inductive, LoginIssue, LocalsFit
<1>3. /\ refresh \in [RefreshTokens -> RefreshRow]
      /\ refresh[t].userId = None
      /\ refresh' = [refresh EXCEPT ![t] = [userId |-> req[p].user, isRevoked |-> FALSE]]
    BY <1>1 DEF Inductive, TypeOK, InsertRefresh, Issued
<1>4. req[p].user # None BY <1>2, AuthSessionsAssumption
<1>5. Lifecycle!Open(req[p].user, t)
  <2>1. [x \in RefreshTokens |-> refresh[x].userId]'
          = [[x \in RefreshTokens |-> refresh[x].userId] EXCEPT ![t] = req[p].user]
    BY <1>3
  <2>2. {x \in RefreshTokens : Active(x)}'
          = {x \in RefreshTokens : Active(x)} \cup {t}
    BY <1>3, <1>4 DEF Active, Issued
  <2>3. t \notin Lifecycle!Issued BY <1>3 DEF Lifecycle!Issued
  <2> QED BY <1>1, <2>1, <2>2, <2>3 DEF Lifecycle!Open
<1> QED BY <1>2, <1>5 DEF Lifecycle!Next

\* An exchange continues one: what the request has revoked is spent.
LEMMA LifecycleRotate ==
    ASSUME Inductive, NEW p \in Requests, RefreshIssue(p)
    PROVE  Lifecycle!Next
<1> DEFINE old == req[p].token
<1>1. PICK t \in RefreshTokens :
          /\ InsertRefresh(req[p].user, t)
          /\ history'.parent = [history.parent EXCEPT ![t] = old]
    BY DEF Inductive, RefreshIssue, TypeOK, History
<1>2. /\ req[p].user \in Users
      /\ old \in RefreshTokens
      /\ refresh[old].userId = req[p].user
      /\ refresh[old].isRevoked
    BY DEF Inductive, RefreshIssue, LocalsFit, RotationSteps
<1>3. Lifecycle!Rotate(old, t)
    BY <1>1, <1>2 DEF Inductive, Lifecycle!Rotate, Lifecycle!Issued, InsertRefresh,
       Issued, Active, TypeOK
<1> QED BY <1>2, <1>3 DEF Lifecycle!Next

LEMMA LifecycleStep ==
    Inductive /\ [Next]_vars => [Lifecycle!Next]_(Lifecycle!lifecycleVars)
<1> SUFFICES ASSUME Inductive, [Next]_vars
             PROVE  [Lifecycle!Next]_(Lifecycle!lifecycleVars) OBVIOUS
<1> DEFINE Same == UNCHANGED <<refresh, history.parent>>
<1>1. ASSUME NEW p \in Requests, Start(p)
      PROVE  Same
    BY <1>1 DEF Inductive, TypeOK, History, Start, LoginRead, RefreshRead,
       ForgotRead, AdminResetRead, ResetRead, ChangeRead
<1>2. ASSUME NEW p \in Requests, Continue(p)
      PROVE  [Lifecycle!Next]_(Lifecycle!lifecycleVars)
  <2>1. CASE LoginIssue(p) BY <2>1, LifecycleOpen
  <2>2. CASE RefreshIssue(p) BY <2>2, LifecycleRotate
  <2>3. CASE RefreshRevoke(p)
    <3>1. req[p].token \in RefreshTokens /\ req[p].user \in Users
          /\ refresh[req[p].token].userId = req[p].user
        BY <2>3 DEF Inductive, RefreshRevoke, LocalsFit, RotationSteps
    <3>2. refresh' = [t \in RefreshTokens |->
                        IF t \in {req[p].token} THEN [refresh[t] EXCEPT !.isRevoked = TRUE]
                        ELSE refresh[t]]
        BY <2>3, <3>1 DEF Inductive, RefreshRevoke, TypeOK
    <3>3. UNCHANGED history.parent BY <2>3 DEF RefreshRevoke
    <3>4. /\ {req[p].token} \in SUBSET RefreshTokens
          /\ \A t \in {req[p].token} : refresh[t].userId = req[p].user
        BY <3>1
    <3> QED BY <3>1, <3>2, <3>3, <3>4, LifecycleRevoke
  <2>4. CASE RefreshReuse(p) \/ ResetRevoke(p) \/ ChangeRevoke(p)
    <3> DEFINE dead == {t \in RefreshTokens : refresh[t].userId = req[p].user}
    <3>1. PICK step \in RevokeDue \cup {"refresh_reuse"} : RevokeAll(p, step)
        BY <2>4 DEF RefreshReuse, ResetRevoke, ChangeRevoke, RevokeDue
    <3>2. req[p].user \in Users BY <3>1 DEF Inductive, RevokeAll, LocalsFit, RevokeDue
    <3>3. refresh' = [t \in RefreshTokens |->
                        IF t \in dead THEN [refresh[t] EXCEPT !.isRevoked = TRUE]
                        ELSE refresh[t]]
        BY <3>1 DEF RevokeAll, RevokeAllForUser
    <3>4. UNCHANGED history.parent BY <3>1 DEF Inductive, RevokeAll, TypeOK, History
    <3> QED BY <3>2, <3>3, <3>4, LifecycleRevoke
  <2>5. CASE LoginRehash(p) \/ RefreshUser(p) \/ ForgotCreate(p)
    <3>1. Same
        BY <2>5 DEF Inductive, TypeOK, History, LoginRehash, RefreshUser,
           ForgotCreate
    <3> QED BY <3>1, LifecycleStutter
  <2>6. CASE ResetWrite(p) \/ ResetMark(p) \/ ChangeWrite(p)
    <3>1. Same BY <2>6 DEF ResetWrite, ResetMark, ChangeWrite
    <3> QED BY <3>1, LifecycleStutter
  <2> QED BY <1>2, <2>1, <2>2, <2>3, <2>4, <2>5, <2>6 DEF Continue
<1>3. ASSUME NEW p \in Requests, Die(p)
      PROVE  Same
    BY <1>3 DEF Inductive, TypeOK, Die, History
<1>4. CASE Logout
  <2>1. PICK t \in RefreshTokens :
            /\ Active(t)
            /\ refresh' = [refresh EXCEPT ![t].isRevoked = TRUE]
            /\ UNCHANGED history
      BY <1>4 DEF Inductive, Logout
  <2>2. refresh[t].userId \in Users
      BY <2>1 DEF Inductive, Active, Issued, TypeOK, RefreshRow
  <2>3. refresh' = [x \in RefreshTokens |->
                      IF x \in {t} THEN [refresh[x] EXCEPT !.isRevoked = TRUE]
                      ELSE refresh[x]]
      BY <2>1 DEF Inductive, TypeOK
  <2>4. UNCHANGED history.parent BY <2>1
  <2>5. {t} \in SUBSET RefreshTokens /\ \A x \in {t} : refresh[x].userId = refresh[t].userId OBVIOUS
  <2> QED BY <2>2, <2>3, <2>4, <2>5, LifecycleRevoke
<1>5. CASE Expire \/ UNCHANGED vars \/ \E u \in Users : SetBlocked(u) \/ Delete(u)
  <2>1. Same BY <1>5 DEF Expire, SetBlocked, Delete, vars
  <2> QED BY <2>1, LifecycleStutter
<1> QED BY <1>1, <1>2, <1>3, <1>4, <1>5, LifecycleStutter DEF Next

\* The tables behave as the life cycle of sessions promises, for any number of
\* users, tokens and requests.
THEOREM RefinesLifecycle == Spec => ImplementsLifecycle
<1>1. Init => Lifecycle!Init BY DEF Init, Lifecycle!Init, Active, Issued
<1> QED BY <1>1, Invariance, LifecycleStep, PTL
        DEF Spec, ImplementsLifecycle, Lifecycle!LifecycleSpec
=============================================================================
