---------------------------- MODULE UserDirectory ----------------------------
(***************************************************************************)
(* The rows of `user` as the administrators and the users themselves       *)
(* create, edit, unlock, delete and read them.  Sessions, failed logins    *)
(* and the token version, which other columns hold, are the modules        *)
(* AuthSessions, LoginLockout and AccessVersion.                           *)
(*                                                                         *)
(* A request is a few queries in a row, none of them in a transaction with *)
(* another, and the process may die between two.  Rows are never removed:  *)
(* deletedAt hides them.                                                   *)
(***************************************************************************)
EXTENDS Naturals, Sequences, FiniteSets, SequencesExt

CONSTANTS
    Accounts,   \* the ids of rows of `user`
    Addresses,  \* e-mail addresses
    Callers,    \* requests in flight
    NoRow      \* no row

ASSUME UserDirectoryAssumption == NoRow \notin Accounts

VARIABLES
    account,    \* account[a]: the row, or NoRow
    call,       \* call[p]: what p asks for, the query it is at, and its answer
    created     \* the UserCreatedEvents published, in their order

directoryVars == <<account, call, created>>

-----------------------------------------------------------------------------
UserRow == [email : Addresses, blocked : BOOLEAN, prefs : {"first", "chosen"}, deleted : BOOLEAN]

\* No row is the value of a missing one.
ASSUME NoRowIsNoUser == NoRow \notin UserRow

\* User.create, and the defaults of the columns.
NewRow(e) == [email |-> e, blocked |-> FALSE, prefs |-> "first", deleted |-> FALSE]

Registered == {a \in Accounts : account[a] # NoRow}

\* The condition of every read: buildWhere, findById, findByEmail.
LiveAccounts == {a \in Registered : ~account[a].deleted}

\* existsByEmail does not see deleted rows.
ExistsByEmail(e) == \E a \in LiveAccounts : account[a].email = e

\* uniq_user_email does.
EmailTaken(e, others) == \E a \in others : account[a].email = e

AtRest == [op |-> "none", step |-> "rest", user |-> NoRow, payload |-> <<>>, answer |-> "none"]

\* The answer stays until the next request; a 201 says whom it is about.
Answer(p, what) ==
    call' = [call EXCEPT ![p] = [AtRest EXCEPT !.answer = what,
                                    !.user = IF what = "201" THEN call[p].user ELSE NoRow]]

Proceed(p, step) == call' = [call EXCEPT ![p].step = step]

\* A request of the UserController.  A refused guard or body never comes this far.
Ask(p, op, a, payload, step) ==
    /\ call[p].step = "rest"
    /\ call' = [call EXCEPT ![p] = [op |-> op, step |-> step, user |-> a,
                                    payload |-> payload, answer |-> "none"]]
    /\ UNCHANGED <<account, created>>

-----------------------------------------------------------------------------
(* POST /users *)

\* The role is looked up too, and may not be found.
CheckEmail(p, roleFound) ==
    /\ call[p].step = "exists"
    /\ CASE ExistsByEmail(call[p].payload.email) -> Answer(p, "400 alreadyExists")
         [] ~ExistsByEmail(call[p].payload.email) /\ ~roleFound -> Answer(p, "404")
         [] OTHER -> Proceed(p, "insert")
    /\ UNCHANGED <<account, created>>

\* Mutant of CreateInsert: a row of that address is taken for the new one.
UpsertsUser(p) == LET e == call[p].payload.email IN
    /\ call[p].step = "insert"
    /\ \E a \in Accounts :
          /\ IF EmailTaken(e, Registered) THEN a \in Registered /\ account[a].email = e
             ELSE a = CHOOSE b \in Accounts : account[b] = NoRow
          /\ account' = [account EXCEPT ![a] = IF @ = NoRow THEN NewRow(e) ELSE @]
          /\ call' = [call EXCEPT ![p] = [@ EXCEPT !.step = "findCreated", !.user = a]]
    /\ UNCHANGED created

\* The database numbers the row, and refuses an address that any row has.
CreateInsert(p) ==
    LET e == call[p].payload.email
        a == CHOOSE b \in Accounts : account[b] = NoRow
    IN
    /\ call[p].step = "insert"
    /\ Registered # Accounts
    /\ IF EmailTaken(e, Registered)
       THEN Answer(p, "409") /\ UNCHANGED account
       ELSE /\ account' = [account EXCEPT ![a] = NewRow(e)]
            /\ call' = [call EXCEPT ![p] = [@ EXCEPT !.step = "findCreated", !.user = a]]
    /\ UNCHANGED created

\* The row is read back, and the event published.
FindCreated(p) == LET a == call[p].user IN
    /\ call[p].step = "findCreated"
    /\ IF a \in LiveAccounts
       THEN created' = Append(created, a) /\ Answer(p, "201")
       ELSE Answer(p, "400 failedToSave") /\ UNCHANGED created
    /\ UNCHANGED account

-----------------------------------------------------------------------------
(* PATCH /users/:id, POST /users/:id/unlock, PATCH /users/me/theme,        *)
(* PUT /users/me/notification-preferences                                  *)

FindFirst(p) ==
    /\ call[p].step = "find"
    /\ IF call[p].user \in LiveAccounts THEN Proceed(p, "write") ELSE Answer(p, "404")
    /\ UNCHANGED <<account, created>>

\* Only the handler of an update and that of the theme look at the row again.
AfterWrite(op) == IF op \in {"update", "theme"} THEN "findAgain" ELSE "rest"

\* UPDATE ... SET: the columns of the payload, and no other.
SetColumns(row, payload) ==
    [c \in DOMAIN row |-> IF c \in DOMAIN payload THEN payload[c] ELSE row[c]]

\* UPDATE ... WHERE id: a deleted row is updated too.  An address that another row has
\* is refused; nobody looked for it before.  The token version that changes with
\* `blocked` is AccessVersion's.
Write(p) == LET a == call[p].user  new == call[p].payload IN
    /\ call[p].step = "write"
    /\ IF "email" \in DOMAIN new /\ EmailTaken(new.email, Registered \ {a})
       THEN Answer(p, "409") /\ UNCHANGED account
       ELSE /\ account' = [account EXCEPT ![a] = SetColumns(@, new)]
            /\ IF AfterWrite(call[p].op) = "rest" THEN Answer(p, "200") ELSE Proceed(p, "findAgain")
    /\ UNCHANGED created

FindAgain(p) ==
    /\ call[p].step = "findAgain"
    /\ Answer(p, IF call[p].user \in LiveAccounts THEN "200" ELSE "404")
    /\ UNCHANGED <<account, created>>

-----------------------------------------------------------------------------
(* DELETE /users/:id, and the reads *)

\* One UPDATE, of a row that is not deleted.
DeleteAccount(p) == LET a == call[p].user IN
    /\ call[p].step = "delete"
    /\ account' = IF a \in LiveAccounts THEN [account EXCEPT ![a].deleted = TRUE] ELSE account
    /\ Answer(p, IF a \in LiveAccounts THEN "success" ELSE "no success")
    /\ UNCHANGED created

\* Everybody may read himself, administrators and managers everybody.
Get(p, himself, roleType) ==
    /\ call[p].step = "get"
    /\ Answer(p, CASE ~himself /\ roleType \notin {"admin", "manager"} -> "403"
                   [] /\ himself \/ roleType \in {"admin", "manager"}
                      /\ call[p].user \in LiveAccounts -> "200"
                   [] OTHER -> "404")
    /\ UNCHANGED <<account, created>>

\* GET /users: a page of rows in no order, and then their number.
ListRows(p, perPage) ==
    /\ call[p].step = "list"
    /\ \E rows \in SUBSET LiveAccounts :
          /\ Cardinality(rows) <= perPage
          /\ call' = [call EXCEPT ![p] = [@ EXCEPT !.step = "count", !.payload = [rows |-> rows]]]
    /\ UNCHANGED <<account, created>>

ListCount(p) ==
    /\ call[p].step = "count"
    /\ Answer(p, "200")
    /\ UNCHANGED <<account, created>>

\* A query fails, or the process stops.
Break(p) ==
    /\ call[p].step # "rest"
    /\ Answer(p, "broken")
    /\ UNCHANGED <<account, created>>

-----------------------------------------------------------------------------
\* The columns a request may name: `prefs` stands for theme and notificationChannels,
\* `blocked` for what unlocking resets, `email` for the rest of the profile.
Edits == [email : Addresses] \cup [blocked : {TRUE}]

DirectoryInit ==
    /\ account = [a \in Accounts |-> NoRow]
    /\ call = [p \in Callers |-> AtRest]
    /\ created = <<>>

DirectoryNext ==
    \E p \in Callers :
        \/ \E e \in Addresses : Ask(p, "create", NoRow, [email |-> e], "exists")
        \/ \E a \in Registered :
              \/ \E edit \in Edits : Ask(p, "update", a, edit, "find")
              \/ Ask(p, "unlock", a, [blocked |-> FALSE], "find")
              \/ \E op \in {"theme", "channels"} : Ask(p, op, a, [prefs |-> "chosen"], "write")
              \/ Ask(p, "delete", a, <<>>, "delete")
              \/ Ask(p, "get", a, <<>>, "get")
        \/ Ask(p, "list", NoRow, <<>>, "list")
        \/ \E found \in BOOLEAN : CheckEmail(p, found)
        \/ CreateInsert(p) \/ FindCreated(p)
        \/ FindFirst(p) \/ Write(p) \/ FindAgain(p)
        \/ DeleteAccount(p)
        \/ \E himself \in BOOLEAN, roleType \in {"admin", "user"} : Get(p, himself, roleType)
        \/ ListRows(p, 1) \/ ListCount(p)
        \/ Break(p)

DirectorySpec == DirectoryInit /\ [][DirectoryNext]_directoryVars

-----------------------------------------------------------------------------
(* Properties *)

\* Of all requests that create a user of one address, however they overlap, one has a
\* row to answer with: every row is announced at most once, none is announced that is not there,
\* every 201 names an announced row, and no two rows have an address in common
\* (user-create.handler, UserRepositoryDrizzle.create).
CreationsAnswered ==
    /\ IsInjective(created) /\ ToSet(created) \subseteq Registered
    /\ \A a, b \in Registered : a # b => account[a].email # account[b].email
    /\ \A p, q \in Callers : call[p].answer = "201" =>
          /\ call[p].user \in ToSet(created)
          /\ call[q].answer = "201" /\ call[q].user = call[p].user => p = q
=============================================================================
