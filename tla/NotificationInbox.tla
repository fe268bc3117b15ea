--------------------------- MODULE NotificationInbox ---------------------------
(***************************************************************************)
(* The notifications a user sees: rows of `notification`, the requests     *)
(* that create, mark and delete them, and a client that walks through the  *)
(* pages of the list while they do.                                        *)
(*                                                                         *)
(* A list request reads the rows and their number concurrently, so each    *)
(* read sees the table at a moment of its own (the third one, the number   *)
(* of unread rows, bears on nothing here).  The page that it asks for      *)
(* never reaches the query, which has other names for it: every page is    *)
(* the first one.  Marking and deleting first look for the row and then    *)
(* update it.                                                              *)
(***************************************************************************)
EXTENDS Naturals, Sequences, FiniteSets, SequencesExt

CONSTANTS
    Owners,     \* users
    PageSizes,  \* values of per_page, 1 .. 100 in the code
    Shown,      \* rows of a query that names no number of them: 20 in the code
    MaxInbox,   \* bounds the rows
    MaxTasks,   \* bounds the requests other than list requests
    Undecided   \* no value yet

ASSUME NotificationInboxAssumption ==
    /\ PageSizes \subseteq 1 .. 100 /\ Shown \in Nat \ {0}
    /\ MaxInbox \in Nat /\ MaxTasks \in Nat

VARIABLES
    inbox,      \* the rows in the order of createdAt; a row's place is its id
    task,       \* task[k]: the k-th request, and its answer in the end
    reader      \* a client that walks through its list, and what it has seen

inboxVars == <<inbox, task, reader>>

-----------------------------------------------------------------------------
Entry(u, channel) == [user |-> u, channel |-> channel, isRead |-> FALSE, deleted |-> FALSE]

\* findByIdAndUserId, and the condition of the UPDATEs of one row.
Owned(u) == {i \in DOMAIN inbox : inbox[i].user = u /\ ~inbox[i].deleted}

\* The condition of findByUserId.  Its isRead is never set: the query string holds text,
\* @IsBoolean refuses it and nothing converts it.  `type` is not handed on at all.
Listed(u) == {i \in Owned(u) : inbox[i].channel = "in_app"}

Request(op, u, i, todo, answer) ==
    [op |-> op, user |-> u, id |-> i, todo |-> todo, answer |-> answer]

Arrives(request) == Len(task) < MaxTasks /\ task' = Append(task, request)

\* gone: how many rows of its list were deleted since the walk began.
Walk(u, size, page, start) ==
    [user |-> u, size |-> size, page |-> page, rows |-> Undecided, total |-> Undecided,
     start |-> start, seen |-> {}, gone |-> 0]
NoWalk == Walk(Undecided, 1, 0, {})

Walking == reader.page > 0

-----------------------------------------------------------------------------
(* NotificationCreateCommand: one INSERT per channel. *)

\* No channel named: both; a channel named twice counts once.
ChannelsOf(asked) ==
    IF asked = <<>> THEN <<"in_app", "email">>
    ELSE FoldLeft(LAMBDA s, c : IF Contains(s, c) THEN s ELSE Append(s, c), <<>>, asked)

AskCreate(u, asked) ==
    /\ Arrives(Request("create", u, 0, ChannelsOf(asked), Undecided))
    /\ UNCHANGED <<inbox, reader>>

\* An INSERT that fails ends the request, as a user who is not found before the first
\* one does; the rows that are there stay.
CreateNext(k) == LET t == task[k] IN
    /\ t.op = "create" /\ t.todo # <<>>
    /\ \/ /\ Len(inbox) < MaxInbox
          /\ inbox' = Append(inbox, Entry(t.user, Head(t.todo)))
          /\ task' = [task EXCEPT ![k] =
                         Request(t.op, t.user, t.id, Tail(t.todo),
                                 IF Tail(t.todo) = <<>> THEN "done" ELSE t.answer)]
       \/ /\ task' = [task EXCEPT ![k] = Request(t.op, t.user, t.id, <<>>, "error")]
          /\ UNCHANGED inbox
    /\ UNCHANGED reader

-----------------------------------------------------------------------------
(* PATCH :id/read and DELETE :id look for the row, then UPDATE it. *)

Find(op, u, i) ==
    /\ Arrives(Request(op, u, i, <<>>, IF i \in Owned(u) THEN Undecided ELSE "404"))
    /\ UNCHANGED <<inbox, reader>>

Updating(k, op) == task[k].op = op /\ task[k].answer = Undecided

\* The answer is whether the UPDATE found the row, which may be gone by now.
Answer(k, found) ==
    task' = [task EXCEPT ![k] = [@ EXCEPT !.answer = IF found THEN "true" ELSE "false"]]

MarkAsRead(k) == LET t == task[k]  hit == t.id \in Owned(t.user) IN
    /\ Updating(k, "read")
    /\ inbox' = IF hit THEN [inbox EXCEPT ![t.id] = [@ EXCEPT !.isRead = TRUE]] ELSE inbox
    /\ Answer(k, hit)
    /\ UNCHANGED reader

DeleteRow(k) == LET t == task[k]  hit == t.id \in Owned(t.user) IN
    /\ Updating(k, "delete")
    /\ inbox' = IF hit THEN [inbox EXCEPT ![t.id] = [@ EXCEPT !.deleted = TRUE]] ELSE inbox
    /\ Answer(k, hit)
    /\ reader' = IF hit /\ t.id \in Listed(reader.user)
                 THEN [reader EXCEPT !.gone = @ + 1] ELSE reader

\* PATCH read-all: one UPDATE, of the rows of every channel.
MarkAllAsRead(u) ==
    /\ \E i \in Owned(u) : ~inbox[i].isRead
    /\ inbox' = [i \in DOMAIN inbox |->
                    IF i \in Owned(u) THEN [inbox[i] EXCEPT !.isRead = TRUE] ELSE inbox[i]]
    /\ UNCHANGED <<task, reader>>

-----------------------------------------------------------------------------
(* GET /notifications, called by a client page after page *)

StartWalk(u, size) ==
    /\ ~Walking
    /\ reader' = Walk(u, size, 1, Listed(u))
    /\ UNCHANGED <<inbox, task>>

\* toSqlPagination: what the handler hands on to findByUserId.
SqlPagination(page, perPage) == [limit |-> perPage, offset |-> (page - 1) * perPage]

\* options?.name ?? default
Option(options, name, default) ==
    IF name \in DOMAIN options THEN options[name] ELSE default

Newer(u, i) == Cardinality({j \in Listed(u) : j > i})

\* Mutant of FindByUserId: the oldest rows first.
FindOldest(u, options) ==
    {i \in Listed(u) : Cardinality({j \in Listed(u) : j < i}) < Option(options, "take", Shown)}

\* Newest first, `take` of them after the first `skip`: the rows with so many newer ones.
FindByUserId(u, options) ==
    LET skip == Option(options, "skip", 0)
        take == Option(options, "take", Shown)
    IN  {i \in Listed(u) : Newer(u, i) \in skip .. skip + take - 1}

ReadRows ==
    /\ Walking /\ reader.rows = Undecided
    /\ reader' = [reader EXCEPT !.rows =
                     FindByUserId(reader.user, SqlPagination(reader.page, reader.size))]
    /\ UNCHANGED <<inbox, task>>

ReadTotal ==
    /\ Walking /\ reader.total = Undecided
    /\ reader' = [reader EXCEPT !.total = Cardinality(Listed(reader.user))]
    /\ UNCHANGED <<inbox, task>>

\* buildPaginated: ceil(total / perPage).
Pages(total, perPage) == (total + perPage - 1) \div perPage

\* Both reads are back: the answer.  The client goes on to the next page as long as
\* meta.pages says that there is one, or stops (page 0).
AnswerList ==
    /\ Walking /\ reader.rows # Undecided /\ reader.total # Undecided
    /\ \E page \in {0} \cup {p \in {reader.page + 1} : p <= Pages(reader.total, reader.size)} :
          reader' = [reader EXCEPT !.page = page, !.rows = Undecided, !.total = Undecided,
                                   !.seen = @ \cup reader.rows]
    /\ UNCHANGED <<inbox, task>>

-----------------------------------------------------------------------------
InboxInit == inbox = <<>> /\ task = <<>> /\ reader = NoWalk

InboxNext ==
    \/ \E u \in Owners :
          \/ \E asked \in {<<>>, <<"in_app">>, <<"email", "email">>} : AskCreate(u, asked)
          \/ \E i \in DOMAIN inbox, op \in {"read", "delete"} : Find(op, u, i)
    \/ \E k \in DOMAIN task : CreateNext(k) \/ MarkAsRead(k) \/ DeleteRow(k)
    \/ \E u \in Owners :
          \/ MarkAllAsRead(u)
          \/ \E size \in PageSizes : StartWalk(u, size)
    \/ ReadRows \/ ReadTotal \/ AnswerList

InboxSpec == InboxInit /\ [][InboxNext]_inboxVars

-----------------------------------------------------------------------------
\* A client that pages through its list sees, of the rows that were there when it began,
\* the newest Shown and no other, however many pages it asks for, whatever number of rows
\* and pages the answers announce, and whatever comes in between two pages or two reads of
\* one page; as many rows as were deleted meanwhile may have let as many older ones in.  So
\* a list of at most Shown rows is seen whole with the first answer, and of a longer one
\* the rest is never seen (findByUserId, toSqlPagination).
PagesShowTheNewest ==
    \A i \in reader.start :
        /\ i \in reader.seen =>
              Cardinality({j \in reader.start : j > i}) < Shown + reader.gone
        /\ reader.page # 1 /\ i \in Listed(reader.user) \ reader.seen =>
              Newer(reader.user, i) + reader.gone >= Shown
=============================================================================
