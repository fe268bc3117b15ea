------------------------------ MODULE AuditTrail ------------------------------
(***************************************************************************)
(* The access log: what the handlers of the backend announce of logins,    *)
(* logouts and passwords, the handlers that write a row of it, and an      *)
(* administrator who reads the log page after page; and the settings he    *)
(* can change.                                                             *)
(*                                                                         *)
(* Events live in the memory of one process, and an INSERT that fails is   *)
(* not tried again.  createdAt is the time at which the INSERT starts, so  *)
(* that a row can appear before one that is older.                         *)
(***************************************************************************)
EXTENDS Naturals, Sequences, FiniteSets

CONSTANTS
    Happenings,  \* bounds what happens: 1 .. Happenings in the order of being served
    LogPages,    \* values of per_page
    Settings,    \* keys of settings
    Nobody       \* no value yet

ASSUME AuditTrailAssumption == Happenings \in Nat /\ LogPages \subseteq 1 .. 100

VARIABLES
    happening,   \* happening[h]: the request, whether it succeeded, and whether its answer is back
    inserting,   \* the rows whose INSERT has started
    accessLog,   \* the rows of access_log
    now,         \* the time, as far as createdAt tells it
    browse,      \* the administrator: filter, page size, page, reads to be done, their results
    setting      \* setting[k]: whether system_setting has the row

auditVars == <<happening, inserting, accessLog, now, browse, setting>>

-----------------------------------------------------------------------------
Kinds == {"login", "logout", "forgot", "reset", "change", "adminReset"}

\* A request is served: auth-service does it or refuses; the reset by an administrator is
\* the backend's own, and an unknown user is refused.  A forgotten password never is.
Serve(kind, ok) ==
    /\ Len(happening) < Happenings
    /\ kind = "forgot" => ok
    /\ happening' = Append(happening, [kind |-> kind, ok |-> ok, over |-> FALSE])
    /\ UNCHANGED <<inserting, accessLog, now, browse, setting>>

\* Mutant of Announced: announced before the answer is looked at.
AnnouncedAnyway(kind, ok) ==
    CASE kind = "login" -> IF ok THEN {"login_success"} ELSE {"login_failed"}
      [] kind = "logout" -> {"logout"}
      [] kind = "forgot" -> {"password_reset_requested"}
      [] kind = "reset" -> {"password_reset_completed"}
      [] kind = "change" -> IF ok THEN {"password_changed"} ELSE {}
      [] kind = "adminReset" -> IF ok THEN {"admin_password_reset_requested"} ELSE {}

\* What the handler publishes when it has the answer, as the word of its audit handler.
Announced(kind, ok) ==
    CASE kind = "login" -> IF ok THEN {"login_success"} ELSE {"login_failed"}
      [] kind = "logout" -> {"logout"}
      [] kind = "forgot" -> {"password_reset_requested"}
      [] kind = "reset" -> IF ok THEN {"password_reset_completed"} ELSE {}
      [] kind = "change" -> IF ok THEN {"password_changed"} ELSE {}
      [] kind = "adminReset" -> IF ok THEN {"admin_password_reset_requested"} ELSE {}

\* The answer arrives, and the event reaches its audit handler: the INSERT starts, now.
\* It may not arrive, whatever was done.
Publish(h, arrives) ==
    LET words == IF arrives THEN Announced(happening[h].kind, happening[h].ok) ELSE {} IN
    /\ ~happening[h].over
    /\ happening' = [happening EXCEPT ![h] = [@ EXCEPT !.over = TRUE]]
    /\ inserting' = inserting \cup {[createdAt |-> now, action |-> w, of |-> h] : w \in words}
    /\ now' = IF words = {} THEN now ELSE now + 1
    /\ UNCHANGED <<accessLog, browse, setting>>

-----------------------------------------------------------------------------
(* GET /admin/access-logs *)

\* What properties read beside: the rows there were when he began, those he has met, whether
\* he met one twice, and whether a row appeared before one of the list.
Browse(filter, size, page, start) ==
    [filter |-> filter, size |-> size, page |-> page, todo |-> {"rows", "total"},
     rows |-> {}, total |-> 0, start |-> start, seen |-> {}, again |-> FALSE, late |-> FALSE]

NoBrowse == Browse(Nobody, 1, 0, {})

Browsing == browse.page > 0

\* Rows of exactly this action, or all of them.
Matching(filter) == {r \in accessLog : filter \in {Nobody, r.action}}

\* The row is there, or the INSERT fails: nobody hears of that.
Insert(row, works) ==
    /\ row \in inserting
    /\ inserting' = inserting \ {row}
    /\ accessLog' = IF works THEN accessLog \cup {row} ELSE accessLog
    /\ browse' = IF /\ works /\ browse.filter \in {Nobody, row.action}
                    /\ \E r \in Matching(browse.filter) : r.createdAt > row.createdAt
                 THEN [browse EXCEPT !.late = @ \/ Browsing] ELSE browse
    /\ UNCHANGED <<happening, now, setting>>

StartBrowse(filter, size) ==
    /\ ~Browsing
    /\ browse' = Browse(filter, size, 1, Matching(filter))
    /\ UNCHANGED <<happening, inserting, accessLog, now, setting>>

\* Mutant of InOrder: the newest first.
NewestFirst(r, s) == r.createdAt > s.createdAt

\* orderBy(createdAt): the oldest first.
InOrder(r, s) == r.createdAt < s.createdAt

\* toSqlPagination: at most `limit` rows from the offset on.
LogPage(filter, page, limit) ==
    LET offset    == (page - 1) * limit
        Before(r) == Cardinality({s \in Matching(filter) : InOrder(s, r)})
    IN  {r \in Matching(filter) : Before(r) \in offset .. offset + limit - 1}

\* The rows and their number are read concurrently.
ReadLog ==
    /\ Browsing /\ "rows" \in browse.todo
    /\ browse' = [[browse EXCEPT !.rows = LogPage(browse.filter, browse.page, browse.size)]
                     EXCEPT !.todo = @ \ {"rows"}]
    /\ UNCHANGED <<happening, inserting, accessLog, now, setting>>

CountLog ==
    /\ Browsing /\ "total" \in browse.todo
    /\ browse' = [[browse EXCEPT !.total = Cardinality(Matching(browse.filter))]
                     EXCEPT !.todo = @ \ {"total"}]
    /\ UNCHANGED <<happening, inserting, accessLog, now, setting>>

\* meta.pages.
LastPage(total, perPage) == (total + perPage - 1) \div perPage

\* The administrator goes on as far as meta.pages says.
TurnPage ==
    /\ Browsing /\ browse.todo = {}
    /\ LET next == IF browse.page >= LastPage(browse.total, browse.size)
                   THEN 0 ELSE browse.page + 1
       IN  browse' = [filter |-> browse.filter, size |-> browse.size, page |-> next,
                      todo |-> {"rows", "total"}, rows |-> {}, total |-> 0,
                      start |-> browse.start, seen |-> browse.seen \cup browse.rows,
                      again |-> browse.again \/ browse.seen \cap browse.rows # {},
                      late |-> browse.late]
    /\ UNCHANGED <<happening, inserting, accessLog, now, setting>>

-----------------------------------------------------------------------------
(* PATCH /admin/system-settings: one INSERT ... ON CONFLICT DO UPDATE *)

SetSetting(k) ==
    /\ setting' = [setting EXCEPT ![k] = TRUE]
    /\ UNCHANGED <<happening, inserting, accessLog, now, browse>>

-----------------------------------------------------------------------------
AuditInit ==
    /\ happening = <<>> /\ inserting = {} /\ accessLog = {} /\ now = 0
    /\ browse = NoBrowse
    /\ setting = [k \in Settings |-> FALSE]

AuditNext ==
    \/ \E kind \in Kinds, ok \in BOOLEAN : Serve(kind, ok)
    \/ \E h \in DOMAIN happening, arrives \in BOOLEAN : Publish(h, arrives)
    \/ \E row \in inserting, works \in BOOLEAN : Insert(row, works)
    \/ \E filter \in {Nobody} \cup {r.action : r \in accessLog}, size \in LogPages :
          StartBrowse(filter, size)
    \/ ReadLog \/ CountLog \/ TurnPage
    \/ \E k \in Settings : SetSetting(k)

AuditSpec == AuditInit /\ [][AuditNext]_auditVars

-----------------------------------------------------------------------------
(* Properties *)

\* What a success or a failure is called; a logout and a forgotten password are one word.
Says(action) ==
    CASE action = "login_success" -> [kind |-> "login", ok |-> {TRUE}]
      [] action = "login_failed" -> [kind |-> "login", ok |-> {FALSE}]
      [] action = "logout" -> [kind |-> "logout", ok |-> BOOLEAN]
      [] action = "password_reset_requested" -> [kind |-> "forgot", ok |-> {TRUE}]
      [] action = "password_reset_completed" -> [kind |-> "reset", ok |-> {TRUE}]
      [] action = "password_changed" -> [kind |-> "change", ok |-> {TRUE}]
      [] action = "admin_password_reset_requested" -> [kind |-> "adminReset", ok |-> {TRUE}]

\* Every row of the log tells of a request that ended the way the row says, and no two
\* rows of the same one: answers that are lost leave gaps, never a false row
\* (the handlers of user-login to change-password, auth-audit.handlers).
LogIsTrue ==
    \A r \in accessLog :
        /\ happening[r.of].kind = Says(r.action).kind
        /\ happening[r.of].ok \in Says(r.action).ok
        /\ \A s \in accessLog : s.of = r.of => s = r

\* A walk through the log as far as meta.pages meets no row twice, although rows are
\* added all the time and the rows and their number are read at two moments, and it ends
\* with every row met that was there at its start; unless an INSERT that started earlier
\* than one of a row in the list ended meanwhile (AccessLogsHandler).
LogReadOnce ==
    ~browse.late =>
        /\ ~browse.again
        /\ ~Browsing => browse.start \subseteq browse.seen
=============================================================================
