---------------------------- MODULE DirectoryProofs ----------------------------
(***************************************************************************)
(* Proofs about UserDirectory, PasswordHashes, FieldEncryption and         *)
(* AuditTrail, for any number of accounts, addresses and requests, any     *)
(* passwords, secrets, services and keys, and any number of log rows.      *)
(***************************************************************************)
EXTENDS UserDirectory, PasswordHashes, FieldEncryption, AuditTrail, SequenceTheorems,
        FiniteSetTheorems, TLAPS

-----------------------------------------------------------------------------
(* UserDirectory: the inductive invariant *)

USE UserDirectoryAssumption

\* What a request may write.
Changes == [email : Addresses] \cup [blocked : BOOLEAN] \cup [prefs : {"chosen"}]
Payload == Changes \cup [rows : SUBSET Accounts] \cup {<<>>}
Ops == {"none", "create", "update", "unlock", "theme", "channels", "delete", "get", "list"}
Steps == {"rest", "exists", "insert", "findCreated", "find", "write", "findAgain", "delete",
          "get", "list", "count"}
Answers == {"none", "200", "201", "403", "404", "409", "400 alreadyExists", "400 failedToSave",
            "success", "no success", "broken"}
Call == [op : Ops, step : Steps, user : Accounts \cup {NoRow}, payload : Payload,
         answer : Answers]

DirectoryTypes ==
    /\ account \in [Accounts -> UserRow \cup {NoRow}]
    /\ call \in [Callers -> Call]

\* The locals of a request fit its step: it has the address it creates a user of, or the row
\* and the columns it writes; and it answers at its end only.
CallFits(c) ==
    /\ c.step \in {"exists", "insert"} => c.payload \in [email : Addresses]
    /\ c.step \in {"find", "write"} => c.payload \in Changes /\ c.user \in Registered
    /\ c.step # "rest" => c.answer = "none"
CallsFit == \A p \in Callers : CallFits(call[p])

\* A row that its creator still has to announce is his alone, and nobody has announced it.
Unannounced ==
    \A p \in Callers : call[p].step = "findCreated" =>
        /\ call[p].user \in Registered \ ToSet(created)
        /\ \A q \in Callers : call[q].step = "findCreated" /\ call[q].user = call[p].user => p = q

DirectoryInductive ==
    /\ DirectoryTypes /\ CallsFit /\ Unannounced /\ created \in Seq(Accounts) /\ CreationsAnswered

-----------------------------------------------------------------------------
(* Rows and requests *)

LEMMA AtRestFacts ==
    /\ AtRest \in Call /\ AtRest.step = "rest"
    /\ \A what \in Answers, u \in Accounts \cup {NoRow} :
          LET c == [AtRest EXCEPT !.answer = what, !.user = u] IN
          c \in Call /\ c.step = "rest" /\ c.answer = what /\ c.user = u
<1>1. <<>> \in Payload BY DEF Payload
<1>2. AtRest \in Call /\ AtRest.step = "rest" BY <1>1 DEF AtRest, Call, Ops, Steps, Answers
<1>3. ASSUME NEW what \in Answers, NEW u \in Accounts \cup {NoRow}
      PROVE  LET c == [AtRest EXCEPT !.answer = what, !.user = u] IN
             c \in Call /\ c.step = "rest" /\ c.answer = what /\ c.user = u
  BY <1>2 DEF Call
<1> QED BY <1>2, <1>3

LEMMA CallFacts ==
    ASSUME DirectoryInductive, NEW p \in Callers
    PROVE  /\ call[p] \in Call /\ CallFits(call[p])
           /\ call[p].op \in Ops /\ call[p].step \in Steps /\ call[p].answer \in Answers
           /\ call[p].user \in Accounts \cup {NoRow}
           /\ call[p].payload \in Payload
           /\ call \in [Callers -> Call] /\ account \in [Accounts -> UserRow \cup {NoRow}]
<1> QED BY DEF DirectoryInductive, DirectoryTypes, CallsFit, Call

\* A write changes the columns it is about, and none that it may not.
LEMMA ColumnsSet ==
    ASSUME NEW row \in UserRow, NEW new \in Changes
    PROVE  /\ SetColumns(row, new) \in UserRow
           /\ SetColumns(row, new).email =
                 IF "email" \in DOMAIN new THEN new.email ELSE row.email
<1>1. DOMAIN row = {"email", "blocked", "prefs", "deleted"} BY DEF UserRow
<1>2. CASE new \in [email : Addresses]
  <2>1. DOMAIN new = {"email"} /\ new["email"] \in Addresses BY <1>2
  <2> QED BY <1>1, <2>1 DEF UserRow, SetColumns
<1>3. CASE new \in [blocked : BOOLEAN]
  <2>1. DOMAIN new = {"blocked"} /\ new["blocked"] \in BOOLEAN BY <1>3
  <2> QED BY <1>1, <2>1 DEF UserRow, SetColumns
<1>4. CASE new \in [prefs : {"chosen"}]
  <2>1. DOMAIN new = {"prefs"} /\ new["prefs"] = "chosen" BY <1>4
  <2> QED BY <1>1, <2>1 DEF UserRow, SetColumns
<1> QED BY <1>2, <1>3, <1>4 DEF Changes

\* No two rows have an address in common.
AddressesUnique == \A a, b \in Registered : a # b => account[a].email # account[b].email

\* A step of one request that announces nobody, creates no row and does not end with 201.
LEMMA OneCall ==
    ASSUME DirectoryInductive, NEW p \in Callers, NEW c \in Call,
           call' = [call EXCEPT ![p] = c], created' = created,
           account' \in [Accounts -> UserRow \cup {NoRow}],
           Registered' = Registered, AddressesUnique',
           CallFits(c), c.step # "findCreated", c.answer # "201"
    PROVE  DirectoryInductive'
<1>1. call' \in [Callers -> Call] /\ call'[p] = c
      /\ \A q \in Callers \ {p} : call'[q] = call[q]
  BY CallFacts
<1>2. DirectoryTypes' BY <1>1 DEF DirectoryTypes
<1>3. CallsFit' BY <1>1, CallFacts DEF CallsFit, CallFits
<1>4. Unannounced' BY <1>1 DEF DirectoryInductive, Unannounced
<1>5. CreationsAnswered'
  <2>1. IsInjective(created)' /\ (ToSet(created) \subseteq Registered)'
    BY DEF DirectoryInductive, CreationsAnswered
  <2>2. \A q \in Callers : call'[q].answer = "201" => q # p /\ call'[q] = call[q] BY <1>1
  <2>3. \A q, r \in Callers : call'[q].answer = "201" =>
           /\ call'[q].user \in ToSet(created)
           /\ call'[r].answer = "201" /\ call'[r].user = call'[q].user => q = r
    BY <2>2 DEF DirectoryInductive, CreationsAnswered
  <2> QED BY <2>1, <2>3 DEF CreationsAnswered, AddressesUnique
<1> QED BY <1>2, <1>3, <1>4, <1>5 DEF DirectoryInductive

\* A step of one request that changes no row.
LEMMA OneCallAlone ==
    ASSUME DirectoryInductive, NEW p \in Callers, NEW c \in Call,
           call' = [call EXCEPT ![p] = c], UNCHANGED <<account, created>>,
           CallFits(c), c.step # "findCreated", c.answer # "201"
    PROVE  DirectoryInductive'
<1>1. Registered' = Registered BY DEF Registered
<1>2. AddressesUnique' BY <1>1 DEF AddressesUnique, DirectoryInductive, CreationsAnswered
<1> QED BY <1>1, <1>2, CallFacts, OneCall

\* A request that is answered otherwise than with 201 ends there.
LEMMA AnswerStep ==
    ASSUME DirectoryInductive, NEW p \in Callers, NEW what \in Answers, what # "201",
           Answer(p, what), UNCHANGED <<account, created>>
    PROVE  DirectoryInductive'
<1>1. PICK c : c = [AtRest EXCEPT !.answer = what, !.user = NoRow] OBVIOUS
<1>2. c \in Call /\ c.step = "rest" /\ c.answer = what BY <1>1, AtRestFacts, ZenonT(40)
<1>3. call' = [call EXCEPT ![p] = c] BY <1>1 DEF Answer
<1>4. CallFits(c) BY <1>2 DEF CallFits
<1> QED BY <1>2, <1>3, <1>4, OneCallAlone

\* A request that goes on to a step that needs nothing but what it has.
LEMMA ProceedStep ==
    ASSUME DirectoryInductive, NEW p \in Callers, NEW step \in Steps, step # "findCreated",
           Proceed(p, step), UNCHANGED <<account, created>>, call[p].step # "rest",
           step \in {"exists", "insert"} => call[p].payload \in [email : Addresses],
           step \in {"find", "write"} => call[p].payload \in Changes /\ call[p].user \in Registered
    PROVE  DirectoryInductive'
<1>1. PICK c : c = [call[p] EXCEPT !.step = step] OBVIOUS
<1>2. c \in Call /\ c.step = step /\ c.answer = call[p].answer /\ c.user = call[p].user
      /\ c.payload = call[p].payload
  BY <1>1, CallFacts DEF Call
<1>3. call' = [call EXCEPT ![p] = c] BY <1>1, CallFacts DEF Proceed
<1>4. CallFits(c) /\ c.answer = "none" BY <1>2, CallFacts DEF CallFits
<1> QED BY <1>2, <1>3, <1>4, OneCallAlone

\* A request begins with what it needs.
LEMMA AskStep ==
    ASSUME DirectoryInductive, NEW p \in Callers, NEW op \in Ops, NEW step \in Steps,
           NEW a \in Accounts \cup {NoRow}, NEW payload \in Changes \cup {<<>>},
           step # "findCreated",
           step \in {"exists", "insert"} => payload \in [email : Addresses],
           step \in {"find", "write"} => payload \in Changes /\ a \in Registered,
           Ask(p, op, a, payload, step)
    PROVE  DirectoryInductive'
<1>1. PICK c : c = [op |-> op, step |-> step, user |-> a, payload |-> payload, answer |-> "none"]
  OBVIOUS
<1>2. c \in Call /\ c.step = step /\ c.answer = "none" /\ c.user = a /\ c.payload = payload
  <2>1. payload \in Payload BY DEF Payload
  <2> QED BY <1>1, <2>1 DEF Call, Answers
<1>3. call' = [call EXCEPT ![p] = c] /\ UNCHANGED <<account, created>> BY <1>1 DEF Ask
<1>4. CallFits(c) BY <1>2 DEF CallFits
<1> QED BY <1>2, <1>3, <1>4, OneCallAlone

-----------------------------------------------------------------------------
(* POST /users *)

LEMMA CheckEmailStep ==
    ASSUME DirectoryInductive, NEW p \in Callers, NEW found \in BOOLEAN, CheckEmail(p, found)
    PROVE  DirectoryInductive'
<1>1. call[p].step = "exists" /\ UNCHANGED <<account, created>>
      /\ (Answer(p, "400 alreadyExists") \/ Answer(p, "404") \/ Proceed(p, "insert"))
  BY DEF CheckEmail
<1>2. call[p].payload \in [email : Addresses] BY <1>1, CallFacts DEF CallFits
<1>3. CASE Answer(p, "400 alreadyExists") BY <1>1, <1>3, AnswerStep DEF Answers
<1>4. CASE Answer(p, "404") BY <1>1, <1>4, AnswerStep DEF Answers
<1>5. CASE Proceed(p, "insert") BY <1>1, <1>2, <1>5, ProceedStep DEF Steps
<1> QED BY <1>1, <1>3, <1>4, <1>5

\* A refused INSERT answers; the one that succeeds has a row of an address that is nobody
\* else's, which nobody has announced and nobody else is about to.
LEMMA CreateInsertStep ==
    ASSUME DirectoryInductive, NEW p \in Callers, CreateInsert(p)
    PROVE  DirectoryInductive'
<1>1. PICK e \in Addresses : e = call[p].payload.email
  BY CallFacts DEF CreateInsert, CallFits
<1>2. CASE EmailTaken(e, Registered)
  <2>1. Answer(p, "409") /\ UNCHANGED <<account, created>> BY <1>1, <1>2 DEF CreateInsert
  <2> QED BY <2>1, AnswerStep DEF Answers
<1>3. CASE ~EmailTaken(e, Registered)
  <2>1. PICK a \in Accounts : a = CHOOSE b \in Accounts : account[b] = NoRow
    BY DEF CreateInsert, Registered
  <2>2. account[a] = NoRow BY <2>1 DEF CreateInsert, Registered
  <2>3. call[p].step = "insert" /\ account' = [account EXCEPT ![a] = NewRow(e)]
        /\ call' = [call EXCEPT ![p] = [@ EXCEPT !.step = "findCreated", !.user = a]]
        /\ created' = created
    BY <1>1, <1>3, <2>1 DEF CreateInsert
  <2>4. NewRow(e) \in UserRow /\ NewRow(e) # NoRow /\ NewRow(e).email = e
    <3>1. NewRow(e) \in UserRow BY DEF NewRow, UserRow
    <3> QED BY <3>1, NoRowIsNoUser DEF NewRow
  <2>5. account' \in [Accounts -> UserRow \cup {NoRow}] /\ account'[a] = NewRow(e)
        /\ \A b \in Accounts \ {a} : account'[b] = account[b]
    BY <2>3, <2>4, CallFacts
  <2>6. Registered' = Registered \cup {a} /\ a \notin Registered
    BY <2>2, <2>4, <2>5 DEF Registered
  <2>7. PICK c : c = [call[p] EXCEPT !.step = "findCreated", !.user = a] OBVIOUS
  <2>8. c \in Call /\ c.step = "findCreated" /\ c.user = a /\ c.answer = "none"
    <3>1. [call[p] EXCEPT !.step = "findCreated"] \in Call BY CallFacts DEF Call, Steps
    <3>2. c \in Call BY <2>7, <3>1, CallFacts DEF Call
    <3>3. c.step = "findCreated" /\ c.user = a /\ c.answer = call[p].answer
      BY <2>7, CallFacts DEF Call
    <3> QED BY <3>2, <3>3, <2>3, CallFacts DEF CallFits
  <2>9. call' \in [Callers -> Call] /\ call'[p] = c
        /\ \A q \in Callers \ {p} : call'[q] = call[q]
    BY <2>3, <2>7, <2>8, CallFacts
  <2>10. DirectoryTypes' BY <2>5, <2>9 DEF DirectoryTypes
  <2>11. CallsFit' BY <2>6, <2>8, <2>9, CallFacts DEF CallsFit, CallFits
  <2>12. ToSet(created) \subseteq Registered
    BY DEF DirectoryInductive, CreationsAnswered
  <2>13. Unannounced'
    <3>1. \A q \in Callers \ {p} : call[q].step = "findCreated" =>
             call[q].user # a /\ call[q].user \in Registered' \ ToSet(created)
      BY <2>6 DEF DirectoryInductive, Unannounced
    <3>2. a \in Registered' \ ToSet(created) BY <2>6, <2>12
    <3> QED BY <3>1, <3>2, <2>3, <2>8, <2>9 DEF DirectoryInductive, Unannounced
  <2>14. AddressesUnique'
    <3>1. \A b \in Registered : account'[b] = account[b] /\ account[b].email # e
      BY <1>3, <2>5, <2>6 DEF EmailTaken, Registered
    <3> QED BY <3>1, <2>4, <2>5, <2>6
            DEF AddressesUnique, DirectoryInductive, CreationsAnswered
  <2>15. CreationsAnswered'
    <3>1. IsInjective(created)' /\ (ToSet(created) \subseteq Registered)'
      BY <2>3, <2>6, <2>12 DEF DirectoryInductive, CreationsAnswered
    <3>2. \A q \in Callers : call'[q].answer = "201" => q # p /\ call'[q] = call[q]
      BY <2>8, <2>9
    <3>3. \A q, r \in Callers : call'[q].answer = "201" =>
             /\ call'[q].user \in ToSet(created)
             /\ call'[r].answer = "201" /\ call'[r].user = call'[q].user => q = r
      BY <3>2 DEF DirectoryInductive, CreationsAnswered
    <3> QED BY <3>1, <3>3, <2>3, <2>14 DEF CreationsAnswered, AddressesUnique
  <2> QED BY <2>3, <2>10, <2>11, <2>13, <2>15 DEF DirectoryInductive
<1> QED BY <1>2, <1>3

\* What is announced once more, after the others.
LEMMA AnnouncedOnceMore ==
    ASSUME NEW s \in Seq(Accounts), IsInjective(s), NEW a \in Accounts, a \notin ToSet(s)
    PROVE  /\ Append(s, a) \in Seq(Accounts) /\ IsInjective(Append(s, a))
           /\ ToSet(Append(s, a)) = ToSet(s) \cup {a}
<1>1. /\ Append(s, a) \in Seq(Accounts) /\ DOMAIN Append(s, a) = 1 .. Len(s) + 1
      /\ DOMAIN s = 1 .. Len(s) /\ Len(s) \in Nat
      /\ Append(s, a)[Len(s) + 1] = a /\ \A k \in 1 .. Len(s) : Append(s, a)[k] = s[k]
  BY AppendProperties
<1>2. \A k \in 1 .. Len(s) + 1 : k \in 1 .. Len(s) \/ k = Len(s) + 1 BY <1>1
<1>3. 1 .. Len(s) \subseteq 1 .. Len(s) + 1 /\ Len(s) + 1 \in 1 .. Len(s) + 1 BY <1>1
<1>4. \A k \in 1 .. Len(s) : s[k] # a BY <1>1 DEF ToSet
<1>5. IsInjective(Append(s, a)) BY <1>1, <1>2, <1>4 DEF IsInjective
<1>6. ToSet(Append(s, a)) = ToSet(s) \cup {a} BY <1>1, <1>2, <1>3 DEF ToSet
<1> QED BY <1>1, <1>5, <1>6

\* A row that is still there is announced, by the one request that created it.
LEMMA FindCreatedStep ==
    ASSUME DirectoryInductive, NEW p \in Callers, FindCreated(p)
    PROVE  DirectoryInductive'
<1>1. PICK a \in Registered \ ToSet(created) :
         /\ a = call[p].user
         /\ \A q \in Callers : call[q].step = "findCreated" /\ call[q].user = a => p = q
  BY DEF FindCreated, DirectoryInductive, Unannounced
<1>2. CASE a \notin LiveAccounts
  <2>1. Answer(p, "400 failedToSave") /\ UNCHANGED <<account, created>>
    BY <1>1, <1>2 DEF FindCreated
  <2> QED BY <2>1, AnswerStep DEF Answers
<1>3. CASE a \in LiveAccounts
  <2>1. created' = Append(created, a) /\ Answer(p, "201") /\ account' = account
    BY <1>1, <1>3 DEF FindCreated
  <2>2. PICK c : c = [AtRest EXCEPT !.answer = "201", !.user = a] OBVIOUS
  <2>3. a \in Accounts BY <1>1 DEF Registered
  <2>s. "201" \in Answers BY DEF Answers
  <2>4. c \in Call /\ c.step = "rest" /\ c.answer = "201" /\ c.user = a
    BY <2>s, <2>2, <2>3, AtRestFacts
  <2>5. call' = [call EXCEPT ![p] = c] BY <2>1, <2>2, <1>1 DEF Answer
  <2>6. call' \in [Callers -> Call] /\ call'[p] = c
        /\ \A q \in Callers \ {p} : call'[q] = call[q]
    BY <2>4, <2>5, CallFacts
  <2>7. /\ created' \in Seq(Accounts) /\ IsInjective(created')
        /\ ToSet(created') = ToSet(created) \cup {a}
    BY <2>1, <2>3, <1>1, AnnouncedOnceMore DEF DirectoryInductive, CreationsAnswered
  <2>8. Registered' = Registered BY <2>1 DEF Registered
  <2>9. DirectoryTypes' BY <2>1, <2>6 DEF DirectoryTypes, DirectoryInductive
  <2>10. CallsFit' BY <2>4, <2>6, <2>8, CallFacts DEF CallsFit, CallFits
  <2>11. Unannounced'
    <3>1. \A q \in Callers : call'[q].step = "findCreated" =>
             q # p /\ call'[q] = call[q] /\ call[q].user # a
      BY <1>1, <2>4, <2>6
    <3> QED BY <3>1, <2>7, <2>8 DEF DirectoryInductive, Unannounced
  <2>12. CreationsAnswered'
    <3>1. \A q \in Callers \ {p} : call[q].answer = "201" => call[q].user # a
      BY <1>1 DEF DirectoryInductive, CreationsAnswered
    <3>2. \A q, r \in Callers : call'[q].answer = "201" =>
             /\ call'[q].user \in ToSet(created) \cup {a}
             /\ call'[r].answer = "201" /\ call'[r].user = call'[q].user => q = r
      BY <3>1, <2>4, <2>6 DEF DirectoryInductive, CreationsAnswered
    <3> QED BY <3>2, <1>1, <2>1, <2>7, <2>8 DEF DirectoryInductive, CreationsAnswered
  <2> QED BY <2>7, <2>9, <2>10, <2>11, <2>12 DEF DirectoryInductive
<1> QED BY <1>2, <1>3

-----------------------------------------------------------------------------
(* PATCH, PUT and DELETE of a user, and the reads *)

LEMMA FindFirstStep ==
    ASSUME DirectoryInductive, NEW p \in Callers, FindFirst(p)
    PROVE  DirectoryInductive'
<1>1. call[p].step = "find" /\ UNCHANGED <<account, created>>
      /\ (Proceed(p, "write") \/ Answer(p, "404"))
  BY DEF FindFirst
<1>2. call[p].payload \in Changes /\ call[p].user \in Registered BY <1>1, CallFacts DEF CallFits
<1>3. CASE Answer(p, "404") BY <1>1, <1>3, AnswerStep DEF Answers
<1>4. CASE Proceed(p, "write") BY <1>1, <1>2, <1>4, ProceedStep DEF Steps
<1> QED BY <1>1, <1>3, <1>4

\* The address that is written is no other row's, deleted ones included.
LEMMA WriteStep ==
    ASSUME DirectoryInductive, NEW p \in Callers, Write(p)
    PROVE  DirectoryInductive'
<1>1. PICK a \in Registered : a = call[p].user BY CallFacts DEF Write, CallFits
<1>2. PICK new \in Changes : new = call[p].payload BY CallFacts DEF Write, CallFits
<1>3. PICK row \in UserRow : row = account[a]
  BY CallFacts DEF Registered
<1>4. CASE "email" \in DOMAIN new /\ EmailTaken(new.email, Registered \ {a})
  <2>1. Answer(p, "409") /\ UNCHANGED <<account, created>> BY <1>1, <1>2, <1>4 DEF Write
  <2> QED BY <2>1, AnswerStep DEF Answers
<1>5. CASE ~("email" \in DOMAIN new /\ EmailTaken(new.email, Registered \ {a}))
  <2>1. /\ call[p].step = "write" /\ created' = created
        /\ account' = [account EXCEPT ![a] = SetColumns(row, new)]
        /\ Answer(p, "200") \/ Proceed(p, "findAgain")
    BY <1>1, <1>2, <1>3, <1>5 DEF Write, Registered
  <2>2. PICK updated \in UserRow : updated = SetColumns(row, new) BY ColumnsSet
  <2>3. a \in Accounts /\ account' \in [Accounts -> UserRow \cup {NoRow}]
        /\ account'[a] = updated /\ \A b \in Accounts \ {a} : account'[b] = account[b]
    BY <2>1, <2>2, CallFacts DEF Registered
  <2>4. Registered' = Registered BY <2>2, <2>3, NoRowIsNoUser DEF Registered
  <2>5. \A b \in Registered \ {a} : updated.email # account[b].email
    BY <1>3, <1>5, <2>2, ColumnsSet
       DEF EmailTaken, DirectoryInductive, CreationsAnswered
  <2>6. AddressesUnique'
    BY <2>3, <2>4, <2>5 DEF AddressesUnique, Registered, DirectoryInductive, CreationsAnswered
  <2>7. CASE Answer(p, "200")
    <3>1. PICK c : c = [AtRest EXCEPT !.answer = "200", !.user = NoRow] OBVIOUS
    <3>s. "200" \in Answers BY DEF Answers
    <3>2. c \in Call /\ c.step = "rest" /\ c.answer = "200" BY <3>s, <3>1, AtRestFacts, ZenonT(40)
    <3>3. call' = [call EXCEPT ![p] = c] BY <2>7, <3>1 DEF Answer
    <3>4. CallFits(c) BY <3>2 DEF CallFits
    <3> QED BY <2>1, <2>3, <2>4, <2>6, <3>2, <3>3, <3>4, OneCall
  <2>8. CASE Proceed(p, "findAgain")
    <3>1. PICK c : c = [call[p] EXCEPT !.step = "findAgain"] OBVIOUS
    <3>2. c \in Call /\ c.step = "findAgain" /\ c.answer = call[p].answer
      BY <3>1, CallFacts DEF Call, Steps
    <3>3. call' = [call EXCEPT ![p] = c] BY <2>8, <3>1, CallFacts DEF Proceed
    <3>4. CallFits(c) /\ c.answer = "none" BY <2>1, <3>2, CallFacts DEF CallFits
    <3> QED BY <2>1, <2>3, <2>4, <2>6, <3>2, <3>3, <3>4, OneCall
  <2> QED BY <2>1, <2>7, <2>8
<1> QED BY <1>4, <1>5

LEMMA DeleteAccountStep ==
    ASSUME DirectoryInductive, NEW p \in Callers, DeleteAccount(p)
    PROVE  DirectoryInductive'
<1>1. PICK a : a = call[p].user OBVIOUS
<1>2. CASE a \notin LiveAccounts
  <2>1. Answer(p, "no success") /\ UNCHANGED <<account, created>>
    BY <1>1, <1>2 DEF DeleteAccount
  <2> QED BY <2>1, AnswerStep DEF Answers
<1>3. CASE a \in LiveAccounts
  <2>1. a \in Registered /\ a \in Accounts BY <1>3 DEF LiveAccounts, Registered
  <2>2. PICK row \in UserRow : row = account[a] BY <2>1, CallFacts DEF Registered
  <2>3. PICK hidden : hidden = [row EXCEPT !.deleted = TRUE] OBVIOUS
  <2>4. hidden \in UserRow /\ hidden.email = row.email BY <2>3 DEF UserRow
  <2>5. /\ account' = [account EXCEPT ![a] = hidden] /\ created' = created
        /\ Answer(p, "success")
    BY <1>1, <1>3, <2>2, <2>3, CallFacts DEF DeleteAccount
  <2>6. account' \in [Accounts -> UserRow \cup {NoRow}]
        /\ account'[a] = hidden /\ \A b \in Accounts \ {a} : account'[b] = account[b]
    BY <2>1, <2>4, <2>5, CallFacts
  <2>7. Registered' = Registered BY <2>1, <2>4, <2>6, NoRowIsNoUser DEF Registered
  <2>8. AddressesUnique'
    <3>1. \A b \in Registered : account'[b].email = account[b].email
      BY <2>2, <2>4, <2>6 DEF Registered
    <3> QED BY <3>1, <2>7 DEF AddressesUnique, DirectoryInductive, CreationsAnswered
  <2>9. PICK c : c = [AtRest EXCEPT !.answer = "success", !.user = NoRow] OBVIOUS
  <2>s. "success" \in Answers BY DEF Answers
  <2>10. c \in Call /\ c.step = "rest" /\ c.answer = "success"
    BY <2>s, <2>9, AtRestFacts, ZenonT(40)
  <2>11. call' = [call EXCEPT ![p] = c] BY <2>5, <2>9 DEF Answer
  <2>12. CallFits(c) BY <2>10 DEF CallFits
  <2> QED BY <2>5, <2>6, <2>7, <2>8, <2>10, <2>11, <2>12, OneCall
<1> QED BY <1>2, <1>3

\* The reads answer, or go on to count; so does a request that breaks off.
LEMMA ReadSteps ==
    ASSUME DirectoryInductive, NEW p \in Callers
    PROVE  /\ FindAgain(p) => DirectoryInductive'
           /\ \A himself \in BOOLEAN, roleType \in {"admin", "user"} :
                 Get(p, himself, roleType) => DirectoryInductive'
           /\ ListRows(p, 1) => DirectoryInductive'
           /\ ListCount(p) => DirectoryInductive'
           /\ Break(p) => DirectoryInductive'
<1>1. ASSUME FindAgain(p) PROVE DirectoryInductive'
  <2>1. UNCHANGED <<account, created>> /\ (Answer(p, "200") \/ Answer(p, "404"))
    BY <1>1 DEF FindAgain
  <2>2. CASE Answer(p, "200") BY <2>1, <2>2, AnswerStep DEF Answers
  <2>3. CASE Answer(p, "404") BY <2>1, <2>3, AnswerStep DEF Answers
  <2> QED BY <2>1, <2>2, <2>3
<1>2. ASSUME NEW himself \in BOOLEAN, NEW roleType \in {"admin", "user"}, Get(p, himself, roleType)
      PROVE  DirectoryInductive'
  <2>1. UNCHANGED <<account, created>>
        /\ (Answer(p, "200") \/ Answer(p, "403") \/ Answer(p, "404"))
    BY <1>2 DEF Get
  <2>2. CASE Answer(p, "200") BY <2>1, <2>2, AnswerStep DEF Answers
  <2>3. CASE Answer(p, "403") BY <2>1, <2>3, AnswerStep DEF Answers
  <2>4. CASE Answer(p, "404") BY <2>1, <2>4, AnswerStep DEF Answers
  <2> QED BY <2>1, <2>2, <2>3, <2>4
<1>3. ASSUME ListRows(p, 1) PROVE DirectoryInductive'
  <2>1. PICK rows \in SUBSET LiveAccounts :
           /\ call' = [call EXCEPT ![p] = [@ EXCEPT !.step = "count", !.payload = [rows |-> rows]]]
           /\ call[p].step = "list" /\ UNCHANGED <<account, created>>
    BY <1>3 DEF ListRows
  <2>2. [rows |-> rows] \in Payload
    <3>1. rows \in SUBSET Accounts BY DEF LiveAccounts, Registered
    <3>2. [rows |-> rows] \in [rows : SUBSET Accounts] BY <3>1
    <3> QED BY <3>2 DEF Payload
  <2>3. PICK payload \in Payload : payload = [rows |-> rows] BY <2>2
  <2>4. PICK c : c = [call[p] EXCEPT !.step = "count", !.payload = payload] OBVIOUS
  <2>5. [call[p] EXCEPT !.step = "count"] \in Call BY CallFacts DEF Call, Steps
  <2>6. c \in Call BY <2>4, <2>5, CallFacts DEF Call
  <2>7. c.step = "count" /\ c.answer = call[p].answer BY <2>4, CallFacts DEF Call
  <2>8. call' = [call EXCEPT ![p] = c] BY <2>1, <2>3, <2>4, CallFacts
  <2>9. CallFits(c) /\ c.answer = "none" BY <2>1, <2>7, CallFacts DEF CallFits
  <2> QED BY <2>1, <2>6, <2>7, <2>8, <2>9, OneCallAlone
<1>4. ASSUME ListCount(p) PROVE DirectoryInductive'
  BY <1>4, AnswerStep DEF ListCount, Answers
<1>5. ASSUME Break(p) PROVE DirectoryInductive'
  BY <1>5, AnswerStep DEF Break, Answers
<1> QED BY <1>1, <1>2, <1>3, <1>4, <1>5

-----------------------------------------------------------------------------
(* The theorems of UserDirectory *)

\* Whatever a caller asks for.
LEMMA AskSteps ==
    ASSUME DirectoryInductive, NEW p \in Callers
    PROVE  /\ \A e \in Addresses :
                 Ask(p, "create", NoRow, [email |-> e], "exists") => DirectoryInductive'
           /\ \A a \in Registered :
                 /\ \A edit \in Edits : Ask(p, "update", a, edit, "find") => DirectoryInductive'
                 /\ Ask(p, "unlock", a, [blocked |-> FALSE], "find") => DirectoryInductive'
                 /\ \A op \in {"theme", "channels"} :
                       Ask(p, op, a, [prefs |-> "chosen"], "write") => DirectoryInductive'
                 /\ Ask(p, "delete", a, <<>>, "delete") => DirectoryInductive'
                 /\ Ask(p, "get", a, <<>>, "get") => DirectoryInductive'
           /\ Ask(p, "list", NoRow, <<>>, "list") => DirectoryInductive'
<1>1. ASSUME NEW e \in Addresses, Ask(p, "create", NoRow, [email |-> e], "exists")
      PROVE  DirectoryInductive'
  <2>1. [email |-> e] \in [email : Addresses] OBVIOUS
  <2>2. [email |-> e] \in Changes BY <2>1 DEF Changes
  <2> QED BY <1>1, <2>1, <2>2, AskStep DEF Ops, Steps
<1>2. ASSUME NEW a \in Registered
      PROVE  /\ \A edit \in Edits : Ask(p, "update", a, edit, "find") => DirectoryInductive'
             /\ Ask(p, "unlock", a, [blocked |-> FALSE], "find") => DirectoryInductive'
             /\ \A op \in {"theme", "channels"} :
                   Ask(p, op, a, [prefs |-> "chosen"], "write") => DirectoryInductive'
             /\ Ask(p, "delete", a, <<>>, "delete") => DirectoryInductive'
             /\ Ask(p, "get", a, <<>>, "get") => DirectoryInductive'
  <2>1. a \in Accounts BY DEF Registered
  <2>2. ASSUME NEW edit \in Edits, Ask(p, "update", a, edit, "find") PROVE DirectoryInductive'
    <3>1. edit \in Changes
      <4>1. CASE edit \in [email : Addresses] BY <4>1 DEF Changes
      <4>2. CASE edit \in [blocked : {TRUE}]
        <5>1. edit \in [blocked : BOOLEAN] BY <4>2
        <5> QED BY <5>1 DEF Changes
      <4> QED BY <4>1, <4>2 DEF Edits
    <3> QED BY <2>1, <2>2, <3>1, AskStep DEF Ops, Steps
  <2>3. ASSUME Ask(p, "unlock", a, [blocked |-> FALSE], "find") PROVE DirectoryInductive'
    <3>1. [blocked |-> FALSE] \in [blocked : BOOLEAN] OBVIOUS
    <3>2. [blocked |-> FALSE] \in Changes BY <3>1 DEF Changes
    <3> QED BY <2>1, <2>3, <3>2, AskStep DEF Ops, Steps
  <2>4. ASSUME NEW op \in {"theme", "channels"}, Ask(p, op, a, [prefs |-> "chosen"], "write")
        PROVE  DirectoryInductive'
    <3>1. [prefs |-> "chosen"] \in [prefs : {"chosen"}] OBVIOUS
    <3>2. [prefs |-> "chosen"] \in Changes BY <3>1 DEF Changes
    <3>3. op \in Ops BY DEF Ops
    <3> QED BY <2>1, <2>4, <3>2, <3>3, AskStep DEF Steps
  <2>5. ASSUME Ask(p, "delete", a, <<>>, "delete") PROVE DirectoryInductive'
    BY <2>1, <2>5, AskStep DEF Ops, Steps
  <2>6. ASSUME Ask(p, "get", a, <<>>, "get") PROVE DirectoryInductive'
    BY <2>1, <2>6, AskStep DEF Ops, Steps
  <2> QED BY <2>2, <2>3, <2>4, <2>5, <2>6
<1>3. ASSUME Ask(p, "list", NoRow, <<>>, "list") PROVE DirectoryInductive'
  BY <1>3, AskStep DEF Ops, Steps
<1> QED BY <1>1, <1>2, <1>3

\* The inductive invariant of the rows of `user` and of the requests about them.
THEOREM DirectoryInvariance == DirectorySpec => []DirectoryInductive
<1>1. DirectoryInit => DirectoryInductive
  <2> SUFFICES ASSUME DirectoryInit PROVE DirectoryInductive OBVIOUS
  <2>1. Registered = {} BY DEF DirectoryInit, Registered
  <2>2. DirectoryTypes BY AtRestFacts DEF DirectoryInit, DirectoryTypes
  <2>3. \A p \in Callers : call[p].step = "rest" /\ call[p].answer = "none"
    BY DEF DirectoryInit, AtRest
  <2>4. CallsFit /\ Unannounced BY <2>3 DEF CallsFit, CallFits, Unannounced
  <2>5. created \in Seq(Accounts) /\ DOMAIN created = {} BY DEF DirectoryInit
  <2>6. CreationsAnswered
    BY <2>1, <2>3, <2>5 DEF CreationsAnswered, IsInjective, ToSet
  <2> QED BY <2>2, <2>4, <2>5, <2>6 DEF DirectoryInductive
<1>2. DirectoryInductive /\ [DirectoryNext]_directoryVars => DirectoryInductive'
  <2> SUFFICES ASSUME DirectoryInductive, [DirectoryNext]_directoryVars
               PROVE  DirectoryInductive'
    OBVIOUS
  <2>1. CASE UNCHANGED directoryVars
    BY <2>1 DEF directoryVars, DirectoryInductive, DirectoryTypes, CallsFit, CallFits, Unannounced,
       CreationsAnswered, Registered
  <2>2. ASSUME NEW p \in Callers,
               \/ \E found \in BOOLEAN : CheckEmail(p, found)
               \/ CreateInsert(p) \/ FindCreated(p)
               \/ FindFirst(p) \/ Write(p) \/ DeleteAccount(p)
        PROVE  DirectoryInductive'
    BY <2>2, CheckEmailStep, CreateInsertStep, FindCreatedStep, FindFirstStep, WriteStep,
       DeleteAccountStep
  <2> QED BY <2>1, <2>2, AskSteps, ReadSteps DEF DirectoryNext
<1> QED BY <1>1, <1>2, PTL DEF DirectorySpec

\* Of all requests that create a user of one address, however they overlap, one has a row to
\* answer with, which is announced at most once.
THEOREM CreationsAreAnswered == DirectorySpec => []CreationsAnswered
<1> QED BY DirectoryInvariance, PTL DEF DirectoryInductive

-----------------------------------------------------------------------------
(* PasswordHashes *)

\* A hash is of the password the user set last, or, when a login has read it before or put
\* it back since, of one he had before; and of the new algorithm once a login has succeeded.
\* A hash of the new algorithm is never replaced by one of the old, so that a login which
\* has read one finds one.
HashOf(hash, late) ==
    /\ hash.type \in {"argon2id", "hmac-sha256"}
    /\ hash.of = word \/ (late /\ hash.of \in outdated)

HashInductive ==
    /\ HashOf(stored, restored)
    /\ entered => stored.type = "argon2id"
    /\ \A l \in Logins : entering[l] # NoLogin =>
          /\ HashOf(entering[l].hash, restored \/ entering[l].overtaken)
          /\ entering[l].hash.type = "argon2id" => stored.type = "argon2id"
          /\ entering[l].overtaken \in BOOLEAN
    /\ entering = [l \in Logins |-> entering[l]]
    /\ restored \in BOOLEAN

\* What a hash verifies is its password.
LEMMA OpensWithItsPassword ==
    ASSUME NEW hash, hash.type \in {"argon2id", "hmac-sha256"}, NEW password, NEW secret,
           VerifyPassword(hash, password, secret)
    PROVE  Normalized(password) = hash.of
<1>1. CASE hash.type = "argon2id" BY <1>1 DEF VerifyPassword
<1>2. CASE hash.type = "hmac-sha256"
  <2>1. hash = HmacHash(password, secret) BY <1>2 DEF VerifyPassword
  <2>2. HmacHash(password, secret).of = Normalized(password) BY DEF HmacHash
  <2> QED BY <2>1, <2>2
<1> QED BY <1>1, <1>2

\* A new password makes every login in flight one that has read the hash before.
LEMMA SetPasswordStep ==
    ASSUME HashInductive, NEW password \in Spellings, SetPassword(password)
    PROVE  HashInductive'
<1>1. /\ stored' = Argon2Hash(password, settings.options)
      /\ stored'.type = "argon2id" /\ stored'.of = word'
  BY DEF SetPassword, Argon2Hash
<1>2. word' = Normalized(password) /\ outdated' = outdated \cup {word} /\ restored' = FALSE
  BY DEF SetPassword
<1>3. ASSUME NEW l \in Logins, entering'[l] # NoLogin
      PROVE  /\ HashOf(entering[l].hash, TRUE)'
             /\ entering'[l].hash = entering[l].hash /\ entering'[l].overtaken = TRUE
  <2>1. entering[l] # NoLogin /\ entering'[l] = [entering[l] EXCEPT !.overtaken = TRUE]
    BY <1>3 DEF SetPassword
  <2>2. entering'[l].hash = entering[l].hash
    BY <2>1
  <2>3. HashOf(entering[l].hash, restored \/ entering[l].overtaken)
    BY <2>1 DEF HashInductive
  <2>4. entering[l].hash.of \in outdated'
    BY <1>2, <2>3 DEF HashOf
  <2>5. entering'[l].overtaken = TRUE
    BY <2>1 DEF HashInductive
  <2> QED
    BY <2>2, <2>3, <2>4, <2>5 DEF HashOf
<1>4. entering' = [l \in Logins |-> entering'[l]]
  BY DEF SetPassword
<1> QED
  BY <1>1, <1>2, <1>3, <1>4 DEF HashInductive, HashOf

\* A login reads the hash of the present.
LEMMA ReadHashStep ==
    ASSUME HashInductive, NEW l \in Logins, NEW password \in Spellings, ReadHash(l, password)
    PROVE  HashInductive'
<1>1. /\ entering'[l].hash = stored /\ entering'[l].overtaken = FALSE
      /\ \A k \in Logins : k # l => entering'[k] = entering[k]
      /\ entering' = [k \in Logins |-> entering'[k]]
  BY DEF ReadHash, HashInductive
<1> QED
  BY <1>1 DEF HashInductive, HashOf, ReadHash

\* A login that ends without a new hash.
LEMMA LeavingStep ==
    ASSUME HashInductive, NEW l \in Logins, EnterPassword(l) \/ GiveUp(l)
    PROVE  HashInductive'
<1>1. /\ entering'[l] = NoLogin
      /\ \A k \in Logins : k # l => entering'[k] = entering[k]
      /\ entering' = [k \in Logins |-> entering'[k]]
      /\ UNCHANGED <<stored, word, outdated, restored>>
  BY DEF EnterPassword, GiveUp, HashInductive
<1>2. entered' => stored.type = "argon2id"
  <2>1. CASE EnterPassword(l)
    BY <2>1 DEF HashInductive, HashOf, EnterPassword, Verified, NeedsRehash
  <2>2. CASE GiveUp(l)
    BY <2>2 DEF HashInductive, GiveUp
  <2> QED
    BY <2>1, <2>2
<1> QED
  BY <1>1, <1>2 DEF HashInductive, HashOf

\* The new hash is of the password that was verified: the last one, unless the login had
\* read it before.
LEMMA RehashStep ==
    ASSUME HashInductive, NEW l \in Logins, RehashPassword(l)
    PROVE  HashInductive'
<1>1. /\ entering'[l] = NoLogin
      /\ \A k \in Logins : k # l => entering'[k] = entering[k]
      /\ entering' = [k \in Logins |-> entering'[k]]
      /\ UNCHANGED <<word, outdated>>
      /\ restored' = (restored \/ entering[l].overtaken)
  BY DEF RehashPassword, HashInductive
<1>2. HashOf(entering[l].hash, restored \/ entering[l].overtaken)
  BY DEF HashInductive, RehashPassword, Verified
<1>3. Normalized(entering[l].password) = entering[l].hash.of
  BY <1>2, OpensWithItsPassword DEF HashOf, RehashPassword, Verified
<1>4. stored'.type = "argon2id" /\ stored'.of = entering[l].hash.of
  BY <1>3 DEF RehashPassword, Argon2Hash
<1>5. HashOf(stored, restored)'
  BY <1>1, <1>2, <1>4 DEF HashOf
<1>6. \A k \in Logins : entering'[k] # NoLogin =>
         HashOf(entering[k].hash, restored \/ entering[k].overtaken)'
  BY <1>1 DEF HashInductive, HashOf
<1>7. restored' \in BOOLEAN
  BY <1>1 DEF HashInductive, RehashPassword, Verified
<1> QED
  BY <1>1, <1>4, <1>5, <1>6, <1>7 DEF HashInductive

\* Setting a password, logging in with it, which may hash it anew, however slowly, and
\* replacing the secret and the options all leave the hash one of the password that was set
\* last, or of one that a login has put back.
THEOREM HashInvariance == HashSpec => []HashInductive
<1>1. HashInit => HashInductive
  <2> SUFFICES ASSUME HashInit PROVE HashInductive OBVIOUS
  <2>1. HashOf(stored, restored) BY DEF HashInit, HashOf, HmacHash, Argon2Hash
  <2>2. entered = FALSE /\ restored = FALSE BY DEF HashInit
  <2>3. entering = [l \in Logins |-> NoLogin] BY DEF HashInit
  <2>4. \A l \in Logins : entering[l] = NoLogin BY <2>3
  <2>5. entering = [l \in Logins |-> entering[l]] BY <2>3
  <2> QED BY <2>1, <2>2, <2>4, <2>5 DEF HashInductive
<1>2. HashInductive /\ [HashNext]_hashVars => HashInductive'
  <2> SUFFICES ASSUME HashInductive, [HashNext]_hashVars PROVE HashInductive' OBVIOUS
  <2>1. ASSUME NEW password \in Spellings, SetPassword(password) PROVE HashInductive'
    BY <2>1, SetPasswordStep
  <2>2. ASSUME NEW l \in Logins, NEW password \in Spellings, ReadHash(l, password)
        PROVE HashInductive'
    BY <2>2, ReadHashStep
  <2>3. ASSUME NEW l \in Logins, EnterPassword(l) \/ GiveUp(l) PROVE HashInductive'
    BY <2>3, LeavingStep
  <2>4. ASSUME NEW l \in Logins, RehashPassword(l) PROVE HashInductive'
    BY <2>4, RehashStep
  <2>5. ASSUME NEW secret, NEW options, Redeploy(secret, options) PROVE HashInductive'
    BY <2>5 DEF HashInductive, HashOf, Redeploy
  <2>6. CASE UNCHANGED hashVars BY <2>6 DEF HashInductive, HashOf, hashVars
  <2> QED BY <2>1, <2>2, <2>3, <2>4, <2>5, <2>6 DEF HashNext
<1> QED BY <1>1, <1>2, PTL DEF HashSpec

\* The user's last password opens the account under every later secret and options, once a
\* login has succeeded or it was set since Argon2id came, and no other one does, unless a
\* login that had read the hash before has put back a password he had.
THEOREM PasswordsOutliveSecrets == HashSpec => []PasswordOutlivesSecret
<1>1. HashInductive => PasswordOutlivesSecret
  <2> SUFFICES ASSUME HashInductive, NEW password \in Spellings
               PROVE  /\ VerifyPassword(stored, password, settings.secret)
                            => \/ Normalized(password) = word
                               \/ restored /\ Normalized(password) \in outdated
                      /\ (entered \/ stored.type = "argon2id") /\ Normalized(password) = word
                            => VerifyPassword(stored, password, settings.secret) \/ restored
    BY DEF PasswordOutlivesSecret
  <2>1. stored.type = "argon2id" /\ Normalized(password) = word
           => VerifyPassword(stored, password, settings.secret) \/ restored
    BY DEF HashInductive, HashOf, VerifyPassword
  <2>2. VerifyPassword(stored, password, settings.secret) => Normalized(password) = stored.of
    BY OpensWithItsPassword DEF HashInductive, HashOf
  <2> QED BY <2>1, <2>2 DEF HashInductive, HashOf
<1> QED BY <1>1, HashInvariance, PTL

-----------------------------------------------------------------------------
(* FieldEncryption *)

\* Among the formats that keys are written in none yields 32 bytes in an earlier reading
\* than its own: every service that starts has read its key as it was meant.
LEMMA KeysAreAsMeant ==
    ASSUME NEW k \in WrittenKeys, Usable(k.writing)
    PROVE  ParseKey(k) = [material |-> k.material, asMeant |-> TRUE]
<1>1. PICK w \in Writings : w = k.writing
  BY DEF WrittenKeys
<1>2. PICK c : c = Candidates(w)
  OBVIOUS
<1>3. /\ DOMAIN c = 1 .. 3
      /\ c[1].format = "base64" /\ c[2].format = "hex" /\ c[3].format = "utf8"
      /\ c[1].bytes = (3 * w.chars) \div 4
      /\ c[2].bytes = IF w.chars = 64 /\ w.hexadecimal THEN 32 ELSE 0
      /\ c[3].bytes = w.bytes
  BY <1>2 DEF Candidates
<1>4. Usable(w)
  BY <1>1
<1>5. PICK i \in 1 .. 3 :
         /\ c[i].format = w.format /\ Fits(c[i])
         /\ \A j \in 1 .. 3 : j # i => ~Fits(c[j])
  <2>1. CASE w.format = "base64"
    <3>1. w.chars = 43 /\ w.hexadecimal = FALSE /\ w.bytes = 44
      BY <2>1 DEF Writings
    <3>2. (3 * 43) \div 4 = 32
      OBVIOUS
    <3>3. Fits(c[1]) /\ ~Fits(c[2]) /\ ~Fits(c[3])
      BY <1>3, <3>1, <3>2 DEF Fits
    <3> QED
      BY <1>3, <2>1, <3>3
  <2>2. CASE w.format = "hex"
    <3>1. w.chars = 64 /\ w.hexadecimal = TRUE /\ w.bytes = 64
      BY <2>2 DEF Writings
    <3>2. (3 * 64) \div 4 = 48
      OBVIOUS
    <3>3. ~Fits(c[1]) /\ Fits(c[2]) /\ ~Fits(c[3])
      BY <1>3, <3>1, <3>2 DEF Fits
    <3> QED
      BY <1>3, <2>2, <3>3
  <2>3. CASE w.format = "utf8"
    <3>1. w.chars \in {32, 20} /\ w.bytes = 32
      BY <2>3 DEF Writings
    <3>2. (3 * 32) \div 4 = 24 /\ (3 * 20) \div 4 = 15
      OBVIOUS
    <3>3. ~Fits(c[1]) /\ ~Fits(c[2]) /\ Fits(c[3])
      BY <1>3, <3>1, <3>2 DEF Fits
    <3> QED
      BY <1>3, <2>3, <3>3
  <2>4. w.format # "none"
    <3> SUFFICES ASSUME w.format = "none" PROVE FALSE
      OBVIOUS
    <3>1. w.chars = 40 /\ w.bytes = 41 /\ (3 * 40) \div 4 = 30
      BY DEF Writings
    <3>2. \A i \in 1 .. 3 : c[i].bytes # 32
      BY <1>3, <3>1
    <3> QED
      BY <1>2, <1>3, <1>4, <3>2 DEF Usable, Fits
  <2> QED
    BY <2>1, <2>2, <2>3, <2>4 DEF Writings
<1>6. i = CHOOSE n \in DOMAIN c : Fits(c[n]) /\ \A j \in 1 .. n - 1 : ~Fits(c[j])
  <2>1. Fits(c[i]) /\ \A j \in 1 .. i - 1 : ~Fits(c[j])
    BY <1>5
  <2>2. \A n \in DOMAIN c : Fits(c[n]) => n = i
    BY <1>3, <1>5
  <2> QED
    BY <1>3, <2>1, <2>2
<1> QED
  BY <1>1, <1>2, <1>5, <1>6 DEF ParseKey

\* The column holds what was given, or its encryption under the bytes that were meant.
FieldInductive ==
    /\ keyed \in [Services -> WrittenKeys]
    /\ given \in Givable
    /\ lookup = Value("hash", given)
    /\ \/ column = given
       \/ given.kind = "plain" /\ column = Wire([material |-> under, asMeant |-> TRUE], given)

\* What encryption makes of a value.
LEMMA Encrypts ==
    ASSUME NEW key, NEW v \in Givable
    PROVE  IF v.kind = "plain" THEN EncryptNullable(key, v) = Wire(key, v)
                               ELSE EncryptNullable(key, v) = v
BY DEF EncryptNullable, Givable, Blank, Value, IsEncrypted

LEMMA GivableIsPlain ==
    ASSUME NEW v \in Givable
    PROVE  /\ v.kind \in {"null", "empty", "plain", "prefixed"}
           /\ HashLookupSecret(v) = Value("hash", v)
BY DEF Givable, Blank, Value, HashLookupSecret

LEMMA SaveStep ==
    ASSUME FieldInductive, NEW s \in Services, NEW v \in Givable, Save(s, v)
    PROVE  FieldInductive'
<1>1. /\ column' = EncryptNullable(ParseKey(keyed[s]), v) /\ lookup' = HashLookupSecret(v)
      /\ given' = v /\ under' = keyed[s].material /\ keyed' = keyed
      /\ ParseKey(keyed[s]) = [material |-> keyed[s].material, asMeant |-> TRUE]
  BY KeysAreAsMeant DEF FieldInductive, Save, Runs
<1>2. lookup' = Value("hash", v)
  BY <1>1, GivableIsPlain
<1>3. \/ column' = v
      \/ v.kind = "plain" /\ column' = Wire([material |-> under', asMeant |-> TRUE], v)
  BY <1>1, Encrypts
<1> QED
  BY <1>1, <1>2, <1>3 DEF FieldInductive

LEMMA SaveAgainStep ==
    ASSUME FieldInductive, NEW s \in Services, SaveAgain(s)
    PROVE  FieldInductive'
<1>1. /\ column' = EncryptNullable(ParseKey(keyed[s]), column)
      /\ lookup' = HashLookupSecret(lookup)
      /\ under' = IF column.kind = "plain" THEN keyed[s].material ELSE under
      /\ keyed' = keyed /\ given' = given
      /\ ParseKey(keyed[s]) = [material |-> keyed[s].material, asMeant |-> TRUE]
  BY KeysAreAsMeant DEF FieldInductive, SaveAgain, Runs
<1>2. lookup' = lookup
  BY <1>1 DEF FieldInductive, HashLookupSecret, Value
<1>3. CASE column = given
  BY <1>1, <1>2, <1>3, Encrypts DEF FieldInductive
<1>4. CASE given.kind = "plain" /\ column = Wire([material |-> under, asMeant |-> TRUE], given)
  <2>1. column.kind = "wire"
    BY <1>4 DEF Wire
  <2>2. column' = column /\ under' = under
    BY <1>1, <2>1 DEF EncryptNullable, IsEncrypted
  <2> QED
    BY <1>1, <1>2, <1>4, <2>2 DEF FieldInductive
<1> QED
  BY <1>3, <1>4 DEF FieldInductive

\* What the columns of an encrypted field hold, whichever services wrote them with whatever
\* writing of their keys (EncryptionService).
THEOREM FieldInvariance == FieldSpec => []FieldInductive
<1>1. FieldInit => FieldInductive
  <2> SUFFICES ASSUME FieldInit PROVE FieldInductive
    OBVIOUS
  <2>1. PICK k \in WrittenKeys, t \in Plaintexts :
           /\ keyed = [s \in Services |-> k]
           /\ given = Value("plain", t) /\ column = given
           /\ lookup = HashLookupSecret(given)
    BY DEF FieldInit
  <2>2. given \in Givable
    BY <2>1 DEF Givable
  <2> QED
    BY <2>1, <2>2, GivableIsPlain DEF FieldInductive
<1>2. FieldInductive /\ [FieldNext]_fieldVars => FieldInductive'
  <2> SUFFICES ASSUME FieldInductive, [FieldNext]_fieldVars PROVE FieldInductive'
    OBVIOUS
  <2>1. ASSUME NEW s \in Services, NEW v \in Givable, Save(s, v) PROVE FieldInductive'
    BY <2>1, SaveStep
  <2>2. ASSUME NEW s \in Services, SaveAgain(s) PROVE FieldInductive'
    BY <2>2, SaveAgainStep
  <2>3. ASSUME NEW s \in Services, NEW k \in WrittenKeys, Rekey(s, k) PROVE FieldInductive'
    BY <2>3 DEF FieldInductive, Rekey
  <2>4. CASE UNCHANGED fieldVars
    BY <2>4 DEF FieldInductive, fieldVars
  <2> QED
    BY <2>1, <2>2, <2>3, <2>4 DEF FieldNext
<1> QED
  BY <1>1, <1>2, PTL DEF FieldSpec

\* Every service with the same key, in whatever format it was written for it, reads what any
\* of them saved, however often the row was saved again; with other bytes it gets an error;
\* and the fingerprint is never hashed twice (EncryptionService).
THEOREM FieldsReadBack == FieldSpec => []FieldReadsBack
<1>1. FieldInductive => FieldReadsBack
  <2> SUFFICES ASSUME FieldInductive, NEW s \in Services, Runs(s)
               PROVE  LET read == DecryptNullable(ParseKey(keyed[s]), column) IN
                      /\ given.kind # "prefixed" =>
                            read = IF column.kind # "wire" \/ keyed[s].material = under
                                   THEN given ELSE Invalid
                      /\ IsHashedLookupSecret(lookup) /\ HashLookupSecret(given) = lookup
    BY DEF FieldReadsBack
  <2>1. PICK key : key = ParseKey(keyed[s])
    OBVIOUS
  <2>2. key = [material |-> keyed[s].material, asMeant |-> TRUE]
    BY <2>1, KeysAreAsMeant DEF FieldInductive, Runs
  <2>3. IsHashedLookupSecret(lookup) /\ HashLookupSecret(given) = lookup
    BY GivableIsPlain DEF FieldInductive, IsHashedLookupSecret, Value
  <2>4. ASSUME given.kind # "prefixed"
        PROVE  DecryptNullable(key, column) =
                   IF column.kind # "wire" \/ keyed[s].material = under THEN given ELSE Invalid
    <3>1. CASE column = given
      <4>1. column.kind \in {"null", "empty", "plain"}
        BY <2>4, <3>1, GivableIsPlain DEF FieldInductive
      <4> QED
        BY <3>1, <4>1 DEF DecryptNullable
    <3>2. CASE column = Wire([material |-> under, asMeant |-> TRUE], given)
      <4>1. /\ column.kind = "wire" /\ column.text = given
            /\ column.key = [material |-> under, asMeant |-> TRUE]
        BY <3>2 DEF Wire
      <4>2. column.key = key <=> keyed[s].material = under
        <5>1. column.key.material = under /\ key.material = keyed[s].material
          BY <2>2, <4>1
        <5>2. keyed[s].material = under => column.key = key
          BY <2>2, <4>1
        <5> QED
          BY <5>1, <5>2
      <4>3. DecryptNullable(key, column) = IF column.key = key THEN column.text ELSE Invalid
        BY <4>1 DEF DecryptNullable
      <4> QED
        BY <4>1, <4>2, <4>3
    <3> QED
      BY <3>1, <3>2 DEF FieldInductive
  <2> QED
    BY <2>1, <2>3, <2>4
<1> QED
  BY <1>1, FieldInvariance, PTL

-----------------------------------------------------------------------------
(* AuditTrail: the inductive invariant *)

\* A forgotten password is never refused.
Happening == {h \in [kind : Kinds, ok : BOOLEAN, over : BOOLEAN] : h.kind = "forgot" => h.ok}

\* A row that is written, or about to be, is what the handler of its request has announced
\* when it had the answer.
RowIsAnnounced(r) ==
    /\ r.of \in DOMAIN happening /\ happening[r.of].over
    /\ r.action \in Announced(happening[r.of].kind, happening[r.of].ok)

AuditInductive ==
    /\ happening \in Seq(Happening)
    /\ \A r \in inserting \cup accessLog : RowIsAnnounced(r)
    /\ \A r, s \in inserting \cup accessLog : r.of = s.of => r = s

\* An announcement is one word, and says of its request what happened.
LEMMA AnnouncedSays ==
    ASSUME NEW kind \in Kinds, NEW ok \in BOOLEAN, kind = "forgot" => ok
    PROVE  /\ \A w \in Announced(kind, ok) : kind = Says(w).kind /\ ok \in Says(w).ok
           /\ \A w, v \in Announced(kind, ok) : w = v
<1>1. CASE kind = "login" BY <1>1 DEF Announced, Says
<1>2. CASE kind = "logout" BY <1>2 DEF Announced, Says
<1>3. CASE kind = "forgot" BY <1>3 DEF Announced, Says
<1>4. CASE kind = "reset" BY <1>4 DEF Announced, Says
<1>5. CASE kind = "change" BY <1>5 DEF Announced, Says
<1>6. CASE kind = "adminReset" BY <1>6 DEF Announced, Says
<1> QED BY <1>1, <1>2, <1>3, <1>4, <1>5, <1>6 DEF Kinds

\* Who is served keeps what it is; a row says the same of it as before.
LEMMA HappeningsKept ==
    ASSUME AuditInductive, happening' \in Seq(Happening),
           \A h \in DOMAIN happening : /\ h \in DOMAIN happening'
                                       /\ happening'[h].kind = happening[h].kind
                                       /\ happening'[h].ok = happening[h].ok
                                       /\ happening[h].over => happening'[h].over,
           inserting' \cup accessLog' \subseteq inserting \cup accessLog
    PROVE  AuditInductive'
<1>1. \A r \in inserting' \cup accessLog' : RowIsAnnounced(r)' BY DEF AuditInductive, RowIsAnnounced
<1> QED BY <1>1 DEF AuditInductive

LEMMA ServeStep ==
    ASSUME AuditInductive, NEW kind \in Kinds, NEW ok \in BOOLEAN, Serve(kind, ok)
    PROVE  AuditInductive'
<1>1. PICK new \in Happening : new = [kind |-> kind, ok |-> ok, over |-> FALSE]
  BY DEF Serve, Happening
<1>2. happening' = Append(happening, new) /\ UNCHANGED <<inserting, accessLog>>
  BY <1>1 DEF Serve
<1>3. /\ happening' \in Seq(Happening) /\ DOMAIN happening' = 1 .. Len(happening) + 1
      /\ DOMAIN happening = 1 .. Len(happening) /\ Len(happening) \in Nat
      /\ \A h \in 1 .. Len(happening) : happening'[h] = happening[h]
  BY <1>2, AppendProperties DEF AuditInductive
<1>4. \A h \in DOMAIN happening : h \in DOMAIN happening' BY <1>3
<1> QED BY <1>2, <1>3, <1>4, HappeningsKept

\* A request is over once, so that no second row is announced for it.
LEMMA PublishStep ==
    ASSUME AuditInductive, NEW h \in DOMAIN happening, NEW arrives \in BOOLEAN, Publish(h, arrives)
    PROVE  AuditInductive'
<1>1. happening[h] \in Happening /\ h \in 1 .. Len(happening) /\ happening \in Seq(Happening)
  BY DEF AuditInductive
<1>2. PICK kind \in Kinds, ok \in BOOLEAN :
         kind = happening[h].kind /\ ok = happening[h].ok /\ (kind = "forgot" => ok)
  BY <1>1 DEF Happening
<1>3. PICK new : new = [happening[h] EXCEPT !.over = TRUE] OBVIOUS
<1>4. new \in Happening /\ new.kind = kind /\ new.ok = ok /\ new.over
  BY <1>1, <1>2, <1>3 DEF Happening
<1>5. ~happening[h].over /\ happening' = [happening EXCEPT ![h] = new] /\ accessLog' = accessLog
  BY <1>1, <1>3 DEF Publish
<1>6. /\ happening' \in Seq(Happening) /\ DOMAIN happening' = DOMAIN happening
      /\ happening'[h] = new
      /\ \A g \in DOMAIN happening : g # h => happening'[g] = happening[g]
  BY <1>1, <1>4, <1>5, ExceptSeq
<1>7. PICK words : /\ words \subseteq Announced(kind, ok)
                   /\ inserting' = inserting \cup
                         {[createdAt |-> now, action |-> w, of |-> h] : w \in words}
  <2>1. CASE arrives
    <3>1. inserting' = inserting \cup
             {[createdAt |-> now, action |-> w, of |-> h] : w \in Announced(kind, ok)}
      BY <2>1, <1>2 DEF Publish
    <3> QED BY <3>1
  <2>2. CASE ~arrives
    <3>1. inserting' = inserting \cup {[createdAt |-> now, action |-> w, of |-> h] : w \in {}}
      BY <2>2 DEF Publish
    <3> QED BY <3>1
  <2> QED BY <2>1, <2>2
<1>8. \A r \in inserting \cup accessLog : r.of # h /\ RowIsAnnounced(r)
  BY <1>5 DEF AuditInductive, RowIsAnnounced
<1>9. ASSUME NEW r \in inserting' \cup accessLog'
      PROVE  \/ r \in inserting \cup accessLog
             \/ \E w \in Announced(kind, ok) : r = [createdAt |-> now, action |-> w, of |-> h]
  BY <1>5, <1>7
<1>10. ASSUME NEW r \in inserting' \cup accessLog' PROVE RowIsAnnounced(r)'
  <2>1. CASE r \in inserting \cup accessLog
    BY <2>1, <1>6, <1>8 DEF RowIsAnnounced
  <2>2. CASE r \notin inserting \cup accessLog
    <3>1. r.of = h /\ r.action \in Announced(kind, ok) BY <2>2, <1>9
    <3> QED BY <3>1, <1>4, <1>6 DEF RowIsAnnounced
  <2> QED BY <2>1, <2>2
<1>11. ASSUME NEW r \in inserting' \cup accessLog', NEW s \in inserting' \cup accessLog',
              r.of = s.of
       PROVE  r = s
  <2>1. CASE r \in inserting \cup accessLog /\ s \in inserting \cup accessLog
    BY <2>1, <1>11 DEF AuditInductive
  <2>2. CASE r \notin inserting \cup accessLog /\ s \notin inserting \cup accessLog
    BY <2>2, <1>2, <1>9, AnnouncedSays
  <2>3. CASE r \in inserting \cup accessLog /\ s \notin inserting \cup accessLog
    BY <2>3, <1>8, <1>9, <1>11
  <2>4. CASE r \notin inserting \cup accessLog /\ s \in inserting \cup accessLog
    BY <2>4, <1>8, <1>9, <1>11
  <2> QED BY <2>1, <2>2, <2>3, <2>4
<1> QED BY <1>6, <1>10, <1>11 DEF AuditInductive

-----------------------------------------------------------------------------
(* The theorems of AuditTrail *)

\* The inductive invariant of the requests and of the rows that tell of them.
THEOREM AuditInvariance == AuditSpec => []AuditInductive
<1>1. AuditInit => AuditInductive BY DEF AuditInit, AuditInductive
<1>2. AuditInductive /\ [AuditNext]_auditVars => AuditInductive'
  <2> SUFFICES ASSUME AuditInductive, [AuditNext]_auditVars PROVE AuditInductive' OBVIOUS
  <2>1. ASSUME NEW kind \in Kinds, NEW ok \in BOOLEAN, Serve(kind, ok) PROVE AuditInductive'
    BY <2>1, ServeStep
  <2>2. ASSUME NEW h \in DOMAIN happening, NEW arrives \in BOOLEAN, Publish(h, arrives)
        PROVE  AuditInductive'
    BY <2>2, PublishStep
  <2>3. ASSUME UNCHANGED happening, inserting' \cup accessLog' \subseteq inserting \cup accessLog
        PROVE  AuditInductive'
    BY <2>3, HappeningsKept DEF AuditInductive
  <2>4. ASSUME NEW row \in inserting, NEW works \in BOOLEAN, Insert(row, works)
        PROVE  AuditInductive'
    BY <2>3, <2>4 DEF Insert
  <2>5. ASSUME UNCHANGED <<happening, inserting, accessLog>> PROVE AuditInductive'
    BY <2>3, <2>5
  <2>6. ASSUME NEW filter, NEW size, StartBrowse(filter, size) PROVE AuditInductive'
    BY <2>5, <2>6 DEF StartBrowse
  <2>7. CASE ReadLog \/ CountLog \/ TurnPage
    BY <2>5, <2>7 DEF ReadLog, CountLog, TurnPage
  <2>8. ASSUME NEW k, SetSetting(k) PROVE AuditInductive' BY <2>5, <2>8 DEF SetSetting
  <2>9. CASE UNCHANGED auditVars BY <2>5, <2>9 DEF auditVars
  <2> QED BY <2>1, <2>2, <2>4, <2>6, <2>7, <2>8, <2>9 DEF AuditNext
<1> QED BY <1>1, <1>2, PTL DEF AuditSpec

\* Every row of the access log tells of a request that ended the way the row says, and no
\* two rows tell of the same one, whatever answers, events and INSERTs are lost.
THEOREM TheLogIsTrue == AuditSpec => []LogIsTrue
<1>1. AuditInductive => LogIsTrue
  <2> SUFFICES ASSUME AuditInductive, NEW r \in accessLog
               PROVE  /\ happening[r.of].kind = Says(r.action).kind
                      /\ happening[r.of].ok \in Says(r.action).ok
                      /\ \A s \in accessLog : s.of = r.of => s = r
    BY DEF LogIsTrue
  <2>1. RowIsAnnounced(r) /\ happening[r.of] \in Happening
    BY DEF AuditInductive, RowIsAnnounced
  <2>2. /\ happening[r.of].kind \in Kinds /\ happening[r.of].ok \in BOOLEAN
        /\ happening[r.of].kind = "forgot" => happening[r.of].ok
    BY <2>1 DEF Happening
  <2>3. /\ happening[r.of].kind = Says(r.action).kind
        /\ happening[r.of].ok \in Says(r.action).ok
    BY <2>1, <2>2, AnnouncedSays DEF RowIsAnnounced
  <2> QED BY <2>3 DEF AuditInductive
<1> QED BY <1>1, AuditInvariance, PTL

-----------------------------------------------------------------------------
(* AuditTrail: the reader of the log *)

\* How many rows of a list are before one.
Before(M, r) == Cardinality({s \in M : InOrder(s, r)})

LogWords == {"login_success", "login_failed", "logout", "password_reset_requested",
             "password_reset_completed", "password_changed", "admin_password_reset_requested"}

LogRow == [createdAt : Nat, action : LogWords, of : Nat]

BrowseTypes ==
    browse \in [filter : {Nobody} \cup LogWords, size : Nat \ {0}, page : Nat,
                todo : SUBSET {"rows", "total"}, rows : SUBSET LogRow, total : Nat,
                start : SUBSET LogRow, seen : SUBSET LogRow, again : BOOLEAN, late : BOOLEAN]

\* A reader on his way: the rows there were when he began are still first in the list, those
\* before his page are the ones he has met, and what he has read of this page goes on there.
OnTheWay(b, M) ==
    LET here == (b.page - 1) * b.size IN
    /\ b.start \subseteq M
    /\ \A r \in b.start : Before(M, r) < Cardinality(b.start)
    /\ \A r \in b.seen : r \in M /\ Before(M, r) < here
    /\ \A r \in b.start : Before(M, r) < here => r \in b.seen
    /\ "rows" \notin b.todo =>
          /\ b.rows \subseteq M
          /\ \A r \in b.rows : Before(M, r) \in here .. here + b.size - 1
          /\ \A r \in b.start : Before(M, r) \in here .. here + b.size - 1 => r \in b.rows
    /\ "total" \notin b.todo => Cardinality(b.start) <= b.total

BrowseInductive ==
    /\ now \in Nat
    /\ accessLog \subseteq LogRow /\ inserting \subseteq LogRow /\ IsFiniteSet(accessLog)
    /\ BrowseTypes
    /\ ~browse.late =>
          /\ ~browse.again
          /\ IF Browsing THEN OnTheWay(browse, Matching(browse.filter))
             ELSE browse.start \subseteq browse.seen

LEMMA PlaceInLog ==
    ASSUME NEW M \in SUBSET LogRow, IsFiniteSet(M), NEW r \in M
    PROVE  Before(M, r) \in Nat /\ Before(M, r) < Cardinality(M) /\ Cardinality(M) \in Nat
<1>1. PICK N : N = {s \in M : InOrder(s, r)}
  OBVIOUS
<1>2. N \in SUBSET M /\ r \notin N
  BY <1>1 DEF InOrder, LogRow
<1>3. /\ IsFiniteSet(N) /\ Cardinality(N) \in Nat /\ Cardinality(M) \in Nat
      /\ Cardinality(N) <= Cardinality(M) /\ (Cardinality(N) = Cardinality(M) => N = M)
  BY <1>2, FS_Subset, FS_CardinalityType
<1>4. Cardinality(N) < Cardinality(M)
  BY <1>2, <1>3
<1> QED
  BY <1>1, <1>3, <1>4 DEF Before

\* A row that is not older than any of the list goes behind them all.
LEMMA LaterRowMovesNone ==
    ASSUME NEW M \in SUBSET LogRow, NEW row \in LogRow,
           \A r \in M : ~(r.createdAt > row.createdAt)
    PROVE  \A r \in M : Before(M \cup {row}, r) = Before(M, r)
<1> SUFFICES ASSUME NEW r \in M PROVE Before(M \cup {row}, r) = Before(M, r)
  OBVIOUS
<1>1. r.createdAt \in Nat /\ row.createdAt \in Nat /\ ~(r.createdAt > row.createdAt)
  BY DEF LogRow
<1>2. ~InOrder(row, r)
  BY <1>1 DEF InOrder
<1>3. {s \in M \cup {row} : InOrder(s, r)} = {s \in M : InOrder(s, r)}
  BY <1>2
<1> QED
  BY <1>3 DEF Before

LEMMA OnTheWayStill ==
    ASSUME NEW b, NEW M \in SUBSET LogRow, NEW row \in LogRow,
           \A r \in M : ~(r.createdAt > row.createdAt), OnTheWay(b, M)
    PROVE  OnTheWay(b, M \cup {row})
<1>1. \A r \in M : Before(M \cup {row}, r) = Before(M, r)
  BY LaterRowMovesNone
<1>2. b.start \subseteq M /\ (\A r \in b.seen : r \in M)
      /\ ("rows" \notin b.todo => b.rows \subseteq M)
  BY DEF OnTheWay
<1> QED
  BY <1>1, <1>2 DEF OnTheWay

\* The columns of the reader.
LEMMA BrowseFacts ==
    ASSUME BrowseInductive
    PROVE  /\ browse.filter \in {Nobody} \cup LogWords /\ browse.size \in Nat \ {0}
           /\ browse.page \in Nat /\ browse.todo \in SUBSET {"rows", "total"}
           /\ browse.rows \in SUBSET LogRow /\ browse.total \in Nat
           /\ browse.start \in SUBSET LogRow /\ browse.seen \in SUBSET LogRow
           /\ browse.again \in BOOLEAN /\ browse.late \in BOOLEAN
BY DEF BrowseInductive, BrowseTypes

LEMMA MatchingFacts ==
    ASSUME BrowseInductive, NEW filter
    PROVE  Matching(filter) \in SUBSET LogRow /\ IsFiniteSet(Matching(filter))
<1>1. Matching(filter) \in SUBSET accessLog /\ IsFiniteSet(accessLog) /\ accessLog \subseteq LogRow
  BY DEF Matching, BrowseInductive
<1> QED
  BY <1>1, FS_Subset

-----------------------------------------------------------------------------
(* AuditTrail: the steps of the log and of its reader *)

\* What leaves the log and its reader alone.
LEMMA ReaderStands ==
    ASSUME BrowseInductive, UNCHANGED <<accessLog, browse>>, now' \in Nat,
           inserting' \subseteq LogRow
    PROVE  BrowseInductive'
<1>1. Matching(browse.filter)' = Matching(browse.filter) /\ Browsing' = Browsing
  BY DEF Matching, Browsing
<1>2. BrowseTypes'
  BY DEF BrowseInductive, BrowseTypes
<1> QED
  BY <1>1, <1>2 DEF BrowseInductive

LEMMA PublishedRows ==
    ASSUME AuditInductive, BrowseInductive, NEW h \in DOMAIN happening, NEW arrives \in BOOLEAN,
           Publish(h, arrives)
    PROVE  BrowseInductive'
<1>1. happening[h] \in Happening /\ h \in Nat
  BY DEF AuditInductive
<1>2. PICK kind \in Kinds, ok \in BOOLEAN : kind = happening[h].kind /\ ok = happening[h].ok
  BY <1>1 DEF Happening
<1>3. PICK words : words = IF arrives THEN Announced(kind, ok) ELSE {}
  OBVIOUS
<1>4. /\ inserting' = inserting \cup {[createdAt |-> now, action |-> w, of |-> h] : w \in words}
      /\ now' = IF words = {} THEN now ELSE now + 1
      /\ UNCHANGED <<accessLog, browse>>
  BY <1>2, <1>3 DEF Publish
<1>5. Announced(kind, ok) \subseteq LogWords
  <2>1. CASE kind \in {"login", "logout", "forgot"}
    BY <2>1 DEF Announced, LogWords
  <2>2. CASE kind \in {"reset", "change", "adminReset"}
    BY <2>2 DEF Announced, LogWords
  <2> QED
    BY <2>1, <2>2 DEF Kinds
<1>6. {[createdAt |-> now, action |-> w, of |-> h] : w \in words} \subseteq LogRow
  BY <1>1, <1>3, <1>5 DEF LogRow, BrowseInductive
<1>7. now' \in Nat /\ inserting' \subseteq LogRow
  BY <1>4, <1>6 DEF BrowseInductive
<1> QED
  BY <1>4, <1>7, ReaderStands

LEMMA InsertedRow ==
    ASSUME BrowseInductive, NEW row \in inserting, NEW works \in BOOLEAN, Insert(row, works)
    PROVE  BrowseInductive'
<1>1. PICK passed \in BOOLEAN :
         passed <=> /\ works /\ browse.filter \in {Nobody, row.action}
                    /\ \E r \in Matching(browse.filter) : r.createdAt > row.createdAt
  OBVIOUS
<1>2. /\ inserting' = inserting \ {row} /\ now' = now
      /\ accessLog' = IF works THEN accessLog \cup {row} ELSE accessLog
      /\ browse' = IF passed THEN [browse EXCEPT !.late = @ \/ Browsing] ELSE browse
  BY <1>1 DEF Insert
<1>3. row \in LogRow /\ inserting' \subseteq LogRow /\ now' \in Nat
  BY <1>2 DEF BrowseInductive
<1>4. accessLog' \subseteq LogRow /\ IsFiniteSet(accessLog')
  BY <1>2, <1>3, FS_AddElement DEF BrowseInductive
<1>5. PICK late \in BOOLEAN : late <=> browse.late \/ Browsing
  OBVIOUS
<1>6. /\ browse' = IF passed THEN [browse EXCEPT !.late = late] ELSE browse
      /\ browse'.filter = browse.filter /\ browse'.size = browse.size
      /\ browse'.page = browse.page /\ browse'.todo = browse.todo /\ browse'.rows = browse.rows
      /\ browse'.total = browse.total /\ browse'.start = browse.start
      /\ browse'.seen = browse.seen /\ browse'.again = browse.again
      /\ browse'.late = IF passed THEN late ELSE browse.late
  <2>1. browse' = IF passed THEN [browse EXCEPT !.late = late] ELSE browse
    BY <1>2, <1>5, BrowseFacts
  <2> QED
    BY <2>1 DEF BrowseInductive, BrowseTypes
<1>7. BrowseTypes'
  BY <1>6 DEF BrowseInductive, BrowseTypes
<1>8. Browsing' = Browsing
  BY <1>6 DEF Browsing
<1>9. ASSUME ~browse'.late
      PROVE  /\ ~browse.again
             /\ IF Browsing THEN OnTheWay(browse', Matching(browse.filter)')
                ELSE browse.start \subseteq browse.seen
  <2>1. ~browse.late
    BY <1>5, <1>6, <1>9
  <2>2. CASE ~Browsing
    BY <2>1, <2>2 DEF BrowseInductive
  <2>3. CASE Browsing
    <3>1. ~passed /\ browse' = browse
      BY <1>5, <1>6, <1>9, <2>3
    <3>2. PICK M : M = Matching(browse.filter)
      OBVIOUS
    <3>3. M \in SUBSET LogRow /\ OnTheWay(browse, M)
      BY <3>2, <2>1, <2>3, MatchingFacts DEF BrowseInductive
    <3>4. CASE works /\ browse.filter \in {Nobody, row.action}
      <4>1. \A r \in M : ~(r.createdAt > row.createdAt)
        BY <1>1, <3>1, <3>2, <3>4
      <4>2. Matching(browse.filter)' = M \cup {row}
        BY <1>2, <3>1, <3>2, <3>4 DEF Matching
      <4>3. OnTheWay(browse, M \cup {row})
        BY <1>3, <3>3, <4>1, OnTheWayStill
      <4> QED
        BY <2>1, <2>3, <3>1, <4>2, <4>3 DEF BrowseInductive
    <3>5. CASE ~(works /\ browse.filter \in {Nobody, row.action})
      <4>1. Matching(browse.filter)' = M
        BY <1>2, <3>1, <3>2, <3>5 DEF Matching
      <4> QED
        BY <2>1, <2>3, <3>1, <3>3, <4>1 DEF BrowseInductive
    <3> QED
      BY <3>4, <3>5
  <2> QED
    BY <2>2, <2>3
<1> QED
  BY <1>3, <1>4, <1>6, <1>7, <1>8, <1>9 DEF BrowseInductive

LEMMA StartBrowseStep ==
    ASSUME BrowseInductive, NEW filter \in {Nobody} \cup LogWords, NEW size \in LogPages,
           StartBrowse(filter, size)
    PROVE  BrowseInductive'
<1>1. size \in Nat \ {0}
  BY AuditTrailAssumption
<1>2. PICK M : M = Matching(filter)
  OBVIOUS
<1>3. M \in SUBSET LogRow /\ IsFiniteSet(M)
  BY <1>2, MatchingFacts
<1>4. PICK b : b = Browse(filter, size, 1, M)
  OBVIOUS
<1>5. browse' = b /\ UNCHANGED <<inserting, accessLog, now>>
  BY <1>2, <1>4 DEF StartBrowse
<1>6. /\ b.filter = filter /\ b.size = size /\ b.page = 1 /\ b.todo = {"rows", "total"}
      /\ b.start = M /\ b.seen = {} /\ b.again = FALSE /\ b.late = FALSE
  BY <1>4 DEF Browse
<1>7. b \in [filter : {Nobody} \cup LogWords, size : Nat \ {0}, page : Nat,
             todo : SUBSET {"rows", "total"}, rows : SUBSET LogRow, total : Nat,
             start : SUBSET LogRow, seen : SUBSET LogRow, again : BOOLEAN, late : BOOLEAN]
  BY <1>1, <1>3, <1>4 DEF Browse
<1>8. BrowseTypes'
  BY <1>5, <1>7 DEF BrowseTypes
<1>9. OnTheWay(b, M)
  <2>1. (b.page - 1) * b.size = 0
    BY <1>1, <1>6
  <2>2. \A r \in M : Before(M, r) \in Nat /\ Before(M, r) < Cardinality(M)
    BY <1>3, PlaceInLog
  <2> QED
    BY <1>6, <2>1, <2>2 DEF OnTheWay
<1>10. Matching(browse.filter)' = M
  BY <1>2, <1>5, <1>6 DEF Matching
<1> QED
  BY <1>5, <1>6, <1>8, <1>9, <1>10 DEF BrowseInductive, Browsing

LEMMA Here ==
    ASSUME BrowseInductive, Browsing
    PROVE  /\ browse.page \in Nat \ {0} /\ browse.size \in Nat \ {0}
           /\ (browse.page - 1) * browse.size \in Nat
           /\ browse.page * browse.size = (browse.page - 1) * browse.size + browse.size
           /\ (browse.page + 1 - 1) * browse.size = browse.page * browse.size
<1>1. browse.page \in Nat \ {0} /\ browse.size \in Nat \ {0}
  BY BrowseFacts DEF Browsing
<1> QED
  BY <1>1

LEMMA ReadLogStep == ASSUME BrowseInductive, ReadLog PROVE BrowseInductive'
<1>1. PICK M : M = Matching(browse.filter)
  OBVIOUS
<1>2. M \in SUBSET LogRow /\ IsFiniteSet(M)
  BY <1>1, MatchingFacts
<1>3. PICK here \in Nat : here = (browse.page - 1) * browse.size
  BY Here DEF ReadLog
<1>4. PICK rows : rows = {r \in M : Before(M, r) \in here .. here + browse.size - 1}
  OBVIOUS
<1>5. LogPage(browse.filter, browse.page, browse.size) = rows
  BY <1>1, <1>3, <1>4 DEF LogPage, Before
<1>6. PICK read : read = [browse EXCEPT !.rows = rows]
  OBVIOUS
<1>7. /\ browse' = [read EXCEPT !.todo = @ \ {"rows"}] /\ Browsing
      /\ UNCHANGED <<inserting, accessLog, now>>
  BY <1>5, <1>6 DEF ReadLog
<1>8. PICK todo : todo = browse.todo \ {"rows"}
  OBVIOUS
<1>9. /\ read \in [filter : {Nobody} \cup LogWords, size : Nat \ {0}, page : Nat,
             todo : SUBSET {"rows", "total"}, rows : SUBSET LogRow, total : Nat,
             start : SUBSET LogRow, seen : SUBSET LogRow, again : BOOLEAN, late : BOOLEAN]
      /\ read.filter = browse.filter /\ read.size = browse.size /\ read.page = browse.page
      /\ read.todo = browse.todo /\ read.rows = rows /\ read.total = browse.total
      /\ read.start = browse.start /\ read.seen = browse.seen /\ read.again = browse.again
      /\ read.late = browse.late
  <2>1. rows \in SUBSET LogRow
    BY <1>2, <1>4
  <2> QED
    BY <1>6, <2>1 DEF BrowseInductive, BrowseTypes
<1>10. BrowseTypes'
  BY <1>7, <1>9 DEF BrowseTypes
<1>11. /\ browse'.filter = browse.filter /\ browse'.size = browse.size
       /\ browse'.page = browse.page /\ browse'.todo = todo /\ browse'.rows = rows
       /\ browse'.total = browse.total /\ browse'.start = browse.start
       /\ browse'.seen = browse.seen /\ browse'.again = browse.again
       /\ browse'.late = browse.late
  BY <1>7, <1>8, <1>9
<1>12. Browsing' /\ Matching(browse.filter)' = M
  BY <1>1, <1>7, <1>11 DEF Browsing, Matching
<1>13. ASSUME OnTheWay(browse, M) PROVE OnTheWay(browse', M)
  <2>1. \A r \in M : Before(M, r) \in Nat
    BY <1>2, PlaceInLog
  <2>2. /\ rows \subseteq M
        /\ \A r \in rows : Before(M, r) \in here .. here + browse.size - 1
    BY <1>4
  <2>3. \A r \in browse.start : Before(M, r) \in here .. here + browse.size - 1 => r \in rows
    BY <1>4, <1>13 DEF OnTheWay
  <2>4. "total" \in todo <=> "total" \in browse.todo
    BY <1>8
  <2> QED
    BY <1>3, <1>11, <1>13, <2>2, <2>3, <2>4 DEF OnTheWay
<1> QED
  BY <1>1, <1>7, <1>10, <1>11, <1>12, <1>13 DEF BrowseInductive

LEMMA CountLogStep == ASSUME BrowseInductive, CountLog PROVE BrowseInductive'
<1>1. PICK M : M = Matching(browse.filter)
  OBVIOUS
<1>2. M \in SUBSET LogRow /\ IsFiniteSet(M) /\ Cardinality(M) \in Nat
  BY <1>1, MatchingFacts, FS_CardinalityType
<1>3. PICK counted : counted = [browse EXCEPT !.total = Cardinality(M)]
  OBVIOUS
<1>4. /\ browse' = [counted EXCEPT !.todo = @ \ {"total"}] /\ Browsing
      /\ UNCHANGED <<inserting, accessLog, now>>
  BY <1>1, <1>3 DEF CountLog
<1>5. PICK todo : todo = browse.todo \ {"total"}
  OBVIOUS
<1>6. /\ counted \in [filter : {Nobody} \cup LogWords, size : Nat \ {0}, page : Nat,
             todo : SUBSET {"rows", "total"}, rows : SUBSET LogRow, total : Nat,
             start : SUBSET LogRow, seen : SUBSET LogRow, again : BOOLEAN, late : BOOLEAN]
      /\ counted.filter = browse.filter /\ counted.size = browse.size
      /\ counted.page = browse.page /\ counted.todo = browse.todo
      /\ counted.rows = browse.rows /\ counted.total = Cardinality(M)
      /\ counted.start = browse.start /\ counted.seen = browse.seen
      /\ counted.again = browse.again /\ counted.late = browse.late
  BY <1>2, <1>3 DEF BrowseInductive, BrowseTypes
<1>7. BrowseTypes'
  BY <1>4, <1>6 DEF BrowseTypes
<1>8. /\ browse'.filter = browse.filter /\ browse'.size = browse.size
      /\ browse'.page = browse.page /\ browse'.todo = todo /\ browse'.rows = browse.rows
      /\ browse'.total = Cardinality(M) /\ browse'.start = browse.start
      /\ browse'.seen = browse.seen /\ browse'.again = browse.again
      /\ browse'.late = browse.late
  BY <1>4, <1>5, <1>6
<1>9. Browsing' /\ Matching(browse.filter)' = M
  BY <1>1, <1>4, <1>8 DEF Browsing, Matching
<1>10. ASSUME OnTheWay(browse, M) PROVE OnTheWay(browse', M)
  <2>1. Cardinality(browse.start) <= Cardinality(M)
    <3>1. browse.start \in SUBSET M
      BY <1>10 DEF OnTheWay
    <3> QED
      BY <1>2, <3>1, FS_Subset
  <2>2. "rows" \in todo <=> "rows" \in browse.todo
    BY <1>5
  <2> QED
    BY <1>8, <1>10, <2>1, <2>2 DEF OnTheWay
<1> QED
  BY <1>1, <1>4, <1>7, <1>8, <1>9, <1>10 DEF BrowseInductive

\* As many pages as meta.pages says hold all rows that were counted.
LEMMA LastPageHoldsAll ==
    ASSUME NEW total \in Nat, NEW size \in Nat \ {0}, NEW page \in Nat,
           page >= LastPage(total, size)
    PROVE  total <= page * size
<1>1. PICK q \in Nat : q = (total + size - 1) \div size
  OBVIOUS
<1>2. total + size - 1 < (q + 1) * size
  BY <1>1
<1>3. (q + 1) * size = q * size + size /\ q * size \in Nat /\ page * size \in Nat
  BY <1>1
<1>4. total <= q * size
  BY <1>2, <1>3
<1>5. q <= page
  BY <1>1 DEF LastPage
<1>6. q * size <= page * size
  <2>1. page - q \in Nat /\ (page - q) * size \in Nat
    BY <1>5
  <2>2. page * size = q * size + (page - q) * size
    BY <2>1
  <2> QED
    BY <1>3, <2>1, <2>2
<1> QED
  BY <1>3, <1>4, <1>6

LEMMA TurnPageStep == ASSUME BrowseInductive, TurnPage PROVE BrowseInductive'
<1>1. PICK M : M = Matching(browse.filter)
  OBVIOUS
<1>2. M \in SUBSET LogRow /\ IsFiniteSet(M)
  BY <1>1, MatchingFacts
<1>3. PICK next : next = IF browse.page >= LastPage(browse.total, browse.size)
                         THEN 0 ELSE browse.page + 1
  OBVIOUS
<1>4. PICK again \in BOOLEAN : again <=> browse.again \/ browse.seen \cap browse.rows # {}
  OBVIOUS
<1>5. /\ Browsing /\ browse.todo = {} /\ UNCHANGED <<inserting, accessLog, now>>
      /\ browse' = [filter |-> browse.filter, size |-> browse.size, page |-> next,
                    todo |-> {"rows", "total"}, rows |-> {}, total |-> 0,
                    start |-> browse.start, seen |-> browse.seen \cup browse.rows,
                    again |-> again, late |-> browse.late]
  <2>1. again = (browse.again \/ browse.seen \cap browse.rows # {})
    BY <1>4, BrowseFacts
  <2> QED
    BY <1>3, <2>1 DEF TurnPage
<1>6. next \in Nat /\ (next = 0 \/ next = browse.page + 1)
  BY <1>3, BrowseFacts
<1>7. BrowseTypes'
  BY <1>4, <1>5, <1>6, BrowseFacts DEF BrowseTypes
<1>8. /\ browse'.filter = browse.filter /\ browse'.size = browse.size
      /\ browse'.page = next /\ browse'.todo = {"rows", "total"}
      /\ browse'.start = browse.start /\ browse'.seen = browse.seen \cup browse.rows
      /\ browse'.again = again /\ browse'.late = browse.late
  BY <1>5
<1>9. (Browsing' <=> next # 0) /\ Matching(browse.filter)' = M
  BY <1>1, <1>5, <1>6, <1>8 DEF Browsing, Matching
<1>10. ASSUME OnTheWay(browse, M), ~browse.again
       PROVE  /\ ~again
              /\ IF next # 0 THEN OnTheWay(browse', M)
                 ELSE browse.start \subseteq browse.seen \cup browse.rows
  <2>1. PICK here \in Nat : here = (browse.page - 1) * browse.size
    BY <1>5, Here
  <2>2. /\ browse.page * browse.size = here + browse.size /\ browse.size \in Nat
        /\ (browse.page + 1 - 1) * browse.size = here + browse.size
    BY <1>5, <2>1, Here
  <2>3. \A r \in M : Before(M, r) \in Nat
    BY <1>2, PlaceInLog
  <2>4. /\ browse.start \subseteq M /\ browse.seen \subseteq M /\ browse.rows \subseteq M
        /\ \A r \in browse.seen : Before(M, r) < here
        /\ \A r \in browse.rows : Before(M, r) \in here .. here + browse.size - 1
        /\ \A r \in browse.start : Before(M, r) < here => r \in browse.seen
        /\ \A r \in browse.start :
              Before(M, r) \in here .. here + browse.size - 1 => r \in browse.rows
        /\ \A r \in browse.start : Before(M, r) < Cardinality(browse.start)
        /\ Cardinality(browse.start) <= browse.total
    BY <1>5, <1>10, <2>1 DEF OnTheWay
  <2>5. browse.seen \cap browse.rows = {}
    <3>1. \A r \in browse.seen : r \notin browse.rows
      BY <2>1, <2>3, <2>4
    <3> QED
      BY <3>1
  <2>6. ASSUME NEW r \in browse.start, Before(M, r) < here + browse.size
        PROVE  r \in browse.seen \cup browse.rows
    <3>1. Before(M, r) \in Nat /\ here \in Nat /\ browse.size \in Nat
      BY <2>1, <2>2, <2>3, <2>4
    <3>2. Before(M, r) < here \/ Before(M, r) \in here .. here + browse.size - 1
      BY <2>6, <3>1
    <3> QED
      BY <2>4, <3>2
  <2>7. ASSUME next # 0 PROVE OnTheWay(browse', M)
    <3>1. (next - 1) * browse.size = here + browse.size
      <4>1. next = browse.page + 1 /\ next - 1 = browse.page
        BY <1>6, <2>7, BrowseFacts
      <4> QED
        BY <2>2, <4>1
    <3>2. ASSUME NEW r \in browse.seen \cup browse.rows
          PROVE  r \in M /\ Before(M, r) < here + browse.size
      <4>1. r \in M /\ Before(M, r) \in Nat /\ here \in Nat /\ browse.size \in Nat
        BY <2>1, <2>2, <2>3, <2>4, <3>2
      <4>2. Before(M, r) < here \/ Before(M, r) \in here .. here + browse.size - 1
        BY <2>4, <3>2
      <4> QED
        BY <4>1, <4>2
    <3> QED
      BY <1>8, <2>4, <2>6, <3>1, <3>2 DEF OnTheWay
  <2>8. ASSUME next = 0 PROVE browse.start \subseteq browse.seen \cup browse.rows
    <3>1. browse.page >= LastPage(browse.total, browse.size)
      BY <1>3, <2>8, BrowseFacts
    <3>2. browse.total <= here + browse.size
      BY <2>2, <3>1, LastPageHoldsAll, BrowseFacts
    <3> SUFFICES ASSUME NEW r \in browse.start PROVE r \in browse.seen \cup browse.rows
      OBVIOUS
    <3>3. /\ Before(M, r) \in Nat /\ browse.total \in Nat
          /\ Before(M, r) < Cardinality(browse.start)
          /\ Cardinality(browse.start) <= browse.total
      BY <2>3, <2>4, BrowseFacts
    <3>4. Cardinality(browse.start) \in Nat
      <4>1. browse.start \in SUBSET M
        BY <2>4
      <4> QED
        BY <1>2, <4>1, FS_Subset, FS_CardinalityType
    <3>5. Before(M, r) < here + browse.size
      BY <2>1, <2>2, <3>2, <3>3, <3>4
    <3> QED
      BY <2>6, <3>5
  <2> QED
    BY <1>4, <1>10, <2>5, <2>7, <2>8
<1> QED
  BY <1>1, <1>5, <1>7, <1>8, <1>9, <1>10 DEF BrowseInductive

-----------------------------------------------------------------------------
(* The theorems about the reader of the log *)

\* Where a reader of the log stands, and that the rows he has met are the first of the list
\* (AccessLogsHandler, buildPaginated).
THEOREM ReaderInvariance == AuditSpec => [](AuditInductive /\ BrowseInductive)
<1>1. AuditInit => AuditInductive /\ BrowseInductive
  <2> SUFFICES ASSUME AuditInit PROVE AuditInductive /\ BrowseInductive
    OBVIOUS
  <2>1. /\ happening = <<>> /\ inserting = {} /\ accessLog = {} /\ now = 0
        /\ browse = Browse(Nobody, 1, 0, {})
    BY DEF AuditInit, NoBrowse
  <2>2. /\ browse.page = 0 /\ browse.start = {} /\ browse.again = FALSE
        /\ BrowseTypes
    BY <2>1 DEF Browse, BrowseTypes
  <2>3. IsFiniteSet(accessLog)
    BY <2>1, FS_EmptySet
  <2> QED
    BY <2>1, <2>2, <2>3 DEF AuditInductive, BrowseInductive, Browsing
<1>2. AuditInductive /\ BrowseInductive /\ [AuditNext]_auditVars => BrowseInductive'
  <2> SUFFICES ASSUME AuditInductive, BrowseInductive, [AuditNext]_auditVars
               PROVE  BrowseInductive'
    OBVIOUS
  <2>1. ASSUME UNCHANGED <<inserting, accessLog, now, browse>> PROVE BrowseInductive'
    BY <2>1, ReaderStands DEF BrowseInductive
  <2>2. ASSUME NEW kind \in Kinds, NEW ok \in BOOLEAN, Serve(kind, ok) PROVE BrowseInductive'
    BY <2>1, <2>2 DEF Serve
  <2>3. ASSUME NEW h \in DOMAIN happening, NEW arrives \in BOOLEAN, Publish(h, arrives)
        PROVE  BrowseInductive'
    BY <2>3, PublishedRows
  <2>4. ASSUME NEW row \in inserting, NEW works \in BOOLEAN, Insert(row, works)
        PROVE  BrowseInductive'
    BY <2>4, InsertedRow
  <2>5. ASSUME NEW filter \in {Nobody} \cup {r.action : r \in accessLog}, NEW size \in LogPages,
               StartBrowse(filter, size)
        PROVE  BrowseInductive'
    <3>1. filter \in {Nobody} \cup LogWords
      BY DEF BrowseInductive, LogRow
    <3> QED
      BY <2>5, <3>1, StartBrowseStep
  <2>6. ASSUME NEW k, SetSetting(k) PROVE BrowseInductive'
    BY <2>1, <2>6 DEF SetSetting
  <2>7. CASE UNCHANGED auditVars
    BY <2>1, <2>7 DEF auditVars
  <2> QED
    BY <2>2, <2>3, <2>4, <2>5, <2>6, <2>7, ReadLogStep, CountLogStep, TurnPageStep DEF AuditNext
<1>3. AuditSpec => []AuditInductive
  BY AuditInvariance
<1> QED
  BY <1>1, <1>2, <1>3, PTL DEF AuditSpec

\* Whoever pages through the access log as far as meta.pages says meets no row twice and
\* every row that was there when he began, for any number of rows, page sizes and filters,
\* unless a row appeared before one of the list meanwhile (AccessLogsHandler).
THEOREM TheLogIsReadOnce == AuditSpec => []LogReadOnce
<1>1. BrowseInductive => LogReadOnce
  BY DEF BrowseInductive, LogReadOnce
<1> QED
  BY <1>1, ReaderInvariance, PTL
=============================================================================
