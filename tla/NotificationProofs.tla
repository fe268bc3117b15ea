-------------------------- MODULE NotificationProofs --------------------------
(***************************************************************************)
(* Proofs about NotificationDispatch, for any number of notifications,     *)
(* workers, attempts and mishaps, whether or not workers that are alive    *)
(* can lose the locks of their jobs; and about NotificationInbox, for any  *)
(* number of users, rows and requests and any sizes of pages.              *)
(***************************************************************************)
EXTENDS NotificationDispatch, NotificationInbox, SequenceTheorems, FunctionTheorems,
        FiniteSetTheorems, TLAPS

USE NotificationDispatchAssumption

\* The steps of a worker that is busy.
WorkSteps == {"send", "reject", "mark", "fail", "complete", "throw"}

-----------------------------------------------------------------------------
(* Workers and jobs *)

\* What the invariant says of one worker and its job.
LEMMA WorkersApart ==
    ASSUME Inductive, NEW w \in Busy
    PROVE  /\ w \in Workers /\ worker[w] \in Worker
           /\ worker[w].at \in Notifications
           /\ worker[w].step # "idle"
           /\ row[worker[w].at].status # "absent"
           /\ worker[w].lock =>
                 /\ job[worker[w].at].state = "active"
                 /\ worker[w].made = job[worker[w].at].made
                 /\ job[worker[w].at].made < Attempts
           /\ ~worker[w].lock => LocksExpire /\ worker[w].at \in unwritten
           /\ \A v \in Busy : worker[v].at = worker[w].at /\ v # w =>
                 /\ ~(worker[v].lock /\ worker[w].lock)
                 /\ LocksExpire /\ worker[w].at \in unwritten
BY DEF Inductive, TypeOK, OneHolderPerJob, RowsComeFirst, Busy, Worker

\* A worker at some step, at some notification or with a lock is busy.
LEMMA NotIdle ==
    ASSUME NEW w \in Workers, NEW n \in Notifications,
           worker[w].step # "idle" \/ worker[w].at = n \/ worker[w].lock
    PROVE  w \in Busy
BY DEF Busy, Idle

\* A worker that goes on stays busy with the same job; the others do not move.
LEMMA GotoFacts ==
    ASSUME Inductive, NEW w \in Busy, NEW step \in WorkSteps, Goto(w, step)
    PROVE  /\ worker' \in [Workers -> Worker] /\ Busy' = Busy
           /\ \A v \in Workers : v # w => worker'[v] = worker[v]
           /\ worker'[w].at = worker[w].at /\ worker'[w].made = worker[w].made
           /\ worker'[w].lock = worker[w].lock /\ worker'[w].step = step
<1>1. /\ worker' \in [Workers -> Worker]
      /\ worker'[w] = [worker[w] EXCEPT !.step = step]
  BY DEF Inductive, TypeOK, Goto, WorkSteps, Busy, Worker
<1>2. \A v \in Workers : v # w => worker'[v] = worker[v]
  BY DEF Inductive, TypeOK, Goto, Busy
<1>3. worker[w] \in Worker BY DEF Inductive, TypeOK, Busy
<1>4. worker'[w].at = worker[w].at /\ worker'[w].made = worker[w].made
        /\ worker'[w].lock = worker[w].lock /\ worker'[w].step = step
  BY <1>1, <1>3 DEF Worker
<1>5. worker'[w] # Idle BY <1>4 DEF WorkSteps, Idle
<1> QED BY <1>1, <1>2, <1>4, <1>5 DEF Busy

\* Going on leaves every job with its holder.
LEMMA GotoApart ==
    ASSUME Inductive, NEW w \in Busy, NEW step \in WorkSteps, Goto(w, step),
           unwritten \subseteq unwritten', UNCHANGED job
    PROVE  OneHolderPerJob'
<1>1. /\ Busy' = Busy /\ step # "idle"
      /\ \A v \in Busy : /\ worker'[v].at = worker[v].at /\ worker'[v].made = worker[v].made
                         /\ worker'[v].lock = worker[v].lock
                         /\ worker'[v].step # "idle"
  BY GotoFacts, WorkersApart DEF WorkSteps
<1> QED BY <1>1 DEF Inductive, OneHolderPerJob

\* A worker that becomes idle leaves the others where they are.
LEMMA ReleaseFacts ==
    ASSUME Inductive, NEW w \in Busy, worker' = [worker EXCEPT ![w] = Idle]
    PROVE  /\ worker' \in [Workers -> Worker] /\ Busy' = Busy \ {w}
           /\ \A v \in Workers : v # w => worker'[v] = worker[v]
           /\ worker'[w].at \notin Notifications
<1>1. Idle \in Worker BY DEF Idle, Worker
<1>2. /\ worker' \in [Workers -> Worker] /\ Busy' = Busy \ {w} /\ worker'[w] = Idle
      /\ \A v \in Workers : v # w => worker'[v] = worker[v]
  BY <1>1 DEF Inductive, TypeOK, Busy
<1> QED BY <1>2 DEF Idle

\* A worker that begins was idle, and nobody else holds its job.
LEMMA TakeFacts ==
    ASSUME Inductive, NEW w \in Workers, NEW n \in Notifications,
           NEW step \in WorkSteps, Begin(w, n, step), unwritten \subseteq unwritten'
    PROVE  /\ worker' \in [Workers -> Worker]
           /\ job' \in [Notifications -> Job]
           /\ w \notin Busy /\ worker[w].at \notin Notifications /\ Busy' = Busy \cup {w}
           /\ \A v \in Workers : v # w => worker'[v] = worker[v]
           /\ \A v \in Busy : worker[v].at = n => ~worker[v].lock
           /\ worker'[w].at = n /\ worker'[w].lock /\ worker'[w].step = step
           /\ job[n].state = "queued" /\ job'[n].state = "active"
           /\ \A m \in Notifications : m # n => job'[m] = job[m]
           /\ OneHolderPerJob'
<1> DEFINE new == [step |-> step, at |-> n, made |-> job[n].made, lock |-> TRUE]
<1> /\ worker[w] = Idle /\ job[n].state = "queued"
    /\ job' = [job EXCEPT ![n].state = "active"]
    /\ worker' = [worker EXCEPT ![w] = new]
  BY DEF Begin
<1>1. job[n] \in Job BY DEF Inductive, TypeOK
<1>2. new \in Worker BY <1>1 DEF Job, Worker, WorkSteps
<1>3. new # Idle
  <2>1. new.step # Idle.step BY DEF Idle, WorkSteps
  <2> QED BY <2>1
<1>4. worker'[w] = new /\ worker' \in [Workers -> Worker]
  BY <1>2 DEF Inductive, TypeOK
<1>5. Busy' = Busy \cup {w} /\ w \notin Busy /\ worker[w].at \notin Notifications
  BY <1>3, <1>4 DEF Busy, Inductive, TypeOK, Idle
<1>6. /\ job' \in [Notifications -> Job]
      /\ job'[n].state = "active"
      /\ job'[n].made = job[n].made
  BY <1>1 DEF Inductive, TypeOK, Job
<1>7. \A m \in Notifications : m # n => job'[m] = job[m] BY DEF Inductive, TypeOK
<1>8. \A v \in Workers : v # w => worker'[v] = worker[v] BY DEF Inductive, TypeOK
<1>9. \A v \in Busy : v # w /\ (worker[v].at = n => ~worker[v].lock)
  BY <1>5, WorkersApart
<1>10. OneHolderPerJob'
  <2>1. \A v \in Busy : v \in Workers /\ worker'[v] = worker[v] BY <1>8, <1>9, WorkersApart
  <2>2. \A v \in Busy' :
        /\ worker'[v].at \in Notifications /\ worker'[v].step # "idle"
        /\ IF worker'[v].lock
           THEN /\ worker'[v].made = job'[worker'[v].at].made
                /\ job'[worker'[v].at].state = "active"
           ELSE LocksExpire /\ worker'[v].at \in unwritten'
    BY <1>4, <1>5, <1>6, <1>7, <1>9, <2>1, WorkersApart DEF WorkSteps
  <2>3. \A v, u \in Busy' :
           worker'[v].at = worker'[u].at /\ worker'[v].lock /\ worker'[u].lock => v = u
    BY <1>4, <1>5, <1>9, <2>1, WorkersApart
  <2>4. \A m \in Notifications : job'[m].state \in {"queued", "active"} =>
           job'[m].made < Attempts
    BY <1>6, <1>7 DEF Inductive, OneHolderPerJob
  <2> QED BY <2>2, <2>3, <2>4 DEF OneHolderPerJob
<1> QED BY <1>4, <1>5, <1>6, <1>7, <1>8, <1>9, <1>10

-----------------------------------------------------------------------------
(* Counting the mails that may still be queued *)

\* Workers are finitely many, and so are those that are late.
LEMMA LateFinite ==
    ASSUME NEW n
    PROVE  /\ IsFiniteSet(Late(n)) /\ Cardinality(Late(n)) \in Nat
           /\ IsFiniteSet(Late(n)') /\ Cardinality(Late(n)') \in Nat
           /\ Chances(n) \in Nat /\ Chances(n)' \in Nat
<1>1. Late(n) \subseteq Workers /\ Late(n)' \subseteq Workers BY DEF Late
<1>2. IsFiniteSet(Late(n)) /\ IsFiniteSet(Late(n)') BY <1>1, FS_Subset
<1>3. Cardinality(Late(n)) \in Nat /\ Cardinality(Late(n)') \in Nat
  BY <1>2, FS_CardinalityType
<1> QED BY <1>2, <1>3 DEF Chances

\* What a set has less than another one counts.
LEMMA SmallerSets ==
    ASSUME NEW S, IsFiniteSet(S), NEW w, NEW T, IsFiniteSet(T), T \subseteq S \cup {w}
    PROVE  /\ Cardinality(T) <= Cardinality(S) + 1
           /\ w \notin T \/ w \in S => Cardinality(T) <= Cardinality(S)
           /\ w \notin T /\ w \in S => Cardinality(T) + 1 <= Cardinality(S)
<1>1. Cardinality(S) \in Nat /\ Cardinality(T) \in Nat BY FS_CardinalityType
<1>2. \/ w \in S /\ Cardinality(S \cup {w}) = Cardinality(S)
      \/ w \notin S /\ Cardinality(S \cup {w}) = Cardinality(S) + 1
  BY FS_AddElement
<1>3. IsFiniteSet(S \cup {w}) BY FS_AddElement
<1>4. Cardinality(T) <= Cardinality(S \cup {w}) BY <1>3, FS_Subset
<1>5. ASSUME w \notin T PROVE Cardinality(T) <= Cardinality(S)
  <2>1. T \subseteq S BY <1>5
  <2> QED BY <2>1, FS_Subset
<1>6. ASSUME w \notin T, w \in S PROVE Cardinality(T) + 1 <= Cardinality(S)
  <2>1. IsFiniteSet(S \ {w}) /\ Cardinality(S \ {w}) = Cardinality(S) - 1
    BY <1>6, FS_RemoveElement
  <2>2. T \subseteq S \ {w} BY <1>6
  <2>3. Cardinality(T) <= Cardinality(S \ {w}) BY <2>1, <2>2, FS_Subset
  <2> QED BY <1>1, <2>1, <2>3
<1> QED BY <1>1, <1>2, <1>4, <1>5, <1>6

\* When one worker moves, the chances of the notifications it has nothing to do with
\* stay as they are.
LEMMA ElsewhereCounted ==
    ASSUME NEW w \in Workers, \A v \in Workers : v # w => worker'[v] = worker[v],
           NEW m, worker[w].at # m, worker'[w].at # m, row'[m] = row[m]
    PROVE  Chances(m)' = Chances(m)
<1>1. Late(m)' = Late(m) BY DEF Late
<1>2. HeldAt(m, {"mark"})' <=> HeldAt(m, {"mark"}) BY DEF HeldAt
<1>3. HeldAt(m, Sending)' <=> HeldAt(m, Sending) BY DEF HeldAt, Sending
<1> QED BY <1>1, <1>2, <1>3 DEF Chances, Open, Pending

\* The same when no worker moves and the notification opens no more than it was.
LEMMA RestCounted ==
    ASSUME NEW m, UNCHANGED worker,
           row'[m].status = "absent" => row[m].status = "absent",
           Pending(m)' => Pending(m) \/ row[m].status = "absent"
    PROVE  Chances(m)' <= Chances(m)
<1>1. Late(m)' = Late(m) BY DEF Late
<1>2. HeldAt(m, {"mark"})' <=> HeldAt(m, {"mark"}) BY DEF HeldAt
<1>3. HeldAt(m, Sending)' <=> HeldAt(m, Sending) BY DEF HeldAt, Sending
<1>4. Open(m)' => Open(m) BY <1>2, <1>3 DEF Open
<1> QED BY <1>1, <1>4, LateFinite DEF Chances

\* How the chances of n change when a worker at n moves: one that holds the job.
LEMMA HolderCounted ==
    ASSUME Inductive, NEW w \in Busy, NEW n, n = worker[w].at, worker[w].lock,
           NEW step \in WorkSteps, Goto(w, step), row'[n].status # "absent"
    PROVE  /\ Cardinality(Late(n)') <= Cardinality(Late(n))
           /\ Open(n) <=> \/ Pending(n) /\ worker[w].step # "mark"
                          \/ worker[w].step \in Sending
           /\ Open(n)' <=> \/ Pending(n)' /\ step # "mark"
                           \/ step \in Sending
<1>1. /\ w \in Workers /\ \A v \in Workers : v # w => worker'[v] = worker[v]
      /\ worker'[w].at = n /\ worker'[w].lock /\ worker'[w].step = step
      /\ n \in Notifications /\ row[n].status # "absent"
  BY GotoFacts, WorkersApart
<1>2. \A v \in Workers : worker[v].at = n /\ worker[v].lock => v = w
  BY <1>1, NotIdle, WorkersApart
<1>3. Late(n)' = Late(n) BY <1>1 DEF Late
<1>4. \A v \in Workers : worker'[v].at = n /\ worker'[v].lock => v = w BY <1>1, <1>2
<1>5. HeldAt(n, {"mark"}) <=> worker[w].step = "mark" BY <1>1, <1>2 DEF HeldAt
<1>6. HeldAt(n, Sending) <=> worker[w].step \in Sending BY <1>1, <1>2 DEF HeldAt
<1>7. HeldAt(n, {"mark"})' <=> step = "mark" BY <1>1, <1>4 DEF HeldAt
<1>8. HeldAt(n, Sending)' <=> step \in Sending BY <1>1, <1>4 DEF HeldAt, Sending
<1> QED BY <1>1, <1>3, <1>5, <1>6, <1>7, <1>8, LateFinite DEF Open

\* ... and one that is late.
LEMMA LateCounted ==
    ASSUME Inductive, NEW w \in Busy, NEW n, n = worker[w].at, ~worker[w].lock,
           NEW step \in WorkSteps, Goto(w, step), row'[n].status # "absent"
    PROVE  /\ Cardinality(Late(n)') <= Cardinality(Late(n)) + 1
           /\ step \notin Sending \/ worker[w].step \in Sending =>
                 Cardinality(Late(n)') <= Cardinality(Late(n))
           /\ step \notin Sending /\ worker[w].step \in Sending =>
                 Cardinality(Late(n)') + 1 <= Cardinality(Late(n))
           /\ (Pending(n)' => Pending(n)) => (Open(n)' => Open(n))
<1>1. /\ w \in Workers /\ \A v \in Workers : v # w => worker'[v] = worker[v]
      /\ worker'[w].at = n /\ ~worker'[w].lock /\ worker'[w].step = step
  BY GotoFacts, WorkersApart
<1>2. /\ Late(n)' \subseteq Late(n) \cup {w}
      /\ w \in Late(n) <=> worker[w].step \in Sending
      /\ w \in Late(n)' <=> step \in Sending
  BY <1>1 DEF Late, Sending
<1>3. HeldAt(n, {"mark"})' <=> HeldAt(n, {"mark"}) BY <1>1 DEF HeldAt
<1>4. HeldAt(n, Sending)' <=> HeldAt(n, Sending) BY <1>1 DEF HeldAt, Sending
<1> QED BY <1>2, <1>3, <1>4, LateFinite, SmallerSets DEF Open

\* A worker that goes on from a step at which it could send takes no chance more; it
\* gives one up when it has sent, and gains one when it goes back.
LEMMA GoingOnCounted ==
    ASSUME Inductive, NEW w \in Busy, NEW n, n = worker[w].at,
           NEW step \in WorkSteps, Goto(w, step), row'[n].status # "absent"
    PROVE  /\ /\ worker[w].step \in Sending
              /\ step \in Sending => (Pending(n)' => Pending(n))
              => Chances(n)' <= Chances(n)
           /\ worker[w].step \in Sending /\ step = "mark" /\ (Pending(n)' => Pending(n))
              => Chances(n)' + 1 <= Chances(n)
           /\ worker[w].step = "mark" /\ step \notin Sending /\ ~Pending(n)'
              => Chances(n)' <= Chances(n)
           /\ worker[w].step = "mark" /\ (Pending(n)' => Pending(n))
              => Chances(n)' <= Chances(n) + 1
<1>1. CASE worker[w].lock BY <1>1, HolderCounted, LateFinite DEF Chances, Sending
<1>2. CASE ~worker[w].lock BY <1>2, LateCounted, LateFinite DEF Chances, Sending
<1> QED BY <1>1, <1>2

-----------------------------------------------------------------------------
(* What a worker's step does to its row, and to the others *)

\* What an UPDATE of the status does to the rows.
LEMMA SetStatusFacts ==
    ASSUME Inductive, NEW n \in Notifications,
           NEW status \in {"pending", "sent", "failed"}, SetStatus(n, status)
    PROVE  /\ row' \in [Notifications -> Row]
           /\ \A m \in Notifications : m # n => row'[m] = row[m]
           /\ row'[n].deleted = row[n].deleted
           /\ row'[n].status = IF row[n].deleted THEN row[n].status ELSE status
<1>1. row[n] \in Row BY DEF Inductive, TypeOK
<1>2. CASE row[n].deleted BY <1>2 DEF SetStatus, Inductive, TypeOK
<1>3. CASE ~row[n].deleted BY <1>1, <1>3 DEF SetStatus, Inductive, TypeOK, Row
<1> QED BY <1>2, <1>3

\* What a worker between two steps relies on.
LEMMA AtWork ==
    ASSUME Inductive, NEW w \in Workers,
           worker[w].step \in {"send", "reject", "mark", "fail"}
    PROVE  /\ w \in Busy
           /\ worker[w].at \in Notifications
           /\ worker[w].at \notin InApp
           /\ row[worker[w].at].status # "absent"
           /\ row[worker[w].at].status = "pending"
                 \/ (LocksExpire /\ worker[w].at \in unwritten)
           /\ worker[w].step = "mark" => mails[worker[w].at] >= 1
<1>1. w \in Busy BY DEF Busy, Idle
<1> QED BY <1>1, WorkersApart DEF Inductive, WorkersFit, FitsAt

\* A worker's step leaves the others as fit as they were; another one at the same
\* notification is late, or it is the one.
LEMMA OthersFit ==
    ASSUME Inductive, NEW w \in Busy, NEW step \in WorkSteps, Goto(w, step),
           \A m \in Notifications : m # worker[w].at =>
               row'[m] = row[m] /\ mails'[m] = mails[m],
           mails[worker[w].at] <= mails'[worker[w].at],
           mails \in [Notifications -> Nat], mails' \in [Notifications -> Nat],
           unwritten \subseteq unwritten', NEW v \in Busy', v # w
    PROVE  FitsAt(v)'
<1>1. v \in Busy /\ worker'[v] = worker[v] BY GotoFacts, WorkersApart
<1>2. worker[v].at \in Notifications BY <1>1, WorkersApart
<1>3. mails[worker[v].at] \in Nat /\ mails'[worker[v].at] \in Nat
         /\ mails[worker[v].at] <= mails'[worker[v].at]
  BY <1>2
<1>4. FitsAt(v) BY <1>1 DEF Inductive, WorkersFit
<1>5. CASE worker[v].at = worker[w].at
  <2>1. LocksExpire /\ worker[v].at \in unwritten BY <1>1, <1>5, WorkersApart
  <2> QED BY <1>1, <1>3, <1>4, <2>1 DEF FitsAt, HasNext
<1>6. CASE worker[v].at # worker[w].at
  <2>1. row'[worker[v].at] = row[worker[v].at] BY <1>2, <1>6
  <2> QED BY <1>1, <1>3, <1>4, <2>1 DEF FitsAt, Pending, HasNext
<1> QED BY <1>5, <1>6

-----------------------------------------------------------------------------
(* Steps of process() *)

\* What Send, Mark, Reject and Fail have in common: they go on and leave the others
\* alone, and the mails and chances of their own row add up.
LEMMA WorkingStep ==
    ASSUME Inductive, NEW w \in Busy, NEW n, n = worker[w].at, n \notin InApp,
           NEW step \in WorkSteps, Goto(w, step),
           row' \in [Notifications -> Row],
           mails' \in [Notifications -> Nat],
           mishaps' \in [Notifications -> 0 .. MaxMishaps],
           unwritten \subseteq unwritten', unwritten' \subseteq Notifications,
           postponed' \subseteq Notifications,
           \A m \in Notifications : m # n =>
               row'[m] = row[m] /\ mails'[m] = mails[m] /\ mishaps'[m] = mishaps[m],
           row'[n].status # "absent", mails[n] <= mails'[n],
           mails'[n] + Chances(n)' <= 1 + mishaps'[n],
           row'[n].status = "sent" => mails'[n] >= 1,
           FitsAt(w)',
           UNCHANGED <<creating, listed, job>>
    PROVE  Inductive'
<1>1. /\ n \in Notifications /\ w \in Workers /\ worker'[w].at = n
      /\ \A v \in Workers : v # w => worker'[v] = worker[v]
  BY WorkersApart, GotoFacts
<1>2. TypeOK' BY GotoFacts DEF Inductive, TypeOK
<1>3. OneHolderPerJob' BY GotoApart
<1>4. RowsComeFirst'
  <2>1. \A v \in Workers : worker'[v].at = worker[v].at BY <1>1
  <2> QED BY <1>1, <2>1 DEF Inductive, TypeOK, RowsComeFirst
<1>5. WorkersFit'
  <2>1. SUFFICES ASSUME NEW v \in Busy', v # w PROVE FitsAt(v)' BY DEF WorkersFit
  <2>2. mails \in [Notifications -> Nat] BY DEF Inductive, TypeOK
  <2> QED BY <2>1, <2>2, OthersFit
<1>6. MailsAccounted'
  <2>1. SUFFICES ASSUME NEW m \in Notifications \ InApp, m # n
                 PROVE  mails'[m] + Chances(m)' <= 1 + mishaps'[m]
    BY DEF MailsAccounted
  <2>2. Chances(m)' = Chances(m) BY <1>1, <2>1, ElsewhereCounted
  <2> QED BY <2>1, <2>2 DEF Inductive, MailsAccounted
<1>7. OneMailUnlessMishap'
  <2>1. \A m \in Notifications \ InApp :
           /\ mails'[m] \in Nat /\ mishaps'[m] \in Nat /\ Chances(m)' \in Nat
           /\ mails'[m] + Chances(m)' <= 1 + mishaps'[m]
    BY <1>6, LateFinite DEF MailsAccounted
  <2>2. \A m \in Notifications \ InApp : mails'[m] <= 1 + mishaps'[m] BY <2>1
  <2> QED BY <2>2 DEF Inductive, OneMailUnlessMishap
<1>8. NobodyForgotten'
  <2>1. job[n].state = "active" \/ n \in unwritten BY WorkersApart
  <2> QED BY <2>1 DEF Inductive, NobodyForgotten, Pending
<1> QED BY <1>2, <1>3, <1>4, <1>5, <1>6, <1>7, <1>8 DEF Inductive

\* dispatchEmail: a mail more is queued and the worker goes to mark the row, or an answer
\* is lost.
LEMMA SendStep ==
    ASSUME Inductive, NEW w \in Workers, NEW n, n = worker[w].at, Send(w)
    PROVE  Inductive'
<1>1. /\ w \in Busy /\ n \in Notifications /\ n \notin InApp
      /\ row[n].status # "absent"
      /\ row[n].status = "pending" \/ (LocksExpire /\ n \in unwritten)
      /\ worker[w].step \in Sending
  BY AtWork DEF Send, Sending
<1>2. /\ mails[n] \in Nat /\ mishaps[n] \in Nat /\ Chances(n) \in Nat /\ Chances(n)' \in Nat
      /\ mails[n] + Chances(n) <= 1 + mishaps[n]
  BY <1>1, LateFinite DEF Inductive, TypeOK, MailsAccounted
<1>3. PICK step \in {"fail", "mark"} :
      /\ Goto(w, step)
      /\ \/ step = "fail" /\ mails' = mails /\ mishaps' = mishaps
         \/ mails' = [mails EXCEPT ![n] = @ + 1] /\ step = "mark" /\ mishaps' = mishaps
         \/ mails' = [mails EXCEPT ![n] = @ + 1] /\ step = "fail" /\ Mishap(n)
      /\ UNCHANGED <<row, postponed, creating, listed, job, unwritten>>
  BY DEF Send
<1>4. step \in WorkSteps BY DEF WorkSteps
<1>5. /\ mails' \in [Notifications -> Nat]
      /\ mishaps' \in [Notifications -> 0 .. MaxMishaps]
      /\ \A m \in Notifications : m # n => mails'[m] = mails[m] /\ mishaps'[m] = mishaps[m]
      /\ \/ step = "fail" /\ mails'[n] = mails[n] /\ mishaps'[n] = mishaps[n]
         \/ step = "mark" /\ mails'[n] = mails[n] + 1 /\ mishaps'[n] = mishaps[n]
         \/ step = "fail" /\ mails'[n] = mails[n] + 1 /\ mishaps'[n] = mishaps[n] + 1
  BY <1>1, <1>3 DEF Mishap, Inductive, TypeOK
<1>6. Chances(n)' <= Chances(n) /\ (step = "mark" => Chances(n)' + 1 <= Chances(n))
  <2>1. (Pending(n)' <=> Pending(n)) /\ row'[n].status # "absent" BY <1>1, <1>3 DEF Pending
  <2>2. step \in Sending \/ step = "mark" BY DEF Sending
  <2> QED BY <1>1, <1>2, <1>3, <1>4, <2>1, <2>2, GoingOnCounted
<1>7. mails'[n] + Chances(n)' <= 1 + mishaps'[n] /\ mails[n] <= mails'[n]
  BY <1>2, <1>5, <1>6
<1>8. FitsAt(w)'
  <2>1. worker'[w].at = n /\ worker'[w].step = step BY <1>1, <1>3, <1>4, GotoFacts
  <2>2. step = "mark" => mails'[n] >= 1 BY <1>2, <1>5
  <2> QED BY <1>1, <1>3, <2>1, <2>2 DEF FitsAt
<1>9. row'[n].status = "sent" => mails'[n] >= 1
  BY <1>1, <1>2, <1>3, <1>5 DEF Inductive, OneMailUnlessMishap
<1>10. /\ row' \in [Notifications -> Row] /\ unwritten' \subseteq Notifications
       /\ postponed' \subseteq Notifications
  BY <1>3 DEF Inductive, TypeOK
<1> QED BY <1>1, <1>3, <1>4, <1>5, <1>7, <1>8, <1>9, <1>10, WorkingStep

\* The row is SENT, or the query failed and a mishap allows for another mail.
LEMMA MarkStep ==
    ASSUME Inductive, NEW w \in Workers, NEW n, n = worker[w].at, Mark(w)
    PROVE  Inductive'
<1>1. /\ w \in Busy /\ n \in Notifications /\ n \notin InApp
      /\ row[n].status # "absent"
      /\ row[n].status = "pending" \/ (LocksExpire /\ n \in unwritten)
      /\ worker[w].step = "mark" /\ mails[n] >= 1
  BY AtWork DEF Mark
<1>2. /\ mails[n] \in Nat /\ mishaps[n] \in Nat /\ Chances(n) \in Nat /\ Chances(n)' \in Nat
      /\ mails[n] + Chances(n) <= 1 + mishaps[n]
  BY <1>1, LateFinite DEF Inductive, TypeOK, MailsAccounted
<1>3. PICK step \in {"fail", "complete"} :
      /\ Goto(w, step)
      /\ \/ step = "complete" /\ SetStatus(n, "sent") /\ mishaps' = mishaps
         \/ step = "fail" /\ row' = row /\ Mishap(n)
      /\ UNCHANGED <<postponed, creating, listed, job, mails, unwritten>>
  BY DEF Mark
<1>4. step \in WorkSteps /\ (step \in Sending <=> step = "fail") BY DEF WorkSteps, Sending
<1>5. /\ mails' \in [Notifications -> Nat]
      /\ mishaps' \in [Notifications -> 0 .. MaxMishaps]
      /\ \A m \in Notifications : m # n => mails'[m] = mails[m] /\ mishaps'[m] = mishaps[m]
      /\ mishaps'[n] = IF step = "fail" THEN mishaps[n] + 1 ELSE mishaps[n]
  BY <1>1, <1>3 DEF Mishap, Inductive, TypeOK
<1>6. /\ row' \in [Notifications -> Row]
      /\ \A m \in Notifications : m # n => row'[m] = row[m]
      /\ row'[n].status # "absent"
      /\ step = "fail" => row' = row
      /\ step = "complete" => ~Pending(n)'
  BY <1>1, <1>3, SetStatusFacts DEF Inductive, TypeOK, Pending
<1>7. Chances(n)' <= IF step = "fail" THEN Chances(n) + 1 ELSE Chances(n)
  <2>1. step = "fail" => (Pending(n)' => Pending(n)) BY <1>6 DEF Pending
  <2> QED BY <1>1, <1>3, <1>4, <1>6, <2>1, GoingOnCounted
<1>8. mails'[n] + Chances(n)' <= 1 + mishaps'[n] /\ mails[n] <= mails'[n]
  BY <1>2, <1>3, <1>5, <1>7
<1>9. FitsAt(w)'
  <2>1. worker'[w].at = n /\ worker'[w].step = step BY <1>1, <1>3, <1>4, GotoFacts
  <2> QED BY <1>1, <1>3, <1>6, <2>1 DEF FitsAt
<1>10. row'[n].status = "sent" => mails'[n] >= 1 BY <1>1, <1>3
<1>11. /\ unwritten \subseteq unwritten' /\ unwritten' \subseteq Notifications
       /\ postponed' \subseteq Notifications
  BY <1>3 DEF Inductive, TypeOK
<1> QED BY <1>1, <1>3, <1>4, <1>5, <1>6, <1>8, <1>9, <1>10, <1>11, WorkingStep

\* What Reject and Fail have in common: no mail is involved.
LEMMA NoMailStep ==
    ASSUME Inductive, NEW w \in Workers, NEW n, n = worker[w].at,
           worker[w].step \in {"reject", "fail"},
           NEW step \in WorkSteps \ {"mark"}, Goto(w, step),
           \/ row' = row
           \/ step = "complete" /\ SetStatus(n, "failed")
           \/ step = "throw" /\ SetStatus(n, "pending"),
           \/ step # "throw" \/ HasNext(worker[w].made) \/ n \in unwritten',
           step = "complete" => ~Pending(n)',
           unwritten \subseteq unwritten', unwritten' \subseteq Notifications,
           postponed' \subseteq Notifications,
           UNCHANGED <<creating, listed, job, mails, mishaps>>
    PROVE  Inductive'
<1>1. /\ w \in Busy /\ n \in Notifications /\ n \notin InApp
      /\ row[n].status # "absent"
      /\ row[n].status = "pending" \/ (LocksExpire /\ n \in unwritten)
      /\ worker[w].step \in Sending
  BY AtWork DEF Sending
<1>2. /\ mails[n] \in Nat /\ mishaps[n] \in Nat /\ Chances(n) \in Nat /\ Chances(n)' \in Nat
      /\ mails[n] + Chances(n) <= 1 + mishaps[n]
  BY <1>1, LateFinite DEF Inductive, TypeOK, MailsAccounted
<1>3. /\ row' \in [Notifications -> Row]
      /\ \A m \in Notifications : m # n => row'[m] = row[m]
      /\ row'[n].status # "absent"
      /\ row'[n].status = "sent" => row[n].status = "sent"
      /\ step \in Sending => row' = row
  BY <1>1, SetStatusFacts DEF Inductive, TypeOK, Sending
<1>4. Chances(n)' <= Chances(n)
  <2>1. step \in Sending => (Pending(n)' => Pending(n)) BY <1>3 DEF Pending
  <2> QED BY <1>1, <1>3, <2>1, GoingOnCounted
<1>5. mails'[n] + Chances(n)' <= 1 + mishaps'[n] /\ mails[n] <= mails'[n] BY <1>2, <1>4
<1>6. FitsAt(w)'
  <2>1. worker'[w].at = n /\ worker'[w].step = step /\ worker'[w].made = worker[w].made
    BY <1>1, GotoFacts
  <2>2. step \in {"send", "reject", "fail"} => row' = row BY <1>3 DEF Sending
  <2> QED BY <1>1, <2>1, <2>2 DEF FitsAt, HasNext
<1>7. row'[n].status = "sent" => mails'[n] >= 1
  BY <1>1, <1>3 DEF Inductive, OneMailUnlessMishap
<1>8. mails \in [Notifications -> Nat] /\ mishaps \in [Notifications -> 0 .. MaxMishaps]
  BY DEF Inductive, TypeOK
<1> QED BY <1>1, <1>3, <1>5, <1>6, <1>7, <1>8, WorkingStep

\* What markDispatchFailed does.
LEMMA FailedFacts ==
    ASSUME Inductive, NEW n \in Notifications, NEW next \in BOOLEAN, Failed(n, next)
    PROVE  /\ SetStatus(n, IF next THEN "pending" ELSE "failed")
           /\ postponed' \subseteq Notifications
<1>1. postponed \subseteq Notifications BY DEF Inductive, TypeOK
<1> QED BY <1>1 DEF Failed

\* A channel nobody serves.
LEMMA RejectStep ==
    ASSUME Inductive, NEW w \in Workers, NEW n, n = worker[w].at, Reject(w)
    PROVE  Inductive'
<1>1. n \in Notifications BY AtWork DEF Reject
<1>2. /\ unwritten' = unwritten /\ unwritten \subseteq Notifications
      /\ postponed \subseteq Notifications
  BY DEF Reject, Inductive, TypeOK
<1>3. CASE Failed(n, FALSE) /\ Goto(w, "complete")
  <2>1. SetStatus(n, "failed") /\ postponed' \subseteq Notifications
    BY <1>1, <1>3, FailedFacts
  <2>2. ~Pending(n)' BY <1>1, <2>1, SetStatusFacts DEF Pending
  <2>3. "complete" \in WorkSteps \ {"mark"} BY DEF WorkSteps
  <2> QED BY <1>2, <1>3, <2>1, <2>2, <2>3, NoMailStep DEF Reject
<1>4. CASE Goto(w, "fail") /\ UNCHANGED <<row, postponed>>
  <2>1. "fail" \in WorkSteps \ {"mark"} BY DEF WorkSteps
  <2>2. postponed' \subseteq Notifications BY <1>2, <1>4
  <2> QED BY <1>2, <1>4, <2>1, <2>2, NoMailStep DEF Reject
<1> QED BY <1>3, <1>4 DEF Reject

\* The catch block writes PENDING only where another attempt follows.
LEMMA FailStep ==
    ASSUME Inductive, NEW w \in Workers, NEW n, n = worker[w].at, Fail(w)
    PROVE  Inductive'
<1>1. n \in Notifications BY AtWork DEF Fail
<1>2. unwritten \subseteq Notifications /\ postponed \subseteq Notifications
  BY DEF Inductive, TypeOK
<1>3. "throw" \in WorkSteps \ {"mark"} /\ "complete" \in WorkSteps \ {"mark"}
  BY DEF WorkSteps
<1>4. CASE /\ HasNext(worker[w].made) /\ Failed(n, TRUE) /\ Goto(w, "throw")
           /\ UNCHANGED unwritten
  <2>1. SetStatus(n, "pending") /\ postponed' \subseteq Notifications
    BY <1>1, <1>4, FailedFacts
  <2> QED BY <1>2, <1>3, <1>4, <2>1, NoMailStep DEF Fail
<1>5. CASE Failed(n, FALSE) /\ Goto(w, "complete") /\ UNCHANGED unwritten
  <2>1. SetStatus(n, "failed") /\ postponed' \subseteq Notifications
    BY <1>1, <1>5, FailedFacts
  <2>2. ~Pending(n)' BY <1>1, <2>1, SetStatusFacts DEF Pending
  <2> QED BY <1>2, <1>3, <1>5, <2>1, <2>2, NoMailStep DEF Fail
<1>6. CASE /\ Goto(w, "throw") /\ unwritten' = unwritten \cup {n}
           /\ UNCHANGED <<row, postponed>>
  <2>1. unwritten' \subseteq Notifications /\ postponed' \subseteq Notifications
    BY <1>1, <1>2, <1>6
  <2> QED BY <1>3, <1>6, <2>1, NoMailStep DEF Fail
<1>7. HasNext(worker[w].made) \in BOOLEAN BY DEF HasNext
<1>8. CASE HasNext(worker[w].made) BY <1>4, <1>6, <1>8 DEF Fail
<1>9. CASE ~HasNext(worker[w].made)
  <2>1. HasNext(worker[w].made) = FALSE BY <1>7, <1>9
  <2> QED BY <1>5, <1>6, <2>1 DEF Fail
<1> QED BY <1>8, <1>9

-----------------------------------------------------------------------------
(* Letting go of a job *)

\* Releasing a job leaves every other job with its holder, and touches no job without
\* the lock.
LEMMA ReleaseApart ==
    ASSUME Inductive, NEW w \in Busy, worker' = [worker EXCEPT ![w] = Idle],
           \A m \in Notifications : m # worker[w].at \/ ~worker[w].lock => job'[m] = job[m],
           \A m \in Notifications : job'[m].state \in {"queued", "active"} =>
               job'[m].made < Attempts,
           unwritten \subseteq unwritten'
    PROVE  OneHolderPerJob'
<1>1. \A v \in Busy' : v \in Busy /\ v # w /\ worker'[v] = worker[v]
  <2>1. Busy' = Busy \ {w} /\ \A v \in Workers : v # w => worker'[v] = worker[v]
    BY ReleaseFacts
  <2>2. Busy \subseteq Workers BY DEF Busy
  <2> QED BY <2>1, <2>2
<1>2. \A v \in Busy' : worker[v].lock => job'[worker[v].at] = job[worker[v].at]
  BY <1>1, WorkersApart
<1>3. \A v \in Busy' :
        /\ worker'[v].at \in Notifications
        /\ worker'[v].step # "idle"
        /\ IF worker'[v].lock
           THEN /\ worker'[v].made = job'[worker'[v].at].made
                /\ job'[worker'[v].at].state = "active"
           ELSE LocksExpire /\ worker'[v].at \in unwritten'
  BY <1>1, <1>2, WorkersApart
<1>4. \A v, u \in Busy' :
         worker'[v].at = worker'[u].at /\ worker'[v].lock /\ worker'[u].lock => v = u
  BY <1>1, WorkersApart
<1> QED BY <1>3, <1>4 DEF OneHolderPerJob

\* A worker that lets go takes no chance more; where it held the job and had not come to
\* its end, the next holder has one.
LEMMA ReleaseCounted ==
    ASSUME Inductive, NEW w \in Busy, NEW n, n = worker[w].at,
           worker' = [worker EXCEPT ![w] = Idle], UNCHANGED row
    PROVE  /\ Chances(n)' <= Chances(n) + 1
           /\ ~worker[w].lock \/ worker[w].step \in {"complete", "throw"} =>
                 Chances(n)' <= Chances(n)
<1>1. /\ w \in Workers /\ \A v \in Workers : v # w => worker'[v] = worker[v]
      /\ worker'[w].at # n /\ n \in Notifications /\ row[n].status # "absent"
  BY ReleaseFacts, WorkersApart
<1>2. Late(n)' \subseteq Late(n) BY <1>1 DEF Late
<1>3. Cardinality(Late(n)') <= Cardinality(Late(n)) BY <1>2, LateFinite, FS_Subset
<1>4. CASE ~worker[w].lock
  <2>1. HeldAt(n, {"mark"})' <=> HeldAt(n, {"mark"}) BY <1>1, <1>4 DEF HeldAt
  <2>2. HeldAt(n, Sending)' <=> HeldAt(n, Sending) BY <1>1, <1>4 DEF HeldAt, Sending
  <2>3. Open(n)' <=> Open(n) BY <2>1, <2>2 DEF Open, Pending
  <2> QED BY <1>3, <2>3, LateFinite DEF Chances
<1>5. CASE worker[w].step \in {"complete", "throw"}
  <2>1. HeldAt(n, {"mark"})' <=> HeldAt(n, {"mark"}) BY <1>1, <1>5 DEF HeldAt
  <2>2. HeldAt(n, Sending)' <=> HeldAt(n, Sending) BY <1>1, <1>5 DEF HeldAt, Sending
  <2>3. Open(n)' <=> Open(n) BY <2>1, <2>2 DEF Open, Pending
  <2> QED BY <1>3, <2>3, LateFinite DEF Chances
<1> QED BY <1>3, <1>4, <1>5, LateFinite DEF Chances

\* What Settle and Die have in common.
LEMMA ReleaseStep ==
    ASSUME Inductive, NEW w \in Busy, NEW n, n = worker[w].at,
           worker' = [worker EXCEPT ![w] = Idle], job' \in [Notifications -> Job],
           \A m \in Notifications : m # n \/ ~worker[w].lock => job'[m] = job[m],
           job'[n].state \in {"queued", "active"} => job'[n].made < Attempts,
           Pending(n) /\ job'[n].state \in {"completed", "failed"}
               => n \in unwritten',
           mishaps' \in [Notifications -> 0 .. MaxMishaps],
           \A m \in Notifications : mishaps[m] <= mishaps'[m],
           worker[w].lock /\ worker[w].step \notin {"complete", "throw"} =>
               mishaps'[n] >= mishaps[n] + 1,
           unwritten \subseteq unwritten', unwritten' \subseteq Notifications,
           UNCHANGED <<row, postponed, creating, listed, mails>>
    PROVE  Inductive'
<1>1. /\ n \in Notifications /\ w \in Workers /\ row[n].status # "absent"
      /\ Busy' = Busy \ {w} /\ worker'[w].at \notin Notifications
      /\ \A v \in Workers : v # w => worker'[v] = worker[v]
  BY WorkersApart, ReleaseFacts
<1>2. TypeOK' BY <1>1, ReleaseFacts DEF Inductive, TypeOK
<1>3. OneHolderPerJob'
  <2>1. \A m \in Notifications : job'[m].state \in {"queued", "active"} =>
           job'[m].made < Attempts
    BY DEF Inductive, OneHolderPerJob
  <2> QED BY <2>1, ReleaseApart
<1>4. RowsComeFirst'
  <2>1. ASSUME NEW m \in Notifications, row[m].status = "absent"
        PROVE  job'[m].state = "unknown" /\ \A v \in Workers : worker'[v].at # m
    BY <1>1, <2>1 DEF Inductive, RowsComeFirst
  <2> QED BY <2>1 DEF Inductive, RowsComeFirst
<1>5. WorkersFit'
  <2>1. SUFFICES ASSUME NEW v \in Busy' PROVE FitsAt(v)' BY DEF WorkersFit
  <2>2. v \in Busy /\ worker'[v] = worker[v] BY <1>1, <2>1 DEF Busy
  <2> QED BY <2>2 DEF Inductive, WorkersFit, FitsAt, Pending, HasNext
<1>6. MailsAccounted'
  <2>1. SUFFICES ASSUME NEW m \in Notifications \ InApp
                 PROVE  mails'[m] + Chances(m)' <= 1 + mishaps'[m]
    BY DEF MailsAccounted
  <2>2. /\ mails[m] \in Nat /\ mishaps[m] \in Nat /\ mishaps'[m] \in Nat
        /\ mishaps[m] <= mishaps'[m] /\ Chances(m) \in Nat /\ Chances(m)' \in Nat
        /\ mails[m] + Chances(m) <= 1 + mishaps[m]
    BY LateFinite DEF Inductive, TypeOK, MailsAccounted
  <2>3. CASE m = n
    <3>1. /\ Chances(n)' <= Chances(n) + 1
          /\ ~worker[w].lock \/ worker[w].step \in {"complete", "throw"} =>
                Chances(n)' <= Chances(n)
      BY ReleaseCounted, ZenonT(40)
    <3>2. mails'[m] = mails[m] OBVIOUS
    <3> QED BY <2>2, <2>3, <3>1, <3>2
  <2>4. CASE m # n
    <3>1. Chances(m)' = Chances(m) BY <1>1, <2>4, ElsewhereCounted
    <3> QED BY <2>2, <3>1
  <2> QED BY <2>3, <2>4
<1>7. OneMailUnlessMishap'
  <2>1. \A m \in Notifications : mails[m] \in Nat /\ mishaps[m] \in Nat /\ mishaps'[m] \in Nat
    BY DEF Inductive, TypeOK
  <2> QED BY <2>1 DEF Inductive, OneMailUnlessMishap
<1>8. NobodyForgotten' BY <1>1 DEF Inductive, TypeOK, Pending, NobodyForgotten
<1> QED BY <1>2, <1>3, <1>4, <1>5, <1>6, <1>7, <1>8 DEF Inductive

\* A job that is finished with the row pending has left no trace in it.
LEMMA SettleStep ==
    ASSUME Inductive, NEW w \in Workers, NEW n, n = worker[w].at, Settle(w)
    PROVE  Inductive'
<1>1. w \in Busy BY DEF Settle, Busy, Idle
<1>2. /\ n \in Notifications /\ job[n] \in Job
      /\ worker[w].lock => job[n].made < Attempts /\ worker[w].made = job[n].made
      /\ ~worker[w].lock => n \in unwritten
  BY <1>1, WorkersApart DEF Inductive, TypeOK
<1>3. /\ job' \in [Notifications -> Job]
      /\ job'[n].state \in {"queued", "active"} => job'[n].made < Attempts
      /\ \A m \in Notifications : m # n \/ ~worker[w].lock => job'[m] = job[m]
      /\ worker[w].lock /\ job'[n].state \in {"completed", "failed"} =>
            worker[w].step = "complete" \/ ~HasNext(worker[w].made)
  <2>1. CASE ~worker[w].lock
    BY <1>2, <2>1 DEF Settle, Inductive, TypeOK, OneHolderPerJob
  <2>2. CASE worker[w].lock /\ worker[w].step = "complete"
    BY <1>1, <1>2, <2>2 DEF Settle, Inductive, TypeOK, Job
  <2>3. CASE worker[w].lock /\ worker[w].step = "throw"
    BY <1>1, <1>2, <2>3 DEF Settle, Inductive, TypeOK, Job, HasNext
  <2> QED BY <2>1, <2>2, <2>3 DEF Settle
<1>4. Pending(n) /\ job'[n].state \in {"completed", "failed"} => n \in unwritten
  BY <1>1, <1>2, <1>3 DEF Settle, Inductive, WorkersFit, FitsAt
<1>5. /\ mishaps' = mishaps
      /\ mishaps \in [Notifications -> 0 .. MaxMishaps]
      /\ \A m \in Notifications : mishaps[m] <= mishaps'[m]
  BY DEF Settle, Inductive, TypeOK
<1>6. /\ worker[w].step \in {"complete", "throw"}
      /\ worker' = [worker EXCEPT ![w] = Idle]
      /\ UNCHANGED <<row, postponed, creating, listed, mails, unwritten>>
  BY DEF Settle
<1>7. unwritten \subseteq Notifications BY DEF Inductive, TypeOK
<1> QED BY <1>1, <1>3, <1>4, <1>5, <1>6, <1>7, ReleaseStep

\* What the queue does with a job that it takes from its holder.
LEMMA StallFacts ==
    ASSUME Inductive, NEW n \in Notifications, job[n].made < Attempts, Stall(n)
    PROVE  /\ job' \in [Notifications -> Job]
           /\ job'[n].made < Attempts
           /\ \A m \in Notifications : m # n => job'[m] = job[m]
           /\ mishaps' \in [Notifications -> 0 .. MaxMishaps]
           /\ \A m \in Notifications : mishaps[m] <= mishaps'[m]
           /\ mishaps'[n] = mishaps[n] + 1
           /\ n \in unwritten' /\ unwritten \subseteq unwritten'
           /\ unwritten' \subseteq Notifications
<1>1. job[n] \in Job BY DEF Inductive, TypeOK
<1>2. /\ job' \in [Notifications -> Job]
      /\ job'[n].made < Attempts
      /\ \A m \in Notifications : m # n => job'[m] = job[m]
  BY <1>1 DEF Stall, Inductive, TypeOK, Job
<1>3. /\ mishaps' \in [Notifications -> 0 .. MaxMishaps]
      /\ \A m \in Notifications : mishaps[m] <= mishaps'[m]
      /\ mishaps'[n] = mishaps[n] + 1
  BY DEF Stall, Mishap, Inductive, TypeOK
<1>4. n \in unwritten' /\ unwritten \subseteq unwritten' /\ unwritten' \subseteq Notifications
  BY DEF Stall, Inductive, TypeOK
<1> QED BY <1>2, <1>3, <1>4

\* A worker that dies with the lock may have queued a mail: that is a mishap.  One that is
\* late has lost its job already.
LEMMA DieStep ==
    ASSUME Inductive, NEW w \in Workers, NEW n, n = worker[w].at, Die(w)
    PROVE  Inductive'
<1>1. w \in Busy /\ n \in Notifications BY WorkersApart DEF Die, Busy
<1>2. /\ worker' = [worker EXCEPT ![w] = Idle]
      /\ UNCHANGED <<row, postponed, creating, listed, mails>>
  BY DEF Die
<1>3. CASE worker[w].lock
  <2>1. Stall(n) BY <1>3 DEF Die
  <2>2. job[n].made < Attempts BY <1>1, <1>3, WorkersApart
  <2>3. mishaps'[n] >= mishaps[n] + 1
    BY <1>1, <2>1, <2>2, StallFacts DEF Inductive, TypeOK
  <2> QED BY <1>1, <1>2, <1>3, <2>1, <2>2, <2>3, StallFacts, ReleaseStep
<1>4. CASE ~worker[w].lock
  <2>1. UNCHANGED <<job, mishaps, unwritten>> BY <1>4 DEF Die
  <2>2. n \in unwritten BY <1>1, <1>4, WorkersApart
  <2>3. /\ job \in [Notifications -> Job] /\ unwritten \subseteq Notifications
        /\ mishaps \in [Notifications -> 0 .. MaxMishaps]
        /\ \A m \in Notifications : mishaps[m] <= mishaps'[m]
    BY <2>1 DEF Inductive, TypeOK
  <2>4. job[n].state \in {"queued", "active"} => job[n].made < Attempts
    BY <1>1 DEF Inductive, OneHolderPerJob
  <2> QED BY <1>1, <1>2, <1>4, <2>1, <2>2, <2>3, <2>4, ReleaseStep
<1> QED BY <1>3, <1>4

\* A worker whose lock runs out is late: whoever takes the job next may queue a mail, and
\* so may it.
LEMMA LoseLockStep ==
    ASSUME Inductive, NEW w \in Workers, NEW n, n = worker[w].at, LoseLock(w)
    PROVE  Inductive'
<1>1. /\ LocksExpire /\ worker[w].lock /\ Stall(n)
      /\ UNCHANGED <<row, postponed, creating, listed, mails>>
  BY DEF LoseLock
<1>2. w \in Busy BY <1>1 DEF Busy, Idle
<1>3. /\ n \in Notifications /\ job[n].made < Attempts /\ row[n].status # "absent"
      /\ worker[w] \in Worker /\ worker[w].step # "idle"
      /\ \A v \in Busy : v # w /\ worker[v].at = n => ~worker[v].lock
  BY <1>1, <1>2, WorkersApart
<1>4. /\ worker' \in [Workers -> Worker]
      /\ \A v \in Workers : v # w => worker'[v] = worker[v]
      /\ worker'[w].at = n /\ ~worker'[w].lock
      /\ worker'[w].step = worker[w].step /\ worker'[w].made = worker[w].made
  <2>1. worker' = [worker EXCEPT ![w].lock = FALSE] BY DEF LoseLock
  <2>2. worker'[w] = [worker[w] EXCEPT !.lock = FALSE] BY <2>1 DEF Inductive, TypeOK
  <2> QED BY <1>3, <2>1, <2>2 DEF Inductive, TypeOK, Worker
<1>5. Busy' = Busy BY <1>2, <1>3, <1>4 DEF Busy, Idle
<1>6. TypeOK' BY <1>1, <1>3, <1>4, StallFacts DEF Inductive, TypeOK
<1>7. OneHolderPerJob'
  <2>1. \A v \in Busy : v # w => v \in Workers /\ worker'[v] = worker[v] BY <1>4, WorkersApart
  <2>2. \A v \in Busy :
           /\ worker'[v].at \in Notifications /\ worker'[v].step # "idle"
           /\ IF worker'[v].lock
              THEN /\ worker'[v].made = job'[worker'[v].at].made
                   /\ job'[worker'[v].at].state = "active"
              ELSE LocksExpire /\ worker'[v].at \in unwritten'
    BY <1>1, <1>3, <1>4, <2>1, StallFacts, WorkersApart
  <2>3. \A v, u \in Busy :
           worker'[v].at = worker'[u].at /\ worker'[v].lock /\ worker'[u].lock => v = u
    BY <1>4, <2>1, WorkersApart
  <2>4. \A m \in Notifications : job'[m].state \in {"queued", "active"} =>
           job'[m].made < Attempts
    BY <1>1, <1>3, StallFacts DEF Inductive, OneHolderPerJob
  <2> QED BY <1>5, <2>2, <2>3, <2>4 DEF OneHolderPerJob
<1>8. RowsComeFirst'
  <2>1. \A v \in Workers : worker'[v].at = worker[v].at BY <1>4
  <2>2. \A m \in Notifications : m # n => job'[m] = job[m] BY <1>1, <1>3, StallFacts
  <2> QED BY <1>1, <1>3, <2>1, <2>2 DEF Inductive, RowsComeFirst
<1>9. WorkersFit'
  <2>1. SUFFICES ASSUME NEW v \in Busy PROVE FitsAt(v)' BY <1>5 DEF WorkersFit
  <2>2. /\ worker'[v].at = worker[v].at /\ worker'[v].step = worker[v].step
        /\ worker'[v].made = worker[v].made
    BY <1>4, WorkersApart
  <2>3. unwritten \subseteq unwritten' BY <1>1, <1>3, StallFacts
  <2> QED BY <1>1, <2>2, <2>3 DEF Inductive, WorkersFit, FitsAt, Pending, HasNext
<1>10. Chances(n)' <= Chances(n) + 1
  <2>1. /\ Late(n)' \subseteq Late(n) \cup {w}
        /\ w \in Late(n)' => worker[w].step \in Sending
    BY <1>4 DEF Late, Sending
  <2>2. CASE worker[w].step \in Sending
    <3>1. HeldAt(n, Sending) BY <1>1, <2>2 DEF HeldAt
    <3> QED BY <2>1, <3>1, LateFinite, SmallerSets DEF Chances, Open
  <2>3. CASE worker[w].step \notin Sending
    <3>1. Cardinality(Late(n)') <= Cardinality(Late(n))
      BY <2>1, <2>3, LateFinite, SmallerSets
    <3> QED BY <3>1, LateFinite DEF Chances
  <2> QED BY <2>2, <2>3
<1>11. MailsAccounted'
  <2>1. SUFFICES ASSUME NEW m \in Notifications \ InApp
                 PROVE  mails'[m] + Chances(m)' <= 1 + mishaps'[m]
    BY DEF MailsAccounted
  <2>2. /\ mails[m] \in Nat /\ mishaps[m] \in Nat /\ mishaps'[m] \in Nat
        /\ mishaps[m] <= mishaps'[m] /\ Chances(m) \in Nat /\ Chances(m)' \in Nat
        /\ mails[m] + Chances(m) <= 1 + mishaps[m]
    BY <1>1, <1>3, LateFinite, StallFacts DEF Inductive, TypeOK, MailsAccounted
  <2>3. CASE m = n
    <3>1. mishaps'[m] = mishaps[m] + 1 BY <1>1, <1>3, <2>3, StallFacts
    <3> QED BY <1>1, <1>10, <2>2, <2>3, <3>1
  <2>4. CASE m # n
    <3>1. Chances(m)' = Chances(m) BY <1>1, <1>4, <2>4, ElsewhereCounted
    <3> QED BY <1>1, <2>2, <3>1
  <2> QED BY <2>3, <2>4
<1>12. OneMailUnlessMishap'
  <2>1. \A m \in Notifications : /\ mails[m] \in Nat /\ mishaps[m] \in Nat
                                 /\ mishaps'[m] \in Nat /\ mishaps[m] <= mishaps'[m]
    BY <1>1, <1>3, StallFacts DEF Inductive, TypeOK
  <2> QED BY <1>1, <2>1 DEF Inductive, OneMailUnlessMishap
<1>13. NobodyForgotten'
  BY <1>1, <1>3, StallFacts DEF Inductive, NobodyForgotten, Pending
<1> QED BY <1>6, <1>7, <1>8, <1>9, <1>11, <1>12, <1>13 DEF Inductive

-----------------------------------------------------------------------------
(* Taking a job *)

\* What Take and TakeFails have in common.
LEMMA TakingStep ==
    ASSUME Inductive, NEW w \in Workers, NEW n \in Notifications,
           NEW step \in WorkSteps, Begin(w, n, step),
           unwritten \subseteq unwritten', unwritten' \subseteq Notifications,
           step \notin {"mark", "fail"},
           step \in {"send", "reject"} => Pending(n),
           step \in {"complete", "throw"} /\ Pending(n) => n \in unwritten'
    PROVE  Inductive'
<1>1. UNCHANGED <<row, postponed, creating, listed, mails, mishaps>> BY DEF Begin
<1>2. /\ w \notin Busy /\ worker[w].at \notin Notifications /\ Busy' = Busy \cup {w}
      /\ \A v \in Workers : v # w => worker'[v] = worker[v]
      /\ \A v \in Busy : worker[v].at = n => ~worker[v].lock
      /\ worker'[w].at = n /\ worker'[w].lock /\ worker'[w].step = step
      /\ job[n].state = "queued" /\ job'[n].state = "active"
      /\ \A m \in Notifications : m # n => job'[m] = job[m]
      /\ OneHolderPerJob'
  BY TakeFacts
<1>3. TypeOK' BY <1>1, TakeFacts DEF Inductive, TypeOK
<1>4. row[n].status # "absent" BY <1>2 DEF Inductive, RowsComeFirst
<1>5. RowsComeFirst'
  <2>1. ASSUME NEW m \in Notifications, row[m].status = "absent"
        PROVE  job'[m].state = "unknown" /\ \A v \in Workers : worker'[v].at # m
    BY <1>2, <1>4, <2>1 DEF Inductive, RowsComeFirst
  <2> QED BY <1>1, <2>1 DEF Inductive, RowsComeFirst
<1>6. WorkersFit'
  <2>1. FitsAt(w)'
    <3>1. step \in {"send", "reject"} => n \notin InApp /\ row[n].status = "pending"
      BY DEF Inductive, RowsComeFirst, Pending
    <3>2. Pending(n)' <=> Pending(n) BY <1>1 DEF Pending
    <3> QED BY <1>1, <1>2, <3>1, <3>2 DEF FitsAt, WorkSteps, Pending
  <2>2. SUFFICES ASSUME NEW v \in Busy PROVE FitsAt(v)' BY <1>2, <2>1 DEF WorkersFit
  <2>3. worker'[v] = worker[v] BY <1>2, WorkersApart
  <2> QED BY <1>1, <2>3 DEF Inductive, WorkersFit, FitsAt, Pending, HasNext
<1>7. Chances(n)' <= Chances(n)
  <2>1. Late(n)' \subseteq Late(n) BY <1>2 DEF Late
  <2>2. Cardinality(Late(n)') <= Cardinality(Late(n)) BY <2>1, LateFinite, FS_Subset
  <2>3. \A v \in Workers : worker[v].at = n => ~worker[v].lock
    BY <1>2, NotIdle
  <2>4. ~HeldAt(n, {"mark"}) BY <2>3 DEF HeldAt
  <2>5. HeldAt(n, Sending)' => Pending(n)
    <3>1. \A v \in Workers : worker'[v].at = n /\ worker'[v].lock => v = w BY <1>2, <2>3
    <3> QED BY <1>2, <3>1 DEF HeldAt, Sending
  <2>6. Open(n)' => Open(n) BY <1>1, <1>4, <2>4, <2>5 DEF Open, Pending
  <2> QED BY <2>2, <2>6, LateFinite DEF Chances
<1>8. MailsAccounted'
  <2>1. SUFFICES ASSUME NEW m \in Notifications \ InApp
                 PROVE  mails'[m] + Chances(m)' <= 1 + mishaps'[m]
    BY DEF MailsAccounted
  <2>2. /\ mails[m] \in Nat /\ mishaps[m] \in Nat
        /\ Chances(m) \in Nat /\ Chances(m)' \in Nat
        /\ mails[m] + Chances(m) <= 1 + mishaps[m]
    BY LateFinite DEF Inductive, TypeOK, MailsAccounted
  <2>3. Chances(m)' <= Chances(m)
    <3>1. CASE m = n BY <1>7, <3>1
    <3>2. CASE m # n
      <4>1. Chances(m)' = Chances(m) BY <1>1, <1>2, <3>2, ElsewhereCounted
      <4> QED BY <2>2, <4>1
    <3> QED BY <3>1, <3>2
  <2> QED BY <1>1, <2>2, <2>3
<1>9. OneMailUnlessMishap' BY <1>1 DEF Inductive, OneMailUnlessMishap
<1>10. NobodyForgotten' BY <1>1, <1>2 DEF Inductive, NobodyForgotten, Pending
<1> QED BY <1>2, <1>3, <1>5, <1>6, <1>8, <1>9, <1>10 DEF Inductive

\* A worker that sends has seen the row pending, and nobody else holds its job.
LEMMA TakeStep ==
    ASSUME Inductive, NEW w \in Workers, NEW n \in Notifications, Take(w, n)
    PROVE  Inductive'
<1> DEFINE step == IF ~Pending(n) THEN "complete"
              ELSE IF n \in Unsupported THEN "reject" ELSE "send"
<1>1. /\ step \in WorkSteps \ {"mark", "fail", "throw"}
      /\ (step = "complete" => ~Pending(n))
      /\ (step # "complete" => Pending(n))
  BY DEF WorkSteps
<1> HIDE DEF step
<1>2. Begin(w, n, step) /\ UNCHANGED unwritten BY DEF Take, step
<1>3. unwritten \subseteq Notifications BY DEF Inductive, TypeOK
<1> QED BY <1>1, <1>2, <1>3, TakingStep

\* The attempt leaves no trace.
LEMMA TakeFailsStep ==
    ASSUME Inductive, NEW w \in Workers, NEW n \in Notifications, TakeFails(w, n)
    PROVE  Inductive'
<1>1. "throw" \in WorkSteps BY DEF WorkSteps
<1>2. unwritten \subseteq Notifications BY DEF Inductive, TypeOK
<1> QED BY <1>1, <1>2, TakingStep DEF TakeFails

-----------------------------------------------------------------------------
(* Outside the workers *)

\* The mails are accounted for when no worker moves and no row opens.
LEMMA RestAccounted ==
    ASSUME Inductive, UNCHANGED <<worker, mails, mishaps>>,
           \A m \in Notifications :
               /\ row'[m].status = "absent" => row[m].status = "absent"
               /\ Pending(m)' => Pending(m) \/ row[m].status = "absent"
    PROVE  MailsAccounted'
<1>1. SUFFICES ASSUME NEW m \in Notifications \ InApp
               PROVE  mails'[m] + Chances(m)' <= 1 + mishaps'[m]
  BY DEF MailsAccounted
<1>2. /\ mails[m] \in Nat /\ mishaps[m] \in Nat
      /\ Chances(m) \in Nat /\ Chances(m)' \in Nat
      /\ mails[m] + Chances(m) <= 1 + mishaps[m]
  BY LateFinite DEF Inductive, TypeOK, MailsAccounted
<1>3. Chances(m)' <= Chances(m) BY RestCounted
<1> QED BY <1>2, <1>3

\* Adding a job changes something only if the queue does not know it.
LEMMA AddFacts ==
    ASSUME Inductive, NEW n \in Notifications, row[n].status # "absent",
           Add(n) \/ UNCHANGED job,
           UNCHANGED <<row, postponed, worker, mails, mishaps, unwritten>>,
           creating' \subseteq creating, listed' \subseteq listed
    PROVE  Inductive'
<1>1. /\ job' \in [Notifications -> Job]
      /\ \A m \in Notifications :
            \/ job'[m] = job[m]
            \/ /\ m = n /\ job[m].state = "unknown"
               /\ job'[m].state = "queued" /\ job'[m].made = 0
  BY DEF Add, NoJob, Inductive, TypeOK, Job
<1>2. TypeOK' BY <1>1 DEF Inductive, TypeOK
<1>3. Busy' = Busy /\ \A w \in Busy : worker[w].lock => job'[worker[w].at] = job[worker[w].at]
  BY <1>1, WorkersApart DEF Busy
<1>4. OneHolderPerJob' BY <1>1, <1>3 DEF Inductive, OneHolderPerJob
<1>5. RowsComeFirst' BY <1>1 DEF Inductive, RowsComeFirst
<1>6. WorkersFit' /\ OneMailUnlessMishap'
  BY <1>3
     DEF Inductive, WorkersFit, FitsAt, Pending, HasNext, OneMailUnlessMishap
<1>7. MailsAccounted' BY RestAccounted DEF Pending
<1>8. NobodyForgotten' BY <1>1 DEF Inductive, NobodyForgotten, Pending
<1> QED BY <1>2, <1>4, <1>5, <1>6, <1>7, <1>8 DEF Inductive

\* The creation's enqueue.
LEMMA EnqueueStep ==
    ASSUME Inductive, NEW n \in Notifications, Enqueue(n)
    PROVE  Inductive'
BY AddFacts DEF Enqueue, Inductive, RowsComeFirst

\* The dispatcher's enqueue.
LEMMA EnqueueListedStep ==
    ASSUME Inductive, NEW n \in Notifications, EnqueueListed(n)
    PROVE  Inductive'
BY AddFacts DEF EnqueueListed, Inductive, RowsComeFirst

\* Listing changes no row and no job.
LEMMA ListPendingStep ==
    ASSUME Inductive, ListPending
    PROVE  Inductive'
<1>1. Busy' = Busy BY DEF Busy, ListPending
<1>2. MailsAccounted' BY RestAccounted DEF ListPending, Pending
<1>3. \A n \in Batch : n \in Notifications /\ row[n].status # "absent"
  BY DEF Batch, Due, Pending
<1> QED BY <1>1, <1>2, <1>3
           DEF Inductive, TypeOK, OneHolderPerJob, RowsComeFirst, WorkersFit,
               FitsAt, OneMailUnlessMishap, NobodyForgotten, Pending, HasNext, ListPending

\* The time of a next attempt comes: no row and no job changes.
LEMMA ComesDueStep ==
    ASSUME Inductive, NEW n \in Notifications, ComesDue(n)
    PROVE  Inductive'
<1>1. Busy' = Busy BY DEF Busy, ComesDue
<1>2. MailsAccounted' BY RestAccounted DEF ComesDue, Pending
<1> QED BY <1>1, <1>2
           DEF Inductive, TypeOK, OneHolderPerJob, RowsComeFirst, WorkersFit,
               FitsAt, OneMailUnlessMishap, NobodyForgotten, Pending, HasNext, ComesDue

\* A new row has no job, no worker and no mail.
LEMMA CreateStep ==
    ASSUME Inductive, NEW n \in Notifications, Create(n)
    PROVE  Inductive'
<1>1. /\ row' \in [Notifications -> Row] /\ creating' \subseteq Notifications
      /\ row'[n].status = IF n \in InApp THEN "sent" ELSE "pending"
      /\ row[n].status = "absent"
      /\ \A m \in Notifications : m # n => row'[m] = row[m]
  BY DEF Create, Inductive, TypeOK, Row
<1>2. Busy' = Busy /\ UNCHANGED <<postponed, listed, job, worker, mails, mishaps, unwritten>>
  BY DEF Busy, Create
<1>3. job[n].state = "unknown" /\ \A w \in Busy : worker[w].at # n
  BY <1>1, WorkersApart DEF Inductive, RowsComeFirst
<1>4. TypeOK' BY <1>1, <1>2 DEF Inductive, TypeOK
<1>5. OneHolderPerJob' BY <1>2 DEF Inductive, OneHolderPerJob
<1>6. RowsComeFirst'
  BY <1>1, <1>2, <1>3 DEF Inductive, TypeOK, RowsComeFirst, Create
<1>7. WorkersFit'
  BY <1>1, <1>2, <1>3, WorkersApart
     DEF Inductive, WorkersFit, FitsAt, Pending, HasNext
<1>8. MailsAccounted' BY <1>1, <1>2, RestAccounted DEF Pending
<1>9. OneMailUnlessMishap' BY <1>1, <1>2 DEF Inductive, OneMailUnlessMishap
<1>10. NobodyForgotten' BY <1>1, <1>2, <1>3 DEF Inductive, NobodyForgotten, Pending
<1> QED BY <1>4, <1>5, <1>6, <1>7, <1>8, <1>9, <1>10 DEF Inductive

\* A deleted row is no longer pending.
LEMMA DeleteByUserStep ==
    ASSUME Inductive, NEW n \in Notifications, DeleteByUser(n)
    PROVE  Inductive'
<1>1. /\ row' \in [Notifications -> Row]
      /\ \A m \in Notifications : row'[m].status = row[m].status /\
            (Pending(m)' => Pending(m)) /\ (row[m].deleted => row'[m].deleted)
  <2>1. row \in [Notifications -> Row] BY DEF Inductive, TypeOK
  <2>2. row' = [row EXCEPT ![n].deleted = TRUE] BY DEF DeleteByUser
  <2>3. row' \in [Notifications -> Row] BY <2>1, <2>2 DEF Row
  <2>4. /\ \A m \in Notifications : m # n => row'[m] = row[m]
        /\ row'[n].deleted /\ row'[n].status = row[n].status
    BY <2>1, <2>2 DEF Row
  <2> QED BY <2>3, <2>4 DEF Pending
<1>2. /\ Busy' = Busy
      /\ UNCHANGED <<postponed, creating, listed, job, worker, mails, mishaps, unwritten>>
  BY DEF Busy, DeleteByUser
<1>3. TypeOK' BY <1>1, <1>2 DEF Inductive, TypeOK
<1>4. OneHolderPerJob' BY <1>2 DEF Inductive, OneHolderPerJob
<1>5. RowsComeFirst' BY <1>1, <1>2 DEF Inductive, TypeOK, RowsComeFirst
<1>6. WorkersFit'
  BY <1>1, <1>2, WorkersApart DEF Inductive, WorkersFit, FitsAt, HasNext
<1>7. MailsAccounted' BY <1>1, <1>2, RestAccounted
<1>8. OneMailUnlessMishap' BY <1>1, <1>2 DEF Inductive, OneMailUnlessMishap
<1>9. NobodyForgotten' BY <1>1, <1>2 DEF Inductive, NobodyForgotten
<1> QED BY <1>3, <1>4, <1>5, <1>6, <1>7, <1>8, <1>9 DEF Inductive

\* Only jobs that nobody holds are forgotten, and what late workers may still write is not.
LEMMA ForgetStep ==
    ASSUME Inductive, NEW n \in Notifications, Forget(n)
    PROVE  Inductive'
<1>1. /\ job' \in [Notifications -> Job] /\ job'[n] = NoJob
      /\ \A m \in Notifications : m # n => job'[m] = job[m]
  BY DEF Forget, Inductive, TypeOK, Job, NoJob
<1>2. Busy' = Busy /\ UNCHANGED <<row, postponed, creating, listed, worker, mails, mishaps>>
  BY DEF Busy, Forget
<1>3. \A w \in Busy : worker[w].at = n => ~worker[w].lock BY WorkersApart DEF Forget
<1>4. /\ unwritten' \subseteq unwritten
      /\ \A m \in Notifications : m # n /\ m \in unwritten => m \in unwritten'
      /\ \A w \in Busy : worker[w].at = n => unwritten' = unwritten
  BY DEF Forget, Busy
<1>5. TypeOK' BY <1>1, <1>2, <1>4 DEF Inductive, TypeOK
<1>6. OneHolderPerJob'
  <2>1. \A w \in Busy : IF worker[w].lock THEN job'[worker[w].at] = job[worker[w].at]
                        ELSE LocksExpire /\ worker[w].at \in unwritten'
    BY <1>1, <1>3, <1>4, WorkersApart
  <2>2. \A m \in Notifications : job'[m].state \in {"queued", "active"} => job'[m] = job[m]
    BY <1>1 DEF NoJob
  <2> QED BY <1>2, <2>1, <2>2 DEF Inductive, OneHolderPerJob
<1>7. RowsComeFirst' BY <1>1, <1>2 DEF Inductive, TypeOK, RowsComeFirst, NoJob
<1>8. WorkersFit'
  <2>1. SUFFICES ASSUME NEW w \in Busy PROVE FitsAt(w)' BY <1>2 DEF WorkersFit
  <2>2. worker[w].at \in unwritten => worker[w].at \in unwritten' BY <1>4, WorkersApart
  <2> QED BY <1>2, <2>2 DEF Inductive, WorkersFit, FitsAt, Pending, HasNext
<1>9. MailsAccounted' BY <1>2, RestAccounted DEF Pending
<1>10. OneMailUnlessMishap' BY <1>2 DEF Inductive, OneMailUnlessMishap
<1>11. NobodyForgotten'
  BY <1>1, <1>2, <1>4 DEF Inductive, NobodyForgotten, Pending, NoJob
<1> QED BY <1>5, <1>6, <1>7, <1>8, <1>9, <1>10, <1>11 DEF Inductive

-----------------------------------------------------------------------------
(* The invariant and its consequences *)

\* Nothing is created yet.
LEMMA InitFits ==
    ASSUME Init
    PROVE  Inductive
<1>1. Busy = {} /\ \A w \in Workers, n \in Notifications : worker[w].at # n
  BY DEF Init, Busy, Idle
<1>2. NoJob \in Job /\ Idle \in Worker BY DEF NoJob, Job, Idle, Worker
<1>3. TypeOK BY <1>2 DEF Init, TypeOK, Row
<1>4. MailsAccounted
  <2>1. SUFFICES ASSUME NEW n \in Notifications PROVE mails[n] + Chances(n) <= 1 + mishaps[n]
    BY DEF MailsAccounted
  <2>2. Late(n) = {} BY <1>1 DEF Late
  <2>3. Cardinality(Late(n)) = 0 BY <2>2, FS_EmptySet
  <2> QED BY <2>3 DEF Init, Chances
<1> QED BY <1>1, <1>3, <1>4
           DEF Init, Inductive, OneHolderPerJob, RowsComeFirst, WorkersFit,
               OneMailUnlessMishap, NobodyForgotten, Pending, NoJob

\* Every step keeps the inductive invariant.
LEMMA NextStep ==
    ASSUME Inductive, [Next]_vars
    PROVE  Inductive'
<1>1. CASE UNCHANGED vars
  <2>1. Busy' = Busy BY <1>1 DEF vars, Busy
  <2>2. MailsAccounted' BY <1>1, RestAccounted DEF vars, Pending
  <2> QED
    BY <1>1, <2>1, <2>2
       DEF vars, Inductive, TypeOK, OneHolderPerJob, RowsComeFirst, WorkersFit,
           FitsAt, OneMailUnlessMishap, NobodyForgotten, Pending, HasNext
<1>2. ASSUME NEW n \in Notifications, Create(n) \/ Enqueue(n) \/ DeleteByUser(n) \/
         ComesDue(n) \/ EnqueueListed(n) \/ Forget(n)
      PROVE Inductive'
  BY <1>2, CreateStep, EnqueueStep, DeleteByUserStep, ComesDueStep, EnqueueListedStep,
     ForgetStep
<1>3. ASSUME NEW w \in Workers, Process(w) \/ Die(w) \/ LoseLock(w) PROVE Inductive'
  BY <1>3, TakeStep, TakeFailsStep, SendStep, MarkStep, RejectStep, FailStep,
     SettleStep, DieStep, LoseLockStep
     DEF Process
<1>4. CASE ListPending BY <1>4, ListPendingStep
<1> QED BY <1>1, <1>2, <1>3, <1>4 DEF Next

\* The inductive invariant holds in every reachable state.
THEOREM Invariance == Spec => []Inductive
<1>1. Inductive /\ [Next]_vars => Inductive' BY NextStep
<1> QED BY <1>1, InitFits, PTL DEF Spec

\* No second mail without a mishap, for any number of workers, notifications and
\* attempts, and for workers that lose their locks: OneMailUnlessMishap.
THEOREM NoSecondMail == Spec => []OneMailUnlessMishap
<1>1. Inductive => OneMailUnlessMishap BY DEF Inductive
<1>2. Spec => []Inductive BY Invariance
<1> QED BY <1>1, <1>2, PTL

\* No pending notification has a finished job, except as NobodyForgotten says.
THEOREM NoneForgotten == Spec => []NobodyForgotten
<1>1. Inductive => NobodyForgotten BY DEF Inductive
<1>2. Spec => []Inductive BY Invariance
<1> QED BY <1>1, <1>2, PTL

\* A settled row is not written again: whoever writes has a pending one, unless a worker
\* at the notification is late.
LEMMA RowStays ==
    ASSUME Inductive, [Next]_vars, NEW n \in Notifications,
           row[n].status \in {"sent", "failed"}
    PROVE  row'[n].status = row[n].status \/ (LocksExpire /\ n \in unwritten)
<1>1. CASE row' = row BY <1>1
<1>2. ASSUME NEW m \in Notifications, Create(m) PROVE row'[n].status = row[n].status
  <2>1. m # n BY <1>2 DEF Create
  <2> QED BY <1>2, <2>1 DEF Create, Inductive, TypeOK
<1>3. ASSUME NEW m \in Notifications, DeleteByUser(m)
      PROVE  row'[n].status = row[n].status
  <2>1. row[n] \in Row BY DEF Inductive, TypeOK
  <2> QED BY <1>3, <2>1 DEF DeleteByUser, Inductive, TypeOK, Row
<1>4. ASSUME NEW w \in Workers, Mark(w) \/ Reject(w) \/ Fail(w)
      PROVE  row'[n].status = row[n].status \/ (LocksExpire /\ n \in unwritten)
  <2>1. /\ worker[w].at \in Notifications
        /\ worker[w].at = n => LocksExpire /\ n \in unwritten
    BY <1>4, AtWork DEF Mark, Reject, Fail
  <2> QED BY <1>4, <2>1 DEF Mark, Reject, Fail, Failed, SetStatus, Inductive, TypeOK
<1> QED BY <1>1, <1>2, <1>3, <1>4
           DEF Next, vars, Process, Enqueue, ListPending, ComesDue, EnqueueListed,
               Forget, Take, TakeFails, Begin, Send, Settle, Die, LoseLock

\* What is settled stays settled: SettledStaysSettled.
THEOREM SettledStays == Spec => SettledStaysSettled
<1>1. Inductive /\ [Next]_vars =>
        [\A n \in Notifications :
            row[n].status \in {"sent", "failed"} =>
                \/ row'[n].status = row[n].status
                \/ LocksExpire /\ n \in unwritten]_vars
  BY RowStays
<1>2. Spec => []Inductive BY Invariance
<1> QED BY <1>1, <1>2, PTL DEF Spec, SettledStaysSettled

-----------------------------------------------------------------------------
(* NotificationInbox: a list and its pages *)

\* The rows of a list that are newer than one of them.
NewerIn(L, i) == Cardinality({j \in L : j > i})

Lists == {L \in SUBSET Nat : IsFiniteSet(L)}

\* What is newer than a row are rows, it is not among them, and a row that is added to the
\* list may be.
LEMMA NewerRows ==
    ASSUME NEW L \in Lists, NEW i \in L
    PROVE  /\ NewerIn(L, i) \in Nat /\ NewerIn(L, i) < Cardinality(L) /\ Cardinality(L) \in Nat
           /\ \A M \in Lists : L \subseteq M => NewerIn(L, i) <= NewerIn(M, i)
           /\ \A j \in L : i < j => NewerIn(L, j) < NewerIn(L, i)
<1>1. PICK N : N = {j \in L : j > i}
  OBVIOUS
<1>2. /\ L \subseteq Nat /\ IsFiniteSet(L) /\ Cardinality(L) \in Nat
      /\ IsFiniteSet(N) /\ Cardinality(N) \in Nat /\ Cardinality(N) <= Cardinality(L)
  BY <1>1, FS_Subset, FS_CardinalityType DEF Lists
<1>3. Cardinality(N) < Cardinality(L)
  <2>1. i \notin N
    BY <1>1, <1>2
  <2>2. Cardinality(L) = Cardinality(N) => L = N
    BY <1>1, <1>2, FS_Subset
  <2> QED
    BY <1>2, <2>1, <2>2
<1>4. ASSUME NEW M \in Lists, L \subseteq M PROVE Cardinality(N) <= NewerIn(M, i)
  <2>1. PICK K : K = {j \in M : j > i}
    OBVIOUS
  <2>2. IsFiniteSet(K) /\ N \in SUBSET K
    BY <1>1, <1>4, <2>1, FS_Subset DEF Lists
  <2> QED
    BY <2>1, <2>2, FS_Subset DEF NewerIn
<1>5. ASSUME NEW j \in L, i < j PROVE NewerIn(L, j) < Cardinality(N)
  <2>1. PICK K : K = {k \in L : k > j}
    OBVIOUS
  <2>2. K \subseteq N /\ j \in N /\ j \notin K
    <3>1. \A k \in L : k > j => k > i
      BY <1>2, <1>5
    <3>2. i \in Nat /\ j \in Nat /\ j > i /\ ~(j > j)
      BY <1>2, <1>5
    <3> QED
      BY <1>1, <2>1, <3>1, <3>2
  <2>3. /\ IsFiniteSet(K) /\ Cardinality(K) \in Nat /\ Cardinality(K) <= Cardinality(N)
        /\ Cardinality(N) = Cardinality(K) => N = K
    BY <1>2, <2>2, FS_Subset, FS_CardinalityType
  <2>4. Cardinality(K) < Cardinality(N)
    BY <1>2, <2>2, <2>3
  <2> QED
    BY <2>1, <2>4 DEF NewerIn
<1> QED
  BY <1>1, <1>2, <1>3, <1>4, <1>5 DEF NewerIn

\* A row that leaves a list takes at most one from those that are newer.
LEMMA OneLess ==
    ASSUME NEW L \in Lists, NEW id, NEW i \in L \ {id}
    PROVE  /\ L \ {id} \in Lists
           /\ NewerIn(L, i) \in Nat /\ NewerIn(L \ {id}, i) \in Nat
           /\ NewerIn(L, i) <= NewerIn(L \ {id}, i) + 1
<1>1. PICK N : N = {j \in L : j > i}
  OBVIOUS
<1>2. {j \in L \ {id} : j > i} = N \ {id}
  BY <1>1
<1>3. L \subseteq Nat /\ IsFiniteSet(L) /\ IsFiniteSet(N)
  BY <1>1, FS_Subset DEF Lists
<1>4. /\ IsFiniteSet(N \ {id}) /\ Cardinality(N) \in Nat /\ Cardinality(N \ {id}) \in Nat
      /\ Cardinality(N) <= Cardinality(N \ {id}) + 1
  <2>1. /\ IsFiniteSet(N \ {id})
        /\ Cardinality(N \ {id}) =
              IF id \in N THEN Cardinality(N) - 1 ELSE Cardinality(N)
    BY <1>3, FS_RemoveElement
  <2>2. Cardinality(N) \in Nat /\ Cardinality(N \ {id}) \in Nat
    BY <1>3, <2>1, FS_CardinalityType
  <2> QED
    BY <2>1, <2>2
<1>5. L \ {id} \in Lists
  BY <1>3, FS_RemoveElement DEF Lists
<1> QED
  BY <1>1, <1>2, <1>4, <1>5 DEF NewerIn

\* What is newer than a row in one list is so in the other, or is not there.
LEMMA OtherList ==
    ASSUME NEW L \in Lists, NEW M \in Lists, NEW i \in L \cap M
    PROVE  /\ NewerIn(L, i) \in Nat /\ NewerIn(M, i) \in Nat /\ Cardinality(M \ L) \in Nat
           /\ NewerIn(M, i) <= NewerIn(L, i) + Cardinality(M \ L)
<1>1. PICK N : N = {j \in L : j > i}
  OBVIOUS
<1>2. PICK K : K = {j \in M : j > i}
  OBVIOUS
<1>3. PICK D : D = M \ L
  OBVIOUS
<1>4. IsFiniteSet(N) /\ IsFiniteSet(K) /\ IsFiniteSet(D)
  BY <1>1, <1>2, <1>3, FS_Subset DEF Lists
<1>5. /\ Cardinality(N) \in Nat /\ Cardinality(K) \in Nat /\ Cardinality(D) \in Nat
      /\ Cardinality(N \cap D) \in Nat
  BY <1>4, FS_CardinalityType, FS_Intersection
<1>6. K \in SUBSET (N \cup D)
  BY <1>1, <1>2, <1>3
<1>7. /\ IsFiniteSet(N \cup D)
      /\ Cardinality(N \cup D) = Cardinality(N) + Cardinality(D) - Cardinality(N \cap D)
  BY <1>4, FS_Union
<1>8. Cardinality(K) <= Cardinality(N \cup D)
  BY <1>6, <1>7, FS_Subset
<1> QED
  BY <1>1, <1>2, <1>3, <1>5, <1>7, <1>8 DEF NewerIn

\* Another row that has left a list.
LEMMA OneMoreGone ==
    ASSUME NEW S \in Lists, NEW L, NEW id
    PROVE  /\ Cardinality(S \ L) \in Nat /\ Cardinality(S \ (L \ {id})) \in Nat
           /\ Cardinality(S \ (L \ {id})) <= Cardinality(S \ L) + 1
<1>1. PICK D : D = S \ L
  OBVIOUS
<1>2. IsFiniteSet(D) /\ Cardinality(D) \in Nat
  BY <1>1, FS_Subset, FS_CardinalityType DEF Lists
<1>3. /\ IsFiniteSet(D \cup {id}) /\ Cardinality(D \cup {id}) \in Nat
      /\ Cardinality(D \cup {id}) <= Cardinality(D) + 1
  <2>1. /\ IsFiniteSet(D \cup {id})
        /\ Cardinality(D \cup {id}) =
              IF id \in D THEN Cardinality(D) ELSE Cardinality(D) + 1
    BY <1>2, FS_AddElement
  <2>2. Cardinality(D \cup {id}) \in Nat
    BY <2>1, FS_CardinalityType
  <2> QED
    BY <1>2, <2>1, <2>2
<1>4. S \ (L \ {id}) \in SUBSET (D \cup {id})
  BY <1>1
<1>5. /\ IsFiniteSet(S \ (L \ {id})) /\ Cardinality(S \ (L \ {id})) \in Nat
      /\ Cardinality(S \ (L \ {id})) <= Cardinality(D \cup {id})
  BY <1>3, <1>4, FS_Subset, FS_CardinalityType
<1> QED
  BY <1>1, <1>2, <1>3, <1>5

-----------------------------------------------------------------------------
(* NotificationInbox: the inductive invariant *)

Reader ==
    [user : Owners \cup {Undecided}, size : Nat \ {0}, page : Nat,
     rows : {Undecided} \cup SUBSET Nat, total : Nat \cup {Undecided},
     start : Lists, seen : SUBSET Nat, gone : Nat]

\* None of the rows S has so many newer ones at the start that no page could show it.
NoneOlder(r, S) == \A i \in r.start \cap S : NewerIn(r.start, i) < Shown + r.gone

\* A row of the start that is in the list L and not in S is not among its newest.
NoneOmitted(r, L, S) ==
    \A i \in (r.start \cap L) \ S : NewerIn(L, i) + r.gone >= Shown

\* The rows that have left the list L are counted; what the client r has seen, and what it
\* has just read, is what the first page shows.
WalkFits(r, L) ==
    /\ Cardinality(r.start \ L) <= r.gone
    /\ NoneOlder(r, r.seen)
    /\ r.page # 1 => NoneOmitted(r, L, r.seen)
    /\ r.rows # Undecided => NoneOlder(r, r.rows) /\ NoneOmitted(r, L, r.rows)

\* A row has its four columns.
IsRow(e) ==
    e = [user |-> e.user, channel |-> e.channel, isRead |-> e.isRead, deleted |-> e.deleted]

InboxInductive ==
    /\ inbox \in Seq(ToSet(inbox)) /\ \A i \in DOMAIN inbox : IsRow(inbox[i])
    /\ reader \in Reader /\ reader.start \subseteq DOMAIN inbox
    /\ WalkFits(reader, Listed(reader.user))

\* The list of u among the rows b.
ListIn(b, u) == {i \in DOMAIN b : b[i].user = u /\ ~b[i].deleted /\ b[i].channel = "in_app"}

LEMMA ListedIs ==
    ASSUME InboxInductive
    PROVE  /\ \A u : Listed(u) = ListIn(inbox, u)
           /\ \A u : ListIn(inbox, u) \in Lists
           /\ Len(inbox) \in Nat /\ DOMAIN inbox = 1 .. Len(inbox)
           /\ reader \in Reader
<1>1. Len(inbox) \in Nat /\ DOMAIN inbox = 1 .. Len(inbox)
  BY LenProperties DEF InboxInductive
<1>2. ASSUME NEW u PROVE ListIn(inbox, u) \in Lists
  <2>1. ListIn(inbox, u) \subseteq 1 .. Len(inbox)
    BY <1>1 DEF ListIn
  <2>2. IsFiniteSet(1 .. Len(inbox))
    BY <1>1, FS_Interval
  <2> QED
    BY <1>1, <2>1, <2>2, FS_Subset DEF Lists
<1>3. ASSUME NEW u PROVE Listed(u) = ListIn(inbox, u)
  BY DEF Listed, Owned, ListIn
<1> QED
  BY <1>1, <1>2, <1>3 DEF InboxInductive

\* A sequence is one of its own elements.
LEMMA SeqOfItself ==
    ASSUME NEW S, NEW s \in Seq(S)
    PROVE  s \in Seq(ToSet(s))
<1>1. Len(s) \in Nat /\ DOMAIN s = 1 .. Len(s) /\ s \in [1 .. Len(s) -> S]
  BY LenProperties
<1>2. s \in [1 .. Len(s) -> ToSet(s)]
  BY <1>1 DEF ToSet
<1> QED
  BY <1>1, <1>2

\* One row of the inbox changes.
LEMMA RowChanges ==
    ASSUME InboxInductive, NEW i \in DOMAIN inbox, NEW e, IsRow(e),
           inbox' = [inbox EXCEPT ![i] = e]
    PROVE  /\ inbox' \in Seq(ToSet(inbox')) /\ \A j \in DOMAIN inbox' : IsRow(inbox'[j])
           /\ DOMAIN inbox' = DOMAIN inbox /\ inbox'[i] = e
           /\ \A j \in DOMAIN inbox : j # i => inbox'[j] = inbox[j]
<1>1. /\ Len(inbox) \in Nat /\ DOMAIN inbox = 1 .. Len(inbox)
      /\ inbox \in [1 .. Len(inbox) -> ToSet(inbox)]
  BY LenProperties DEF InboxInductive
<1>2. /\ DOMAIN inbox' = 1 .. Len(inbox) /\ inbox'[i] = e
      /\ \A j \in DOMAIN inbox : j # i => inbox'[j] = inbox[j]
  BY <1>1
<1>3. inbox' \in Seq(ToSet(inbox) \cup {e})
  BY <1>1, ExceptSeq DEF InboxInductive
<1>4. inbox' \in Seq(ToSet(inbox'))
  BY <1>3, SeqOfItself
<1> QED
  BY <1>1, <1>2, <1>4 DEF InboxInductive

\* A step that leaves every list as it is, and the client.
LEMMA ListsStand ==
    ASSUME InboxInductive, inbox' \in Seq(ToSet(inbox')), DOMAIN inbox' = DOMAIN inbox,
           \A j \in DOMAIN inbox' : IsRow(inbox'[j]),
           \A j \in DOMAIN inbox : /\ inbox'[j].user = inbox[j].user
                                   /\ inbox'[j].channel = inbox[j].channel
                                   /\ inbox'[j].deleted = inbox[j].deleted,
           UNCHANGED reader
    PROVE  InboxInductive'
<1>1. \A u : Listed(u)' = Listed(u)
  BY DEF Listed, Owned
<1>2. WalkFits(reader, Listed(reader.user)')
  BY <1>1 DEF InboxInductive
<1> QED
  BY <1>2 DEF InboxInductive

LEMMA AskSteps ==
    ASSUME InboxInductive, UNCHANGED <<inbox, reader>>
    PROVE  InboxInductive'
BY ListsStand DEF InboxInductive

LEMMA MarkAsReadStep ==
    ASSUME InboxInductive, NEW k, MarkAsRead(k)
    PROVE  InboxInductive'
<1>1. UNCHANGED reader
  BY DEF MarkAsRead
<1>2. CASE task[k].id \in Owned(task[k].user)
  <2>1. PICK i \in DOMAIN inbox : i = task[k].id
    BY <1>2 DEF Owned
  <2>2. PICK e : e = [inbox[i] EXCEPT !.isRead = TRUE]
    OBVIOUS
  <2>3. inbox' = [inbox EXCEPT ![i] = e]
    BY <1>2, <2>1, <2>2 DEF MarkAsRead
  <2>4. IsRow(inbox[i])
    BY DEF InboxInductive
  <2>5. /\ IsRow(e) /\ e.user = inbox[i].user /\ e.channel = inbox[i].channel
        /\ e.deleted = inbox[i].deleted
    BY <2>2, <2>4 DEF IsRow
  <2>6. /\ inbox' \in Seq(ToSet(inbox')) /\ \A j \in DOMAIN inbox' : IsRow(inbox'[j])
        /\ DOMAIN inbox' = DOMAIN inbox /\ inbox'[i] = e
        /\ \A j \in DOMAIN inbox : j # i => inbox'[j] = inbox[j]
    BY <2>3, <2>5, RowChanges
  <2>7. \A j \in DOMAIN inbox : /\ inbox'[j].user = inbox[j].user
                                /\ inbox'[j].channel = inbox[j].channel
                                /\ inbox'[j].deleted = inbox[j].deleted
    BY <2>5, <2>6
  <2> QED
    BY <1>1, <2>6, <2>7, ListsStand
<1>3. CASE task[k].id \notin Owned(task[k].user)
  <2>1. UNCHANGED inbox
    BY <1>3 DEF MarkAsRead
  <2> QED
    BY <1>1, <2>1, AskSteps
<1> QED
  BY <1>2, <1>3

LEMMA MarkAllAsReadStep ==
    ASSUME InboxInductive, NEW u, MarkAllAsRead(u)
    PROVE  InboxInductive'
<1>1. /\ UNCHANGED reader
      /\ inbox' = [i \in DOMAIN inbox |->
                      IF i \in Owned(u) THEN [inbox[i] EXCEPT !.isRead = TRUE] ELSE inbox[i]]
  BY DEF MarkAllAsRead
<1>2. Len(inbox) \in Nat /\ DOMAIN inbox = 1 .. Len(inbox)
  BY ListedIs
<1>3. DOMAIN inbox' = 1 .. Len(inbox)
  BY <1>1, <1>2
<1>4. ASSUME NEW j \in DOMAIN inbox
      PROVE  /\ IsRow(inbox'[j]) /\ inbox'[j].user = inbox[j].user
             /\ inbox'[j].channel = inbox[j].channel /\ inbox'[j].deleted = inbox[j].deleted
  <2>1. IsRow(inbox[j])
    BY DEF InboxInductive
  <2>2. inbox'[j] \in {inbox[j], [inbox[j] EXCEPT !.isRead = TRUE]}
    BY <1>1
  <2> QED
    BY <2>1, <2>2 DEF IsRow
<1>5. inbox' \in Seq(ToSet(inbox'))
  <2>1. \A j \in 1 .. Len(inbox) : inbox'[j] \in ToSet(inbox')
    BY <1>3 DEF ToSet
  <2>2. inbox' = [j \in 1 .. Len(inbox) |-> inbox'[j]]
    BY <1>1, <1>2
  <2>3. inbox' \in [1 .. Len(inbox) -> ToSet(inbox')]
    BY <2>1, <2>2
  <2> QED
    BY <1>2, <2>3
<1> QED
  BY <1>1, <1>2, <1>3, <1>4, <1>5, ListsStand

\* A list grows by rows that were not there when the walk began.
LEMMA MoreRows ==
    ASSUME NEW r \in Reader, NEW L \in Lists, NEW M \in Lists, L \subseteq M,
           r.start \cap M \subseteq L, WalkFits(r, L)
    PROVE  WalkFits(r, M)
<1>1. r.gone \in Nat /\ r.start \in Lists /\ Shown \in Nat
  BY NotificationInboxAssumption DEF Reader
<1>2. r.start \ M = r.start \ L
  OBVIOUS
<1>3. ASSUME NEW S, NoneOmitted(r, L, S) PROVE NoneOmitted(r, M, S)
  <2> SUFFICES ASSUME NEW i \in (r.start \cap M) \ S PROVE NewerIn(M, i) + r.gone >= Shown
    BY DEF NoneOmitted
  <2>1. i \in (r.start \cap L) \ S
    OBVIOUS
  <2>2. NewerIn(L, i) + r.gone >= Shown
    BY <1>3, <2>1 DEF NoneOmitted
  <2>3. NewerIn(L, i) \in Nat /\ NewerIn(M, i) \in Nat /\ NewerIn(L, i) <= NewerIn(M, i)
    BY <2>1, NewerRows
  <2> QED
    BY <1>1, <2>2, <2>3
<1> QED
  BY <1>2, <1>3 DEF WalkFits

LEMMA CreateNextStep ==
    ASSUME InboxInductive, NEW k, CreateNext(k)
    PROVE  InboxInductive'
<1>1. CASE UNCHANGED <<inbox, reader>>
  BY <1>1, AskSteps
<1>2. CASE ~UNCHANGED <<inbox, reader>>
  <2>1. PICK e : e = Entry(task[k].user, Head(task[k].todo))
    OBVIOUS
  <2>2. inbox' = Append(inbox, e) /\ reader' = reader
    BY <1>2, <2>1 DEF CreateNext
  <2>3. /\ e.user = task[k].user /\ e.channel = Head(task[k].todo) /\ IsRow(e)
    BY <2>1 DEF Entry, IsRow
  <2>4. /\ Len(inbox) \in Nat /\ DOMAIN inbox = 1 .. Len(inbox) /\ reader \in Reader
    BY ListedIs
  <2>5. /\ inbox' \in Seq(ToSet(inbox')) /\ DOMAIN inbox' = 1 .. Len(inbox) + 1
        /\ \A j \in 1 .. Len(inbox) : inbox'[j] = inbox[j]
        /\ inbox'[Len(inbox) + 1] = e
    <3>1. PICK S : S = ToSet(inbox) \cup {e}
      OBVIOUS
    <3>2. inbox \in Seq(S) /\ e \in S
      <4>1. inbox \in [1 .. Len(inbox) -> ToSet(inbox)]
        BY LenProperties DEF InboxInductive
      <4>2. inbox \in [1 .. Len(inbox) -> S]
        BY <3>1, <4>1
      <4> QED
        BY <2>4, <3>1, <4>2
    <3>3. /\ inbox' \in Seq(S) /\ Len(inbox') = Len(inbox) + 1
          /\ \A j \in 1 .. Len(inbox) : inbox'[j] = inbox[j]
          /\ inbox'[Len(inbox) + 1] = e
      BY <2>2, <3>2, AppendProperties
    <3>4. inbox' \in Seq(ToSet(inbox')) /\ DOMAIN inbox' = 1 .. Len(inbox')
      BY <3>3, SeqOfItself, LenProperties
    <3> QED
      BY <3>3, <3>4
  <2>6. \A j \in DOMAIN inbox' : IsRow(inbox'[j])
    <3>1. \A j \in 1 .. Len(inbox) : IsRow(inbox'[j])
      BY <2>4, <2>5 DEF InboxInductive
    <3>2. \A j \in 1 .. Len(inbox) + 1 : j \in 1 .. Len(inbox) \/ j = Len(inbox) + 1
      BY <2>4
    <3> QED
      BY <2>3, <2>5, <3>1, <3>2
  <2>7. PICK r \in Reader : r = reader
    BY <2>4
  <2>8. PICK L \in Lists : L = ListIn(inbox, r.user)
    BY ListedIs
  <2>9. PICK M : M = ListIn(inbox', r.user)
    OBVIOUS
  <2>10. /\ r.start \subseteq DOMAIN inbox /\ WalkFits(r, L)
    BY <2>7, <2>8, ListedIs DEF InboxInductive
  <2>11. L \subseteq M /\ M \subseteq 1 .. Len(inbox) + 1
    BY <2>4, <2>5, <2>8, <2>9 DEF ListIn
  <2>12. M \in Lists
    <3>1. IsFiniteSet(1 .. Len(inbox) + 1)
      BY <2>4, FS_Interval
    <3>2. 1 .. Len(inbox) + 1 \subseteq Nat
      BY <2>4
    <3>3. IsFiniteSet(M)
      BY <2>11, <3>1, FS_Subset
    <3> QED
      BY <2>11, <3>2, <3>3 DEF Lists
  <2>13. r.start \cap M \subseteq L
    BY <2>4, <2>5, <2>8, <2>9, <2>10 DEF ListIn
  <2>14. WalkFits(r, M)
    BY <2>7, <2>10, <2>11, <2>12, <2>13, MoreRows
  <2>15. Listed(reader.user)' = M
    BY <2>2, <2>7, <2>9 DEF Listed, Owned, ListIn
  <2>16. r.start \subseteq DOMAIN inbox'
    BY <2>4, <2>5, <2>10
  <2> QED
    BY <2>2, <2>4, <2>5, <2>6, <2>7, <2>14, <2>15, <2>16 DEF InboxInductive
<1> QED
  BY <1>1, <1>2

\* A row leaves the list of the client, and is counted.
LEMMA RowLeaves ==
    ASSUME NEW r \in Reader, NEW L \in Lists, WalkFits(r, L), NEW id,
           NEW s \in Reader, s = [r EXCEPT !.gone = @ + 1]
    PROVE  WalkFits(s, L \ {id})
<1>1. /\ r.gone \in Nat /\ r.start \in Lists /\ Shown \in Nat
      /\ s.gone = r.gone + 1 /\ s.start = r.start /\ s.seen = r.seen /\ s.rows = r.rows
      /\ s.page = r.page
  BY NotificationInboxAssumption DEF Reader
<1>2. Cardinality(s.start \ (L \ {id})) <= s.gone
  <2>1. Cardinality(r.start \ L) <= r.gone
    BY DEF WalkFits
  <2>2. /\ Cardinality(r.start \ L) \in Nat /\ Cardinality(r.start \ (L \ {id})) \in Nat
        /\ Cardinality(r.start \ (L \ {id})) <= Cardinality(r.start \ L) + 1
    BY <1>1, OneMoreGone
  <2> QED
    BY <1>1, <2>1, <2>2
<1>3. ASSUME NEW S, NoneOlder(r, S) PROVE NoneOlder(s, S)
  <2> SUFFICES ASSUME NEW i \in r.start \cap S PROVE NewerIn(r.start, i) < Shown + r.gone + 1
    BY <1>1 DEF NoneOlder
  <2>1. NewerIn(r.start, i) < Shown + r.gone
    BY <1>3 DEF NoneOlder
  <2>2. NewerIn(r.start, i) \in Nat
    BY <1>1, NewerRows
  <2> QED
    BY <1>1, <2>1, <2>2
<1>4. ASSUME NEW S, NoneOmitted(r, L, S) PROVE NoneOmitted(s, L \ {id}, S)
  <2> SUFFICES ASSUME NEW i \in (r.start \cap (L \ {id})) \ S
               PROVE  NewerIn(L \ {id}, i) + (r.gone + 1) >= Shown
    BY <1>1 DEF NoneOmitted
  <2>1. NewerIn(L, i) + r.gone >= Shown
    BY <1>4 DEF NoneOmitted
  <2>2. /\ NewerIn(L, i) \in Nat /\ NewerIn(L \ {id}, i) \in Nat
        /\ NewerIn(L, i) <= NewerIn(L \ {id}, i) + 1
    BY OneLess
  <2> QED
    BY <1>1, <2>1, <2>2
<1> QED
  BY <1>1, <1>2, <1>3, <1>4 DEF WalkFits

LEMMA DeleteStep ==
    ASSUME InboxInductive, NEW k, DeleteRow(k)
    PROVE  InboxInductive'
<1> DEFINE id == task[k].id
           hit == id \in Owned(task[k].user)
<1>1. /\ reader' = IF hit /\ id \in Listed(reader.user)
                   THEN [reader EXCEPT !.gone = @ + 1] ELSE reader
      /\ inbox' = IF hit THEN [inbox EXCEPT ![id] = [inbox[id] EXCEPT !.deleted = TRUE]]
                  ELSE inbox
  BY DEF DeleteRow
<1>2. PICK r \in Reader : r = reader
  BY DEF InboxInductive
<1>3. PICK L \in Lists : L = ListIn(inbox, r.user)
  BY ListedIs
<1>4. /\ Listed(reader.user) = L /\ WalkFits(r, L) /\ r.start \subseteq DOMAIN inbox
  BY <1>2, <1>3, ListedIs DEF InboxInductive
<1>5. CASE ~hit
  BY <1>1, <1>5, AskSteps
<1>6. CASE hit
  <2>1. PICK i \in DOMAIN inbox : i = id
    BY <1>6 DEF Owned
  <2>2. PICK e : e = [inbox[i] EXCEPT !.deleted = TRUE]
    OBVIOUS
  <2>3. inbox' = [inbox EXCEPT ![i] = e]
    BY <1>1, <1>6, <2>1, <2>2
  <2>4. IsRow(inbox[i])
    BY DEF InboxInductive
  <2>5. IsRow(e) /\ e.deleted = TRUE
    BY <2>2, <2>4 DEF IsRow
  <2>6. /\ inbox' \in Seq(ToSet(inbox')) /\ \A j \in DOMAIN inbox' : IsRow(inbox'[j])
        /\ DOMAIN inbox' = DOMAIN inbox /\ inbox'[i] = e
        /\ \A j \in DOMAIN inbox : j # i => inbox'[j] = inbox[j]
    BY <2>3, <2>5, RowChanges
  <2>7. /\ reader' \in Reader /\ reader'.user = r.user /\ reader'.start = r.start
        /\ id \in L => reader' = [r EXCEPT !.gone = @ + 1]
        /\ id \notin L => reader' = r
    <3>1. r.gone + 1 \in Nat
      BY DEF Reader
    <3> QED
      BY <1>1, <1>2, <1>4, <1>6, <3>1 DEF Reader
  <2>8. ListIn(inbox', r.user) = L \ {id}
    BY <1>3, <2>1, <2>5, <2>6 DEF ListIn
  <2>9. Listed(reader.user)' = L \ {id}
    BY <2>7, <2>8 DEF Listed, Owned, ListIn
  <2>10. WalkFits(reader', L \ {id})
    <3>1. CASE id \in L
      BY <1>4, <2>7, <3>1, RowLeaves
    <3>2. CASE id \notin L
      <4>1. L \ {id} = L
        BY <3>2
      <4> QED
        BY <1>4, <2>7, <3>2, <4>1
    <3> QED
      BY <3>1, <3>2
  <2> QED
    BY <1>4, <2>6, <2>7, <2>9, <2>10 DEF InboxInductive
<1> QED
  BY <1>5, <1>6

-----------------------------------------------------------------------------
(* NotificationInbox: the client *)

\* The client moves, and the rows stand.
LEMMA ClientMoves ==
    ASSUME InboxInductive, UNCHANGED inbox, reader' \in Reader,
           reader'.start \subseteq DOMAIN inbox,
           WalkFits(reader', ListIn(inbox, reader'.user))
    PROVE  InboxInductive'
<1>1. Listed(reader.user)' = ListIn(inbox, reader'.user)
  BY DEF Listed, Owned, ListIn
<1> QED
  BY <1>1 DEF InboxInductive

\* A client that has seen nothing.
LEMMA FreshWalk ==
    ASSUME NEW u \in Owners \cup {Undecided}, NEW size \in Nat \ {0}, NEW page \in {0, 1},
           NEW start \in Lists, NEW L, start \subseteq L, page = 0 => start = {}
    PROVE  /\ Walk(u, size, page, start) \in Reader /\ WalkFits(Walk(u, size, page, start), L)
           /\ Walk(u, size, page, start).start = start /\ Walk(u, size, page, start).user = u
<1>1. PICK r : r = Walk(u, size, page, start)
  OBVIOUS
<1>2. r = [user |-> u, size |-> size, page |-> page, rows |-> Undecided,
           total |-> Undecided, start |-> start, seen |-> {}, gone |-> 0]
  BY <1>1 DEF Walk
<1>3. /\ {} \in SUBSET Nat /\ Undecided \in {Undecided} \cup SUBSET Nat
      /\ Undecided \in Nat \cup {Undecided} /\ 0 \in Nat /\ page \in Nat
  OBVIOUS
<1>4. r \in Reader
  BY <1>2, <1>3 DEF Reader
<1>5. Cardinality(start \ L) = 0
  <2>1. start \ L = {}
    OBVIOUS
  <2> QED
    BY <2>1, FS_EmptySet
<1>6. WalkFits(r, L)
  BY <1>2, <1>5 DEF WalkFits, NoneOlder, NoneOmitted
<1> QED
  BY <1>1, <1>2, <1>4, <1>6

LEMMA StartWalkStep ==
    ASSUME InboxInductive, NEW u \in Owners, NEW size \in PageSizes, StartWalk(u, size)
    PROVE  InboxInductive'
<1>1. reader' = Walk(u, size, 1, Listed(u)) /\ UNCHANGED inbox
  BY DEF StartWalk
<1>2. size \in Nat \ {0} /\ u \in Owners \cup {Undecided} /\ 1 \in {0, 1}
  BY NotificationInboxAssumption
<1>3. PICK L \in Lists : L = ListIn(inbox, u)
  BY ListedIs
<1>4. Listed(u) = L /\ L \subseteq DOMAIN inbox
  BY <1>3, ListedIs DEF ListIn
<1>5. /\ reader' \in Reader /\ WalkFits(reader', L) /\ reader'.start = L
      /\ reader'.user = u
  BY <1>1, <1>2, <1>4, FreshWalk
<1> QED
  BY <1>1, <1>3, <1>4, <1>5, ClientMoves

\* Neither `take` nor `skip` is among the options that the handler hands on.
LEMMA FirstPage ==
    ASSUME NEW u, NEW page, NEW size
    PROVE  FindByUserId(u, SqlPagination(page, size)) =
               {i \in Listed(u) : NewerIn(Listed(u), i) \in 0 .. Shown - 1}
<1>1. PICK options : options = SqlPagination(page, size)
  OBVIOUS
<1>2. DOMAIN options = {"limit", "offset"}
  BY <1>1 DEF SqlPagination
<1>3. Option(options, "skip", 0) = 0 /\ Option(options, "take", Shown) = Shown
  BY <1>2 DEF Option
<1>4. 0 + Shown - 1 = Shown - 1
  BY NotificationInboxAssumption
<1> QED
  BY <1>1, <1>3, <1>4 DEF FindByUserId, Newer, NewerIn

LEMMA ReadRowsStep ==
    ASSUME InboxInductive, ReadRows
    PROVE  InboxInductive'
<1>1. PICK r \in Reader : r = reader
  BY DEF InboxInductive
<1>2. PICK L \in Lists : L = ListIn(inbox, r.user)
  BY ListedIs
<1>3. /\ Listed(r.user) = L /\ L \subseteq Nat /\ WalkFits(r, L)
      /\ r.start \subseteq DOMAIN inbox
  BY <1>1, <1>2, ListedIs DEF Lists, InboxInductive
<1>4. PICK P : P = {i \in L : NewerIn(L, i) \in 0 .. Shown - 1}
  OBVIOUS
<1>5. reader' = [r EXCEPT !.rows = P] /\ UNCHANGED inbox
  BY <1>1, <1>3, <1>4, FirstPage DEF ReadRows
<1>6. /\ reader' \in Reader /\ reader'.rows = P /\ reader'.user = r.user
      /\ reader'.page = r.page /\ reader'.start = r.start /\ reader'.seen = r.seen
      /\ reader'.gone = r.gone
  BY <1>3, <1>4, <1>5 DEF Reader
<1>7. r.gone \in Nat /\ r.start \in Lists /\ Shown \in Nat
  BY NotificationInboxAssumption DEF Reader
<1>8. ASSUME NEW i \in r.start \cap P PROVE NewerIn(r.start, i) < Shown + r.gone
  <2>1. i \in L /\ NewerIn(L, i) \in Nat /\ NewerIn(L, i) < Shown
    BY <1>4, <1>7
  <2>2. /\ NewerIn(r.start, i) \in Nat /\ Cardinality(r.start \ L) \in Nat
        /\ NewerIn(r.start, i) <= NewerIn(L, i) + Cardinality(r.start \ L)
    BY <1>7, <2>1, OtherList
  <2>3. Cardinality(r.start \ L) <= r.gone
    BY <1>3 DEF WalkFits
  <2> QED
    BY <1>7, <2>1, <2>2, <2>3
<1>9. ASSUME NEW i \in (r.start \cap L) \ P PROVE NewerIn(L, i) + r.gone >= Shown
  <2>1. NewerIn(L, i) \in Nat /\ NewerIn(L, i) \notin 0 .. Shown - 1
    BY <1>4, NewerRows
  <2> QED
    BY <1>7, <2>1
<1>10. WalkFits(reader', L)
  BY <1>3, <1>6, <1>8, <1>9 DEF WalkFits, NoneOlder, NoneOmitted
<1> QED
  BY <1>2, <1>3, <1>5, <1>6, <1>10, ClientMoves

LEMMA ReadTotalStep ==
    ASSUME InboxInductive, ReadTotal
    PROVE  InboxInductive'
<1>1. PICK r \in Reader : r = reader
  BY DEF InboxInductive
<1>2. PICK L \in Lists : L = ListIn(inbox, r.user)
  BY ListedIs
<1>3. /\ Listed(r.user) = L /\ WalkFits(r, L) /\ Cardinality(L) \in Nat
      /\ r.start \subseteq DOMAIN inbox
  BY <1>1, <1>2, ListedIs, FS_CardinalityType DEF Lists, InboxInductive
<1>4. reader' = [r EXCEPT !.total = Cardinality(L)] /\ UNCHANGED inbox
  BY <1>1, <1>3 DEF ReadTotal
<1>5. /\ reader' \in Reader /\ reader'.rows = r.rows /\ reader'.user = r.user
      /\ reader'.page = r.page /\ reader'.start = r.start /\ reader'.seen = r.seen
      /\ reader'.gone = r.gone
  BY <1>3, <1>4 DEF Reader
<1>6. WalkFits(reader', L)
  BY <1>3, <1>5 DEF WalkFits, NoneOlder, NoneOmitted
<1> QED
  BY <1>2, <1>3, <1>4, <1>5, <1>6, ClientMoves

LEMMA AnswerListStep ==
    ASSUME InboxInductive, AnswerList
    PROVE  InboxInductive'
<1>1. PICK r \in Reader : r = reader
  BY DEF InboxInductive
<1>2. PICK L \in Lists : L = ListIn(inbox, r.user)
  BY ListedIs
<1>3. /\ WalkFits(r, L) /\ r.start \subseteq DOMAIN inbox
      /\ r.page > 0 /\ r.rows # Undecided /\ UNCHANGED inbox
  BY <1>1, <1>2, ListedIs DEF InboxInductive, AnswerList, Walking
<1>4. PICK page \in {0} \cup {p \in {r.page + 1} : p <= Pages(r.total, r.size)} :
          reader' = [r EXCEPT !.page = page, !.rows = Undecided, !.total = Undecided,
                              !.seen = @ \cup r.rows]
  BY <1>1 DEF AnswerList
<1>5. /\ r.page \in Nat /\ r.rows \in SUBSET Nat /\ r.seen \in SUBSET Nat
  BY <1>3 DEF Reader
<1>6. page \in Nat /\ page # 1
  BY <1>3, <1>5
<1>7. /\ reader' \in Reader /\ reader'.rows = Undecided /\ reader'.user = r.user
      /\ reader'.page = page /\ reader'.start = r.start
      /\ reader'.seen = r.seen \cup r.rows /\ reader'.gone = r.gone
  <2>1. /\ Undecided \in {Undecided} \cup SUBSET Nat /\ Undecided \in Nat \cup {Undecided}
        /\ r.seen \cup r.rows \in SUBSET Nat
    BY <1>5
  <2> QED
    BY <1>4, <1>6, <2>1 DEF Reader
<1>8. WalkFits(reader', L)
  BY <1>3, <1>6, <1>7 DEF WalkFits, NoneOlder, NoneOmitted
<1> QED
  BY <1>2, <1>3, <1>7, <1>8, ClientMoves

\* What a client that walks through its list has seen and what it lacks, whatever requests
\* add, mark and delete between two pages or two reads of one (NotificationRepository,
\* toSqlPagination).
THEOREM InboxInvariance == InboxSpec => []InboxInductive
<1>1. InboxInit => InboxInductive
  <2> SUFFICES ASSUME InboxInit PROVE InboxInductive
    OBVIOUS
  <2>1. inbox \in Seq(ToSet(inbox)) /\ DOMAIN inbox = {}
    <3>1. inbox = <<>>
      BY DEF InboxInit
    <3>2. <<>> \in Seq({})
      OBVIOUS
    <3> QED
      BY <3>1, <3>2, SeqOfItself
  <2>2. reader = Walk(Undecided, 1, 0, {})
    BY DEF InboxInit, NoWalk
  <2>3. /\ Undecided \in Owners \cup {Undecided} /\ 1 \in Nat \ {0} /\ 0 \in {0, 1}
        /\ {} \in Lists /\ {} \subseteq Listed(Undecided)
    BY FS_EmptySet DEF Lists
  <2>4. /\ Walk(Undecided, 1, 0, {}) \in Reader
        /\ WalkFits(Walk(Undecided, 1, 0, {}), Listed(Undecided))
        /\ Walk(Undecided, 1, 0, {}).start = {} /\ Walk(Undecided, 1, 0, {}).user = Undecided
    BY <2>3, FreshWalk
  <2> QED
    BY <2>1, <2>2, <2>4 DEF InboxInductive
<1>2. InboxInductive /\ [InboxNext]_inboxVars => InboxInductive'
  <2> SUFFICES ASSUME InboxInductive, [InboxNext]_inboxVars PROVE InboxInductive'
    OBVIOUS
  <2>1. ASSUME NEW u \in Owners, NEW asked, AskCreate(u, asked) PROVE InboxInductive'
    BY <2>1, AskSteps DEF AskCreate
  <2>2. ASSUME NEW u \in Owners, NEW i, NEW op, Find(op, u, i) PROVE InboxInductive'
    BY <2>2, AskSteps DEF Find
  <2>3. ASSUME NEW k, CreateNext(k) \/ MarkAsRead(k) \/ DeleteRow(k) PROVE InboxInductive'
    BY <2>3, CreateNextStep, MarkAsReadStep, DeleteStep
  <2>4. ASSUME NEW u \in Owners, MarkAllAsRead(u) PROVE InboxInductive'
    BY <2>4, MarkAllAsReadStep
  <2>5. ASSUME NEW u \in Owners, NEW size \in PageSizes, StartWalk(u, size)
        PROVE  InboxInductive'
    BY <2>5, StartWalkStep
  <2>6. ASSUME ReadRows \/ ReadTotal \/ AnswerList PROVE InboxInductive'
    BY <2>6, ReadRowsStep, ReadTotalStep, AnswerListStep
  <2>7. ASSUME UNCHANGED inboxVars PROVE InboxInductive'
    BY <2>7, AskSteps DEF inboxVars
  <2> QED
    BY <2>1, <2>2, <2>3, <2>4, <2>5, <2>6, <2>7 DEF InboxNext
<1> QED
  BY <1>1, <1>2, PTL DEF InboxSpec

\* Whatever the default limit and the size of the pages: a walk shows the newest rows of the
\* start, and, but for as many as were deleted meanwhile, no other: PagesShowTheNewest.
THEOREM WalksShowTheNewest == InboxSpec => []PagesShowTheNewest
<1>1. InboxInductive => PagesShowTheNewest
  <2> SUFFICES ASSUME InboxInductive PROVE PagesShowTheNewest
    OBVIOUS
  <2>1. WalkFits(reader, Listed(reader.user))
    BY DEF InboxInductive
  <2> QED
    BY <2>1 DEF PagesShowTheNewest, WalkFits, NoneOlder, NoneOmitted, NewerIn, Newer
<1>2. InboxSpec => []InboxInductive
  BY InboxInvariance
<1> QED
  BY <1>1, <1>2, PTL
=============================================================================
