------------------------------- MODULE MailProofs -------------------------------
(***************************************************************************)
(* Proofs about MailDelivery, for any number of mails, jobs, workers and   *)
(* calls of RetryFailedMails at the same time, any bound on the attempts   *)
(* and any number of crashes, lost locks and lost answers; and about       *)
(* MailComposition, for any number of starts, requests, workers, mails and *)
(* templates, and any number of edits.                                     *)
(***************************************************************************)
EXTENDS MailDelivery, MailComposition, FiniteSetTheorems, SequenceTheorems, TLAPS

USE MailDeliveryAssumption

-----------------------------------------------------------------------------
(* The inductive invariant *)

\* A job that has been added has its mail, and a worker that is not idle such a job.
WorkersFit ==
    /\ \A j \in Jobs : job[j].state # "unused" => job[j].mail # None
    /\ \A w \in Workers :
          /\ worker[w].step = "idle" => worker[w] = Idle
          /\ worker[w].step # "idle" => /\ worker[w].job # None
                                        /\ job[worker[w].job].state # "unused"

\* A worker that has the lock of a job is the only one, and the job is active.
LocksFit ==
    /\ \A w \in Workers : worker[w].lock =>
          /\ worker[w].step # "idle"
          /\ job[worker[w].job].state = "active"
    /\ \A v, w \in Workers :
          worker[v].lock /\ worker[w].lock /\ worker[v].job = worker[w].job => v = w

\* A worker that is about to mark a mail SENT has seen the server accept it.
MarkedIsAccepted ==
    \A w \in Workers : worker[w].step = "mark" => accepted[MailOf(w)] >= 1

\* What carries a PENDING mail is not a job that is about to end.
Carries(j, m) ==
    /\ job[j].mail = m /\ job[j].state \in {"queued", "active"}
    /\ \A w \in Workers : worker[w].lock /\ worker[w].job = j => worker[w].step # "end"
StaysCarried ==
    \A m \in Mails : row[m].status = "pending" =>
        \/ m \in producing \cup dropped
        \/ \E r \in Retriers : retrier[r].adding = m
        \/ \E j \in Jobs : Carries(j, m)

\* The chances of a mail to be handed to the server: each is one place that may lead to
\* one more try.
Adders(m) == {r \in Retriers : retrier[r].adding = m}
Retrying(m) == CanRetry(m) \/ \E r \in Retriers : m \in retrier[r].todo
Queued(m) == {j \in Jobs : job[j].state = "queued" /\ job[j].mail = m}
Trying(m) == {w \in Workers : worker[w].step \in {"send", "catch", "fail"} /\ MailOf(w) = m}
One(P) == IF P THEN 1 ELSE 0
Chances(m) ==
    One(row[m].status = "absent") + One(m \in producing) + One(Retrying(m))
        + Cardinality(Adders(m)) + Cardinality(Queued(m)) + Cardinality(Trying(m))

\* A mail has one chance, and one for each mishap; every time the server takes it, and every
\* failure beyond MaxAttempts, uses one up.
Failing(w, m) == worker[w].step = "fail" /\ MailOf(w) = m
Counted(m) ==
    /\ accepted[m] + Chances(m) <= 1 + mishaps[m]
    /\ row[m].attempts + Chances(m) <= MaxAttempts + mishaps[m]
    /\ \A w \in Workers : Failing(w, m) =>
          worker[w].attempts + Chances(m) <= MaxAttempts + mishaps[m]
ChancesCounted == \A m \in Mails : Counted(m)

DeliveryInductive ==
    /\ TypeOK /\ SentMeansAccepted
    /\ WorkersFit /\ LocksFit /\ MarkedIsAccepted /\ StaysCarried /\ ChancesCounted

-----------------------------------------------------------------------------
(* Rows, jobs and workers *)

\* Who is idle or rests.
LEMMA IdleFacts ==
    /\ Idle \in Worker /\ Idle.step = "idle" /\ Idle.job = None /\ ~Idle.lock
    /\ Idle = [step |-> "idle", job |-> None, attempts |-> 0, lock |-> FALSE]
    /\ Resting \in Retrier /\ Resting.todo = {} /\ Resting.adding = None
<1>1. 0 \in Counts BY DEF Counts
<1> QED BY <1>1 DEF Idle, Worker, Resting, Retrier

\* What rows, jobs and workers hold.
LEMMA Members ==
    ASSUME TypeOK
    PROVE  /\ \A m \in Mails : /\ row[m].status \in {"absent", "pending", "sent", "failed"}
                               /\ row[m].attempts \in Counts /\ row[m].attempts \in Nat
                               /\ accepted[m] \in Nat
                               /\ mishaps[m] \in 0 .. MaxMishaps /\ mishaps[m] \in Nat
           /\ \A j \in Jobs : /\ job[j].state \in {"unused", "queued", "active", "over"}
                              /\ job[j].mail \in Mails \cup {None}
                              /\ job[j].stalled \in BOOLEAN
           /\ \A w \in Workers :
                 /\ worker[w].step \in {"idle", "send", "mark", "catch", "fail", "end"}
                 /\ worker[w].job \in Jobs \cup {None}
                 /\ worker[w].attempts \in Counts /\ worker[w].attempts \in Nat
                 /\ worker[w].lock \in BOOLEAN
           /\ \A r \in Retriers : /\ retrier[r].todo \subseteq Mails
                                  /\ retrier[r].adding \in Mails \cup {None}
BY DEF TypeOK, MailRow, Counts, Job, Worker, Retrier

\* A worker at a job works at a mail.
LEMMA AtWork ==
    ASSUME TypeOK, WorkersFit, NEW w \in Workers, worker[w].step # "idle"
    PROVE  worker[w].job \in Jobs /\ MailOf(w) \in Mails /\ MailOf(w) = job[worker[w].job].mail
BY Members DEF WorkersFit, MailOf

\* A worker keeps its mail as long as it keeps its job.
LEMMA SameMail ==
    ASSUME TypeOK, WorkersFit,
           \A j \in Jobs : job[j].state # "unused" => job'[j].mail = job[j].mail
    PROVE  \A w \in Workers :
              worker[w].step # "idle" /\ worker'[w].job = worker[w].job => MailOf(w)' = MailOf(w)
BY AtWork DEF MailOf, WorkersFit

-----------------------------------------------------------------------------
(* Counting chances *)

\* A smaller set counts less, one that has lost an element counts one less, and one that has
\* won one counts one more at most.
LEMMA Count ==
    ASSUME NEW B, IsFiniteSet(B), NEW S, NEW T, S \subseteq B, T \subseteq B, NEW x \in B
    PROVE  /\ Cardinality(S) \in Nat /\ Cardinality(T) \in Nat
           /\ S \subseteq T => Cardinality(S) <= Cardinality(T)
           /\ x \in T /\ S \subseteq T \ {x} => Cardinality(S) + 1 <= Cardinality(T)
           /\ S \subseteq T \cup {x} => Cardinality(S) <= Cardinality(T) + 1
<1>1. IsFiniteSet(S) /\ IsFiniteSet(T) BY FS_Subset
<1>2. Cardinality(S) \in Nat /\ Cardinality(T) \in Nat BY <1>1, FS_CardinalityType
<1>3. S \subseteq T => Cardinality(S) <= Cardinality(T) BY <1>1, FS_Subset
<1>4. ASSUME x \in T, S \subseteq T \ {x} PROVE Cardinality(S) + 1 <= Cardinality(T)
  <2>1. IsFiniteSet(T \ {x}) /\ Cardinality(T \ {x}) = Cardinality(T) - 1
    BY <1>1, <1>4, FS_RemoveElement
  <2>2. Cardinality(S) <= Cardinality(T \ {x}) BY <1>4, <2>1, FS_Subset
  <2> QED BY <1>2, <2>1, <2>2
<1>5. ASSUME S \subseteq T \cup {x} PROVE Cardinality(S) <= Cardinality(T) + 1
  <2>1. /\ IsFiniteSet(T \cup {x})
        /\ Cardinality(T \cup {x}) = Cardinality(T) \/ Cardinality(T \cup {x}) = Cardinality(T) + 1
    BY <1>1, FS_AddElement
  <2>2. Cardinality(S) <= Cardinality(T \cup {x}) BY <1>5, <2>1, FS_Subset
  <2> QED BY <1>2, <2>1, <2>2
<1> QED BY <1>2, <1>3, <1>4, <1>5

\* How the queued jobs and the workers that count for a mail change from a step to the next.
LEMMA CountQueued ==
    ASSUME NEW m
    PROVE  /\ Cardinality(Queued(m)) \in Nat /\ Cardinality(Queued(m)') \in Nat
           /\ Queued(m)' \subseteq Queued(m) =>
                 Cardinality(Queued(m)') <= Cardinality(Queued(m))
           /\ \A j \in Jobs :
                 /\ j \in Queued(m) /\ Queued(m)' \subseteq Queued(m) \ {j} =>
                       Cardinality(Queued(m)') + 1 <= Cardinality(Queued(m))
                 /\ Queued(m)' \subseteq Queued(m) \cup {j} =>
                       Cardinality(Queued(m)') <= Cardinality(Queued(m)) + 1
<1>1. Queued(m) \subseteq Jobs /\ Queued(m)' \subseteq Jobs BY DEF Queued
<1>2. IsFiniteSet(Queued(m)) /\ IsFiniteSet(Queued(m)') BY <1>1, FS_Subset
<1>3. Cardinality(Queued(m)) \in Nat /\ Cardinality(Queued(m)') \in Nat
  BY <1>2, FS_CardinalityType
<1>4. Queued(m)' \subseteq Queued(m) => Cardinality(Queued(m)') <= Cardinality(Queued(m))
  BY <1>2, FS_Subset
<1> QED BY <1>1, <1>3, <1>4, Count

LEMMA CountAdders ==
    ASSUME NEW m
    PROVE  /\ Cardinality(Adders(m)) \in Nat /\ Cardinality(Adders(m)') \in Nat
           /\ Adders(m)' \subseteq Adders(m) =>
                 Cardinality(Adders(m)') <= Cardinality(Adders(m))
           /\ \A r \in Retriers :
                 /\ r \in Adders(m) /\ Adders(m)' \subseteq Adders(m) \ {r} =>
                       Cardinality(Adders(m)') + 1 <= Cardinality(Adders(m))
                 /\ Adders(m)' \subseteq Adders(m) \cup {r} =>
                       Cardinality(Adders(m)') <= Cardinality(Adders(m)) + 1
<1>1. Adders(m) \subseteq Retriers /\ Adders(m)' \subseteq Retriers BY DEF Adders
<1>2. IsFiniteSet(Adders(m)) /\ IsFiniteSet(Adders(m)') BY <1>1, FS_Subset
<1>3. Cardinality(Adders(m)) \in Nat /\ Cardinality(Adders(m)') \in Nat
  BY <1>2, FS_CardinalityType
<1>4. Adders(m)' \subseteq Adders(m) => Cardinality(Adders(m)') <= Cardinality(Adders(m))
  BY <1>2, FS_Subset
<1> QED BY <1>1, <1>3, <1>4, Count

LEMMA CountTrying ==
    ASSUME NEW m
    PROVE  /\ Cardinality(Trying(m)) \in Nat /\ Cardinality(Trying(m)') \in Nat
           /\ Trying(m)' \subseteq Trying(m) =>
                 Cardinality(Trying(m)') <= Cardinality(Trying(m))
           /\ \A w \in Workers :
                 /\ w \in Trying(m) /\ Trying(m)' \subseteq Trying(m) \ {w} =>
                       Cardinality(Trying(m)') + 1 <= Cardinality(Trying(m))
                 /\ Trying(m)' \subseteq Trying(m) \cup {w} =>
                       Cardinality(Trying(m)') <= Cardinality(Trying(m)) + 1
<1>1. Trying(m) \subseteq Workers /\ Trying(m)' \subseteq Workers BY DEF Trying
<1>2. IsFiniteSet(Trying(m)) /\ IsFiniteSet(Trying(m)') BY <1>1, FS_Subset
<1>3. Cardinality(Trying(m)) \in Nat /\ Cardinality(Trying(m)') \in Nat
  BY <1>2, FS_CardinalityType
<1>4. Trying(m)' \subseteq Trying(m) => Cardinality(Trying(m)') <= Cardinality(Trying(m))
  BY <1>2, FS_Subset
<1> QED BY <1>1, <1>3, <1>4, Count

\* The chances that a mail had and has: the sum, with each part a number.
LEMMA ChancesAdd ==
    ASSUME NEW m
    PROVE  /\ Chances(m) \in Nat /\ Chances(m)' \in Nat
           /\ Chances(m) = One(row[m].status = "absent") + One(m \in producing)
                 + One(Retrying(m))
                 + Cardinality(Adders(m)) + Cardinality(Queued(m)) + Cardinality(Trying(m))
           /\ Chances(m)' = One(row'[m].status = "absent") + One(m \in producing')
                 + One(Retrying(m)')
                 + Cardinality(Adders(m)') + Cardinality(Queued(m)') + Cardinality(Trying(m)')
BY CountAdders, CountQueued, CountTrying DEF Chances, One

\* A mail whose places all lead to no more tries than before is still within its chances.
LEMMA CountedKept ==
    ASSUME DeliveryInductive, NEW m \in Mails, Chances(m)' <= Chances(m),
           accepted'[m] = accepted[m], mishaps'[m] = mishaps[m],
           row'[m].attempts = row[m].attempts,
           \A w \in Workers : Failing(w, m)' =>
               \/ Failing(w, m) /\ worker'[w].attempts = worker[w].attempts
               \/ worker'[w].attempts = row[m].attempts
    PROVE  Counted(m)'
<1>1. Counted(m) /\ TypeOK BY DEF DeliveryInductive, ChancesCounted
<1>2. Chances(m) \in Nat /\ Chances(m)' \in Nat BY ChancesAdd
<1>3. /\ accepted'[m] + Chances(m)' <= 1 + mishaps'[m]
      /\ row'[m].attempts + Chances(m)' <= MaxAttempts + mishaps'[m]
  BY <1>1, <1>2, Members DEF Counted
<1>4. ASSUME NEW w \in Workers, Failing(w, m)'
      PROVE  worker'[w].attempts + Chances(m)' <= MaxAttempts + mishaps'[m]
  BY <1>1, <1>2, <1>4, Members DEF Counted
<1> QED BY <1>3, <1>4 DEF Counted

\* None of the places of a mail that leads to a try is new.
Fewer(m) ==
    /\ row'[m].status = "absent" => row[m].status = "absent"
    /\ m \in producing' => m \in producing
    /\ Retrying(m)' => Retrying(m)
    /\ Adders(m)' \subseteq Adders(m)
    /\ Queued(m)' \subseteq Queued(m)
    /\ Trying(m)' \subseteq Trying(m)

LEMMA FewerChances ==
    ASSUME NEW m, Fewer(m)
    PROVE  Chances(m)' <= Chances(m)
<1>1. /\ Cardinality(Queued(m)') <= Cardinality(Queued(m))
      /\ Cardinality(Trying(m)') <= Cardinality(Trying(m))
      /\ Cardinality(Adders(m)') <= Cardinality(Adders(m))
  BY CountAdders, CountQueued, CountTrying DEF Fewer
<1>2. /\ One(row'[m].status = "absent") <= One(row[m].status = "absent")
      /\ One(m \in producing') <= One(m \in producing)
      /\ One(Retrying(m)') <= One(Retrying(m))
  BY DEF Fewer, One
<1>3. \A P : One(P) \in Nat BY DEF One
<1> QED BY <1>1, <1>2, <1>3, ChancesAdd, CountAdders, CountQueued, CountTrying

\* The parts that are true or false, when they do not become true.
LEMMA OnesKept ==
    ASSUME NEW m, row'[m].status = "absent" => row[m].status = "absent",
           m \in producing' => m \in producing, Adders(m)' \subseteq Adders(m),
           Retrying(m)' => Retrying(m)
    PROVE  /\ One(row'[m].status = "absent") <= One(row[m].status = "absent")
           /\ One(m \in producing') <= One(m \in producing)
           /\ One(Retrying(m)') <= One(Retrying(m))
           /\ Cardinality(Adders(m)') <= Cardinality(Adders(m))
           /\ Cardinality(Adders(m)) \in Nat /\ Cardinality(Adders(m)') \in Nat
           /\ \A P : One(P) \in Nat
BY CountAdders DEF One

\* A worker that is no longer trying has used up a chance.
LEMMA ChanceUsed ==
    ASSUME NEW m, Fewer(m), NEW w \in Workers, w \in Trying(m),
           Trying(m)' \subseteq Trying(m) \ {w}
    PROVE  Chances(m)' + 1 <= Chances(m)
<1>1. Cardinality(Trying(m)') + 1 <= Cardinality(Trying(m)) BY CountTrying
<1>2. Cardinality(Queued(m)') <= Cardinality(Queued(m)) BY CountQueued DEF Fewer
<1> QED BY <1>1, <1>2, OnesKept, ChancesAdd, CountQueued, CountTrying DEF Fewer

\* A worker that tries after all, or a job that waits again, is one chance more.
LEMMA ChanceWon ==
    ASSUME NEW m, NEW w \in Workers, NEW j \in Jobs,
           row'[m].status = "absent" => row[m].status = "absent",
           m \in producing' => m \in producing, Adders(m)' \subseteq Adders(m),
           Retrying(m)' => Retrying(m),
           \/ Trying(m)' \subseteq Trying(m) \cup {w} /\ Queued(m)' \subseteq Queued(m)
           \/ Trying(m)' \subseteq Trying(m) /\ Queued(m)' \subseteq Queued(m) \cup {j}
    PROVE  Chances(m)' <= Chances(m) + 1
<1>1. Cardinality(Trying(m)') + Cardinality(Queued(m)')
          <= Cardinality(Trying(m)) + Cardinality(Queued(m)) + 1
  BY CountTrying, CountQueued
<1> QED BY <1>1, OnesKept, ChancesAdd, CountQueued, CountTrying

\* A mishap allows one chance more.
LEMMA CountedAfterMishap ==
    ASSUME DeliveryInductive, NEW m \in Mails, Chances(m)' <= Chances(m) + 1,
           accepted'[m] = accepted[m], mishaps'[m] = mishaps[m] + 1,
           row'[m].attempts = row[m].attempts,
           \A w \in Workers : Failing(w, m)' =>
               Failing(w, m) /\ worker'[w].attempts = worker[w].attempts
    PROVE  Counted(m)'
<1>1. Counted(m) /\ TypeOK BY DEF DeliveryInductive, ChancesCounted
<1>2. Chances(m) \in Nat /\ Chances(m)' \in Nat BY ChancesAdd
<1>3. /\ accepted'[m] + Chances(m)' <= 1 + mishaps'[m]
      /\ row'[m].attempts + Chances(m)' <= MaxAttempts + mishaps'[m]
  BY <1>1, <1>2, Members DEF Counted
<1>4. ASSUME NEW w \in Workers, Failing(w, m)'
      PROVE  worker'[w].attempts + Chances(m)' <= MaxAttempts + mishaps'[m]
  BY <1>1, <1>2, <1>4, Members DEF Counted
<1> QED BY <1>3, <1>4 DEF Counted

-----------------------------------------------------------------------------
(* Producers *)

\* What depends on jobs and workers alone stays with them.
LEMMA SameJobs ==
    ASSUME DeliveryInductive, job' = job, worker' = worker
    PROVE  /\ WorkersFit' /\ LocksFit'
           /\ accepted' = accepted => MarkedIsAccepted'
           /\ \A w \in Workers : MailOf(w)' = MailOf(w)
           /\ \A m : /\ Queued(m)' = Queued(m)
                     /\ Trying(m)' = Trying(m)
                     /\ \A w \in Workers : Failing(w, m)' <=> Failing(w, m)
                     /\ \A j \in Jobs : Carries(j, m)' <=> Carries(j, m)
<1>1. \A w \in Workers : MailOf(w)' = MailOf(w) BY DEF MailOf
<1> QED BY <1>1 DEF DeliveryInductive, WorkersFit, LocksFit, MarkedIsAccepted, Queued, Trying,
                    Failing, Carries

\* MailService.create inserts the row; the producer goes on to the queue.
LEMMA InsertStep ==
    ASSUME DeliveryInductive, NEW m \in Mails, Insert(m)
    PROVE  DeliveryInductive'
<1> USE DEF DeliveryInductive
<1>a. /\ row[m].status = "absent" /\ producing' = producing \cup {m}
      /\ row' = [row EXCEPT ![m].status = "pending"]
      /\ job' = job /\ worker' = worker /\ retrier' = retrier
      /\ accepted' = accepted /\ mishaps' = mishaps /\ dropped' = dropped
  BY DEF Insert
<1>b. /\ row'[m].status = "pending" /\ row'[m].attempts = row[m].attempts
      /\ \A n \in Mails \ {m} : row'[n] = row[n]
  BY <1>a DEF TypeOK, MailRow
<1>c. SentMeansAccepted' BY <1>a, <1>b DEF SentMeansAccepted
<1>1. TypeOK' BY <1>a, <1>b DEF TypeOK, MailRow
<1>2. WorkersFit' /\ LocksFit' /\ MarkedIsAccepted' BY <1>a, SameJobs
<1>3. StaysCarried'
  BY <1>a, <1>b, SameJobs DEF StaysCarried
<1>4. ASSUME NEW n \in Mails, n # m PROVE Counted(n)'
  <2>1. Fewer(n)
    BY <1>a, <1>b, <1>4, SameJobs DEF Fewer, Adders, Retrying, CanRetry
  <2> QED BY <1>a, <1>b, <1>4, <2>1, SameJobs, FewerChances, CountedKept
<1>5. Counted(m)'
  <2>1. /\ Cardinality(Queued(m)') <= Cardinality(Queued(m))
        /\ Cardinality(Trying(m)') <= Cardinality(Trying(m))
    BY <1>a, SameJobs, CountQueued, CountTrying
  <2>2. /\ One(row[m].status = "absent") = 1 /\ One(row'[m].status = "absent") = 0
        /\ One(m \in producing') <= 1 /\ One(m \in producing) >= 0
    BY <1>a, <1>b DEF One
  <2>3. Adders(m)' = Adders(m) /\ (Retrying(m)' => Retrying(m))
    BY <1>a, <1>b DEF Adders, Retrying, CanRetry
  <2>4. Adders(m)' = Adders(m) /\ One(Retrying(m)') <= One(Retrying(m))
    BY <2>3 DEF One
  <2>5. \A P : One(P) \in Nat BY DEF One
  <2>6. Chances(m)' <= Chances(m)
    BY <2>1, <2>2, <2>4, <2>5, ChancesAdd, CountAdders, CountQueued, CountTrying
  <2> QED BY <1>a, <1>b, <2>6, SameJobs, CountedKept
<1> QED BY <1>c, <1>1, <1>2, <1>3, <1>4, <1>5 DEF ChancesCounted

\* MailQueueService.add: a job nobody has, or an error.
LEMMA AddToQueueDoes ==
    ASSUME NEW m \in Mails, AddToQueue(m)
    PROVE  \/ /\ dropped' = dropped
              /\ \E j \in Jobs :
                    /\ job[j].state = "unused"
                    /\ job' = [job EXCEPT ![j] =
                                 [state |-> "queued", mail |-> m, stalled |-> FALSE]]
           \/ dropped' = dropped \cup {m} /\ job' = job
<1> DEFINE unused == {j \in Jobs : job[j].state = "unused"}
           i == CHOOSE j \in unused : TRUE
<1>1. CASE unused = {} BY <1>1 DEF AddToQueue
<1>2. CASE unused # {}
  <2>1. i \in unused BY <1>2
  <2>2. \/ /\ job' = [job EXCEPT ![i] = [state |-> "queued", mail |-> m, stalled |-> FALSE]]
           /\ dropped' = dropped
        \/ dropped' = dropped \cup {m} /\ job' = job
    BY DEF AddToQueue
  <2>3. i \in Jobs /\ job[i].state = "unused" BY <2>1
  <2> HIDE DEF i
  <2> QED BY <2>2, <2>3
<1> QED BY <1>1, <1>2

\* A new job waits for a worker, and disturbs no other.
LEMMA QueuedAnew ==
    ASSUME DeliveryInductive, NEW m \in Mails, NEW j \in Jobs, job[j].state = "unused",
           job' = [job EXCEPT ![j] = [state |-> "queued", mail |-> m, stalled |-> FALSE]],
           worker' = worker
    PROVE  /\ job' \in [Jobs -> Job]
           /\ WorkersFit' /\ LocksFit'
           /\ accepted' = accepted => MarkedIsAccepted'
           /\ Queued(m)' \subseteq Queued(m) \cup {j}
           /\ \A n : n # m => Queued(n)' \subseteq Queued(n)
           /\ \A n : /\ Trying(n)' \subseteq Trying(n)
                     /\ \A w \in Workers : Failing(w, n)' => Failing(w, n)
                     /\ \A i \in Jobs : Carries(i, n) => Carries(i, n)'
           /\ Carries(j, m)'
<1> USE DEF DeliveryInductive
<1>1. /\ job'[j].state = "queued" /\ job'[j].mail = m
      /\ \A i \in Jobs \ {j} : job'[i] = job[i]
  BY DEF TypeOK
<1>2. job' \in [Jobs -> Job] BY DEF TypeOK, Job
<1>3. \A w \in Workers : worker[w].step # "idle" => worker[w].job # j
  BY Members DEF WorkersFit
<1>4. \A w \in Workers : worker[w].step # "idle" => MailOf(w)' = MailOf(w)
  BY <1>1, <1>3, AtWork DEF MailOf
<1>5. m # None OBVIOUS
<1>6. WorkersFit' BY <1>1, <1>3, <1>5, Members DEF WorkersFit
<1>7. LocksFit' BY <1>1, <1>3, Members DEF LocksFit, WorkersFit
<1>8. accepted' = accepted => MarkedIsAccepted' BY <1>4 DEF MarkedIsAccepted
<1>9. /\ Queued(m)' \subseteq Queued(m) \cup {j}
      /\ \A n : n # m => Queued(n)' \subseteq Queued(n)
  BY <1>1 DEF Queued
<1>10. \A n : /\ Trying(n)' \subseteq Trying(n)
              /\ \A w \in Workers : Failing(w, n)' => Failing(w, n)
  BY <1>4 DEF Trying, Failing
<1>11. \A n : \A i \in Jobs : Carries(i, n) => Carries(i, n)'
  BY <1>1 DEF Carries
<1>12. Carries(j, m)' BY <1>1, <1>3 DEF Carries, LocksFit
<1> QED BY <1>2, <1>6, <1>7, <1>8, <1>9, <1>10, <1>11, <1>12

\* The producer adds the job of its mail, or gives up.
LEMMA ProduceStep ==
    ASSUME DeliveryInductive, NEW m \in Mails, Produce(m)
    PROVE  DeliveryInductive'
<1> USE DEF DeliveryInductive
<1>a. /\ m \in producing /\ producing' = producing \ {m} /\ AddToQueue(m)
      /\ row' = row /\ worker' = worker /\ retrier' = retrier
      /\ accepted' = accepted /\ mishaps' = mishaps
  BY DEF Produce
<1>b. SentMeansAccepted' BY <1>a DEF SentMeansAccepted
<1>c. \A n : /\ Adders(n)' = Adders(n)
             /\ Retrying(n)' <=> Retrying(n)
  BY <1>a DEF Adders, Retrying, CanRetry
<1>1. CASE dropped' = dropped \cup {m} /\ job' = job
  <2>1. TypeOK' BY <1>a, <1>1 DEF TypeOK
  <2>2. WorkersFit' /\ LocksFit' /\ MarkedIsAccepted' BY <1>a, <1>1, SameJobs
  <2>3. StaysCarried' BY <1>a, <1>1, SameJobs DEF StaysCarried
  <2>4. ASSUME NEW n \in Mails PROVE Counted(n)'
    <3>1. Fewer(n) BY <1>a, <1>c, <1>1, SameJobs DEF Fewer
    <3> QED BY <1>a, <1>1, <3>1, SameJobs, FewerChances, CountedKept
  <2> QED BY <1>b, <2>1, <2>2, <2>3, <2>4 DEF ChancesCounted
<1>2. ASSUME NEW j \in Jobs, job[j].state = "unused", dropped' = dropped,
             job' = [job EXCEPT ![j] = [state |-> "queued", mail |-> m, stalled |-> FALSE]]
      PROVE  DeliveryInductive'
  <2>1. TypeOK' BY <1>a, <1>2, QueuedAnew DEF TypeOK
  <2>2. WorkersFit' /\ LocksFit' /\ MarkedIsAccepted' BY <1>a, <1>2, QueuedAnew
  <2>3. StaysCarried'
    <3>1. Carries(j, m)' BY <1>a, <1>2, QueuedAnew
    <3>2. \A n \in Mails : \A i \in Jobs : Carries(i, n) => Carries(i, n)'
      BY <1>a, <1>2, QueuedAnew
    <3> QED BY <1>a, <1>2, <3>1, <3>2 DEF StaysCarried
  <2>4. ASSUME NEW n \in Mails, n # m PROVE Counted(n)'
    <3>1. Fewer(n) BY <1>a, <1>c, <1>2, <2>4, QueuedAnew DEF Fewer
    <3>2. \A w \in Workers : Failing(w, n)' => Failing(w, n) BY <1>a, <1>2, QueuedAnew
    <3> QED BY <1>a, <3>1, <3>2, FewerChances, CountedKept
  <2>5. Counted(m)'
    <3>1. /\ Cardinality(Queued(m)') <= Cardinality(Queued(m)) + 1
          /\ Cardinality(Trying(m)') <= Cardinality(Trying(m))
      BY <1>a, <1>2, QueuedAnew, CountQueued, CountTrying
    <3>2. One(m \in producing) = 1 /\ One(m \in producing') = 0 BY <1>a DEF One
    <3>3. /\ Adders(m)' = Adders(m) /\ One(Retrying(m)') = One(Retrying(m))
          /\ One(row'[m].status = "absent") = One(row[m].status = "absent")
      BY <1>a, <1>c DEF One
    <3>4. \A P : One(P) \in Nat BY DEF One
    <3>5. Chances(m)' <= Chances(m)
      BY <3>1, <3>2, <3>3, <3>4, ChancesAdd, CountAdders, CountQueued, CountTrying
    <3>6. \A w \in Workers : Failing(w, m)' => Failing(w, m) BY <1>a, <1>2, QueuedAnew
    <3> QED BY <1>a, <3>5, <3>6, CountedKept
  <2> QED BY <1>b, <2>1, <2>2, <2>3, <2>4, <2>5 DEF ChancesCounted
<1> QED BY <1>a, <1>1, <1>2, AddToQueueDoes

-----------------------------------------------------------------------------
(* RetryFailedMails *)

\* The list that is read gives no mail a chance that it had not: its mails can be retried.
LEMMA RetryListStep ==
    ASSUME DeliveryInductive, NEW r \in Retriers, RetryList(r)
    PROVE  DeliveryInductive'
<1> USE DEF DeliveryInductive
<1>a. /\ retrier[r] = Resting
      /\ retrier' = [retrier EXCEPT ![r].todo = {m \in Mails : CanRetry(m)}]
      /\ row' = row /\ producing' = producing /\ job' = job /\ worker' = worker
      /\ accepted' = accepted /\ mishaps' = mishaps /\ dropped' = dropped
  BY DEF RetryList
<1>b. /\ retrier'[r].todo = {m \in Mails : CanRetry(m)}
      /\ \A s \in Retriers : retrier'[s].adding = retrier[s].adding
      /\ \A s \in Retriers \ {r} : retrier'[s] = retrier[s]
      /\ retrier' \in [Retriers -> Retrier]
  BY <1>a DEF TypeOK, Retrier
<1>1. TypeOK' BY <1>a, <1>b DEF TypeOK
<1>2. WorkersFit' /\ LocksFit' /\ MarkedIsAccepted' BY <1>a, SameJobs
<1>3. SentMeansAccepted' BY <1>a DEF SentMeansAccepted
<1>4. StaysCarried' BY <1>a, <1>b, SameJobs DEF StaysCarried
<1>5. ASSUME NEW n \in Mails PROVE Counted(n)'
  <2>1. Adders(n)' \subseteq Adders(n) BY <1>b DEF Adders
  <2>2. Retrying(n)' => Retrying(n) BY <1>a, <1>b DEF Retrying, CanRetry
  <2>3. Fewer(n) BY <1>a, <2>1, <2>2, SameJobs DEF Fewer
  <2> QED BY <1>a, <2>3, SameJobs, FewerChances, CountedKept
<1> QED BY <1>1, <1>2, <1>3, <1>4, <1>5 DEF ChancesCounted

\* A mail of the list is PENDING, whatever it was: its place in the list is used up.  If
\* another call has it in its list too, it is the mishap that allows one chance more.
LEMMA RetryUpdateStep ==
    ASSUME DeliveryInductive, NEW r \in Retriers, NEW m \in Mails, RetryUpdate(r, m)
    PROVE  DeliveryInductive'
<1> USE DEF DeliveryInductive
<1>a. /\ m \in retrier[r].todo /\ retrier[r].adding = None
      /\ producing' = producing /\ job' = job /\ worker' = worker /\ accepted' = accepted
      /\ \/ /\ row' = [row EXCEPT ![m].status = "pending"]
            /\ retrier' = [retrier EXCEPT ![r] = [todo |-> retrier[r].todo \ {m}, adding |-> m]]
            /\ dropped' = dropped
            /\ IF Doubled(r, m) THEN Mishap(m) ELSE mishaps' = mishaps
         \/ /\ row' = [row EXCEPT ![m].status = "pending"]
            /\ retrier' = [retrier EXCEPT ![r] = Resting]
            /\ dropped' = dropped \cup {m} /\ mishaps' = mishaps
         \/ /\ retrier' = [retrier EXCEPT ![r] = Resting]
            /\ row' = row /\ dropped' = dropped /\ mishaps' = mishaps
  BY DEF RetryUpdate
<1>b. \/ /\ row'[m].status = "pending" /\ retrier'[r].adding = m
         /\ retrier'[r].todo = retrier[r].todo \ {m} /\ dropped' = dropped
         /\ IF Doubled(r, m) THEN Mishap(m) ELSE mishaps' = mishaps
      \/ /\ row'[m].status = "pending" /\ retrier'[r].adding = None
         /\ retrier'[r].todo = {} /\ dropped' = dropped \cup {m} /\ mishaps' = mishaps
      \/ /\ row'[m] = row[m] /\ retrier'[r].adding = None
         /\ retrier'[r].todo = {} /\ dropped' = dropped /\ mishaps' = mishaps
  BY <1>a, IdleFacts DEF TypeOK, MailRow
<1>c. /\ row' \in [Mails -> MailRow] /\ retrier' \in [Retriers -> Retrier]
      /\ dropped' \subseteq Mails
      /\ \A n \in Mails \ {m} : row'[n] = row[n]
      /\ row'[m].attempts = row[m].attempts
      /\ \A s \in Retriers \ {r} : retrier'[s] = retrier[s]
  <2>1. [todo |-> retrier[r].todo \ {m}, adding |-> m] \in Retrier
    BY Members DEF Retrier
  <2>2. /\ retrier' \in [Retriers -> Retrier]
        /\ \A s \in Retriers \ {r} : retrier'[s] = retrier[s]
    <3>1. PICK new \in Retrier : retrier' = [retrier EXCEPT ![r] = new]
      BY <1>a, <2>1, IdleFacts
    <3> QED BY <3>1 DEF TypeOK
  <2>3. /\ row' \in [Mails -> MailRow] /\ dropped' \subseteq Mails
        /\ \A n \in Mails \ {m} : row'[n] = row[n]
        /\ row'[m].attempts = row[m].attempts
    BY <1>a DEF TypeOK, MailRow
  <2> QED BY <2>2, <2>3
<1>d. /\ mishaps' \in [Mails -> 0 .. MaxMishaps]
      /\ \A n \in Mails \ {m} : mishaps'[n] = mishaps[n]
      /\ mishaps'[m] = mishaps[m] \/ mishaps'[m] = mishaps[m] + 1
      /\ Mishap(m) => mishaps'[m] = mishaps[m] + 1
  <2>1. CASE mishaps' = mishaps BY <2>1, Members DEF TypeOK, Mishap
  <2>2. CASE Mishap(m) BY <2>2, Members DEF TypeOK, Mishap
  <2> QED BY <1>b, <2>1, <2>2
<1>e. ASSUME NEW n \in Mails, n # m
      PROVE  Adders(n)' \subseteq Adders(n) /\ (Retrying(n)' => Retrying(n))
  <2>1. \A s \in Retriers : retrier'[s].adding = n => retrier[s].adding = n
    BY <1>b, <1>c, <1>e
  <2>2. \A s \in Retriers : n \in retrier'[s].todo => n \in retrier[s].todo
    BY <1>b, <1>c
  <2> QED BY <1>c, <1>e, <2>1, <2>2 DEF Adders, Retrying, CanRetry
<1>1. TypeOK' BY <1>a, <1>c, <1>d DEF TypeOK
<1>2. WorkersFit' /\ LocksFit' /\ MarkedIsAccepted' BY <1>a, SameJobs
<1>3. SentMeansAccepted' BY <1>a, <1>b, <1>c DEF SentMeansAccepted
<1>4. StaysCarried'
  <2>1. \A n \in Mails : \A s \in Retriers : retrier[s].adding = n => retrier'[s].adding = n
    BY <1>a, <1>c
  <2>2. \A n \in Mails : \A j \in Jobs : Carries(j, n) => Carries(j, n)' BY <1>a, SameJobs
  <2>3. dropped \subseteq dropped' BY <1>a
  <2>4. ASSUME NEW n \in Mails, row'[n] = row[n], row'[n].status = "pending"
        PROVE  \/ n \in producing' \cup dropped'
               \/ \E s \in Retriers : retrier'[s].adding = n
               \/ \E j \in Jobs : Carries(j, n)'
    BY <1>a, <2>1, <2>2, <2>3, <2>4 DEF StaysCarried
  <2>5. ASSUME row'[m] # row[m]
        PROVE  m \in dropped' \/ \E s \in Retriers : retrier'[s].adding = m
    BY <1>b, <2>5
  <2> QED BY <1>c, <2>4, <2>5 DEF StaysCarried
<1>5. ASSUME NEW n \in Mails, n # m PROVE Counted(n)'
  <2>1. Fewer(n) BY <1>a, <1>c, <1>e, <1>5, SameJobs DEF Fewer
  <2> QED BY <1>a, <1>c, <1>d, <1>5, <2>1, SameJobs, FewerChances, CountedKept
<1>6. Counted(m)'
  <2>1. Retrying(m) BY <1>a DEF Retrying
  <2>2. row'[m].status = "absent" => row[m].status = "absent" BY <1>b
  <2>3. /\ One(row'[m].status = "absent") <= One(row[m].status = "absent")
        /\ One(m \in producing') = One(m \in producing)
        /\ One(Retrying(m)') <= One(Retrying(m))
        /\ \A P : One(P) \in Nat
    BY <1>a, <2>1, <2>2 DEF One
  <2>4. /\ Cardinality(Queued(m)') <= Cardinality(Queued(m))
        /\ Cardinality(Trying(m)') <= Cardinality(Trying(m))
    BY <1>a, SameJobs, CountQueued, CountTrying
  <2>5. Adders(m)' \subseteq Adders(m) \cup {r} BY <1>c DEF Adders
  <2>6. Cardinality(Adders(m)') <= Cardinality(Adders(m)) + 1 BY <2>5, CountAdders
  <2>7. Chances(m)' <= Chances(m) + 1
    BY <2>3, <2>4, <2>6, ChancesAdd, CountAdders, CountQueued, CountTrying
  <2>8. CASE mishaps'[m] = mishaps[m] + 1
    BY <1>a, <1>c, <2>7, <2>8, SameJobs, CountedAfterMishap
  <2>9. CASE retrier'[r].adding = m /\ ~Doubled(r, m) /\ mishaps' = mishaps
            /\ row'[m].status = "pending" /\ retrier'[r].todo = retrier[r].todo \ {m}
    <3>1. ~Retrying(m)' BY <1>c, <2>9 DEF Retrying, CanRetry, Doubled
    <3>2. One(Retrying(m)) = 1 /\ One(Retrying(m)') = 0 BY <2>1, <3>1 DEF One
    <3>3. Chances(m)' <= Chances(m)
      BY <2>3, <2>4, <2>6, <3>2, ChancesAdd, CountAdders, CountQueued, CountTrying
    <3> QED BY <1>a, <1>c, <2>9, <3>3, SameJobs, CountedKept
  <2>10. CASE retrier'[r].adding = None /\ mishaps' = mishaps
    <3>1. Adders(m)' \subseteq Adders(m) BY <1>c, <2>10 DEF Adders
    <3>2. Fewer(m) BY <1>a, <2>1, <2>2, <3>1, SameJobs DEF Fewer
    <3> QED BY <1>a, <1>c, <2>10, <3>2, SameJobs, FewerChances, CountedKept
  <2> QED BY <1>b, <1>d, <2>8, <2>9, <2>10
<1> QED BY <1>1, <1>2, <1>3, <1>4, <1>5, <1>6 DEF ChancesCounted

\* The call adds a job for the mail, or ends.
LEMMA RetryAddStep ==
    ASSUME DeliveryInductive, NEW r \in Retriers, RetryAdd(r)
    PROVE  DeliveryInductive'
<1> USE DEF DeliveryInductive
<1>p. PICK m \in Mails : m = retrier[r].adding BY Members DEF RetryAdd
<1>a. /\ AddToQueue(m)
      /\ retrier' = [retrier EXCEPT ![r] = IF job' = job THEN Resting
                                           ELSE [retrier[r] EXCEPT !.adding = None]]
      /\ row' = row /\ producing' = producing /\ worker' = worker
      /\ accepted' = accepted /\ mishaps' = mishaps
  BY <1>p DEF RetryAdd
<1>b. /\ retrier'[r].adding = None /\ retrier'[r].todo \subseteq retrier[r].todo
      /\ retrier' \in [Retriers -> Retrier]
      /\ \A s \in Retriers \ {r} : retrier'[s] = retrier[s]
  BY <1>a, IdleFacts DEF TypeOK, Retrier
<1>d. SentMeansAccepted' BY <1>a DEF SentMeansAccepted
<1>e. \A n \in Mails : /\ Adders(n)' \subseteq Adders(n)
                       /\ Retrying(n)' => Retrying(n)
  <2>1. \A n \in Mails : Adders(n)' \subseteq Adders(n) BY <1>b DEF Adders
  <2>2. \A n \in Mails : CanRetry(n)' <=> CanRetry(n) BY <1>a DEF CanRetry
  <2>3. \A s \in Retriers : retrier'[s].todo \subseteq retrier[s].todo BY <1>b
  <2> QED BY <2>1, <2>2, <2>3 DEF Retrying
<1>f. r \in Adders(m) /\ Adders(m)' \subseteq Adders(m) \ {r} BY <1>p, <1>b DEF Adders
<1>g. \A n \in Mails \ {m} : \A s \in Retriers :
         retrier[s].adding = n => retrier'[s].adding = n
  BY <1>p, <1>b
<1>1. CASE dropped' = dropped \cup {m} /\ job' = job
  <2>1. TypeOK' BY <1>a, <1>b, <1>1 DEF TypeOK
  <2>2. WorkersFit' /\ LocksFit' /\ MarkedIsAccepted' BY <1>a, <1>1, SameJobs
  <2>3. StaysCarried' BY <1>a, <1>1, <1>g, SameJobs DEF StaysCarried
  <2>4. ASSUME NEW n \in Mails PROVE Counted(n)'
    <3>1. Fewer(n) BY <1>a, <1>e, <1>1, SameJobs DEF Fewer
    <3> QED BY <1>a, <1>1, <3>1, SameJobs, FewerChances, CountedKept
  <2> QED BY <1>d, <2>1, <2>2, <2>3, <2>4 DEF ChancesCounted
<1>2. ASSUME NEW j \in Jobs, job[j].state = "unused", dropped' = dropped,
             job' = [job EXCEPT ![j] = [state |-> "queued", mail |-> m, stalled |-> FALSE]]
      PROVE  DeliveryInductive'
  <2>1. TypeOK' BY <1>a, <1>b, <1>2, QueuedAnew DEF TypeOK
  <2>2. WorkersFit' /\ LocksFit' /\ MarkedIsAccepted' BY <1>a, <1>2, QueuedAnew
  <2>3. StaysCarried'
    <3>1. Carries(j, m)' BY <1>a, <1>2, QueuedAnew
    <3>2. \A n \in Mails : \A i \in Jobs : Carries(i, n) => Carries(i, n)'
      BY <1>a, <1>2, QueuedAnew
    <3> QED BY <1>a, <1>g, <1>2, <3>1, <3>2 DEF StaysCarried
  <2>4. ASSUME NEW n \in Mails, n # m PROVE Counted(n)'
    <3>1. Fewer(n) BY <1>a, <1>e, <1>2, <2>4, QueuedAnew DEF Fewer
    <3>2. \A w \in Workers : Failing(w, n)' => Failing(w, n) BY <1>a, <1>2, QueuedAnew
    <3> QED BY <1>a, <3>1, <3>2, FewerChances, CountedKept
  <2>5. Counted(m)'
    <3>1. /\ Cardinality(Queued(m)') <= Cardinality(Queued(m)) + 1
          /\ Cardinality(Trying(m)') <= Cardinality(Trying(m))
      BY <1>a, <1>2, QueuedAnew, CountQueued, CountTrying
    <3>2. Cardinality(Adders(m)') + 1 <= Cardinality(Adders(m)) BY <1>f, CountAdders
    <3>3. /\ One(m \in producing') = One(m \in producing)
          /\ One(Retrying(m)') <= One(Retrying(m))
          /\ One(row'[m].status = "absent") = One(row[m].status = "absent")
      BY <1>a, <1>e DEF One
    <3>4. \A P : One(P) \in Nat BY DEF One
    <3>5. Chances(m)' <= Chances(m)
      BY <3>1, <3>2, <3>3, <3>4, ChancesAdd, CountAdders, CountQueued, CountTrying
    <3>6. \A w \in Workers : Failing(w, m)' => Failing(w, m) BY <1>a, <1>2, QueuedAnew
    <3> QED BY <1>a, <3>5, <3>6, CountedKept
  <2> QED BY <1>d, <2>1, <2>2, <2>3, <2>4, <2>5 DEF ChancesCounted
<1> QED BY <1>a, <1>1, <1>2, AddToQueueDoes

-----------------------------------------------------------------------------
(* The processor *)

\* A worker that goes on with its job leaves the other workers and the other mails alone.
LEMMA WorkerGoesOn ==
    ASSUME DeliveryInductive, NEW w \in Workers, NEW m \in Mails, m = MailOf(w), job' = job,
           worker[w].step # "idle", worker'[w].step # "idle",
           worker'[w].job = worker[w].job, worker'[w].lock = worker[w].lock,
           \A v \in Workers \ {w} : worker'[v] = worker[v]
    PROVE  /\ WorkersFit' /\ LocksFit'
           /\ \A v \in Workers : worker[v].step # "idle" => MailOf(v)' = MailOf(v)
           /\ \A n : /\ Queued(n)' \subseteq Queued(n)
                     /\ Trying(n)' \subseteq Trying(n) \cup {w}
                     /\ n # m => Trying(n)' \subseteq Trying(n)
                     /\ worker'[w].step \notin {"send", "catch", "fail"} =>
                           Trying(n)' \subseteq Trying(n) \ {w}
                     /\ \A v \in Workers :
                           v # w \/ n # m => (Failing(v, n)' => Failing(v, n))
                     /\ worker[w].step \in {"send", "catch", "fail"} =>
                           Trying(n)' \subseteq Trying(n)
           /\ worker[w].step \in {"send", "catch", "fail"} => w \in Trying(m)
           /\ \A j \in Jobs : \A n : Carries(j, n) /\ (worker'[w].step = "end" => n # m)
                 => Carries(j, n)'
           /\ accepted' = accepted /\ worker'[w].step # "mark" => MarkedIsAccepted'
<1> USE DEF DeliveryInductive
<1>1. \A v \in Workers : worker[v].step # "idle" => MailOf(v)' = MailOf(v)
  BY DEF MailOf
<1>2. \A v \in Workers : worker'[v].step # "idle" => worker[v].step # "idle" OBVIOUS
<1>3. WorkersFit' BY <1>2 DEF WorkersFit
<1>4. LocksFit' BY DEF LocksFit
<1>5. \A n : Queued(n)' \subseteq Queued(n) BY DEF Queued
<1>6. \A n : /\ Trying(n)' \subseteq Trying(n) \cup {w}
             /\ n # m => Trying(n)' \subseteq Trying(n)
             /\ worker'[w].step \notin {"send", "catch", "fail"} =>
                   Trying(n)' \subseteq Trying(n) \ {w}
             /\ worker[w].step \in {"send", "catch", "fail"} => Trying(n)' \subseteq Trying(n)
  BY <1>1, <1>2 DEF Trying
<1>7. \A n : \A v \in Workers : v # w \/ n # m => (Failing(v, n)' => Failing(v, n))
  BY <1>1, <1>2 DEF Failing
<1>8. worker[w].step \in {"send", "catch", "fail"} => w \in Trying(m) BY DEF Trying
<1>9. ASSUME NEW j \in Jobs, NEW n, Carries(j, n), worker'[w].step = "end" => n # m
      PROVE  Carries(j, n)'
  <2>1. job[worker[w].job].mail = m BY DEF MailOf
  <2>2. \A v \in Workers : worker'[v].lock /\ worker'[v].job = j => worker'[v].step # "end"
    BY <1>9, <2>1 DEF Carries
  <2> QED BY <1>9, <2>2 DEF Carries
<1>10. accepted' = accepted /\ worker'[w].step # "mark" => MarkedIsAccepted'
  BY <1>1, <1>2 DEF MarkedIsAccepted
<1> QED BY <1>1, <1>3, <1>4, <1>5, <1>6, <1>7, <1>8, <1>9, <1>10

\* transport.sendMail: the server has taken the mail, or the worker goes to the catch block;
\* the chance it came with is used, or an answer was lost.
LEMMA SendStep ==
    ASSUME DeliveryInductive, NEW w \in Workers, Send(w)
    PROVE  DeliveryInductive'
<1> USE DEF DeliveryInductive
<1>p. PICK m \in Mails : m = MailOf(w) BY AtWork DEF Send
<1>a. /\ worker[w].step = "send"
      /\ row' = row /\ producing' = producing /\ job' = job /\ retrier' = retrier
      /\ dropped' = dropped
      /\ \/ /\ worker' = [worker EXCEPT ![w].step = "catch"]
            /\ accepted' = accepted /\ mishaps' = mishaps
         \/ /\ worker' = [worker EXCEPT ![w].step = "mark"]
            /\ accepted' = [accepted EXCEPT ![m] = accepted[m] + 1] /\ mishaps' = mishaps
         \/ /\ worker' = [worker EXCEPT ![w].step = "catch"]
            /\ accepted' = [accepted EXCEPT ![m] = accepted[m] + 1]
            /\ mishaps[m] < MaxMishaps /\ mishaps' = [mishaps EXCEPT ![m] = mishaps[m] + 1]
  BY <1>p DEF Send, Goto, Mishap
<1>b. /\ worker'[w].step \in {"catch", "mark"}
      /\ worker'[w].job = worker[w].job /\ worker'[w].lock = worker[w].lock
      /\ \A v \in Workers \ {w} : worker'[v] = worker[v]
      /\ worker' \in [Workers -> Worker]
  BY <1>a DEF TypeOK, Worker
<1>c. /\ \/ /\ worker'[w].step = "catch" /\ accepted'[m] = accepted[m]
            /\ mishaps'[m] = mishaps[m]
         \/ /\ worker'[w].step = "mark" /\ accepted'[m] = accepted[m] + 1
            /\ mishaps'[m] = mishaps[m]
         \/ /\ worker'[w].step = "catch" /\ accepted'[m] = accepted[m] + 1
            /\ mishaps'[m] = mishaps[m] + 1
      /\ \A n \in Mails \ {m} : accepted'[n] = accepted[n] /\ mishaps'[n] = mishaps[n]
  BY <1>a, <1>b DEF TypeOK, Worker
<1>d. accepted' \in [Mails -> Nat] /\ mishaps' \in [Mails -> 0 .. MaxMishaps]
  BY <1>a DEF TypeOK
<1>e. \A n \in Mails : accepted'[n] >= accepted[n] BY <1>c, Members
<1>1. TypeOK' BY <1>a, <1>b, <1>d DEF TypeOK
<1>2. WorkersFit' /\ LocksFit' BY <1>p, <1>a, <1>b, WorkerGoesOn
<1>3. SentMeansAccepted' BY <1>a, <1>d, <1>e, Members DEF SentMeansAccepted
<1>4. MarkedIsAccepted'
  <2>1. ASSUME NEW v \in Workers, worker'[v].step = "mark" PROVE accepted'[MailOf(v)'] >= 1
    <3>1. CASE v = w
      <4>1. MailOf(w)' = m BY <1>p, <1>a, <1>b, WorkerGoesOn
      <4>2. accepted'[m] = accepted[m] + 1 BY <1>c, <2>1, <3>1
      <4> QED BY <3>1, <4>1, <4>2, Members
    <3>2. CASE v # w
      <4>1. worker[v].step = "mark" BY <1>b, <2>1, <3>2
      <4>2. MailOf(v)' = MailOf(v) /\ MailOf(v) \in Mails
        BY <1>p, <1>a, <1>b, <4>1, WorkerGoesOn, AtWork
      <4>3. accepted[MailOf(v)] >= 1 BY <4>1 DEF MarkedIsAccepted
      <4> QED BY <4>2, <4>3, <1>d, <1>e, Members
    <3> QED BY <3>1, <3>2
  <2> QED BY <2>1 DEF MarkedIsAccepted
<1>5. StaysCarried'
  <2>1. \A n \in Mails : \A j \in Jobs : Carries(j, n) => Carries(j, n)'
    BY <1>p, <1>a, <1>b, WorkerGoesOn
  <2> QED BY <1>a, <2>1 DEF StaysCarried
<1>6. \A n \in Mails : Fewer(n)
  <2>1. \A n \in Mails : Trying(n)' \subseteq Trying(n) /\ Queued(n)' \subseteq Queued(n)
    BY <1>p, <1>a, <1>b, WorkerGoesOn
  <2> QED BY <1>a, <2>1 DEF Fewer, Adders, Retrying, CanRetry
<1>7. ASSUME NEW n \in Mails, n # m PROVE Counted(n)'
  <2>1. \A v \in Workers : Failing(v, n)' =>
            Failing(v, n) /\ worker'[v].attempts = worker[v].attempts
    <3>1. \A v \in Workers : Failing(v, n)' => Failing(v, n)
      BY <1>p, <1>a, <1>b, <1>7, WorkerGoesOn
    <3> QED BY <1>a, <1>b, <3>1 DEF Failing
  <2> QED BY <1>a, <1>c, <1>6, <1>7, <2>1, FewerChances, CountedKept
<1>8. Counted(m)'
  <2>1. \A v \in Workers : Failing(v, m)' =>
            Failing(v, m) /\ worker'[v].attempts = worker[v].attempts
    <3>1. \A v \in Workers \ {w} : Failing(v, m)' => Failing(v, m)
      BY <1>p, <1>a, <1>b, WorkerGoesOn
    <3> QED BY <1>a, <1>b, <3>1 DEF Failing
  <2>2. Chances(m)' <= Chances(m) BY <1>6, FewerChances
  <2>3. worker'[w].step = "mark" => Chances(m)' + 1 <= Chances(m)
    BY <1>p, <1>a, <1>b, <1>6, WorkerGoesOn, ChanceUsed
  <2>4. Chances(m) \in Nat /\ Chances(m)' \in Nat BY ChancesAdd
  <2>5. /\ accepted[m] \in Nat /\ mishaps[m] \in Nat /\ row[m].attempts \in Nat
        /\ Counted(m) /\ row' = row
    BY <1>a, Members DEF ChancesCounted
  <2>6. accepted'[m] + Chances(m)' <= 1 + mishaps'[m]
    BY <1>c, <2>2, <2>3, <2>4, <2>5 DEF Counted
  <2>7. row'[m].attempts + Chances(m)' <= MaxAttempts + mishaps'[m]
    BY <1>c, <2>2, <2>4, <2>5 DEF Counted
  <2>8. ASSUME NEW v \in Workers, Failing(v, m)'
        PROVE  worker'[v].attempts + Chances(m)' <= MaxAttempts + mishaps'[m]
    <3>1. worker[v].attempts + Chances(m) <= MaxAttempts + mishaps[m]
          /\ worker'[v].attempts = worker[v].attempts /\ worker[v].attempts \in Nat
      BY <2>1, <2>5, <2>8, Members DEF Counted
    <3> QED BY <1>c, <2>2, <2>4, <2>5, <3>1
  <2> QED BY <2>6, <2>7, <2>8 DEF Counted
<1> QED BY <1>1, <1>2, <1>3, <1>4, <1>5, <1>7, <1>8 DEF ChancesCounted

\* update: the row is SENT, or the statement or the read after it failed, and the catch block
\* may fail a mail that the server has taken.
LEMMA MarkStep ==
    ASSUME DeliveryInductive, NEW w \in Workers, Mark(w)
    PROVE  DeliveryInductive'
<1> USE DEF DeliveryInductive
<1>p. PICK m \in Mails : m = MailOf(w) BY AtWork DEF Mark
<1>a. /\ worker[w].step = "mark"
      /\ producing' = producing /\ job' = job /\ retrier' = retrier
      /\ accepted' = accepted /\ dropped' = dropped
      /\ \/ /\ row' = [row EXCEPT ![m].status = "sent"]
            /\ worker' = [worker EXCEPT ![w].step = "end"] /\ mishaps' = mishaps
         \/ /\ row' = [row EXCEPT ![m].status = "sent"] \/ row' = row
            /\ worker' = [worker EXCEPT ![w].step = "catch"]
            /\ mishaps[m] < MaxMishaps /\ mishaps' = [mishaps EXCEPT ![m] = mishaps[m] + 1]
  BY <1>p DEF Mark, Goto, Mishap
<1>b. /\ worker'[w].step \in {"catch", "end"}
      /\ worker'[w].job = worker[w].job /\ worker'[w].lock = worker[w].lock
      /\ \A v \in Workers \ {w} : worker'[v] = worker[v]
      /\ worker' \in [Workers -> Worker]
  BY <1>a, SMTT(30) DEF TypeOK, Worker
<1>c. /\ \/ /\ worker'[w].step = "end" /\ row'[m].status = "sent"
            /\ mishaps'[m] = mishaps[m]
         \/ /\ worker'[w].step = "catch" /\ mishaps'[m] = mishaps[m] + 1
            /\ row'[m].status = "sent" \/ row'[m].status = row[m].status
      /\ row'[m].attempts = row[m].attempts
      /\ \A n \in Mails \ {m} : row'[n] = row[n] /\ mishaps'[n] = mishaps[n]
  BY <1>a, <1>b DEF TypeOK, Worker, MailRow
<1>d. row' \in [Mails -> MailRow] /\ mishaps' \in [Mails -> 0 .. MaxMishaps]
  BY <1>a DEF TypeOK, MailRow
<1>1. TypeOK' BY <1>a, <1>b, <1>d DEF TypeOK
<1>2. WorkersFit' /\ LocksFit' /\ MarkedIsAccepted' BY <1>p, <1>a, <1>b, WorkerGoesOn
<1>3. SentMeansAccepted'
  <2>1. accepted[m] >= 1 BY <1>p, <1>a DEF MarkedIsAccepted
  <2> QED BY <1>a, <1>c, <2>1 DEF SentMeansAccepted
<1>5. StaysCarried'
  <2>1. \A n \in Mails : \A j \in Jobs :
            Carries(j, n) /\ (worker'[w].step = "end" => n # m) => Carries(j, n)'
    BY <1>p, <1>a, <1>b, WorkerGoesOn
  <2> QED BY <1>a, <1>c, <2>1 DEF StaysCarried
<1>6. \A n \in Mails : /\ row'[n].status = "absent" => row[n].status = "absent"
                       /\ n \in producing' => n \in producing
                       /\ Adders(n)' \subseteq Adders(n)
                       /\ Retrying(n)' => Retrying(n)
                       /\ Queued(n)' \subseteq Queued(n)
  <2>1. \A n \in Mails : CanRetry(n)' => CanRetry(n) BY <1>c DEF CanRetry
  <2>2. \A n \in Mails : Queued(n)' \subseteq Queued(n) BY <1>p, <1>a, <1>b, WorkerGoesOn
  <2> QED BY <1>a, <1>c, <2>1, <2>2 DEF Adders, Retrying
<1>f. \A n \in Mails : \A v \in Workers : Failing(v, n)' =>
          Failing(v, n) /\ worker'[v].attempts = worker[v].attempts
  <2>1. \A n \in Mails : \A v \in Workers \ {w} : Failing(v, n)' => Failing(v, n)
    BY <1>p, <1>a, <1>b, WorkerGoesOn
  <2> QED BY <1>b, <2>1 DEF Failing
<1>7. ASSUME NEW n \in Mails, n # m PROVE Counted(n)'
  <2>1. Trying(n)' \subseteq Trying(n) BY <1>p, <1>a, <1>b, <1>7, WorkerGoesOn
  <2>2. Fewer(n) BY <1>6, <2>1 DEF Fewer
  <2> QED BY <1>a, <1>c, <1>7, <1>f, <2>2, FewerChances, CountedKept
<1>8. Counted(m)'
  <2>1. CASE worker'[w].step = "end"
    <3>1. Trying(m)' \subseteq Trying(m) BY <1>p, <1>a, <1>b, <2>1, WorkerGoesOn
    <3>2. Fewer(m) BY <1>6, <3>1 DEF Fewer
    <3> QED BY <1>a, <1>c, <1>f, <2>1, <3>2, FewerChances, CountedKept
  <2>2. CASE worker'[w].step = "catch"
    <3>1. Trying(m)' \subseteq Trying(m) \cup {w} BY <1>p, <1>a, <1>b, WorkerGoesOn
    <3>2. worker[w].job \in Jobs BY <1>a, AtWork
    <3>3. Chances(m)' <= Chances(m) + 1 BY <1>6, <3>1, <3>2, ChanceWon
    <3> QED BY <1>a, <1>c, <1>f, <2>2, <3>3, CountedAfterMishap
  <2> QED BY <1>b, <2>1, <2>2
<1> QED BY <1>1, <1>2, <1>3, <1>5, <1>7, <1>8 DEF ChancesCounted

\* The catch block reads the attempts, or ends without a trace.
LEMMA CatchStep ==
    ASSUME DeliveryInductive, NEW w \in Workers, Catch(w)
    PROVE  DeliveryInductive'
<1> USE DEF DeliveryInductive
<1>p. PICK m \in Mails : m = MailOf(w) BY AtWork DEF Catch
<1>a. /\ worker[w].step = "catch"
      /\ row' = row /\ producing' = producing /\ job' = job /\ retrier' = retrier
      /\ accepted' = accepted /\ mishaps' = mishaps
      /\ \/ /\ worker' = [worker EXCEPT ![w] = [worker[w] EXCEPT !.step = "fail",
                                                   !.attempts = row[m].attempts]]
            /\ dropped' = dropped
         \/ /\ worker' = [worker EXCEPT ![w].step = "end"]
            /\ dropped' = dropped \cup {m}
  BY <1>p DEF Catch, Goto
<1>b. /\ worker'[w].step \in {"fail", "end"}
      /\ worker'[w].step = "fail" => worker'[w].attempts = row[m].attempts
      /\ worker'[w].step = "end" => m \in dropped'
      /\ dropped \subseteq dropped' /\ dropped' \subseteq Mails
      /\ worker'[w].job = worker[w].job /\ worker'[w].lock = worker[w].lock
      /\ \A v \in Workers \ {w} : worker'[v] = worker[v]
      /\ worker' \in [Workers -> Worker]
  <2>1. \/ worker'[w] = [worker[w] EXCEPT !.step = "fail", !.attempts = row[m].attempts]
        \/ worker'[w] = [worker[w] EXCEPT !.step = "end"] /\ dropped' = dropped \cup {m}
    BY <1>a DEF TypeOK
  <2>2. worker[w] \in Worker /\ row[m].attempts \in Counts BY Members DEF TypeOK
  <2>3. /\ worker'[w].step \in {"fail", "end"}
        /\ worker'[w].step = "fail" => worker'[w].attempts = row[m].attempts
        /\ worker'[w].step = "end" => m \in dropped'
        /\ worker'[w].job = worker[w].job /\ worker'[w].lock = worker[w].lock
        /\ worker'[w] \in Worker
    BY <2>1, <2>2 DEF Worker
  <2>4. /\ dropped \subseteq dropped' /\ dropped' \subseteq Mails
        /\ \A v \in Workers \ {w} : worker'[v] = worker[v]
    BY <1>a DEF TypeOK
  <2>5. worker' \in [Workers -> Worker] BY <1>a, <2>3, <2>4 DEF TypeOK
  <2> QED BY <2>3, <2>4, <2>5
<1>1. TypeOK' BY <1>a, <1>b DEF TypeOK
<1>2. WorkersFit' /\ LocksFit' /\ MarkedIsAccepted' BY <1>p, <1>a, <1>b, WorkerGoesOn
<1>3. SentMeansAccepted' BY <1>a DEF SentMeansAccepted
<1>5. StaysCarried'
  <2>1. \A n \in Mails : \A j \in Jobs :
            Carries(j, n) /\ (worker'[w].step = "end" => n # m) => Carries(j, n)'
    BY <1>p, <1>a, <1>b, WorkerGoesOn
  <2> QED BY <1>a, <1>b, <2>1 DEF StaysCarried
<1>6. \A n \in Mails : Fewer(n)
  <2>1. \A n \in Mails : Trying(n)' \subseteq Trying(n) /\ Queued(n)' \subseteq Queued(n)
    BY <1>p, <1>a, <1>b, WorkerGoesOn
  <2> QED BY <1>a, <2>1 DEF Fewer, Adders, Retrying, CanRetry
<1>7. ASSUME NEW n \in Mails PROVE Counted(n)'
  <2>1. MailOf(w)' = m BY <1>p, <1>a, <1>b, WorkerGoesOn
  <2>2. \A v \in Workers \ {w} : Failing(v, n)' => Failing(v, n)
    BY <1>p, <1>a, <1>b, WorkerGoesOn
  <2>3. \A v \in Workers : Failing(v, n)' =>
            \/ Failing(v, n) /\ worker'[v].attempts = worker[v].attempts
            \/ worker'[v].attempts = row[n].attempts
    BY <1>b, <2>1, <2>2 DEF Failing
  <2> QED BY <1>a, <1>6, <2>3, FewerChances, CountedKept
<1> QED BY <1>1, <1>2, <1>3, <1>5, <1>7 DEF ChancesCounted

\* The mail is FAILED with one attempt more than was read: what was read, and the chances
\* together, leave room for it.
LEMMA FailStep ==
    ASSUME DeliveryInductive, NEW w \in Workers, Fail(w)
    PROVE  DeliveryInductive'
<1> USE DEF DeliveryInductive
<1>p. PICK m \in Mails : m = MailOf(w) BY AtWork DEF Fail
<1>q. PICK k \in Nat : k = worker[w].attempts BY Members
<1>a. /\ worker[w].step = "fail"
      /\ producing' = producing /\ job' = job /\ retrier' = retrier
      /\ accepted' = accepted /\ mishaps' = mishaps
      /\ worker' = [worker EXCEPT ![w].step = "end"]
      /\ \/ /\ row' = [row EXCEPT ![m] = [status |-> "failed", attempts |-> k + 1]]
            /\ dropped' = dropped
         \/ dropped' = dropped \cup {m} /\ row' = row
  BY <1>p, <1>q DEF Fail, Goto
<1>b. /\ worker'[w].step = "end"
      /\ worker'[w].job = worker[w].job /\ worker'[w].lock = worker[w].lock
      /\ \A v \in Workers \ {w} : worker'[v] = worker[v]
      /\ worker' \in [Workers -> Worker]
  BY <1>a DEF TypeOK, Worker
<1>c. /\ \/ row'[m].status = "failed" /\ row'[m].attempts = k + 1 /\ dropped' = dropped
         \/ row'[m] = row[m] /\ dropped' = dropped \cup {m}
      /\ \A n \in Mails \ {m} : row'[n] = row[n]
  BY <1>a DEF TypeOK
<1>d. w \in Trying(m) BY <1>p, <1>a DEF Trying
<1>e. /\ Chances(m) \in Nat /\ Chances(m)' \in Nat /\ Chances(m) >= 1
      /\ mishaps[m] \in 0 .. MaxMishaps /\ accepted[m] \in Nat /\ row[m].attempts \in Nat
      /\ accepted[m] + Chances(m) <= 1 + mishaps[m]
      /\ k + Chances(m) <= MaxAttempts + mishaps[m]
  <2>1. Chances(m) >= 1
    <3>1. {} \subseteq Trying(m) \ {w} /\ Trying(m) \subseteq Workers BY DEF Trying
    <3>2. Cardinality({}) \in Nat /\ Cardinality({}) + 1 <= Cardinality(Trying(m))
      BY <1>d, <3>1, Count
    <3>3. \A P : One(P) \in Nat BY DEF One
    <3> QED BY <3>2, <3>3, ChancesAdd, CountAdders, CountQueued, CountTrying
  <2>2. Failing(w, m) BY <1>p, <1>a DEF Failing
  <2> QED BY <1>q, <2>1, <2>2, ChancesAdd, Members DEF ChancesCounted, Counted
<1>1. TypeOK'
  <2>1. k + 1 \in Counts BY <1>e DEF Counts
  <2>2. [status |-> "failed", attempts |-> k + 1] \in MailRow BY <2>1 DEF MailRow
  <2>3. row' \in [Mails -> MailRow] BY <1>a, <2>2 DEF TypeOK
  <2> QED BY <1>a, <1>b, <2>3 DEF TypeOK
<1>2. WorkersFit' /\ LocksFit' /\ MarkedIsAccepted' BY <1>p, <1>a, <1>b, WorkerGoesOn
<1>3. SentMeansAccepted' BY <1>a, <1>c DEF SentMeansAccepted
<1>5. StaysCarried'
  <2>1. \A n \in Mails \ {m} : \A j \in Jobs : Carries(j, n) => Carries(j, n)'
    BY <1>p, <1>a, <1>b, WorkerGoesOn
  <2> QED BY <1>a, <1>c, <2>1 DEF StaysCarried
<1>6. \A n \in Mails : Trying(n)' \subseteq Trying(n) /\ Queued(n)' \subseteq Queued(n)
  BY <1>p, <1>a, <1>b, WorkerGoesOn
<1>f. \A n \in Mails : \A v \in Workers : Failing(v, n)' =>
          Failing(v, n) /\ worker'[v].attempts = worker[v].attempts
  <2>1. \A n \in Mails : \A v \in Workers \ {w} : Failing(v, n)' => Failing(v, n)
    BY <1>p, <1>a, <1>b, WorkerGoesOn
  <2> QED BY <1>b, <2>1 DEF Failing
<1>7. ASSUME NEW n \in Mails, n # m PROVE Counted(n)'
  <2>1. Fewer(n) BY <1>a, <1>c, <1>6, <1>7 DEF Fewer, Adders, Retrying, CanRetry
  <2> QED BY <1>a, <1>c, <1>7, <1>f, <2>1, FewerChances, CountedKept
<1>8. Counted(m)'
  <2>1. Trying(m)' \subseteq Trying(m) \ {w} BY <1>p, <1>a, <1>b, WorkerGoesOn
  <2>2. ASSUME Retrying(m)' => Retrying(m) PROVE Chances(m)' + 1 <= Chances(m)
    <3>1. Fewer(m) BY <1>a, <1>c, <1>6, <2>2 DEF Fewer, Adders
    <3> QED BY <1>d, <2>1, <3>1, ChanceUsed
  <2>3. Chances(m)' <= Chances(m)
    <3>1. Cardinality(Trying(m)') + 1 <= Cardinality(Trying(m)) BY <1>d, <2>1, CountTrying
    <3>2. Cardinality(Queued(m)') <= Cardinality(Queued(m)) BY <1>6, CountQueued
    <3>3. /\ row'[m].status = "absent" => row[m].status = "absent"
          /\ m \in producing' <=> m \in producing
          /\ Adders(m)' = Adders(m)
      BY <1>a, <1>c DEF Adders
    <3>4. /\ One(row'[m].status = "absent") <= One(row[m].status = "absent")
          /\ One(m \in producing') = One(m \in producing)
          /\ Adders(m)' = Adders(m)
          /\ One(Retrying(m)') <= 1 /\ One(Retrying(m)) >= 0
      BY <3>3 DEF One
    <3>5. \A P : One(P) \in Nat BY DEF One
    <3> QED BY <3>1, <3>2, <3>4, <3>5, ChancesAdd, CountAdders, CountQueued, CountTrying
  <2>4. row'[m].attempts + Chances(m)' <= MaxAttempts + mishaps[m]
    <3>1. CASE row'[m] = row[m]
      <4>1. row[m].attempts + Chances(m) <= MaxAttempts + mishaps[m]
        BY DEF ChancesCounted, Counted
      <4> QED BY <1>e, <2>3, <3>1, <4>1
    <3>2. CASE row'[m].attempts = k + 1 /\ k + 1 < MaxAttempts
      BY <1>e, <2>3, <3>2
    <3>3. CASE row'[m].attempts = k + 1 /\ k + 1 >= MaxAttempts
      <4>1. ~CanRetry(m)' BY <3>3, <1>q DEF CanRetry
      <4>2. Retrying(m)' => Retrying(m) BY <1>a, <4>1 DEF Retrying
      <4>3. Chances(m)' + 1 <= Chances(m) BY <2>2, <4>2
      <4> QED BY <1>e, <3>3, <4>3
    <3> QED BY <1>c, <3>1, <3>2, <3>3
  <2>5. ASSUME NEW v \in Workers, Failing(v, m)'
        PROVE  worker'[v].attempts + Chances(m)' <= MaxAttempts + mishaps[m]
    <3>1. /\ worker'[v].attempts = worker[v].attempts /\ worker[v].attempts \in Nat
          /\ worker[v].attempts + Chances(m) <= MaxAttempts + mishaps[m]
      BY <1>f, <2>5, Members DEF ChancesCounted, Counted
    <3> QED BY <1>e, <2>3, <3>1
  <2>6. accepted[m] + Chances(m)' <= 1 + mishaps[m] BY <1>e, <2>3
  <2> QED BY <1>a, <2>4, <2>5, <2>6 DEF Counted
<1> QED BY <1>1, <1>2, <1>3, <1>5, <1>7, <1>8 DEF ChancesCounted

\* A worker takes a job: the job waits no more, and the worker tries.
LEMMA TakeStep ==
    ASSUME DeliveryInductive, NEW w \in Workers, NEW j \in Jobs, Take(w, j)
    PROVE  DeliveryInductive'
<1> USE DEF DeliveryInductive
<1>a. /\ worker[w] = Idle /\ job[j].state = "queued"
      /\ job' = [job EXCEPT ![j].state = "active"]
      /\ worker' = [worker EXCEPT ![w] = [Idle EXCEPT !.step = "send", !.job = j, !.lock = TRUE]]
      /\ row' = row /\ producing' = producing /\ retrier' = retrier
      /\ accepted' = accepted /\ mishaps' = mishaps /\ dropped' = dropped
  BY DEF Take
<1>p. PICK m \in Mails : m = job[j].mail BY <1>a, Members DEF WorkersFit
<1>b. /\ worker'[w].step = "send" /\ worker'[w].job = j /\ worker'[w].lock
      /\ \A v \in Workers \ {w} : worker'[v] = worker[v]
      /\ worker' \in [Workers -> Worker]
  BY <1>a, IdleFacts DEF TypeOK, Worker
<1>c. /\ job'[j].state = "active" /\ job'[j].mail = m
      /\ \A i \in Jobs \ {j} : job'[i] = job[i]
      /\ job' \in [Jobs -> Job]
  BY <1>a, <1>p DEF TypeOK, Job
<1>d. worker[w].step = "idle" /\ ~worker[w].lock BY <1>a, IdleFacts
<1>e. \A v \in Workers : worker[v].lock => worker[v].job # j /\ worker[v].job \in Jobs
  BY <1>a, AtWork DEF LocksFit
<1>f. \A v \in Workers : worker[v].step # "idle" => MailOf(v)' = MailOf(v)
  <2>1. \A i \in Jobs : job[i].state # "unused" => job'[i].mail = job[i].mail
    BY <1>p, <1>c
  <2>2. \A v \in Workers : worker[v].step # "idle" => worker'[v].job = worker[v].job
    BY <1>b, <1>d
  <2> QED BY <2>1, <2>2, SameMail
<1>g. MailOf(w)' = m BY <1>b, <1>c DEF MailOf
<1>1. TypeOK' BY <1>a, <1>b, <1>c DEF TypeOK
<1>2. WorkersFit' BY <1>b, <1>c, <1>p, <1>a DEF WorkersFit
<1>3. LocksFit' BY <1>b, <1>c, <1>e DEF LocksFit
<1>4. MarkedIsAccepted' BY <1>a, <1>b, <1>f DEF MarkedIsAccepted
<1>5. SentMeansAccepted' BY <1>a DEF SentMeansAccepted
<1>6. StaysCarried'
  <2>1. \A n \in Mails : \A i \in Jobs : Carries(i, n) => Carries(i, n)'
    BY <1>b, <1>c, <1>a DEF Carries
  <2> QED BY <1>a, <2>1 DEF StaysCarried
<1>h. \A n \in Mails : \A v \in Workers : Failing(v, n)' =>
          Failing(v, n) /\ worker'[v].attempts = worker[v].attempts
  BY <1>b, <1>f DEF Failing
<1>i. \A n \in Mails : /\ row'[n].status = "absent" => row[n].status = "absent"
                       /\ n \in producing' => n \in producing
                       /\ Adders(n)' \subseteq Adders(n)
                       /\ Retrying(n)' => Retrying(n)
  BY <1>a DEF Adders, Retrying, CanRetry
<1>7. ASSUME NEW n \in Mails, n # m PROVE Counted(n)'
  <2>1. Queued(n)' \subseteq Queued(n) BY <1>c DEF Queued
  <2>2. Trying(n)' \subseteq Trying(n) BY <1>b, <1>f, <1>g, <1>7 DEF Trying
  <2>3. Fewer(n) BY <1>i, <2>1, <2>2 DEF Fewer
  <2> QED BY <1>a, <1>h, <2>3, FewerChances, CountedKept
<1>8. Counted(m)'
  <2>1. j \in Queued(m) /\ Queued(m)' \subseteq Queued(m) \ {j} BY <1>a, <1>p, <1>c DEF Queued
  <2>2. Trying(m)' \subseteq Trying(m) \cup {w} BY <1>b, <1>f DEF Trying
  <2>3. Cardinality(Trying(m)') + Cardinality(Queued(m)')
            <= Cardinality(Trying(m)) + Cardinality(Queued(m))
    BY <2>1, <2>2, CountTrying, CountQueued
  <2>4. Chances(m)' <= Chances(m)
    BY <1>i, <2>3, OnesKept, ChancesAdd, CountQueued, CountTrying
  <2> QED BY <1>a, <1>h, <2>4, CountedKept
<1> QED BY <1>1, <1>2, <1>3, <1>4, <1>5, <1>6, <1>7, <1>8 DEF ChancesCounted

\* The job is over, unless it was given to another worker meanwhile.
LEMMA EndStep ==
    ASSUME DeliveryInductive, NEW w \in Workers, End(w)
    PROVE  DeliveryInductive'
<1> USE DEF DeliveryInductive
<1>p. PICK j \in Jobs : j = worker[w].job BY AtWork DEF End
<1>a. /\ worker[w].step = "end"
      /\ job' = IF worker[w].lock THEN [job EXCEPT ![j].state = "over"] ELSE job
      /\ worker' = [worker EXCEPT ![w] = Idle]
      /\ row' = row /\ producing' = producing /\ retrier' = retrier
      /\ accepted' = accepted /\ mishaps' = mishaps /\ dropped' = dropped
  BY <1>p DEF End
<1>b. /\ worker'[w] = Idle /\ worker'[w].step = "idle" /\ ~worker'[w].lock
      /\ \A v \in Workers \ {w} : worker'[v] = worker[v]
      /\ worker' \in [Workers -> Worker]
  BY <1>a, IdleFacts DEF TypeOK
<1>c. /\ job' \in [Jobs -> Job]
      /\ \A i \in Jobs : /\ job'[i].mail = job[i].mail
                         /\ job'[i].state = job[i].state \/ job'[i].state = "over"
                         /\ i # j \/ ~worker[w].lock => job'[i] = job[i]
      /\ worker[w].lock => job[j].state = "active"
  BY <1>a, <1>p, SMTT(30) DEF TypeOK, Job, LocksFit
<1>f. \A v \in Workers \ {w} : worker[v].step # "idle" => MailOf(v)' = MailOf(v)
  BY <1>b, <1>c, SameMail
<1>1. TypeOK' BY <1>a, <1>b, <1>c DEF TypeOK
<1>2. WorkersFit' BY <1>b, <1>c, Members DEF WorkersFit
<1>3. LocksFit'
  <2>1. \A v \in Workers : worker'[v].lock => v # w BY <1>b
  <2>2. \A v \in Workers \ {w} : worker[v].lock =>
            /\ worker[v].step # "idle" /\ worker[v].job \in Jobs
            /\ job'[worker[v].job] = job[worker[v].job]
            /\ job[worker[v].job].state = "active"
    BY <1>p, <1>c, AtWork DEF LocksFit
  <2> QED BY <1>b, <2>1, <2>2 DEF LocksFit
<1>4. MarkedIsAccepted' BY <1>a, <1>b, <1>f DEF MarkedIsAccepted
<1>5. SentMeansAccepted' BY <1>a DEF SentMeansAccepted
<1>6. StaysCarried'
  <2>1. \A n \in Mails : \A i \in Jobs : Carries(i, n) => Carries(i, n)'
    BY <1>p, <1>a, <1>b, <1>c DEF Carries
  <2> QED BY <1>a, <2>1 DEF StaysCarried
<1>7. ASSUME NEW n \in Mails PROVE Counted(n)'
  <2>1. Queued(n)' \subseteq Queued(n) BY <1>c DEF Queued
  <2>2. Trying(n)' \subseteq Trying(n) BY <1>b, <1>f DEF Trying
  <2>3. Fewer(n) BY <1>a, <2>1, <2>2 DEF Fewer, Adders, Retrying, CanRetry
  <2>4. \A v \in Workers : Failing(v, n)' =>
            Failing(v, n) /\ worker'[v].attempts = worker[v].attempts
    BY <1>b, <1>f DEF Failing
  <2> QED BY <1>a, <2>3, <2>4, FewerChances, CountedKept
<1> QED BY <1>1, <1>2, <1>3, <1>4, <1>5, <1>6, <1>7 DEF ChancesCounted

\* A job that is taken back from its worker waits again, or is over and its mail dropped.
LEMMA StallDoes ==
    ASSUME DeliveryInductive, NEW w \in Workers, worker[w].lock, Stall(worker[w].job),
           worker' \in [Workers -> Worker], ~worker'[w].lock,
           \/ worker'[w] = Idle
           \/ worker'[w].step = worker[w].step /\ worker'[w].job = worker[w].job
                 /\ worker'[w].attempts = worker[w].attempts,
           \A v \in Workers \ {w} : worker'[v] = worker[v],
           row' = row, producing' = producing, retrier' = retrier, accepted' = accepted
    PROVE  DeliveryInductive'
<1> USE DEF DeliveryInductive
<1>p. PICK j \in Jobs : j = worker[w].job BY AtWork DEF LocksFit
<1>q. PICK m \in Mails : m = job[j].mail BY <1>p, AtWork DEF LocksFit
<1>a. /\ job[j].state = "active" /\ worker[w].step # "idle"
      /\ mishaps[m] < MaxMishaps /\ mishaps' = [mishaps EXCEPT ![m] = mishaps[m] + 1]
      /\ job' = [job EXCEPT ![j] =
                   [state |-> IF job[j].stalled THEN "over" ELSE "queued",
                    mail |-> m, stalled |-> TRUE]]
      /\ dropped' = IF job[j].stalled THEN dropped \cup {m} ELSE dropped
  BY <1>p, <1>q DEF Stall, Mishap, LocksFit
<1>b. /\ job'[j].mail = m
      /\ \/ job'[j].state = "queued" /\ dropped' = dropped
         \/ job'[j].state = "over" /\ dropped' = dropped \cup {m}
      /\ job'[j] \in Job
  <2>1. job'[j] = [state |-> IF job[j].stalled THEN "over" ELSE "queued",
                   mail |-> m, stalled |-> TRUE]
    BY <1>a DEF TypeOK
  <2> QED BY <1>a, <2>1 DEF Job
<1>c. /\ \A i \in Jobs \ {j} : job'[i] = job[i]
      /\ job' \in [Jobs -> Job]
  BY <1>a, <1>b DEF TypeOK
<1>d. /\ mishaps'[m] = mishaps[m] + 1 /\ \A n \in Mails \ {m} : mishaps'[n] = mishaps[n]
      /\ mishaps' \in [Mails -> 0 .. MaxMishaps] /\ dropped' \subseteq Mails
      /\ dropped \subseteq dropped'
  BY <1>a DEF TypeOK
<1>e. \A v \in Workers \ {w} : worker[v].lock => worker[v].job # j /\ worker[v].job \in Jobs
  BY <1>p, AtWork DEF LocksFit
<1>f. \A v \in Workers : worker'[v].step # "idle" =>
          /\ worker[v].step # "idle" /\ worker'[v].step = worker[v].step
          /\ worker'[v].job = worker[v].job /\ worker'[v].attempts = worker[v].attempts
          /\ MailOf(v)' = MailOf(v)
  <2>1. \A i \in Jobs : job'[i].mail = job[i].mail BY <1>b, <1>c, <1>q
  <2> QED BY <2>1, IdleFacts, SameMail
<1>1. TypeOK' BY <1>c, <1>d DEF TypeOK
<1>2. WorkersFit'
  <2>1. \A i \in Jobs : job'[i].state # "unused" => job'[i].mail # None
    BY <1>b, <1>c DEF WorkersFit
  <2>2. \A v \in Workers : worker'[v].step = "idle" => worker'[v] = Idle
    BY <1>a DEF WorkersFit
  <2>3. \A v \in Workers : worker'[v].step # "idle" =>
            worker'[v].job # None /\ job'[worker'[v].job].state # "unused"
    BY <1>b, <1>c, <1>f, AtWork DEF WorkersFit
  <2> QED BY <2>1, <2>2, <2>3 DEF WorkersFit
<1>3. LocksFit' BY <1>c, <1>e DEF LocksFit
<1>4. MarkedIsAccepted' BY <1>f DEF MarkedIsAccepted
<1>5. SentMeansAccepted' BY DEF SentMeansAccepted
<1>6. StaysCarried'
  <2>1. \A v \in Workers : worker'[v].lock => v # w BY DEF TypeOK
  <2>2. \A n \in Mails : \A i \in Jobs \ {j} : Carries(i, n) => Carries(i, n)'
    BY <1>c, <2>1 DEF Carries
  <2>3. job'[j].state = "queued" => Carries(j, m)' BY <1>b, <1>e, <2>1 DEF Carries
  <2>4. \A n \in Mails : Carries(j, n) => n = m BY <1>q DEF Carries
  <2> QED BY <1>b, <1>d, <2>2, <2>3, <2>4 DEF StaysCarried
<1>g. \A n \in Mails : \A v \in Workers : Failing(v, n)' =>
          Failing(v, n) /\ worker'[v].attempts = worker[v].attempts
  BY <1>f DEF Failing
<1>h. \A n \in Mails : Trying(n)' \subseteq Trying(n) BY <1>f DEF Trying
<1>i. \A n \in Mails : /\ row'[n].status = "absent" => row[n].status = "absent"
                       /\ n \in producing' => n \in producing
                       /\ Adders(n)' \subseteq Adders(n)
                       /\ Retrying(n)' => Retrying(n)
  BY DEF Adders, Retrying, CanRetry
<1>7. ASSUME NEW n \in Mails, n # m PROVE Counted(n)'
  <2>1. Queued(n)' \subseteq Queued(n) BY <1>b, <1>c, <1>7 DEF Queued
  <2>2. Fewer(n) BY <1>i, <1>h, <2>1 DEF Fewer
  <2> QED BY <1>d, <1>g, <1>7, <2>2, FewerChances, CountedKept
<1>8. Counted(m)'
  <2>1. Queued(m)' \subseteq Queued(m) \cup {j} BY <1>c DEF Queued
  <2>2. Chances(m)' <= Chances(m) + 1 BY <1>i, <1>h, <2>1, ChanceWon
  <2> QED BY <1>d, <1>g, <2>2, CountedAfterMishap
<1> QED BY <1>1, <1>2, <1>3, <1>4, <1>5, <1>6, <1>7, <1>8 DEF ChancesCounted

\* The process of a worker stops.
LEMMA DieStep ==
    ASSUME DeliveryInductive, NEW w \in Workers, Die(w)
    PROVE  DeliveryInductive'
<1> USE DEF DeliveryInductive
<1>a. /\ worker[w] # Idle /\ worker' = [worker EXCEPT ![w] = Idle]
      /\ row' = row /\ producing' = producing /\ retrier' = retrier /\ accepted' = accepted
  BY DEF Die
<1>b. /\ worker'[w] = Idle /\ worker'[w].step = "idle" /\ ~worker'[w].lock
      /\ \A v \in Workers \ {w} : worker'[v] = worker[v]
      /\ worker' \in [Workers -> Worker]
  BY <1>a, IdleFacts DEF TypeOK
<1>1. CASE worker[w].lock
  <2>1. Stall(worker[w].job) BY <1>1 DEF Die
  <2> QED BY <1>a, <1>b, <1>1, <2>1, StallDoes
<1>2. CASE ~worker[w].lock
  <2>1. job' = job /\ mishaps' = mishaps /\ dropped' = dropped BY <1>2 DEF Die
  <2>f. \A v \in Workers \ {w} : MailOf(v)' = MailOf(v) BY <1>b, <2>1 DEF MailOf
  <2>2. TypeOK' BY <1>a, <1>b, <2>1 DEF TypeOK
  <2>3. WorkersFit' BY <1>b, <2>1 DEF WorkersFit
  <2>4. LocksFit' BY <1>b, <2>1 DEF LocksFit
  <2>5. MarkedIsAccepted' BY <1>a, <1>b, <2>f DEF MarkedIsAccepted
  <2>6. SentMeansAccepted' BY <1>a DEF SentMeansAccepted
  <2>7. StaysCarried'
    <3>1. \A n \in Mails : \A i \in Jobs : Carries(i, n) => Carries(i, n)'
      BY <1>b, <2>1 DEF Carries
    <3> QED BY <1>a, <2>1, <3>1 DEF StaysCarried
  <2>8. ASSUME NEW n \in Mails PROVE Counted(n)'
    <3>1. Queued(n)' \subseteq Queued(n) BY <2>1 DEF Queued
    <3>2. Trying(n)' \subseteq Trying(n) BY <1>b, <2>f DEF Trying
    <3>3. Fewer(n) BY <1>a, <3>1, <3>2 DEF Fewer, Adders, Retrying, CanRetry
    <3>4. \A v \in Workers : Failing(v, n)' =>
              Failing(v, n) /\ worker'[v].attempts = worker[v].attempts
      BY <1>b, <2>f DEF Failing
    <3> QED BY <1>a, <2>1, <3>3, <3>4, FewerChances, CountedKept
  <2> QED BY <2>2, <2>3, <2>4, <2>5, <2>6, <2>7, <2>8 DEF ChancesCounted
<1> QED BY <1>1, <1>2

\* The lock of a worker runs out, and it works on.
LEMMA LoseLockStep ==
    ASSUME DeliveryInductive, NEW w \in Workers, LoseLock(w)
    PROVE  DeliveryInductive'
<1> USE DEF DeliveryInductive
<1>a. /\ worker[w].lock /\ Stall(worker[w].job)
      /\ worker' = [worker EXCEPT ![w].lock = FALSE]
      /\ row' = row /\ producing' = producing /\ retrier' = retrier /\ accepted' = accepted
  BY DEF LoseLock
<1>b. /\ worker'[w].step = worker[w].step /\ worker'[w].job = worker[w].job
      /\ worker'[w].attempts = worker[w].attempts /\ ~worker'[w].lock
      /\ \A v \in Workers \ {w} : worker'[v] = worker[v]
      /\ worker' \in [Workers -> Worker]
  BY <1>a, ZenonT(40) DEF TypeOK, Worker
<1> QED BY <1>a, <1>b, StallDoes

-----------------------------------------------------------------------------
(* The theorems *)

\* What the code of the module leaves alone.
LEMMA DeliveryUnchanged ==
    ASSUME DeliveryInductive, UNCHANGED vars
    PROVE  DeliveryInductive'
<1> USE DEF DeliveryInductive
<1>1. /\ row' = row /\ producing' = producing /\ job' = job /\ worker' = worker
      /\ retrier' = retrier /\ accepted' = accepted /\ mishaps' = mishaps /\ dropped' = dropped
  BY DEF vars
<1>2. TypeOK' /\ SentMeansAccepted' BY <1>1 DEF TypeOK, SentMeansAccepted
<1>3. WorkersFit' /\ LocksFit' /\ MarkedIsAccepted' BY <1>1, SameJobs
<1>4. StaysCarried' BY <1>1, SameJobs DEF StaysCarried
<1>5. ASSUME NEW n \in Mails PROVE Counted(n)'
  <2>1. Fewer(n) BY <1>1, SameJobs DEF Fewer, Adders, Retrying, CanRetry
  <2> QED BY <1>1, <2>1, SameJobs, FewerChances, CountedKept
<1> QED BY <1>2, <1>3, <1>4, <1>5 DEF ChancesCounted

\* The inductive invariant: the chances of every mail, through producers, workers that crash
\* or lose their locks, and calls of RetryFailedMails that overlap.
THEOREM DeliveryInvariance == Spec => []DeliveryInductive
<1>1. Init => DeliveryInductive
  <2> SUFFICES ASSUME Init PROVE DeliveryInductive OBVIOUS
  <2>1. TypeOK BY IdleFacts DEF Init, TypeOK, MailRow, Job, Counts
  <2>2. SentMeansAccepted /\ StaysCarried BY DEF Init, SentMeansAccepted, StaysCarried
  <2>3. WorkersFit /\ LocksFit /\ MarkedIsAccepted
    BY IdleFacts DEF Init, WorkersFit, LocksFit, MarkedIsAccepted
  <2>4. ASSUME NEW m \in Mails PROVE Counted(m)
    <3>1. Queued(m) = {} /\ Trying(m) = {} BY IdleFacts DEF Init, Queued, Trying
    <3>2. Adders(m) = {} /\ ~Retrying(m) BY IdleFacts DEF Init, Adders, Retrying, CanRetry
    <3>3. Cardinality({}) = 0 BY FS_EmptySet
    <3>4. Chances(m) = 1
      <4>1. /\ One(row[m].status = "absent") = 1 /\ One(m \in producing) = 0
            /\ Cardinality(Adders(m)) = 0 /\ One(Retrying(m)) = 0
        BY <3>2, <3>3 DEF Init, One
      <4> QED BY <3>1, <3>3, <4>1 DEF Chances
    <3>5. /\ accepted[m] = 0 /\ mishaps[m] = 0 /\ row[m].attempts = 0
          /\ \A w \in Workers : ~Failing(w, m)
      BY IdleFacts DEF Init, Failing
    <3> QED BY <3>4, <3>5 DEF Counted
  <2> QED BY <2>1, <2>2, <2>3, <2>4 DEF DeliveryInductive, ChancesCounted
<1>2. DeliveryInductive /\ [Next]_vars => DeliveryInductive'
  <2> SUFFICES ASSUME DeliveryInductive, [Next]_vars PROVE DeliveryInductive' OBVIOUS
  <2>1. ASSUME NEW m \in Mails, Insert(m) \/ Produce(m) PROVE DeliveryInductive'
    BY <2>1, InsertStep, ProduceStep
  <2>2. ASSUME NEW w \in Workers, Process(w) PROVE DeliveryInductive'
    BY <2>2, TakeStep, SendStep, MarkStep, CatchStep, FailStep, EndStep DEF Process
  <2>3. ASSUME NEW w \in Workers, Die(w) \/ LoseLock(w) PROVE DeliveryInductive'
    BY <2>3, DieStep, LoseLockStep
  <2>4. ASSUME NEW r \in Retriers, Retry(r) PROVE DeliveryInductive'
    BY <2>4, RetryListStep, RetryUpdateStep, RetryAddStep DEF Retry
  <2> QED BY <2>1, <2>2, <2>3, <2>4, DeliveryUnchanged DEF Next
<1> QED BY <1>1, <1>2, PTL DEF Spec

\* A SENT mail was accepted by the server, none is accepted twice without a mishap (a crash, a
\* lost lock or answer, or two calls of RetryFailedMails that list it at the same time), a
\* PENDING one is on its way unless its job was lost, and no mail is tried more than
\* MaxAttempts times and once for each mishap.
THEOREM DeliveryIsRight == Spec => []DeliveryRight
<1>1. DeliveryInductive => DeliveryRight
  <2> SUFFICES ASSUME DeliveryInductive PROVE DeliveryRight OBVIOUS
  <2> USE DEF DeliveryInductive
  <2>1. PendingIsCarried BY DEF StaysCarried, Carries, PendingIsCarried
  <2>2. ASSUME NEW m \in Mails
        PROVE  accepted[m] <= 1 + mishaps[m] /\ row[m].attempts <= MaxAttempts + mishaps[m]
    BY ChancesAdd, Members DEF ChancesCounted, Counted
  <2> QED BY <2>1, <2>2 DEF DeliveryRight, AcceptedOncePerMishap, AttemptsBounded
<1> QED BY <1>1, DeliveryInvariance, PTL

-----------------------------------------------------------------------------
(* MailComposition: the inductive invariant *)

USE MailCompositionAssumption

Errand == [step : {"rest", "token", "find", "insert", "add"}, purpose : Purposes \cup {Nothing},
           letter : Letters \cup {Nothing}, found : Rows \cup {Nothing}]
Sending == [letter : Letters \cup {Nothing}, row : Rows \cup {Nothing},
            error : {"", "templateNotFound", "templateInactive", "templateFileNotFound"}]

CompositionTypes ==
    /\ template \in [Rows -> Template \cup {Nothing}]
    /\ mail \in [Letters -> Letter \cup {Nothing}]
    /\ jobs \subseteq Letters
    /\ producer \in [Producers -> Errand]
    /\ sender \in [Senders -> Sending]
    /\ seeding \in [Instances -> Seeding]

\* A name belongs to one row, deleted ones included.
NamesUnique ==
    \A r, s \in TemplateRows : template[r].name = template[s].name => r = s

\* The row r has the template's name that mails of this purpose ask for.
RowFor(r, purpose) ==
    r \in Rows /\ template[r] # Nothing /\ template[r].name = TemplateFor(purpose)

\* The locals of a producer fit its step: its mail is its own, is not in the database until
\* it has been inserted, and its link is stored before the template is looked for.
ErrandFits(p) ==
    /\ producer[p].step = "rest" => producer[p] = NoErrand
    /\ producer[p].step # "rest" =>
          producer[p].letter \in Letters /\ producer[p].purpose \in Purposes
    /\ producer[p].step \in {"token", "find", "insert"} => mail[producer[p].letter] = Nothing
    /\ producer[p].step = "add" => mail[producer[p].letter] # Nothing
    /\ producer[p].step = "insert" => RowFor(producer[p].found, producer[p].purpose)
    /\ producer[p].step \in {"find", "insert"} /\ HasLink(producer[p].purpose) =>
          [letter |-> producer[p].letter, minutes |-> Lifetime(producer[p].purpose)] \in links
ErrandsFit == \A p \in Producers : ErrandFits(p)
OwnLetters ==
    \A p, q \in Producers :
        producer[p].letter = producer[q].letter /\ producer[p].letter # Nothing => p = q

\* A mail, and what a worker has made of it, refer to the one row of its template's name.
LettersFit ==
    \A m \in Letters : mail[m] # Nothing => RowFor(mail[m].template, mail[m].purpose)
SendersFit ==
    /\ \A m \in jobs : mail[m] # Nothing
    /\ \A w \in Senders : sender[w].letter # Nothing =>
          /\ mail[sender[w].letter] # Nothing
          /\ sender[w].error = "" => RowFor(sender[w].row, mail[sender[w].letter].purpose)

\* A name that a start does not have to look at any more is taken.
SeedingFits ==
    \A i \in Instances :
        /\ seeding[i].step \in {"find", "create"} =>
              \A name \in Names : NameTaken(name) \/ name \in ToSet(seeding[i].todo)
        /\ seeding[i].step = "create" => seeding[i].todo # <<>>
        /\ seeding[i].step = "up" => \A name \in Names : NameTaken(name)

CompositionInductive ==
    /\ CompositionTypes /\ NamesUnique /\ ErrandsFit /\ OwnLetters /\ LettersFit /\ SendersFit
    /\ SeedingFits /\ RenderedFromItsTemplate /\ LinksHold

-----------------------------------------------------------------------------
(* Rows of mail_template *)

\* What the context of a mail says of its link is how long the token is valid.
LEMMA LifetimeSaid ==
    ASSUME NEW purpose
    PROVE  Lifetime(purpose) = SaidLifetime(purpose)
<1>1. (10 * 60000) \div 60000 = 10 OBVIOUS
<1> QED BY <1>1 DEF Lifetime, SaidLifetime

\* A row that is there keeps its name, and its name stays taken.
RowsStay ==
    /\ \A r \in TemplateRows : r \in TemplateRows' /\ template'[r].name = template[r].name
    /\ \A name : NameTaken(name) => NameTaken(name)'

\* Whatever a command on templates or the seeding does with a row: the types hold, names
\* stay unique, and no row loses its name.
LEMMA CreateTemplateKeeps ==
    ASSUME CompositionTypes, NamesUnique,
           NEW name \in Names, NEW content \in BOOLEAN, NEW active \in BOOLEAN,
           CreateTemplate(name, content, active)
    PROVE  /\ template' \in [Rows -> Template \cup {Nothing}] /\ NamesUnique' /\ RowsStay
           /\ NameTaken(name)'
<1>1. PICK r \in Rows : r = CHOOSE s \in Rows : template[s] = Nothing
  BY DEF CreateTemplate, TemplateRows
<1>2. template[r] = Nothing /\ ~NameTaken(name)
  BY <1>1 DEF CreateTemplate, TemplateRows
<1> DEFINE new == [name |-> name, content |-> content, active |-> active, deleted |-> FALSE]
<1>3. template' = [template EXCEPT ![r] = new] BY <1>1 DEF CreateTemplate
<1>4. new \in Template /\ new # Nothing /\ new.name = name
  <2>1. new \in Template BY DEF Template
  <2> QED BY <2>1, NothingIsNoTemplate
<1> HIDE DEF new
<1>5. template' \in [Rows -> Template \cup {Nothing}] /\ template'[r] = new
      /\ \A s \in Rows \ {r} : template'[s] = template[s]
  BY <1>3, <1>4 DEF CompositionTypes
<1>6. TemplateRows' = TemplateRows \cup {r} /\ r \notin TemplateRows
  BY <1>2, <1>4, <1>5 DEF TemplateRows
<1>7. \A s \in TemplateRows : template'[s] = template[s] /\ template[s].name # name
  BY <1>2, <1>5, <1>6 DEF NameTaken, TemplateRows
<1>8. NamesUnique' BY <1>4, <1>5, <1>6, <1>7 DEF NamesUnique
<1>9. NameTaken(name)' BY <1>4, <1>5, <1>6 DEF NameTaken
<1>10. RowsStay BY <1>6, <1>7 DEF RowsStay, NameTaken
<1> QED BY <1>5, <1>8, <1>9, <1>10

LEMMA RowKeepsName ==
    ASSUME CompositionTypes, NamesUnique, NEW r \in TemplateRows, NEW new \in Template,
           new.name = template[r].name, template' = [template EXCEPT ![r] = new]
    PROVE  template' \in [Rows -> Template \cup {Nothing}] /\ NamesUnique' /\ RowsStay
<1>1. r \in Rows /\ new # Nothing BY NothingIsNoTemplate DEF TemplateRows
<1>2. template' \in [Rows -> Template \cup {Nothing}] /\ template'[r] = new
      /\ \A s \in Rows \ {r} : template'[s] = template[s]
  BY <1>1 DEF CompositionTypes
<1>3. TemplateRows' = TemplateRows BY <1>1, <1>2 DEF TemplateRows
<1>4. \A s \in TemplateRows : template'[s].name = template[s].name
  BY <1>2 DEF TemplateRows
<1> QED BY <1>2, <1>3, <1>4 DEF NamesUnique, RowsStay, NameTaken

LEMMA EditKeeps ==
    ASSUME CompositionTypes, NamesUnique, Edit
    PROVE  template' \in [Rows -> Template \cup {Nothing}] /\ NamesUnique' /\ RowsStay
<1>1. ASSUME NEW name \in Names, NEW active \in BOOLEAN, CreateTemplate(name, TRUE, active)
      PROVE  template' \in [Rows -> Template \cup {Nothing}] /\ NamesUnique' /\ RowsStay
  BY <1>1, CreateTemplateKeeps
<1>2. ASSUME NEW r \in TemplateRows, NEW active \in BOOLEAN, UpdateTemplate(r, TRUE, active)
      PROVE  template' \in [Rows -> Template \cup {Nothing}] /\ NamesUnique' /\ RowsStay
  <2>1. template[r] \in Template /\ r \in Rows BY DEF TemplateRows, CompositionTypes
  <2> DEFINE new == [template[r] EXCEPT !.content = TRUE, !.active = active]
  <2>2. new \in Template /\ new.name = template[r].name BY <2>1 DEF Template
  <2>3. template' = [template EXCEPT ![r] = new] BY <1>2, <2>1 DEF UpdateTemplate, CompositionTypes
  <2> HIDE DEF new
  <2> QED BY <2>2, <2>3, RowKeepsName
<1>3. ASSUME NEW r \in TemplateRows, DeleteTemplate(r)
      PROVE  template' \in [Rows -> Template \cup {Nothing}] /\ NamesUnique' /\ RowsStay
  <2>1. template[r] \in Template /\ r \in Rows BY DEF TemplateRows, CompositionTypes
  <2> DEFINE new == [template[r] EXCEPT !.deleted = TRUE]
  <2>2. new \in Template /\ new.name = template[r].name BY <2>1 DEF Template
  <2>3. template' = [template EXCEPT ![r] = new] BY <1>3, <2>1 DEF DeleteTemplate, CompositionTypes
  <2> HIDE DEF new
  <2> QED BY <2>2, <2>3, RowKeepsName
<1> QED BY <1>1, <1>2, <1>3 DEF Edit

\* When rows keep their names, whoever refers to a row still refers to the right one.
LEMMA RowForStays ==
    ASSUME RowsStay
    PROVE  \A r, purpose : RowFor(r, purpose) =>
              r \in Rows /\ template'[r] # Nothing /\ template'[r].name = TemplateFor(purpose)
<1> SUFFICES ASSUME NEW r, NEW purpose, RowFor(r, purpose)
             PROVE  r \in Rows /\ template'[r] # Nothing /\ template'[r].name = TemplateFor(purpose)
  OBVIOUS
<1>1. r \in TemplateRows BY DEF RowFor, TemplateRows
<1>2. r \in TemplateRows' /\ template'[r].name = template[r].name BY <1>1 DEF RowsStay
<1> QED BY <1>2 DEF RowFor, TemplateRows

\* A step that changes nothing but rows of mail_template, none of which loses its name.
LEMMA OthersKept ==
    ASSUME CompositionInductive, RowsStay, UNCHANGED <<links, mail, jobs, producer, sender>>
    PROVE  ErrandsFit' /\ OwnLetters' /\ LettersFit' /\ SendersFit'
           /\ RenderedFromItsTemplate' /\ LinksHold'
<1> USE DEF CompositionInductive
<1>1. ErrandsFit'
  <2> SUFFICES ASSUME NEW p \in Producers PROVE ErrandFits(p)' BY DEF ErrandsFit
  <2>1. ErrandFits(p) BY DEF ErrandsFit
  <2> QED BY <2>1, RowForStays DEF ErrandFits, RowFor
<1>2. OwnLetters' /\ RenderedFromItsTemplate' /\ LinksHold'
  BY DEF OwnLetters, RenderedFromItsTemplate, LinksHold
<1>3. LettersFit' BY RowForStays DEF LettersFit, RowFor
<1>4. SendersFit' BY RowForStays, ZenonT(40) DEF SendersFit, RowFor
<1> QED BY <1>1, <1>2, <1>3, <1>4

-----------------------------------------------------------------------------
(* The commands on templates, and the seeding *)

\* No start loses a name it has found: names stay taken.
LEMMA EditStep ==
    ASSUME CompositionInductive, Edit
    PROVE  CompositionInductive'
<1> USE DEF CompositionInductive
<1>1. UNCHANGED <<links, mail, jobs, producer, sender, seeding>> BY DEF Edit
<1>2. template' \in [Rows -> Template \cup {Nothing}] /\ NamesUnique' /\ RowsStay
  BY EditKeeps
<1>3. CompositionTypes' BY <1>1, <1>2 DEF CompositionTypes
<1>4. SeedingFits'
  <2>1. \A name : NameTaken(name) => NameTaken(name)' BY <1>2 DEF RowsStay
  <2> QED BY <1>1, <2>1 DEF SeedingFits
<1> QED BY <1>1, <1>2, <1>3, <1>4, OthersKept

\* What is left of the names of a start: the first of them, and the rest.
LEMMA NamesLeft ==
    ASSUME NEW todo \in Seq(Names), todo # <<>>
    PROVE  /\ Head(todo) \in Names /\ Tail(todo) \in Seq(Names)
           /\ \A name \in ToSet(todo) : name = Head(todo) \/ name \in ToSet(Tail(todo))
<1>1. Head(todo) \in Names /\ Tail(todo) \in Seq(Names) /\ Len(todo) \in Nat \ {0}
      /\ Len(Tail(todo)) = Len(todo) - 1
      /\ \A k \in 1 .. Len(todo) - 1 : Tail(todo)[k] = todo[k + 1]
      /\ Head(todo) = todo[1]
  BY HeadTailProperties
<1>2. ASSUME NEW name \in ToSet(todo) PROVE name = Head(todo) \/ name \in ToSet(Tail(todo))
  <2>1. PICK k \in 1 .. Len(todo) : name = todo[k] BY <1>2 DEF ToSet
  <2>2. CASE k = 1 BY <2>1, <2>2, <1>1
  <2>3. CASE k # 1
    <3>1. k - 1 \in 1 .. Len(Tail(todo)) /\ Tail(todo)[k - 1] = name BY <1>1, <2>1, <2>3
    <3>2. DOMAIN Tail(todo) = 1 .. Len(Tail(todo)) BY <1>1
    <3> QED BY <3>1, <3>2 DEF ToSet
  <2> QED BY <2>2, <2>3
<1> QED BY <1>1, <1>2

\* What a step of one start leaves of SeedingFits, when names stay taken and the others are
\* where they were.
SeedingFitsAt(step, todo) ==
    /\ step \in {"find", "create"} =>
          \A name \in Names : NameTaken(name) \/ name \in ToSet(todo)
    /\ step = "create" => todo # <<>>
    /\ step = "up" => \A name \in Names : NameTaken(name)

LEMMA OneStart ==
    ASSUME CompositionInductive, RowsStay, NEW i \in Instances,
           template' \in [Rows -> Template \cup {Nothing}], NamesUnique',
           NEW s \in Seeding, seeding' = [seeding EXCEPT ![i] = s],
           SeedingFitsAt(s.step, s.todo)',
           UNCHANGED <<links, mail, jobs, producer, sender>>
    PROVE  CompositionInductive'
<1> USE DEF CompositionInductive
<1>1. seeding' \in [Instances -> Seeding] /\ seeding'[i] = s
      /\ \A j \in Instances \ {i} : seeding'[j] = seeding[j]
  BY DEF CompositionTypes
<1>2. CompositionTypes' BY <1>1 DEF CompositionTypes
<1>3. \A name : NameTaken(name) => NameTaken(name)' BY DEF RowsStay
<1>4. SeedingFits' BY <1>1, <1>3 DEF SeedingFits, SeedingFitsAt
<1> QED BY <1>2, <1>4, OthersKept

LEMMA BootStep ==
    ASSUME CompositionInductive, NEW i \in Instances, Boot(i)
    PROVE  CompositionInductive'
<1> DEFINE s == [step |-> "find", todo |-> Seeded]
<1>1. s \in Seeding BY DEF Seeding, Names
<1>2. \A name \in Names : name \in ToSet(Seeded) BY DEF Names
<1>3. UNCHANGED <<template, links, mail, jobs, producer, sender>>
      /\ seeding' = [seeding EXCEPT ![i] = s]
  BY DEF Boot
<1>4. template' \in [Rows -> Template \cup {Nothing}] /\ NamesUnique' /\ RowsStay
  BY <1>3 DEF CompositionInductive, CompositionTypes, NamesUnique, RowsStay, NameTaken, TemplateRows
<1>5. SeedingFitsAt(s.step, s.todo)' BY <1>2 DEF SeedingFitsAt
<1> HIDE DEF s
<1> QED BY <1>1, <1>3, <1>4, <1>5, OneStart

LEMMA StopStep ==
    ASSUME CompositionInductive, NEW i \in Instances, Stop(i)
    PROVE  CompositionInductive'
<1>1. Down \in Seeding BY DEF Seeding, Down
<1>3. UNCHANGED <<template, links, mail, jobs, producer, sender>>
      /\ seeding' = [seeding EXCEPT ![i] = Down]
  BY DEF Stop
<1>4. template' \in [Rows -> Template \cup {Nothing}] /\ NamesUnique' /\ RowsStay
  BY <1>3 DEF CompositionInductive, CompositionTypes, NamesUnique, RowsStay, NameTaken, TemplateRows
<1>5. SeedingFitsAt(Down.step, Down.todo)' BY DEF SeedingFitsAt, Down
<1> QED BY <1>1, <1>3, <1>4, <1>5, OneStart

\* A name that was found is taken; one that was not is still the first that is left.
LEMMA SeedFindStep ==
    ASSUME CompositionInductive, NEW i \in Instances, SeedFind(i)
    PROVE  CompositionInductive'
<1>1. PICK todo \in Seq(Names) : todo = seeding[i].todo /\ seeding[i].step = "find"
  BY DEF CompositionInductive, CompositionTypes, Seeding, SeedFind
<1> DEFINE found == todo # <<>> /\ FindByName(Head(todo)) # {}
<1>s. PICK s : s = SeedNext(todo, found) OBVIOUS
<1>2. UNCHANGED <<template, links, mail, jobs, producer, sender>>
      /\ seeding' = [seeding EXCEPT ![i] = s]
  BY <1>1, <1>s DEF SeedFind
<1>3. template' \in [Rows -> Template \cup {Nothing}] /\ NamesUnique' /\ RowsStay
  BY <1>2 DEF CompositionInductive, CompositionTypes, NamesUnique, RowsStay, NameTaken, TemplateRows
<1>4. \A name \in Names : NameTaken(name) \/ name \in ToSet(todo)
  BY <1>1 DEF CompositionInductive, SeedingFits
<1>5. found => NameTaken(Head(todo)) BY DEF FindByName, NameTaken
<1>6. s \in Seeding /\ SeedingFitsAt(s.step, s.todo)
  <2>1. CASE todo = <<>>
    <3>1. s = [step |-> "up", todo |-> <<>>] BY <2>1, <1>s DEF SeedNext
    <3>2. ToSet(todo) = {} BY <2>1 DEF ToSet
    <3>3. <<>> \in Seq(Names) OBVIOUS
    <3>4. s \in Seeding BY <3>1, <3>3 DEF Seeding
    <3> QED BY <3>1, <3>2, <3>4, <1>4 DEF SeedingFitsAt
  <2>2. CASE todo # <<>> /\ found
    <3>1. s = [step |-> "find", todo |-> Tail(todo)] BY <2>2, <1>s DEF SeedNext
    <3>2. /\ Tail(todo) \in Seq(Names)
          /\ \A name \in ToSet(todo) : name = Head(todo) \/ name \in ToSet(Tail(todo))
      BY <2>2, NamesLeft
    <3>3. s \in Seeding BY <3>1, <3>2 DEF Seeding
    <3>4. \A name \in Names : NameTaken(name) \/ name \in ToSet(Tail(todo))
      BY <3>2, <1>4, <1>5, <2>2
    <3> QED BY <3>1, <3>3, <3>4 DEF SeedingFitsAt
  <2>3. CASE todo # <<>> /\ ~found
    <3>1. s = [step |-> "create", todo |-> todo] BY <2>3, <1>s DEF SeedNext
    <3> QED BY <3>1, <1>4, <2>3 DEF SeedingFitsAt, Seeding
  <2> QED BY <2>1, <2>2, <2>3
<1>7. SeedingFitsAt(s.step, s.todo)'
  BY <1>6, <1>2 DEF SeedingFitsAt, NameTaken, TemplateRows
<1> QED BY <1>2, <1>3, <1>6, <1>7, OneStart

\* The name of the row that is created is taken from now on, whoever created it.
LEMMA SeedCreateStep ==
    ASSUME CompositionInductive, NEW i \in Instances, SeedCreate(i)
    PROVE  CompositionInductive'
<1>1. PICK todo \in Seq(Names) : todo = seeding[i].todo /\ seeding[i].step = "create" /\ todo # <<>>
  BY DEF CompositionInductive, CompositionTypes, Seeding, SeedCreate, SeedingFits
<1>2. UNCHANGED <<links, mail, jobs, producer, sender>> BY DEF SeedCreate
<1>3. Head(todo) \in Names /\ Tail(todo) \in Seq(Names)
      /\ \A name \in ToSet(todo) : name = Head(todo) \/ name \in ToSet(Tail(todo))
  BY <1>1, NamesLeft
<1>4. CASE NameTaken(Head(todo))
  <2>0. <<>> \in Seq(Names) OBVIOUS
  <2>1. PICK s \in Seeding : s = [step |-> "refused", todo |-> <<>>] BY <2>0 DEF Seeding
  <2>2. seeding' = [seeding EXCEPT ![i] = s] /\ UNCHANGED template
    BY <1>1, <1>4, <2>1 DEF SeedCreate, Down
  <2>3. template' \in [Rows -> Template \cup {Nothing}] /\ NamesUnique' /\ RowsStay
    BY <2>2
    DEF CompositionInductive, CompositionTypes, NamesUnique, RowsStay, NameTaken, TemplateRows
  <2>4. SeedingFitsAt(s.step, s.todo)' BY <2>1 DEF SeedingFitsAt
  <2> QED BY <1>2, <2>1, <2>2, <2>3, <2>4, OneStart
<1>5. CASE ~NameTaken(Head(todo))
  <2>1. PICK s \in Seeding : s = [step |-> "find", todo |-> Tail(todo)] BY <1>3 DEF Seeding
  <2>2. seeding' = [seeding EXCEPT ![i] = s] /\ CreateTemplate(Head(todo), FALSE, TRUE)
    BY <1>1, <1>5, <2>1 DEF SeedCreate
  <2>3. template' \in [Rows -> Template \cup {Nothing}] /\ NamesUnique' /\ RowsStay
        /\ NameTaken(Head(todo))'
    BY <2>2, <1>3, CreateTemplateKeeps DEF CompositionInductive
  <2>4. \A name \in Names : NameTaken(name)' \/ name \in ToSet(Tail(todo))
    <3>1. \A name \in Names : NameTaken(name) \/ name \in ToSet(todo)
      BY <1>1 DEF CompositionInductive, SeedingFits
    <3> QED BY <3>1, <2>3, <1>3 DEF RowsStay
  <2>5. SeedingFitsAt(s.step, s.todo)' BY <2>1, <2>4 DEF SeedingFitsAt
  <2> QED BY <1>2, <2>1, <2>2, <2>3, <2>5, OneStart
<1> QED BY <1>4, <1>5

-----------------------------------------------------------------------------
(* Who wants a mail *)

\* A step of a producer or of a worker leaves the templates and the seeding alone.
LEMMA TemplatesKept ==
    ASSUME CompositionInductive, UNCHANGED <<template, seeding>>
    PROVE  NamesUnique' /\ SeedingFits'
<1> QED BY DEF CompositionInductive, NamesUnique, SeedingFits, TemplateRows, NameTaken

\* A step of one producer, with what it makes of his errand, when no other mail comes or goes.
LEMMA OneErrand ==
    ASSUME CompositionInductive, NEW p \in Producers, NEW e \in Errand,
           producer' = [producer EXCEPT ![p] = e], UNCHANGED template,
           links \subseteq links',
           \A m \in Letters : m # producer[p].letter => mail'[m] = mail[m],
           ErrandFits(p)',
           e.letter # Nothing => \A q \in Producers \ {p} : producer[q].letter # e.letter
    PROVE  producer' \in [Producers -> Errand] /\ ErrandsFit' /\ OwnLetters'
<1> USE DEF CompositionInductive
<1>1. producer' \in [Producers -> Errand] /\ producer'[p] = e
      /\ \A q \in Producers \ {p} : producer'[q] = producer[q]
  BY DEF CompositionTypes
<1>2. ASSUME NEW q \in Producers, q # p PROVE ErrandFits(q)'
  <2>1. producer'[q] = producer[q] /\ ErrandFits(q) BY <1>1, <1>2 DEF ErrandsFit
  <2>2. producer[q].step # "rest" => mail'[producer[q].letter] = mail[producer[q].letter]
    BY <2>1, <1>2 DEF ErrandFits, OwnLetters
  <2>3. producer[q] \in Errand BY DEF CompositionTypes
  <2>4. producer[q].step \in {"rest", "token", "find", "insert", "add"} BY <2>3 DEF Errand
  <2> QED BY <2>1, <2>2, <2>4 DEF ErrandFits, RowFor
<1>3. ErrandsFit' BY <1>2 DEF ErrandsFit
<1>4. OwnLetters' BY <1>1 DEF OwnLetters
<1> QED BY <1>1, <1>3, <1>4

\* What a step needs that changes neither the mails, nor their jobs and workers.
LEMMA MailsKept ==
    ASSUME CompositionInductive, UNCHANGED <<template, mail, sender, seeding>>,
           links \subseteq links', jobs' \subseteq Letters,
           \A m \in jobs' : mail[m] # Nothing,
           producer' \in [Producers -> Errand], ErrandsFit', OwnLetters'
    PROVE  CompositionInductive'
<1> USE DEF CompositionInductive
<1>1. CompositionTypes' BY DEF CompositionTypes
<1>2. LettersFit' /\ SendersFit' BY DEF LettersFit, SendersFit, RowFor
<1>3. RenderedFromItsTemplate' /\ LinksHold' BY DEF RenderedFromItsTemplate, LinksHold
<1> QED BY <1>1, <1>2, <1>3, TemplatesKept

LEMMA ErrandFacts ==
    ASSUME CompositionInductive, NEW p \in Producers
    PROVE  /\ producer[p] \in Errand
           /\ producer[p].step \in {"rest", "token", "find", "insert", "add"}
           /\ producer[p].purpose \in Purposes \cup {Nothing}
           /\ producer[p].letter \in Letters \cup {Nothing}
           /\ producer[p].found \in Rows \cup {Nothing}
           /\ ErrandFits(p) /\ jobs \subseteq Letters /\ \A m \in jobs : mail[m] # Nothing
           /\ NoErrand \in Errand
<1>1. producer[p] \in Errand /\ ErrandFits(p) /\ jobs \subseteq Letters
      /\ \A m \in jobs : mail[m] # Nothing
  BY DEF CompositionInductive, CompositionTypes, ErrandsFit, SendersFit
<1>2. NoErrand \in Errand BY DEF NoErrand, Errand
<1> QED BY <1>1, <1>2 DEF Errand

\* A mail that is wanted is nobody else's, and is not in the database.
LEMMA WantStep ==
    ASSUME CompositionInductive, NEW p \in Producers, NEW purpose \in Purposes,
           NEW m \in Letters, Want(p, purpose, m)
    PROVE  CompositionInductive'
<1>0. PICK step \in {"token", "find"} :
         step = FirstStep(purpose) /\ (step = "find" => ~HasLink(purpose))
  BY DEF FirstStep
<1>1. PICK e : e = [NoErrand EXCEPT !.step = step, !.purpose = purpose, !.letter = m]
  OBVIOUS
<1>2. e \in Errand /\ e.step = step /\ e.letter = m /\ e.purpose = purpose
  BY <1>1 DEF Errand, NoErrand
<1>3. producer' = [producer EXCEPT ![p] = e] BY <1>0, <1>1 DEF Want
<1>4. UNCHANGED <<template, links, mail, jobs, sender, seeding>> /\ mail[m] = Nothing
      /\ \A q \in Producers : producer[q].letter # m
  BY DEF Want
<1>5. producer'[p] = e BY <1>3, ErrandFacts DEF CompositionInductive, CompositionTypes
<1>6. ErrandFits(p)' BY <1>0, <1>2, <1>4, <1>5 DEF ErrandFits
<1>7. producer' \in [Producers -> Errand] /\ ErrandsFit' /\ OwnLetters'
  BY <1>2, <1>3, <1>4, <1>6, OneErrand
<1> QED BY <1>4, <1>7, ErrandFacts, MailsKept

\* The link is stored, for as long as its mail will say.
LEMMA StoreTokenStep ==
    ASSUME CompositionInductive, NEW p \in Producers, StoreToken(p)
    PROVE  CompositionInductive'
<1>1. PICK e : e = [producer[p] EXCEPT !.step = "find"] OBVIOUS
<1>2. producer[p].step = "token" /\ UNCHANGED <<template, mail, jobs, sender, seeding>>
      /\ links' = links \cup {[letter |-> producer[p].letter,
                               minutes |-> Lifetime(producer[p].purpose)]}
  BY DEF StoreToken
<1>3. e \in Errand /\ e.step = "find" /\ e.letter = producer[p].letter
      /\ e.purpose = producer[p].purpose
  BY <1>1, ErrandFacts DEF Errand
<1>4. producer' = [producer EXCEPT ![p] = e] /\ producer'[p] = e
  BY <1>1 DEF StoreToken, CompositionInductive, CompositionTypes
<1>5. ErrandFits(p)' BY <1>2, <1>3, <1>4, ErrandFacts DEF ErrandFits
<1>6. e.letter # Nothing => \A q \in Producers \ {p} : producer[q].letter # e.letter
  BY <1>3 DEF CompositionInductive, OwnLetters
<1>7. producer' \in [Producers -> Errand] /\ ErrandsFit' /\ OwnLetters'
  BY <1>2, <1>3, <1>4, <1>5, <1>6, OneErrand
<1> QED BY <1>2, <1>7, ErrandFacts, MailsKept

\* The producer is done with his errand, for whatever reason.
LEMMA ErrandOver ==
    ASSUME CompositionInductive, NEW p \in Producers,
           producer' = [producer EXCEPT ![p] = NoErrand],
           UNCHANGED <<template, links, mail, sender, seeding>>,
           jobs' \subseteq Letters, \A m \in jobs' : mail[m] # Nothing
    PROVE  CompositionInductive'
<1>1. producer'[p] = NoErrand BY DEF CompositionInductive, CompositionTypes
<1>2. NoErrand \in Errand /\ NoErrand.letter = Nothing BY DEF NoErrand, Errand
<1>3. ErrandFits(p)' BY <1>1 DEF ErrandFits, NoErrand
<1>4. producer' \in [Producers -> Errand] /\ ErrandsFit' /\ OwnLetters'
  BY <1>2, <1>3, OneErrand
<1> QED BY <1>4, MailsKept

\* The row that is found has the name that was looked for.
LEMMA FindTemplateStep ==
    ASSUME CompositionInductive, NEW p \in Producers, FindTemplate(p)
    PROVE  CompositionInductive'
<1> DEFINE found == FindByName(TemplateFor(producer[p].purpose))
<1>1. producer[p].step = "find" /\ UNCHANGED <<template, links, mail, jobs, sender, seeding>>
  BY DEF FindTemplate
<1>2. CASE found = {}
  <2>1. producer' = [producer EXCEPT ![p] = NoErrand] BY <1>2 DEF FindTemplate
  <2> QED BY <2>1, <1>1, ErrandFacts, ErrandOver
<1>3. CASE found # {}
  <2>1. PICK r : r \in found /\ r = CHOOSE s \in found : TRUE BY <1>3
  <2>2. RowFor(r, producer[p].purpose) /\ r \in Rows
    BY <2>1 DEF FindByName, TemplateRows, RowFor
  <2> HIDE DEF found
  <2>3. PICK e : e = [producer[p] EXCEPT !.step = "insert", !.found = r] OBVIOUS
  <2>4. e \in Errand /\ e.step = "insert" /\ e.letter = producer[p].letter
        /\ e.purpose = producer[p].purpose /\ e.found = r
    BY <2>2, <2>3, ErrandFacts DEF Errand
  <2>5. producer' = [producer EXCEPT ![p] = e]
    BY <2>1, <2>3, <1>3 DEF FindTemplate, CompositionInductive, CompositionTypes, found
  <2>6. producer'[p] = e BY <2>5 DEF CompositionInductive, CompositionTypes
  <2>7. ErrandFits(p)' BY <1>1, <2>2, <2>4, <2>6, ErrandFacts DEF ErrandFits, RowFor
  <2>8. e.letter # Nothing => \A q \in Producers \ {p} : producer[q].letter # e.letter
    BY <2>4 DEF CompositionInductive, OwnLetters
  <2>9. producer' \in [Producers -> Errand] /\ ErrandsFit' /\ OwnLetters'
    BY <1>1, <2>4, <2>5, <2>7, <2>8, OneErrand
  <2> QED BY <1>1, <2>9, ErrandFacts, MailsKept
<1> QED BY <1>2, <1>3

\* The mail appears, with the row that was found; its link was stored before.
LEMMA InsertMailStep ==
    ASSUME CompositionInductive, NEW p \in Producers, InsertMail(p)
    PROVE  CompositionInductive'
<1> USE DEF CompositionInductive
<1>1. PICK m \in Letters : m = producer[p].letter /\ producer[p].step = "insert"
  BY ErrandFacts DEF InsertMail, ErrandFits
<1>2. PICK purpose \in Purposes : purpose = producer[p].purpose
  BY <1>1, ErrandFacts DEF ErrandFits
<1>3. PICK r \in Rows : r = producer[p].found /\ RowFor(r, purpose)
  BY <1>1, <1>2, ErrandFacts DEF ErrandFits, RowFor
<1>4. PICK new : new = [purpose |-> purpose, template |-> r, status |-> "pending", error |-> "",
                        rendered |-> Nothing]
  OBVIOUS
<1>5. new \in Letter /\ new # Nothing
  <2>1. new \in Letter BY <1>4 DEF Letter
  <2> QED BY <2>1, NothingIsNoTemplate
<1>6. mail' = [mail EXCEPT ![m] = new] /\ UNCHANGED <<template, links, jobs, sender, seeding>>
  BY <1>1, <1>2, <1>3, <1>4 DEF InsertMail
<1>7. mail' \in [Letters -> Letter \cup {Nothing}] /\ mail'[m] = new /\ mail[m] = Nothing
      /\ \A l \in Letters \ {m} : mail'[l] = mail[l]
  BY <1>1, <1>5, <1>6, ErrandFacts DEF CompositionTypes, ErrandFits
<1>8. PICK e : e = [producer[p] EXCEPT !.step = "add"] OBVIOUS
<1>9. e \in Errand /\ e.step = "add" /\ e.letter = m /\ e.purpose = purpose
  BY <1>8, <1>1, <1>2, ErrandFacts DEF Errand
<1>10. producer' = [producer EXCEPT ![p] = e] /\ producer'[p] = e
  BY <1>8 DEF InsertMail, CompositionTypes
<1>11. ErrandFits(p)' BY <1>5, <1>7, <1>9, <1>10, <1>1 DEF ErrandFits
<1>12. \A q \in Producers \ {p} : producer[q].letter # e.letter
  BY <1>9, <1>1, MailCompositionAssumption DEF OwnLetters
<1>13. producer' \in [Producers -> Errand] /\ ErrandsFit' /\ OwnLetters'
  BY <1>1, <1>6, <1>7, <1>9, <1>10, <1>11, <1>12, OneErrand
<1>14. CompositionTypes' BY <1>6, <1>7, <1>13 DEF CompositionTypes
<1>15. LettersFit' BY <1>3, <1>4, <1>6, <1>7 DEF LettersFit, RowFor
<1>16. SendersFit'
  <2>1. \A w \in Senders : sender[w].letter \in Letters \cup {Nothing}
    BY DEF CompositionTypes, Sending
  <2>2. jobs \subseteq Letters BY DEF CompositionTypes
  <2>3. \A l \in jobs : l # m BY <1>7 DEF SendersFit
  <2>4. \A w \in Senders : sender[w].letter # Nothing => sender[w].letter # m
    BY <1>7 DEF SendersFit
  <2> QED BY <2>1, <2>2, <2>3, <2>4, <1>6, <1>7 DEF SendersFit, RowFor
<1>17. RenderedFromItsTemplate'
  <2>1. new.status # "sent" BY <1>4
  <2> QED BY <2>1, <1>7 DEF RenderedFromItsTemplate
<1>18. LinksHold'
  <2>1. HasLink(purpose) => [letter |-> m, minutes |-> SaidLifetime(purpose)] \in links
    BY <1>1, <1>2, ErrandFacts, LifetimeSaid DEF ErrandFits
  <2> QED BY <2>1, <1>4, <1>6, <1>7 DEF LinksHold
<1> QED BY <1>6, <1>13, <1>14, <1>15, <1>16, <1>17, <1>18, TemplatesKept

LEMMA AddJobStep ==
    ASSUME CompositionInductive, NEW p \in Producers, AddJob(p)
    PROVE  CompositionInductive'
<1>1. producer[p].letter \in Letters /\ mail[producer[p].letter] # Nothing
  BY ErrandFacts DEF AddJob, ErrandFits
<1> QED BY <1>1, ErrandFacts, ErrandOver DEF AddJob

LEMMA GiveUpStep ==
    ASSUME CompositionInductive, NEW p \in Producers, GiveUp(p)
    PROVE  CompositionInductive'
<1> QED BY ErrandFacts, ErrandOver DEF GiveUp

-----------------------------------------------------------------------------
(* MailService.sendMail *)

\* What a worker makes of a mail is an error, or the row of its template's name.
LEMMA Composed ==
    ASSUME CompositionTypes, NEW purpose
    PROVE  LET made == Compose(TemplateFor(purpose)) IN
           /\ made.row \in Rows \cup {Nothing}
           /\ made.error \in {"", "templateNotFound", "templateInactive", "templateFileNotFound"}
           /\ made.error = "" => RowFor(made.row, purpose)
<1> DEFINE found == FindByName(TemplateFor(purpose))
           r == CHOOSE s \in found : TRUE
<1>1. found # {} => r \in found OBVIOUS
<1>2. \A s \in found : RowFor(s, purpose) /\ s \in Rows
  BY DEF FindByName, TemplateRows, RowFor
<1>3. PICK made : made = Compose(TemplateFor(purpose)) OBVIOUS
<1>4. \/ made = [row |-> Nothing, error |-> "templateNotFound"]
      \/ made = [row |-> Nothing, error |-> "templateInactive"]
      \/ made = [row |-> Nothing, error |-> "templateFileNotFound"]
      \/ made = [row |-> r, error |-> ""] /\ found # {}
  BY <1>3 DEF Compose
<1> HIDE DEF r, found
<1>5. /\ made.row \in Rows \cup {Nothing}
      /\ made.error \in {"", "templateNotFound", "templateInactive", "templateFileNotFound"}
      /\ made.error = "" => RowFor(made.row, purpose)
  <2>1. CASE made = [row |-> r, error |-> ""] /\ found # {}
    <3>1. r \in found /\ made.row = r /\ made.error = "" BY <1>1, <2>1
    <3> QED BY <1>2, <3>1
  <2>2. CASE made = [row |-> Nothing, error |-> "templateNotFound"] BY <2>2
  <2>3. CASE made = [row |-> Nothing, error |-> "templateInactive"] BY <2>3
  <2>4. CASE made = [row |-> Nothing, error |-> "templateFileNotFound"] BY <2>4
  <2> QED BY <2>1, <2>2, <2>3, <2>4, <1>4
<1> QED BY <1>3, <1>5

\* The template is found by the name that the mail's row was found by.
LEMMA TakeJobStep ==
    ASSUME CompositionInductive, NEW w \in Senders, NEW m \in jobs, TakeJob(w, m)
    PROVE  CompositionInductive'
<1> USE DEF CompositionInductive
<1>1. m \in Letters /\ mail[m] # Nothing BY DEF CompositionTypes, SendersFit
<1>2. PICK made : made = Compose(TemplateFor(mail[m].purpose)) OBVIOUS
<1>3. /\ made.row \in Rows \cup {Nothing}
      /\ made.error \in {"", "templateNotFound", "templateInactive", "templateFileNotFound"}
      /\ made.error = "" => RowFor(made.row, mail[m].purpose)
  BY <1>2, Composed
<1>4. PICK s : s = [letter |-> m, row |-> made.row, error |-> made.error] OBVIOUS
<1>5. s \in Sending BY <1>1, <1>3, <1>4 DEF Sending
<1>6. sender' = [sender EXCEPT ![w] = s] /\ jobs' = jobs \ {m}
      /\ UNCHANGED <<template, links, mail, producer, seeding, edits>>
  BY <1>2, <1>4 DEF TakeJob
<1>7. sender' \in [Senders -> Sending] /\ sender'[w] = s
      /\ \A v \in Senders \ {w} : sender'[v] = sender[v]
  BY <1>5, <1>6 DEF CompositionTypes
<1>8. CompositionTypes' BY <1>6, <1>7 DEF CompositionTypes
<1>9. SendersFit' BY <1>1, <1>3, <1>4, <1>6, <1>7 DEF SendersFit, RowFor
<1>10. ErrandsFit' /\ OwnLetters' BY <1>6 DEF ErrandsFit, ErrandFits, OwnLetters, RowFor
<1>11. LettersFit' /\ RenderedFromItsTemplate' /\ LinksHold'
  BY <1>6 DEF LettersFit, RowFor, RenderedFromItsTemplate, LinksHold
<1> QED BY <1>6, <1>8, <1>9, <1>10, <1>11, TemplatesKept

\* A mail that is sent was rendered from the one row of its template's name, which is the
\* one its row refers to.
LEMMA FinishStep ==
    ASSUME CompositionInductive, NEW w \in Senders, NEW smtp \in BOOLEAN, Finish(w, smtp)
    PROVE  CompositionInductive'
<1> USE DEF CompositionInductive
<1>1. PICK m \in Letters : m = sender[w].letter /\ mail[m] # Nothing
  BY DEF Finish, CompositionTypes, Sending, SendersFit
<1>2. mail[m] \in Letter /\ sender[w] \in Sending BY <1>1 DEF CompositionTypes
<1>3. PICK new :
         /\ mail' = [mail EXCEPT ![m] = new]
         /\ new \in Letter /\ new.purpose = mail[m].purpose /\ new.template = mail[m].template
         /\ new.status = "sent" => sender[w].error = "" /\ new.rendered = sender[w].row
  <2>1. CASE sender[w].error = "" /\ smtp
    <3>1. PICK new : new = [mail[m] EXCEPT !.status = "sent", !.rendered = sender[w].row]
      OBVIOUS
    <3>2. mail' = [mail EXCEPT ![m] = new] BY <1>1, <2>1, <3>1 DEF Finish, CompositionTypes
    <3>3. [mail[m] EXCEPT !.status = "sent"] \in Letter BY <1>2 DEF Letter
    <3>4. sender[w].row \in Rows \cup {Nothing} BY <1>2 DEF Sending
    <3>5. new \in Letter BY <1>2, <3>1, <3>3, <3>4 DEF Letter
    <3>6. new.purpose = mail[m].purpose /\ new.template = mail[m].template
          /\ new.rendered = sender[w].row
      BY <1>2, <3>1 DEF Letter
    <3> QED BY <2>1, <3>2, <3>5, <3>6
  <2>2. CASE ~(sender[w].error = "" /\ smtp)
    <3>1. PICK error \in {"templateNotFound", "templateInactive", "templateFileNotFound", "smtp"} :
             error = IF sender[w].error = "" THEN "smtp" ELSE sender[w].error
      BY <1>2 DEF Sending
    <3>2. PICK new : new = [mail[m] EXCEPT !.status = "failed", !.error = error] OBVIOUS
    <3>3. mail' = [mail EXCEPT ![m] = new]
      BY <1>1, <2>2, <3>1, <3>2 DEF Finish, CompositionTypes
    <3>4. new \in Letter BY <1>2, <3>2 DEF Letter
    <3>5. new.purpose = mail[m].purpose /\ new.template = mail[m].template
          /\ new.status = "failed"
      BY <1>2, <3>2 DEF Letter
    <3> QED BY <3>3, <3>4, <3>5
  <2> QED BY <2>1, <2>2
<1>4. mail' \in [Letters -> Letter \cup {Nothing}] /\ mail'[m] = new /\ new # Nothing
      /\ \A l \in Letters \ {m} : mail'[l] = mail[l]
  BY <1>3, NothingIsNoTemplate DEF CompositionTypes
<1>5. \A l \in Letters : mail'[l] = Nothing <=> mail[l] = Nothing BY <1>1, <1>4
<1>6. \A l \in Letters : mail[l] # Nothing =>
         mail'[l].purpose = mail[l].purpose /\ mail'[l].template = mail[l].template
  BY <1>3, <1>4
<1>7. Unsent \in Sending /\ Unsent.letter = Nothing BY DEF Unsent, Sending
<1>8. /\ sender' = [sender EXCEPT ![w] = Unsent]
      /\ UNCHANGED <<template, links, jobs, producer, seeding>>
  BY DEF Finish
<1>9. sender' \in [Senders -> Sending] /\ sender'[w] = Unsent
      /\ \A v \in Senders \ {w} : sender'[v] = sender[v]
  BY <1>7, <1>8 DEF CompositionTypes
<1>10. CompositionTypes' BY <1>4, <1>8, <1>9 DEF CompositionTypes
<1>11. ErrandsFit'
  <2> SUFFICES ASSUME NEW p \in Producers PROVE ErrandFits(p)' BY DEF ErrandsFit
  <2> QED BY <1>5, <1>8, ErrandFacts DEF ErrandFits, RowFor
<1>12. OwnLetters' BY <1>8 DEF OwnLetters
<1>13. LettersFit' BY <1>5, <1>6, <1>8 DEF LettersFit, RowFor
<1>14. SendersFit'
  <2>1. jobs \subseteq Letters /\ \A v \in Senders : sender[v].letter \in Letters \cup {Nothing}
    BY DEF CompositionTypes, Sending
  <2> QED BY <2>1, <1>5, <1>6, <1>7, <1>8, <1>9, ZenonT(40) DEF SendersFit, RowFor
<1>15. RenderedFromItsTemplate'
  <2>1. sender[w].error = "" => sender[w].row = mail[m].template
    <3>1. RowFor(mail[m].template, mail[m].purpose) BY <1>1 DEF LettersFit
    <3>2. sender[w].error = "" => RowFor(sender[w].row, mail[m].purpose)
      BY <1>1, MailCompositionAssumption DEF SendersFit
    <3> QED BY <3>1, <3>2 DEF RowFor, NamesUnique, TemplateRows
  <2> QED BY <2>1, <1>3, <1>4 DEF RenderedFromItsTemplate
<1>16. LinksHold' BY <1>5, <1>6, <1>8 DEF LinksHold
<1> QED BY <1>8, <1>10, <1>11, <1>12, <1>13, <1>14, <1>15, <1>16, TemplatesKept

-----------------------------------------------------------------------------
(* The theorems of MailComposition *)

\* The inductive invariant of the templates, of who seeds and edits them, and of the mails
\* that are made of them.
THEOREM CompositionInvariance == CompositionSpec => []CompositionInductive
<1>1. CompositionInit => CompositionInductive
  <2> SUFFICES ASSUME CompositionInit PROVE CompositionInductive OBVIOUS
  <2>1. NoErrand \in Errand /\ Unsent \in Sending /\ Down \in Seeding
    BY DEF NoErrand, Errand, Unsent, Sending, Down, Seeding
  <2>2. CompositionTypes BY <2>1 DEF CompositionInit, CompositionTypes
  <2>3. NamesUnique BY DEF CompositionInit, NamesUnique, TemplateRows
  <2>4. ErrandsFit /\ OwnLetters
    BY DEF CompositionInit, ErrandsFit, ErrandFits, OwnLetters, NoErrand
  <2>5. LettersFit /\ RenderedFromItsTemplate /\ LinksHold
    BY DEF CompositionInit, LettersFit, RenderedFromItsTemplate, LinksHold
  <2>6. SendersFit BY DEF CompositionInit, SendersFit, Unsent
  <2>7. SeedingFits BY DEF CompositionInit, SeedingFits, Down
  <2> QED BY <2>2, <2>3, <2>4, <2>5, <2>6, <2>7 DEF CompositionInductive
<1>2. CompositionInductive /\ [CompositionNext]_compositionVars => CompositionInductive'
  <2> SUFFICES ASSUME CompositionInductive, [CompositionNext]_compositionVars
               PROVE  CompositionInductive'
    OBVIOUS
  <2>1. CASE Edit BY <2>1, EditStep
  <2>2. ASSUME NEW i \in Instances, Boot(i) \/ SeedFind(i) \/ SeedCreate(i) \/ Stop(i)
        PROVE  CompositionInductive'
    BY <2>2, BootStep, SeedFindStep, SeedCreateStep, StopStep
  <2>3. ASSUME NEW p \in Producers, NEW purpose \in Purposes, NEW m \in Letters,
               Want(p, purpose, m)
        PROVE  CompositionInductive'
    BY <2>3, WantStep
  <2>4. ASSUME NEW p \in Producers,
               StoreToken(p) \/ FindTemplate(p) \/ InsertMail(p) \/ AddJob(p) \/ GiveUp(p)
        PROVE  CompositionInductive'
    BY <2>4, StoreTokenStep, FindTemplateStep, InsertMailStep, AddJobStep, GiveUpStep
  <2>5. ASSUME NEW w \in Senders, NEW m \in jobs, TakeJob(w, m) PROVE CompositionInductive'
    BY <2>5, TakeJobStep
  <2>6. ASSUME NEW w \in Senders, NEW smtp \in BOOLEAN, Finish(w, smtp)
        PROVE  CompositionInductive'
    BY <2>6, FinishStep
  <2>7. CASE UNCHANGED compositionVars
    BY <2>7, ZenonT(40)
    DEF compositionVars, CompositionInductive, CompositionTypes, NamesUnique, TemplateRows,
       NameTaken, ErrandsFit, ErrandFits, RowFor, OwnLetters, LettersFit, SendersFit, SeedingFits,
       RenderedFromItsTemplate, LinksHold
  <2> QED BY <2>1, <2>2, <2>3, <2>4, <2>5, <2>6, <2>7 DEF CompositionNext
<1> QED BY <1>1, <1>2, PTL DEF CompositionSpec

\* A mail is rendered from the template its row refers to, although the producer and the
\* worker each look it up by its name: a name is never given to a second row, not even to
\* replace a deleted one.
THEOREM MailsAreRendered == CompositionSpec => []RenderedFromItsTemplate
<1> QED BY CompositionInvariance, PTL DEF CompositionInductive

\* The link of every mail that is on its way, or was sent, is stored for as long as the mail
\* says, wherever the request stopped.
THEOREM LinksAreStored == CompositionSpec => []LinksHold
<1> QED BY CompositionInvariance, PTL DEF CompositionInductive

\* A start that has come to its end leaves a row of every seeded name, whatever another
\* start, or one that was cut off, or an edit has left.
THEOREM SeedingCompletes == CompositionSpec => []SeedingIsComplete
<1>1. CompositionInductive => SeedingIsComplete
  BY DEF CompositionInductive, SeedingFits, SeedingIsComplete
<1> QED BY <1>1, CompositionInvariance, PTL
=============================================================================
