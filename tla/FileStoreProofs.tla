---------------------------- MODULE FileStoreProofs ----------------------------
(***************************************************************************)
(* Proofs about FileStore, for any number of users, files, names and       *)
(* requests in flight, whether the bucket keeps versions or not; and about *)
(* HttpPipeline, for any texts and dictionaries.                           *)
(***************************************************************************)
EXTENDS FileStore, HttpPipeline, SequenceTheorems, TLAPS

USE FileStoreAssumption, NoneIsNoRow

-----------------------------------------------------------------------------
(* Rows, objects and requests *)

\* A request that has ended, or has not begun, holds nothing.
LEMMA IdleFacts ==
    /\ Idle \in Request
    /\ Idle.step = "idle" /\ Idle.user = None /\ Idle.todo = <<>> /\ Idle.file = None
    /\ Idle.name = None /\ Idle.body = FALSE /\ Idle.put = 0 /\ Idle.row = None
    /\ Idle.asked = 0 /\ Idle.got = None
BY EmptySeq DEF Idle, Request

\* What rows, objects and requests hold.
LEMMA Members ==
    ASSUME TypeOK
    PROVE  /\ \A f \in FileIds : file[f] # None =>
                 /\ file[f] \in FileRow /\ file[f].name \in Names /\ file[f].user \in Users
                 /\ file[f].last \in Puts /\ file[f].deleted \in BOOLEAN
           /\ \A n \in Puts : version[n] # None =>
                 /\ version[n] \in VersionRow /\ version[n].file \in FileIds
                 /\ version[n].under \in Keys
           /\ \A o \in bucket : o.key \in Keys /\ o.n \in Puts /\ o.file \in FileIds
           /\ \A p \in Requests :
                 /\ request[p].step \in {"idle", "fetching", "sent"} \cup Uploading \cup Updating
                 /\ request[p].user \in Users \cup {None}
                 /\ request[p].todo \in Seq(Names)
                 /\ request[p].file \in FileIds \cup {None}
                 /\ request[p].name \in Names \cup {None}
                 /\ request[p].body \in BOOLEAN
                 /\ request[p].put \in 0 .. MaxPuts
                 /\ request[p].row \in Read \cup {None}
                 /\ request[p].asked \in 0 .. MaxPuts
                 /\ request[p].got \in Object \cup {None}
<1>1. \A f \in FileIds : file[f] # None =>
          /\ file[f] \in FileRow /\ file[f].name \in Names /\ file[f].user \in Users
          /\ file[f].last \in Puts /\ file[f].deleted \in BOOLEAN
  BY DEF TypeOK, FileRow
<1>2. \A n \in Puts : version[n] # None =>
          /\ version[n] \in VersionRow /\ version[n].file \in FileIds
          /\ version[n].under \in Keys
  BY DEF TypeOK, VersionRow
<1>3. \A o \in bucket : o.key \in Keys /\ o.n \in Puts /\ o.file \in FileIds
  BY DEF TypeOK, Object
<1>4. \A p \in Requests :
          /\ request[p].step \in {"idle", "fetching", "sent"} \cup Uploading \cup Updating
          /\ request[p].user \in Users \cup {None}
          /\ request[p].todo \in Seq(Names)
          /\ request[p].file \in FileIds \cup {None}
          /\ request[p].name \in Names \cup {None}
          /\ request[p].body \in BOOLEAN
          /\ request[p].put \in 0 .. MaxPuts
          /\ request[p].row \in Read \cup {None}
          /\ request[p].asked \in 0 .. MaxPuts
          /\ request[p].got \in Object \cup {None}
  BY DEF TypeOK, Request
<1> QED BY <1>1, <1>2, <1>3, <1>4

\* The key of a user and a name is in the user's part of the bucket.
LEMMA KeyFacts ==
    ASSUME NEW user \in Users, NEW name \in Names
    PROVE  Key(user, name) \in Keys /\ Key(user, name)[1] = user
BY DEF Key, Keys

\* The files of a request after the first.
LEMMA TailFacts ==
    ASSUME NEW s \in Seq(Names), s # <<>>
    PROVE  Tail(s) \in Seq(Names) /\ (Len(s) # 1 => Tail(s) # <<>>)
<1>1. Tail(s) \in Seq(Names) /\ Len(Tail(s)) = Len(s) - 1 /\ Len(s) \in Nat
  BY HeadTailProperties, LenProperties
<1>2. Tail(s) = <<>> => Len(Tail(s)) = 0 BY EmptySeq
<1> QED BY <1>1, <1>2

\* What a handler goes on using of a row.
LEMMA SnapshotFacts ==
    ASSUME TypeOK, NEW f \in FileIds, file[f] # None
    PROVE  Snapshot(f) \in Read /\ Snapshot(f).user = file[f].user /\ Snapshot(f) # None
BY Members DEF Snapshot, Read

\* The name a handler puts the object under is one of the names.
LEMMA NewNameIsName ==
    ASSUME TypeOK, NEW p \in Requests, request[p].row # None
    PROVE  /\ NewName(request[p]) \in Names
           /\ request[p].row \in Read /\ request[p].row.user \in Users
           /\ request[p].row.name \in Names
<1>1. request[p].row \in Read /\ request[p].name \in Names \cup {None} BY Members
<1> QED BY <1>1 DEF Read, NewName

-----------------------------------------------------------------------------
(* One step *)

\* The bucket after the step.
HoldsNext(key, n, f) == \E o \in bucket' : o.key = key /\ (versioned' => o.n = n /\ o.file = f)

\* What a step never undoes: files keep their owner, versions their row, objects their key;
\* a bucket keeps or replaces what is put, as it began.
Kept ==
    /\ \A f \in FileIds : file[f] # None => file'[f] # None /\ file'[f].user = file[f].user
    /\ \A n \in Puts : version[n] # None => version'[n] = version[n]
    /\ \A key, n, f : Holds(key, n, f) => HoldsNext(key, n, f)
    /\ puts' >= puts
    /\ versioned' = versioned

\* A request that does nothing still fits, as long as nobody inserts the file or the
\* version that it is about to insert.
LEMMA OtherFits ==
    ASSUME Inductive, Kept, NEW q \in Requests, request'[q] = request[q], puts' \in Nat,
           Holding(q) => version'[request[q].put] = None,
           InTx(q) /\ request[q].file # None /\ file[request[q].file] = None =>
               file'[request[q].file] = None
    PROVE  RequestFits(q)' /\ Served(q)' /\ (Holding(q)' <=> Holding(q)) /\ (InTx(q)' <=> InTx(q))
<1> USE DEF Inductive
<1>1. RequestFits(q) /\ Served(q) BY DEF RequestsFit, ServedRight
<1>2. (Holding(q)' <=> Holding(q)) /\ (InTx(q)' <=> InTx(q)) BY DEF Holding, InTx
<1>3. puts \in Nat BY DEF TypeOK
<1>4. Served(q)'
  <2>1. request[q].got # None => /\ request[q].file \in FileIds /\ file[request[q].file] # None
                                 /\ request[q].asked \in Puts
    BY <1>1, Members DEF RequestFits
  <2> QED BY <1>1, <2>1 DEF Served, Kept
<1>5. RequestFits(q)'
  <2> DEFINE r == request[q]
  <2>1. r.step = "next" => r.todo # <<>> BY <1>1 DEF RequestFits
  <2>2. r.step \in Uploading => r.user # None BY <1>1 DEF RequestFits
  <2>3. InTx(q) => /\ r.file # None /\ r.name # None /\ r.todo # <<>>
                   /\ file'[r.file] # None => file'[r.file].user = r.user
    <3>1. InTx(q) => /\ r.file \in FileIds /\ r.name # None /\ r.todo # <<>> /\ r.file # None
                     /\ file[r.file] # None => file[r.file].user = r.user
      BY <1>1, Members DEF RequestFits
    <3> QED BY <3>1 DEF Kept
  <2>4. r.step \in Updating \cup {"fetching"} =>
            /\ r.file # None /\ r.row # None
            /\ file'[r.file] # None /\ file'[r.file].user = r.row.user
    <3>1. r.step \in Updating \cup {"fetching"} =>
              /\ r.file # None /\ r.file \in FileIds /\ r.row # None
              /\ file[r.file] # None /\ file[r.file].user = r.row.user
      BY <1>1, Members DEF RequestFits
    <3> QED BY <3>1 DEF Kept
  <2>5. r.step \in {"storing", "inserting"} =>
            /\ r.put \in 1 .. puts' /\ version'[r.put] = None
            /\ HoldsNext(HeldKey(r), r.put, r.file)
    <3>1. r.step \in {"storing", "inserting"} =>
              /\ r.put \in 1 .. puts /\ Holds(HeldKey(r), r.put, r.file)
      BY <1>1 DEF RequestFits
    <3>2. r.step \in {"storing", "inserting"} => r.put \in 1 .. puts'
      BY <3>1, <1>3 DEF Kept
    <3>3. HeldKey(r)' = HeldKey(r) BY DEF HeldKey, NewName, Key
    <3>4. Holds(HeldKey(r), r.put, r.file) => HoldsNext(HeldKey(r), r.put, r.file)
      BY <3>3 DEF Kept, Holds, HoldsNext
    <3> QED BY <3>1, <3>2, <3>4 DEF Holding
  <2>6. r.step = "pointing" =>
            /\ r.put \in 1 .. puts' /\ version'[r.put] # None
            /\ version'[r.put].file = r.file /\ version'[r.put].under[1] = r.row.user
    <3>1. r.step = "pointing" =>
              /\ r.put \in 1 .. puts /\ r.put \in Puts /\ version[r.put] # None
              /\ version[r.put].file = r.file /\ version[r.put].under[1] = r.row.user
      BY <1>1, Members DEF RequestFits, Puts
    <3> QED BY <3>1, <1>3 DEF Kept
  <2>7. r.step = "fetching" =>
            /\ r.user = r.row.user \/ r.user \in Managers
            /\ r.asked \in Puts /\ version'[r.asked] # None
            /\ version'[r.asked].file = r.file
    BY <1>1 DEF RequestFits, Kept
  <2>8. r.got # None =>
            /\ r.step = "sent" /\ r.file # None /\ r.row # None /\ r.asked \in Puts
            /\ file'[r.file] # None
    <3>1. r.got # None =>
            /\ r.step = "sent" /\ r.file # None /\ r.file \in FileIds /\ r.row # None
            /\ r.asked \in Puts /\ file[r.file] # None
      BY <1>1, Members DEF RequestFits
    <3> QED BY <3>1 DEF Kept
  <2> QED BY <1>2, <2>1, <2>2, <2>3, <2>4, <2>5, <2>6, <2>7, <2>8
          DEF RequestFits, Holds, HoldsNext
<1> QED BY <1>2, <1>4, <1>5

\* One request goes on, the others wait: what is left to show for each step.
LEMMA StepKeeps ==
    ASSUME Inductive, Kept, NEW p \in Requests, puts' \in Nat,
           \A q \in Requests \ {p} :
               /\ request'[q] = request[q]
               /\ Holding(q) => version'[request[q].put] = None
               /\ InTx(q) /\ request[q].file # None /\ file[request[q].file] = None =>
                     file'[request[q].file] = None
               /\ Holding(p)' /\ Holding(q) => request'[p].put # request[q].put
               /\ InTx(p)' /\ InTx(q) => request'[p].file # request[q].file,
           TypeOK', PutsAreFresh', VersionsAreStored', CurrentIsReadable',
           RequestFits(p)', Served(p)'
    PROVE  Inductive'
<1>1. \A q \in Requests \ {p} :
          /\ RequestFits(q)' /\ Served(q)'
          /\ Holding(q)' <=> Holding(q)
          /\ InTx(q)' <=> InTx(q)
  BY OtherFits
<1>2. ServedRight' BY <1>1 DEF ServedRight
<1>3. \A q \in Requests : RequestFits(q)' BY <1>1
<1>4. \A q, s \in Requests : q # s /\ Holding(q)' /\ Holding(s)' =>
          request'[q].put # request'[s].put
  <2>1. ASSUME NEW q \in Requests, NEW s \in Requests, q # s, Holding(q)', Holding(s)'
        PROVE  request'[q].put # request'[s].put
    <3>1. CASE q = p BY <1>1, <2>1, <3>1
    <3>2. CASE s = p BY <1>1, <2>1, <3>2
    <3>3. CASE q # p /\ s # p
      <4>1. Holding(q) /\ Holding(s) BY <1>1, <2>1, <3>3
      <4>2. request[q].put # request[s].put BY <2>1, <4>1 DEF Inductive, RequestsFit
      <4> QED BY <3>3, <4>2
    <3> QED BY <3>1, <3>2, <3>3
  <2> QED BY <2>1
<1>5. \A q, s \in Requests : q # s /\ InTx(q)' /\ InTx(s)' =>
          request'[q].file # request'[s].file
  <2>1. ASSUME NEW q \in Requests, NEW s \in Requests, q # s, InTx(q)', InTx(s)'
        PROVE  request'[q].file # request'[s].file
    <3>1. CASE q = p BY <1>1, <2>1, <3>1
    <3>2. CASE s = p BY <1>1, <2>1, <3>2
    <3>3. CASE q # p /\ s # p
      <4>1. InTx(q) /\ InTx(s) BY <1>1, <2>1, <3>3
      <4>2. request[q].file # request[s].file BY <2>1, <4>1 DEF Inductive, RequestsFit
      <4> QED BY <3>3, <4>2
    <3> QED BY <3>1, <3>2, <3>3
  <2> QED BY <2>1
<1>6. RequestsFit' BY <1>3, <1>4, <1>5 DEF RequestsFit
<1> QED BY <1>2, <1>6 DEF Inductive

\* A step that writes neither the tables nor the bucket.
LEMMA RequestOnly ==
    ASSUME Inductive, NEW p \in Requests, NEW x \in Request,
           file' = file, version' = version, bucket' = bucket, puts' = puts,
           versioned' = versioned, request' = [request EXCEPT ![p] = x],
           RequestFits(p)', Served(p)',
           \A q \in Requests \ {p} :
               /\ Holding(p)' /\ Holding(q) => x.put # request[q].put
               /\ InTx(p)' /\ InTx(q) => x.file # request[q].file
    PROVE  Inductive'
<1> USE DEF Inductive
<1>1. Kept BY DEF Kept, Holds, HoldsNext, TypeOK
<1>2. /\ request'[p] = x /\ \A q \in Requests \ {p} : request'[q] = request[q]
      /\ TypeOK'
  BY DEF TypeOK
<1>3. \A key, n, f : HoldsNext(key, n, f) <=> Holds(key, n, f) BY DEF Holds, HoldsNext
<1>4. PutsAreFresh' BY DEF PutsAreFresh
<1>5. VersionsAreStored'
  BY <1>3 DEF VersionsAreStored, Holds, HoldsNext
<1>6. CurrentIsReadable'
  BY <1>3, SMTT(60) DEF CurrentIsReadable, Key, Holds, HoldsNext
<1>7. \A q \in Requests : Holding(q) => version[request[q].put] = None
  BY DEF RequestsFit, RequestFits, Holding
<1>8. puts' \in Nat BY DEF TypeOK
<1> QED BY <1>1, <1>2, <1>4, <1>5, <1>6, <1>7, <1>8, StepKeeps

\* A request that ends leaves everything to the others.
LEMMA EndFits ==
    ASSUME NEW p \in Requests, TypeOK, request' = [request EXCEPT ![p] = Idle]
    PROVE  /\ request'[p] = Idle
           /\ RequestFits(p)' /\ Served(p)' /\ ~Holding(p)' /\ ~InTx(p)'
           /\ \A q \in Requests \ {p} : request'[q] = request[q]
           /\ request' \in [Requests -> Request]
<1>1. /\ request'[p] = Idle /\ \A q \in Requests \ {p} : request'[q] = request[q]
      /\ request' \in [Requests -> Request]
  BY IdleFacts DEF TypeOK
<1>2. ~Holding(p)' /\ ~InTx(p)' /\ Served(p)' BY <1>1, IdleFacts DEF Holding, InTx, Served
<1>3. RequestFits(p)'
  BY <1>1, <1>2, IdleFacts DEF RequestFits, Uploading, Updating
<1> QED BY <1>1, <1>2, <1>3

\* A handler that ends, or fails, without writing anything.
LEMMA EndStep ==
    ASSUME Inductive, NEW p \in Requests, End(p), UNCHANGED <<Tables, Store, versioned>>
    PROVE  Inductive'
<1>1. /\ request' = [request EXCEPT ![p] = Idle]
      /\ file' = file /\ version' = version /\ bucket' = bucket /\ puts' = puts
      /\ versioned' = versioned
  BY DEF End, Tables, Store
<1>2. TypeOK BY DEF Inductive
<1> QED BY <1>1, <1>2, EndFits, IdleFacts, RequestOnly

\* What is put is the newest of all, and where it replaces something it has the key of that.
LEMMA PutKeeps ==
    ASSUME Inductive, NEW key \in Keys, NEW f \in FileIds, PutObject(key, f),
           file' = file, version' = version, versioned' = versioned
    PROVE  /\ Kept /\ puts' = puts + 1 /\ puts' \in Puts /\ puts' \in Nat
           /\ bucket' \subseteq Object
           /\ PutsAreFresh' /\ VersionsAreStored' /\ CurrentIsReadable'
           /\ HoldsNext(key, puts', f) /\ version[puts'] = None
           /\ \A q \in Requests : Holding(q) =>
                 request[q].put # puts' /\ version[request[q].put] = None
<1> USE DEF Inductive
<1> DEFINE o == [key |-> key, n |-> puts + 1, file |-> f]
<1>1. /\ puts < MaxPuts /\ puts' = puts + 1 /\ puts \in Nat
      /\ bucket' = (bucket \ Replaced(key)) \cup {o}
  BY DEF PutObject, TypeOK
<1>2. puts' \in Puts /\ puts' \in Nat /\ o \in Object
  BY <1>1 DEF Puts, Object
<1>3. bucket' \subseteq Object BY <1>1, <1>2 DEF TypeOK
<1>o. o \in bucket' /\ o.key = key /\ o.n = puts' /\ o.file = f BY <1>1
<1>4. HoldsNext(key, puts', f) BY <1>o DEF HoldsNext
<1>5. ASSUME NEW k, NEW n, NEW g, Holds(k, n, g) PROVE HoldsNext(k, n, g)
  <2>1. PICK b \in bucket : b.key = k /\ (versioned => b.n = n /\ b.file = g)
    BY <1>5 DEF Holds, HoldsNext
  <2>2. CASE b \in bucket' BY <2>1, <2>2 DEF Holds, HoldsNext
  <2>3. CASE b \notin bucket'
    <3>1. ~versioned /\ k = key BY <1>1, <2>1, <2>3 DEF Replaced
    <3> QED BY <1>1, <1>o, <3>1 DEF HoldsNext
  <2> QED BY <2>2, <2>3
<1>6. Kept BY <1>1, <1>5 DEF Kept
<1>7. \A b \in bucket : b.n <= puts /\ b.n \in Nat BY Members DEF PutsAreFresh, Puts
<1>8. PutsAreFresh'
  <2>1. \A b \in bucket' : b.n <= puts' BY <1>1, <1>7
  <2>2. \A n \in Puts : version'[n] # None => n <= puts'
    <3>1. \A n \in Puts : version[n] # None => n <= puts BY DEF PutsAreFresh
    <3> QED BY <1>1, <3>1 DEF Puts
  <2>3. \A b1, b2 \in bucket' : b1.n = b2.n => b1 = b2
    BY <1>1, <1>7 DEF PutsAreFresh
  <2> QED BY <2>1, <2>2, <2>3 DEF PutsAreFresh
<1>9. VersionsAreStored'
  BY <1>5 DEF VersionsAreStored, Holds, HoldsNext
<1>10. CurrentIsReadable'
  BY <1>5, SMTT(30) DEF CurrentIsReadable, Key, Holds, HoldsNext
<1>11. version[puts'] = None
  BY <1>1, <1>2 DEF PutsAreFresh
<1>12. \A q \in Requests : Holding(q) => request[q].put # puts' /\ version[request[q].put] = None
  <2>1. \A q \in Requests : Holding(q) =>
            request[q].put \in 1 .. puts /\ version[request[q].put] = None
    BY DEF RequestsFit, RequestFits, Holding
  <2> QED BY <1>1, <2>1
<1> QED BY <1>1, <1>2, <1>3, <1>4, <1>6, <1>8, <1>9, <1>10, <1>11, <1>12

-----------------------------------------------------------------------------
(* Upload *)

\* The request begins with its first file.
LEMMA UploadsStartStep ==
    ASSUME Inductive, NEW p \in Requests, NEW user \in Users, NEW names \in Bodies,
           UploadsStart(p, user, names)
    PROVE  Inductive'
<1> DEFINE x == [Idle EXCEPT !.step = "next", !.user = user, !.todo = names]
<1>1. /\ request' = [request EXCEPT ![p] = x]
      /\ file' = file /\ version' = version /\ bucket' = bucket /\ puts' = puts
      /\ versioned' = versioned
  BY DEF UploadsStart, Tables, Store
<1>2. names \in Seq(Names) /\ names # <<>> BY DEF Bodies
<1>3. /\ x \in Request /\ x.step = "next" /\ x.user = user /\ x.todo = names /\ x.got = None
      /\ user # None
  BY <1>2, IdleFacts DEF Request, Uploading
<1>4. request'[p] = x BY <1>1 DEF Inductive, TypeOK
<1> HIDE DEF x
<1>5. RequestFits(p)' /\ Served(p)' /\ ~Holding(p)' /\ ~InTx(p)'
  BY <1>2, <1>3, <1>4 DEF RequestFits, Served, Holding, InTx, Uploading, Updating
<1> QED BY <1>1, <1>3, <1>5, RequestOnly

\* The row is found, or its id is new: nobody else has it in a transaction.
LEMMA UploadBeginStep ==
    ASSUME Inductive, NEW p \in Requests, UploadBegin(p)
    PROVE  Inductive'
<1> USE DEF Inductive
<1>p. PICK f \in FileIds, user \in Users, name \in Names :
          /\ user = request[p].user /\ name = Head(request[p].todo)
          /\ f \in (IF Conflicting(user, name) # {} THEN Conflicting(user, name) ELSE Unused(p))
          /\ ~Locked(p, f)
          /\ request' = [request EXCEPT ![p] = [request[p] EXCEPT !.step = "putting",
                                                  !.file = f, !.name = name]]
  <2>1. request[p].step = "next" BY DEF UploadBegin
  <2>2. request[p].user \in Users /\ request[p].todo \in Seq(Names) /\ request[p].todo # <<>>
    BY <2>1, Members DEF RequestsFit, RequestFits, Uploading
  <2>3. Head(request[p].todo) \in Names BY <2>2
  <2>4. PICK user \in Users, name \in Names :
            user = request[p].user /\ name = Head(request[p].todo)
    BY <2>2, <2>3
  <2>5. PICK f \in (IF Conflicting(user, name) # {} THEN Conflicting(user, name)
                    ELSE Unused(p)) :
            /\ ~Locked(p, f)
            /\ request' = [request EXCEPT ![p] = [request[p] EXCEPT !.step = "putting",
                                                    !.file = f, !.name = name]]
    BY <2>4 DEF UploadBegin
  <2>6. f \in FileIds BY <2>5 DEF Conflicting, Unused
  <2> QED BY <2>4, <2>5, <2>6
<1> DEFINE x == [request[p] EXCEPT !.step = "putting", !.file = f, !.name = name]
<1>1. /\ request' = [request EXCEPT ![p] = x] /\ request[p].step = "next"
      /\ file' = file /\ version' = version /\ bucket' = bucket /\ puts' = puts
      /\ versioned' = versioned
  BY <1>p DEF UploadBegin, Tables, Store
<1>2. /\ request[p].todo # <<>> /\ request[p].got = None
  BY <1>1 DEF RequestsFit, RequestFits
<1>3. /\ x \in Request /\ x.step = "putting" /\ x.user = user /\ x.todo = request[p].todo
      /\ x.got = None /\ x.file = f /\ x.name = name
  <2>1. request[p] \in Request BY DEF TypeOK
  <2>2. "putting" \in Uploading BY DEF Uploading
  <2>3. x \in Request BY <2>1, <2>2 DEF Request
  <2>4. /\ x.step = "putting" /\ x.user = request[p].user /\ x.todo = request[p].todo
        /\ x.got = request[p].got /\ x.file = f /\ x.name = name
    BY <2>1 DEF Request
  <2> QED BY <1>p, <1>2, <2>3, <2>4
<1>4. request'[p] = x BY <1>1 DEF TypeOK
<1>5. file[f] # None => file[f].user = user
  BY <1>p DEF Conflicting, Unused
<1>6. \A q \in Requests \ {p} : InTx(q) => request[q].file # f BY <1>p DEF Locked
<1> HIDE DEF x
<1>7. RequestFits(p)' /\ Served(p)' /\ ~Holding(p)'
  <2>1. user # None /\ f # None /\ name # None OBVIOUS
  <2>2. ~Holding(p)' /\ Served(p)' BY <1>3, <1>4 DEF Holding, Served
  <2> QED BY <1>1, <1>2, <1>3, <1>4, <1>5, <2>1, <2>2 DEF RequestFits, InTx, Uploading, Updating
<1> QED BY <1>1, <1>3, <1>6, <1>7, RequestOnly

\* The object is put before its version is there.
LEMMA UploadPutStep ==
    ASSUME Inductive, NEW p \in Requests, UploadPut(p)
    PROVE  Inductive'
<1> USE DEF Inductive
<1>p. PICK f \in FileIds, user \in Users, name \in Names :
          user = request[p].user /\ name = request[p].name /\ f = request[p].file
  BY Members DEF UploadPut, RequestsFit, RequestFits, InTx, Uploading
<1>1. /\ request[p].step = "putting" /\ PutObject(Key(user, name), f)
      /\ request' = [request EXCEPT ![p] = [request[p] EXCEPT !.step = "storing",
                                                              !.put = puts + 1]]
      /\ file' = file /\ version' = version /\ versioned' = versioned
  BY <1>p DEF UploadPut, Tables
<1>2. Key(user, name) \in Keys BY KeyFacts
<1>3. /\ Kept /\ puts' = puts + 1 /\ puts' \in Puts /\ puts' \in Nat /\ bucket' \subseteq Object
      /\ PutsAreFresh' /\ VersionsAreStored' /\ CurrentIsReadable'
      /\ HoldsNext(Key(user, name), puts', f) /\ version[puts'] = None
      /\ \A q \in Requests : Holding(q) =>
            request[q].put # puts' /\ version[request[q].put] = None
  BY <1>1, <1>2, PutKeeps
<1> DEFINE x == [request[p] EXCEPT !.step = "storing", !.put = puts']
<1>4. request' = [request EXCEPT ![p] = x] BY <1>1, <1>3
<1>5. x \in Request
  <2>1. request[p] \in Request /\ "storing" \in Uploading /\ puts' \in 0 .. MaxPuts
    BY <1>3 DEF TypeOK, Uploading, Puts
  <2> QED BY <2>1 DEF Request
<1>6. /\ x.step = "storing" /\ x.put = puts' /\ x.user = user /\ x.name = name /\ x.file = f
      /\ x.todo = request[p].todo /\ x.got = request[p].got
  BY <1>p DEF TypeOK, Request
<1>7. request'[p] = x /\ \A q \in Requests \ {p} : request'[q] = request[q]
  BY <1>4 DEF TypeOK
<1> HIDE DEF x
<1>8. /\ request[p].todo # <<>> /\ request[p].got = None
      /\ file[f] # None => file[f].user = user
  BY <1>p, <1>1 DEF RequestsFit, RequestFits, InTx
<1>9. TypeOK' BY <1>1, <1>3, <1>4, <1>5 DEF TypeOK, Puts
<1>10. RequestFits(p)' /\ Served(p)'
  <2>1. HeldKey(x) = Key(user, name) BY <1>6 DEF HeldKey
  <2>2. user # None /\ f # None /\ name # None /\ puts' \in 1 .. puts' BY <1>3 DEF Puts
  <2>3. Served(p)' BY <1>6, <1>7, <1>8 DEF Served
  <2>4. HoldsNext(HeldKey(x), x.put, x.file)
    BY <1>3, <1>6, <2>1
  <2> QED BY <1>1, <1>3, <1>6, <1>7, <1>8, <2>2, <2>3, <2>4
          DEF RequestFits, Holds, HoldsNext, InTx, Uploading, Updating
<1>11. \A q \in Requests \ {p} : InTx(q) => request[q].file # f
  BY <1>p, <1>1 DEF RequestsFit, InTx
<1>12. \A q \in Requests \ {p} :
          /\ request'[q] = request[q]
          /\ Holding(q) => version'[request[q].put] = None
          /\ InTx(q) /\ request[q].file # None /\ file[request[q].file] = None =>
                file'[request[q].file] = None
          /\ Holding(p)' /\ Holding(q) => request'[p].put # request[q].put
          /\ InTx(p)' /\ InTx(q) => request'[p].file # request[q].file
  BY <1>1, <1>3, <1>6, <1>7, <1>11
<1>13. PutsAreFresh' /\ VersionsAreStored' /\ CurrentIsReadable' /\ Kept /\ puts' \in Nat
  BY <1>1, <1>3 DEF Puts
<1> QED BY <1>9, <1>10, <1>12, <1>13, StepKeeps

\* The version and the row appear together, after the object: nobody else has the number of
\* the put, and nobody else has the row in a transaction.
LEMMA UploadCommitStep ==
    ASSUME Inductive, NEW p \in Requests, UploadCommit(p)
    PROVE  Inductive'
<1> USE DEF Inductive
<1>p. PICK f \in FileIds, user \in Users, name \in Names, k \in Puts :
          /\ user = request[p].user /\ name = request[p].name /\ f = request[p].file
          /\ k = request[p].put /\ k \in 1 .. puts
  <2>1. request[p].step = "storing" BY DEF UploadCommit
  <2>2. /\ request[p].file # None /\ request[p].name # None /\ request[p].user # None
        /\ request[p].put \in 1 .. puts
    BY <2>1 DEF RequestsFit, RequestFits, InTx, Uploading
  <2>3. request[p].put \in Puts BY <2>2 DEF Puts, TypeOK
  <2> QED BY <2>2, <2>3, Members
<1> DEFINE v == [file |-> f, under |-> Key(user, name)]
           row == IF file[f] = None
                  THEN [name |-> name, user |-> user, last |-> k, deleted |-> FALSE]
                  ELSE [file[f] EXCEPT !.last = k]
           x == IF Len(request[p].todo) = 1 THEN Idle
                ELSE [Idle EXCEPT !.step = "next", !.user = user, !.todo = Tail(request[p].todo)]
<1>1. /\ request[p].step = "storing"
      /\ version' = [version EXCEPT ![k] = v] /\ file' = [file EXCEPT ![f] = row]
      /\ request' = [request EXCEPT ![p] = x]
      /\ bucket' = bucket /\ puts' = puts /\ versioned' = versioned
  BY <1>p DEF UploadCommit, Store
<1>2. /\ request[p].todo \in Seq(Names) /\ request[p].todo # <<>>
      /\ version[k] = None /\ Holds(Key(user, name), k, f)
      /\ file[f] # None => file[f].user = user
      /\ InTx(p) /\ Holding(p)
  BY <1>p, <1>1, Members DEF RequestsFit, RequestFits, InTx, Holding, HeldKey
<1>3. v \in VersionRow /\ v # None /\ v.file = f /\ v.under = Key(user, name)
      /\ v.under[1] = user
  BY KeyFacts DEF VersionRow
<1>4. row \in FileRow /\ row # None /\ row.user = user /\ row.last = k
  <2>1. CASE file[f] = None
    <3>1. row = [name |-> name, user |-> user, last |-> k, deleted |-> FALSE] BY <2>1
    <3>2. row \in FileRow BY <3>1 DEF FileRow
    <3> QED BY <3>1, <3>2
  <2>2. CASE file[f] # None
    <3>1. file[f] \in FileRow /\ file[f].user = user BY <1>2, <2>2, Members
    <3> QED BY <2>2, <3>1 DEF FileRow
  <2> QED BY <2>1, <2>2
<1>5. /\ x \in Request /\ x.got = None /\ x.step \in {"idle", "next"}
      /\ x.step = "next" => x.todo # <<>> /\ x.user # None
  <2>1. CASE Len(request[p].todo) = 1 BY <2>1, IdleFacts
  <2>2. CASE Len(request[p].todo) # 1
    <3>1. Tail(request[p].todo) \in Seq(Names) /\ Tail(request[p].todo) # <<>>
      BY <1>2, <2>2, TailFacts
    <3>2. "next" \in Uploading /\ user # None BY DEF Uploading
    <3>3. [Idle EXCEPT !.step = "next", !.user = user, !.todo = Tail(request[p].todo)] \in Request
      BY <3>1, <3>2, IdleFacts DEF Request
    <3> QED BY <2>2, <3>1, <3>2, <3>3, IdleFacts DEF Request
  <2> QED BY <2>1, <2>2
<1>6. request'[p] = x /\ \A q \in Requests \ {p} : request'[q] = request[q]
  BY <1>1 DEF TypeOK
<1>7. /\ version'[k] = v /\ \A n \in Puts \ {k} : version'[n] = version[n]
      /\ file'[f] = row /\ \A g \in FileIds \ {f} : file'[g] = file[g]
  BY <1>1 DEF TypeOK
<1>8. TypeOK' BY <1>1, <1>3, <1>4, <1>5 DEF TypeOK
<1> HIDE DEF x, v, row
<1>9. \A key, n, g : HoldsNext(key, n, g) <=> Holds(key, n, g) BY <1>1 DEF Holds, HoldsNext
<1>10. Kept
  <2>1. puts' >= puts /\ puts \in Nat BY <1>1 DEF TypeOK
  <2> QED BY <1>1, <1>2, <1>4, <1>7, <1>9, <2>1 DEF Kept
<1>11. PutsAreFresh' BY <1>p, <1>1, <1>7 DEF PutsAreFresh
<1>12. VersionsAreStored'
  <2>1. HoldsNext(version'[k].under, k, version'[k].file) BY <1>2, <1>3, <1>7, <1>9
  <2>2. ASSUME NEW n \in Puts, n # k, version'[n] # None
        PROVE  HoldsNext(version'[n].under, n, version'[n].file)
    <3>1. version'[n] = version[n] /\ Holds(version[n].under, n, version[n].file)
      BY <1>7, <2>2 DEF VersionsAreStored
    <3> QED BY <1>9, <3>1
  <2> QED BY <2>1, <2>2 DEF VersionsAreStored, Holds, HoldsNext
<1>13. CurrentIsReadable'
  <2>1. ASSUME NEW g \in FileIds, file'[g] # None
        PROVE  /\ version'[file'[g].last] # None
               /\ version'[file'[g].last].file = g
               /\ version'[file'[g].last].under[1] = file'[g].user
    <3>1. CASE g = f BY <1>3, <1>4, <1>7, <3>1
    <3>2. CASE g # f
      <4>1. file'[g] = file[g] BY <1>7, <3>2
      <4>2. /\ version[file[g].last] # None /\ version[file[g].last].file = g
            /\ version[file[g].last].under[1] = file[g].user
        BY <2>1, <4>1 DEF CurrentIsReadable
      <4>3. file[g].last \in Puts \ {k} BY <1>2, <2>1, <4>1, <4>2, Members
      <4> QED BY <1>7, <4>1, <4>2, <4>3
    <3> QED BY <3>1, <3>2
  <2>2. ASSUME NEW g \in FileIds, file'[g] # None,
               version'[file'[g].last].under = <<file'[g].user, Slug[file'[g].name]>>
        PROVE  HoldsNext(<<file'[g].user, Slug[file'[g].name]>>, file'[g].last, g)
    <3>1. file'[g].last \in Puts BY <2>2, <1>8 DEF TypeOK, FileRow
    <3> QED BY <2>1, <2>2, <3>1, <1>12 DEF VersionsAreStored, Holds, HoldsNext
  <2> QED BY <2>1, <2>2 DEF CurrentIsReadable, Key, Holds, HoldsNext
<1>14. RequestFits(p)' /\ Served(p)' /\ ~Holding(p)' /\ ~InTx(p)'
  BY <1>5, <1>6 DEF RequestFits, Served, Holding, InTx, Uploading, Updating
<1>15. \A q \in Requests \ {p} :
           /\ Holding(q) => version'[request[q].put] = None
           /\ InTx(q) /\ request[q].file # None /\ file[request[q].file] = None =>
                 file'[request[q].file] = None
  <2>1. ASSUME NEW q \in Requests, q # p, Holding(q)
        PROVE  version'[request[q].put] = None
    <3>1. request[q].put # k BY <1>p, <1>2, <2>1 DEF RequestsFit
    <3>2. request[q].put \in 1 .. puts /\ version[request[q].put] = None
      BY <2>1 DEF RequestsFit, RequestFits, Holding
    <3>3. request[q].put \in Puts BY <3>2 DEF Puts, TypeOK
    <3> QED BY <1>7, <3>1, <3>2, <3>3
  <2>2. ASSUME NEW q \in Requests, q # p, InTx(q), request[q].file # None,
               file[request[q].file] = None
        PROVE  file'[request[q].file] = None
    <3>1. request[q].file # f BY <1>p, <1>2, <2>2 DEF RequestsFit
    <3> QED BY <1>7, <2>2, <3>1, Members
  <2> QED BY <2>1, <2>2
<1>16. puts' \in Nat BY <1>1 DEF TypeOK
<1> QED BY <1>6, <1>8, <1>10, <1>11, <1>12, <1>13, <1>14, <1>15, <1>16, StepKeeps

-----------------------------------------------------------------------------
(* Update *)

\* The row is read; its owner stays the owner.
LEMMA UpdateStartStep ==
    ASSUME Inductive, NEW p \in Requests, NEW user \in Users, NEW f \in FileIds,
           NEW name \in Names \cup {None}, NEW body \in BOOLEAN,
           UpdateStart(p, user, f, name, body)
    PROVE  Inductive'
<1> USE DEF Inductive
<1> DEFINE x == [Idle EXCEPT !.step = "renaming", !.file = f, !.name = name, !.body = body,
                             !.row = Snapshot(f)]
<1>1. /\ request' = [request EXCEPT ![p] = x] /\ file[f] # None
      /\ file' = file /\ version' = version /\ bucket' = bucket /\ puts' = puts
      /\ versioned' = versioned
  BY DEF UpdateStart, Live, Tables, Store
<1>2. Snapshot(f) \in Read /\ Snapshot(f).user = file[f].user /\ Snapshot(f) # None
  BY <1>1, SnapshotFacts
<1>3. /\ x \in Request /\ x.step = "renaming" /\ x.file = f /\ x.row = Snapshot(f)
      /\ x.got = None
  <2>1. "renaming" \in Updating BY DEF Updating
  <2> QED BY <1>2, <2>1, IdleFacts DEF Request
<1>4. request'[p] = x BY <1>1 DEF TypeOK
<1> HIDE DEF x
<1>5. ~Holding(p)' /\ ~InTx(p)' /\ Served(p)' BY <1>3, <1>4 DEF Holding, InTx, Served
<1>6. RequestFits(p)'
  BY <1>1, <1>2, <1>3, <1>4, <1>5 DEF RequestFits, Uploading, Updating
<1> QED BY <1>1, <1>3, <1>5, <1>6, RequestOnly

\* The row gets another name: its owner and its last version stay, and under a key that the
\* version was not put under nothing is promised.
LEMMA UpdateRenameStep ==
    ASSUME Inductive, NEW p \in Requests, UpdateRename(p)
    PROVE  Inductive'
<1> USE DEF Inductive
<1>1. /\ request[p].step = "renaming"
      /\ version' = version /\ bucket' = bucket /\ puts' = puts /\ versioned' = versioned
      /\ request' = [request EXCEPT ![p] = Idle]
         \/ request' = [request EXCEPT ![p].step = "uputting"]
      /\ file' = file \/ (request[p].name # None
                            /\ file' = [file EXCEPT ![request[p].file].name = request[p].name])
  BY DEF UpdateRename, End, Goto, Store
<1>2. /\ request[p].file \in FileIds /\ request[p].row # None /\ request[p].got = None
      /\ file[request[p].file] # None
      /\ file[request[p].file].user = request[p].row.user
  BY <1>1, Members DEF RequestsFit, RequestFits, Updating
<1>3. \A g \in FileIds :
          /\ file'[g] = None <=> file[g] = None
          /\ file[g] # None => /\ file'[g] \in FileRow /\ file'[g].user = file[g].user
                               /\ file'[g].last = file[g].last
  <2>1. CASE file' = file BY <2>1, Members
  <2>2. CASE request[p].name # None
                /\ file' = [file EXCEPT ![request[p].file].name = request[p].name]
    <3>1. PICK f \in FileIds, name \in Names : f = request[p].file /\ name = request[p].name
      BY <1>2, <2>2, Members
    <3>2. file[f] \in FileRow /\ file'[f] = [file[f] EXCEPT !.name = name]
      BY <1>2, <2>2, <3>1, Members DEF TypeOK
    <3>3. /\ file'[f] \in FileRow /\ file'[f].user = file[f].user
          /\ file'[f].last = file[f].last
      BY <3>2 DEF FileRow
    <3>4. \A g \in FileIds \ {f} : file'[g] = file[g] BY <2>2, <3>1 DEF TypeOK
    <3> QED BY <1>2, <3>1, <3>3, <3>4, Members
  <2> QED BY <1>1, <2>1, <2>2
<1>4. file' \in [FileIds -> FileRow \cup {None}]
  <2>1. \E g : file' = [h \in FileIds |-> g[h]] BY <1>1 DEF TypeOK
  <2> QED BY <1>3, <2>1
<1>5. request' \in [Requests -> Request]
  <2>1. [request[p] EXCEPT !.step = "uputting"] \in Request
    <3>1. request[p] \in Request /\ "uputting" \in Updating BY DEF TypeOK, Updating
    <3> QED BY <3>1 DEF Request
  <2> QED BY <1>1, <2>1, IdleFacts DEF TypeOK
<1>6. TypeOK' BY <1>1, <1>4, <1>5 DEF TypeOK
<1>7. \A key, n, g : HoldsNext(key, n, g) <=> Holds(key, n, g) BY <1>1 DEF Holds, HoldsNext
<1>8. Kept
  <2>1. puts' >= puts BY <1>1 DEF TypeOK
  <2> QED BY <1>1, <1>3, <1>7, <2>1 DEF Kept
<1>9. PutsAreFresh' /\ VersionsAreStored'
  BY <1>1, <1>7 DEF PutsAreFresh, VersionsAreStored, Holds, HoldsNext
<1>10. CurrentIsReadable'
  <2>1. ASSUME NEW g \in FileIds, file'[g] # None
        PROVE  /\ version'[file'[g].last] # None
               /\ version'[file'[g].last].file = g
               /\ version'[file'[g].last].under[1] = file'[g].user
    BY <1>1, <1>3, <2>1 DEF CurrentIsReadable
  <2>2. ASSUME NEW g \in FileIds, file'[g] # None,
               version'[file'[g].last].under = <<file'[g].user, Slug[file'[g].name]>>
        PROVE  HoldsNext(<<file'[g].user, Slug[file'[g].name]>>, file'[g].last, g)
    <3>1. file'[g].last \in Puts BY <2>2, <1>6 DEF TypeOK, FileRow
    <3> QED BY <2>1, <2>2, <3>1, <1>9 DEF VersionsAreStored, Holds, HoldsNext
  <2> QED BY <2>1, <2>2 DEF CurrentIsReadable, Key, Holds, HoldsNext
<1>11. /\ request'[p] = Idle \/ request'[p] = [request[p] EXCEPT !.step = "uputting"]
       /\ \A q \in Requests \ {p} : request'[q] = request[q]
  BY <1>1 DEF TypeOK
<1>12. RequestFits(p)' /\ Served(p)' /\ ~Holding(p)' /\ ~InTx(p)'
  <2>1. CASE request'[p] = Idle
    <3>1. ~Holding(p)' /\ ~InTx(p)' /\ Served(p)' BY <2>1, IdleFacts DEF Holding, InTx, Served
    <3> QED BY <2>1, <3>1, IdleFacts DEF RequestFits, Uploading, Updating
  <2>2. CASE request'[p] = [request[p] EXCEPT !.step = "uputting"]
    <3>1. /\ request'[p].step = "uputting" /\ request'[p].file = request[p].file
          /\ request'[p].row = request[p].row /\ request'[p].got = None
      BY <1>2, <2>2 DEF TypeOK, Request
    <3>2. ~Holding(p)' /\ ~InTx(p)' /\ Served(p)' BY <3>1 DEF Holding, InTx, Served
    <3> QED BY <1>2, <1>3, <3>1, <3>2 DEF RequestFits, Uploading, Updating
  <2> QED BY <1>11, <2>1, <2>2
<1>13. \A q \in Requests : Holding(q) => version'[request[q].put] = None
  BY <1>1 DEF RequestsFit, RequestFits, Holding
<1>14. \A q \in Requests : InTx(q) /\ request[q].file # None /\ file[request[q].file] = None =>
           file'[request[q].file] = None
  BY <1>3, Members
<1>15. puts' \in Nat BY <1>1 DEF TypeOK
<1> QED BY <1>6, <1>8, <1>9, <1>10, <1>11, <1>12, <1>13, <1>14, <1>15, StepKeeps

\* The object of an update is put under the key of the name the handler goes by.
LEMMA UpdatePutStep ==
    ASSUME Inductive, NEW p \in Requests, UpdatePut(p)
    PROVE  Inductive'
<1> USE DEF Inductive
<1>p. PICK f \in FileIds, key \in Keys :
          /\ f = request[p].file /\ key = Key(request[p].row.user, NewName(request[p]))
          /\ request[p].row # None /\ file[f] # None
          /\ file[f].user = request[p].row.user /\ request[p].got = None
  <2>1. request[p].step = "uputting" BY DEF UpdatePut
  <2>2. /\ request[p].file \in FileIds /\ request[p].row # None
        /\ file[request[p].file] # None
        /\ file[request[p].file].user = request[p].row.user /\ request[p].got = None
    BY <2>1, Members DEF RequestsFit, RequestFits, Updating
  <2>3. Key(request[p].row.user, NewName(request[p])) \in Keys
    BY <2>2, NewNameIsName, KeyFacts
  <2> QED BY <2>2, <2>3
<1>1. /\ request[p].step = "uputting" /\ PutObject(key, f)
      /\ request' = [request EXCEPT ![p] = [request[p] EXCEPT !.step = "inserting",
                                                              !.put = puts + 1]]
      /\ file' = file /\ version' = version /\ versioned' = versioned
  BY <1>p DEF UpdatePut, Tables
<1>3. /\ Kept /\ puts' = puts + 1 /\ puts' \in Puts /\ puts' \in Nat /\ bucket' \subseteq Object
      /\ PutsAreFresh' /\ VersionsAreStored' /\ CurrentIsReadable'
      /\ HoldsNext(key, puts', f) /\ version[puts'] = None
      /\ \A q \in Requests : Holding(q) =>
            request[q].put # puts' /\ version[request[q].put] = None
  BY <1>1, PutKeeps
<1> DEFINE x == [request[p] EXCEPT !.step = "inserting", !.put = puts']
<1>4. request' = [request EXCEPT ![p] = x] BY <1>1, <1>3
<1>5. x \in Request
  <2>1. request[p] \in Request /\ "inserting" \in Updating /\ puts' \in 0 .. MaxPuts
    BY <1>3 DEF TypeOK, Updating, Puts
  <2> QED BY <2>1 DEF Request
<1>6. /\ x.step = "inserting" /\ x.put = puts' /\ x.row = request[p].row /\ x.file = f
      /\ x.name = request[p].name /\ x.got = request[p].got
  BY <1>p DEF TypeOK, Request
<1>7. request'[p] = x /\ \A q \in Requests \ {p} : request'[q] = request[q]
  BY <1>4 DEF TypeOK
<1> HIDE DEF x
<1>9. TypeOK' BY <1>1, <1>3, <1>4, <1>5 DEF TypeOK, Puts
<1>10. RequestFits(p)' /\ Served(p)' /\ ~InTx(p)'
  <2>1. HeldKey(x) = key BY <1>p, <1>6 DEF HeldKey, NewName
  <2>2. puts' \in 1 .. puts' BY <1>3 DEF Puts
  <2>3. Served(p)' /\ ~InTx(p)' BY <1>p, <1>6, <1>7 DEF Served, InTx
  <2>4. HoldsNext(HeldKey(x), x.put, x.file) BY <1>3, <1>6, <2>1
  <2>5. file'[f] # None /\ file'[f].user = x.row.user /\ x.row # None
    BY <1>p, <1>1, <1>6
  <2> QED BY <1>p, <1>1, <1>3, <1>6, <1>7, <2>2, <2>3, <2>4, <2>5
          DEF RequestFits, Holds, HoldsNext, Uploading, Updating
<1> QED BY <1>1, <1>3, <1>6, <1>7, <1>9, <1>10, StepKeeps

\* The version of what was put: nobody else has the number of the put.
LEMMA UpdateInsertStep ==
    ASSUME Inductive, NEW p \in Requests, UpdateInsert(p)
    PROVE  Inductive'
<1> USE DEF Inductive
<1>p. PICK f \in FileIds, user \in Users, name \in Names, k \in Puts :
          /\ f = request[p].file /\ user = request[p].row.user /\ name = NewName(request[p])
          /\ k = request[p].put /\ k \in 1 .. puts /\ request[p].row # None
          /\ file[f] # None /\ file[f].user = user /\ version[k] = None
          /\ Holds(Key(user, name), k, f) /\ request[p].got = None
  <2>1. request[p].step = "inserting" BY DEF UpdateInsert
  <2>2. /\ request[p].file \in FileIds /\ request[p].row # None
        /\ file[request[p].file] # None
        /\ file[request[p].file].user = request[p].row.user /\ request[p].got = None
        /\ request[p].put \in 1 .. puts /\ version[request[p].put] = None
        /\ Holds(HeldKey(request[p]), request[p].put, request[p].file)
    BY <2>1, Members DEF RequestsFit, RequestFits, Updating
  <2>3. request[p].put \in Puts BY <2>2 DEF Puts, TypeOK
  <2>4. HeldKey(request[p]) = Key(request[p].row.user, NewName(request[p]))
    BY <2>1 DEF HeldKey
  <2> QED BY <2>2, <2>3, <2>4, NewNameIsName
<1> DEFINE v == [file |-> f, under |-> Key(user, name)]
<1>1. /\ request[p].step = "inserting"
      /\ version' = [version EXCEPT ![k] = v]
      /\ request' = [request EXCEPT ![p].step = "pointing"]
      /\ file' = file /\ bucket' = bucket /\ puts' = puts /\ versioned' = versioned
  BY <1>p DEF UpdateInsert, Goto, Store
<1>2. Holding(p) BY <1>1 DEF Holding
<1>3. v \in VersionRow /\ v # None /\ v.file = f /\ v.under = Key(user, name)
      /\ v.under[1] = user
  BY KeyFacts DEF VersionRow
<1>5. /\ request'[p] = [request[p] EXCEPT !.step = "pointing"]
      /\ \A q \in Requests \ {p} : request'[q] = request[q]
      /\ request'[p] \in Request /\ request'[p].step = "pointing"
      /\ request'[p].file = f /\ request'[p].row = request[p].row /\ request'[p].put = k
      /\ request'[p].got = None
  <2>1. request[p] \in Request /\ "pointing" \in Updating BY DEF TypeOK, Updating
  <2>2. /\ request'[p] = [request[p] EXCEPT !.step = "pointing"]
        /\ \A q \in Requests \ {p} : request'[q] = request[q]
    BY <1>1 DEF TypeOK
  <2> QED BY <1>p, <2>1, <2>2 DEF Request
<1>7. version'[k] = v /\ \A n \in Puts \ {k} : version'[n] = version[n]
  BY <1>1 DEF TypeOK
<1>8. TypeOK'
  <2>1. request' \in [Requests -> Request] BY <1>1, <1>5 DEF TypeOK
  <2> QED BY <1>1, <1>3, <2>1 DEF TypeOK
<1> HIDE DEF v
<1>9. \A key, n, g : HoldsNext(key, n, g) <=> Holds(key, n, g) BY <1>1 DEF Holds, HoldsNext
<1>10. Kept
  <2>1. puts' >= puts /\ puts \in Nat BY <1>1 DEF TypeOK
  <2> QED BY <1>p, <1>1, <1>7, <1>9, <2>1 DEF Kept
<1>11. PutsAreFresh' BY <1>p, <1>1, <1>7 DEF PutsAreFresh
<1>12. VersionsAreStored'
  <2>1. HoldsNext(version'[k].under, k, version'[k].file) BY <1>p, <1>3, <1>7, <1>9
  <2>2. ASSUME NEW n \in Puts, n # k, version'[n] # None
        PROVE  HoldsNext(version'[n].under, n, version'[n].file)
    <3>1. version'[n] = version[n] /\ Holds(version[n].under, n, version[n].file)
      BY <1>7, <2>2 DEF VersionsAreStored
    <3> QED BY <1>9, <3>1
  <2> QED BY <2>1, <2>2 DEF VersionsAreStored, Holds, HoldsNext
<1>13. CurrentIsReadable'
  <2>1. ASSUME NEW g \in FileIds, file'[g] # None
        PROVE  /\ version'[file'[g].last] # None
               /\ version'[file'[g].last].file = g
               /\ version'[file'[g].last].under[1] = file'[g].user
    <3>1. /\ version[file[g].last] # None /\ version[file[g].last].file = g
          /\ version[file[g].last].under[1] = file[g].user
      BY <1>1, <2>1 DEF CurrentIsReadable
    <3>2. file[g].last \in Puts \ {k} BY <1>p, <1>1, <2>1, <3>1, Members
    <3> QED BY <1>1, <1>7, <3>1, <3>2
  <2>2. ASSUME NEW g \in FileIds, file'[g] # None,
               version'[file'[g].last].under = <<file'[g].user, Slug[file'[g].name]>>
        PROVE  HoldsNext(<<file'[g].user, Slug[file'[g].name]>>, file'[g].last, g)
    <3>1. file'[g].last \in Puts BY <2>2, <1>8 DEF TypeOK, FileRow
    <3> QED BY <2>1, <2>2, <3>1, <1>12 DEF VersionsAreStored, Holds, HoldsNext
  <2> QED BY <2>1, <2>2 DEF CurrentIsReadable, Key, Holds, HoldsNext
<1>14. RequestFits(p)' /\ Served(p)' /\ ~Holding(p)' /\ ~InTx(p)'
  <2>1. ~Holding(p)' /\ ~InTx(p)' /\ Served(p)' BY <1>5 DEF Holding, InTx, Served
  <2> QED BY <1>p, <1>1, <1>3, <1>5, <1>7, <2>1 DEF RequestFits, Uploading, Updating
<1>15. \A q \in Requests \ {p} : Holding(q) => version'[request[q].put] = None
  <2>1. ASSUME NEW q \in Requests, q # p, Holding(q)
        PROVE  version'[request[q].put] = None
    <3>1. request[q].put # k BY <1>p, <1>2, <2>1 DEF RequestsFit
    <3>2. request[q].put \in 1 .. puts /\ version[request[q].put] = None
      BY <2>1 DEF RequestsFit, RequestFits, Holding
    <3>3. request[q].put \in Puts BY <3>2 DEF Puts, TypeOK
    <3> QED BY <1>7, <3>1, <3>2, <3>3
  <2> QED BY <2>1
<1>16. puts' \in Nat BY <1>1 DEF TypeOK
<1> QED BY <1>1, <1>5, <1>8, <1>10, <1>11, <1>12, <1>13, <1>14, <1>15, <1>16, StepKeeps

\* A step that gives a row another last version of its own, or deletes it, and writes nothing else.
LEMMA RowWritten ==
    ASSUME Inductive, NEW p \in Requests, NEW f \in FileIds, file[f] # None,
           NEW row \in FileRow, row.user = file[f].user, row.name = file[f].name,
           version[row.last] # None, version[row.last].file = f,
           version[row.last].under[1] = row.user,
           file' = [file EXCEPT ![f] = row],
           version' = version, bucket' = bucket, puts' = puts, versioned' = versioned,
           \/ request' = [request EXCEPT ![p] = Idle]
           \/ request' = request
    PROVE  Inductive'
<1> USE DEF Inductive
<1>1. file'[f] = row /\ \A g \in FileIds \ {f} : file'[g] = file[g] BY DEF TypeOK
<1>2. TypeOK' BY IdleFacts DEF TypeOK
<1>3. \A key, n, g : HoldsNext(key, n, g) <=> Holds(key, n, g) BY DEF Holds, HoldsNext
<1>4. Kept
  <2>1. puts' >= puts /\ row # None BY DEF TypeOK
  <2> QED BY <1>1, <1>3, <2>1 DEF Kept
<1>5. PutsAreFresh' /\ VersionsAreStored'
  BY <1>3 DEF PutsAreFresh, VersionsAreStored, Holds, HoldsNext
<1>6. CurrentIsReadable'
  <2>1. ASSUME NEW g \in FileIds, file'[g] # None
        PROVE  /\ version'[file'[g].last] # None
               /\ version'[file'[g].last].file = g
               /\ version'[file'[g].last].under[1] = file'[g].user
    BY <1>1, <2>1 DEF CurrentIsReadable
  <2>2. ASSUME NEW g \in FileIds, file'[g] # None,
               version'[file'[g].last].under = <<file'[g].user, Slug[file'[g].name]>>
        PROVE  HoldsNext(<<file'[g].user, Slug[file'[g].name]>>, file'[g].last, g)
    <3>1. file'[g].last \in Puts BY <2>2, <1>2 DEF TypeOK, FileRow
    <3> QED BY <2>1, <2>2, <3>1, <1>5 DEF VersionsAreStored, Holds, HoldsNext
  <2> QED BY <2>1, <2>2 DEF CurrentIsReadable, Key, Holds, HoldsNext
<1>7. \A q \in Requests : Holding(q) => version'[request[q].put] = None
  BY DEF RequestsFit, RequestFits, Holding
<1>8. \A q \in Requests : InTx(q) /\ request[q].file # None /\ file[request[q].file] = None =>
          file'[request[q].file] = None
  BY <1>1, Members
<1>9. puts' \in Nat BY DEF TypeOK
<1>10. /\ RequestFits(p)' /\ Served(p)'
       /\ \A q \in Requests \ {p} :
             /\ request'[q] = request[q]
             /\ Holding(p)' /\ Holding(q) => request'[p].put # request[q].put
             /\ InTx(p)' /\ InTx(q) => request'[p].file # request[q].file
  <2>1. CASE request' = [request EXCEPT ![p] = Idle] BY <2>1, EndFits
  <2>2. CASE request' = request
    <3>1. RequestFits(p)' /\ Served(p)' /\ (Holding(p)' <=> Holding(p)) /\ (InTx(p)' <=> InTx(p))
      BY <1>4, <1>7, <1>8, <1>9, <2>2, OtherFits
    <3> QED BY <2>2, <3>1 DEF RequestsFit
  <2> QED BY <2>1, <2>2
<1> QED BY <1>2, <1>4, <1>5, <1>6, <1>7, <1>8, <1>9, <1>10, StepKeeps

\* updateVersion: the row points at a version that is its own.
LEMMA UpdatePointStep ==
    ASSUME Inductive, NEW p \in Requests, UpdatePoint(p)
    PROVE  Inductive'
<1> USE DEF Inductive
<1>p. PICK f \in FileIds, k \in Puts :
          /\ f = request[p].file /\ k = request[p].put
          /\ file[f] # None /\ file[f] \in FileRow
          /\ version[k] # None /\ version[k].file = f
          /\ version[k].under[1] = file[f].user
  <2>1. request[p].step = "pointing" BY DEF UpdatePoint
  <2>2. /\ request[p].file \in FileIds /\ request[p].put \in 1 .. puts
        /\ file[request[p].file] # None
        /\ version[request[p].put] # None /\ version[request[p].put].file = request[p].file
        /\ version[request[p].put].under[1] = file[request[p].file].user
    BY <2>1, Members DEF RequestsFit, RequestFits, Updating
  <2>3. request[p].put \in Puts BY <2>2 DEF Puts, TypeOK
  <2> QED BY <2>2, <2>3, Members
<1> DEFINE row == [file[f] EXCEPT !.last = k]
<1>1. /\ file' = [file EXCEPT ![f] = row] /\ request' = [request EXCEPT ![p] = Idle]
      /\ version' = version /\ bucket' = bucket /\ puts' = puts /\ versioned' = versioned
  BY <1>p DEF UpdatePoint, End, Store
<1>2. row \in FileRow /\ row.user = file[f].user /\ row.name = file[f].name /\ row.last = k
  BY <1>p DEF FileRow
<1> HIDE DEF row
<1> QED BY <1>p, <1>1, <1>2, RowWritten

-----------------------------------------------------------------------------
(* Delete and download *)

\* A deleted row stays, with its owner and its last version.
LEMMA DeleteStep ==
    ASSUME Inductive, NEW user \in Users, NEW f \in FileIds, Delete(user, f)
    PROVE  Inductive'
<1> USE DEF Inductive
<1> DEFINE row == [file[f] EXCEPT !.deleted = TRUE]
<1>1. /\ file[f] # None /\ file[f] \in FileRow
      /\ file' = [file EXCEPT ![f] = row] /\ request' = request
      /\ version' = version /\ bucket' = bucket /\ puts' = puts /\ versioned' = versioned
  BY Members DEF Delete, Live, Store
<1>2. row \in FileRow /\ row.user = file[f].user /\ row.name = file[f].name
      /\ row.last = file[f].last
  BY <1>1 DEF FileRow
<1>3. /\ version[row.last] # None /\ version[row.last].file = f
      /\ version[row.last].under[1] = row.user
  BY <1>1, <1>2 DEF CurrentIsReadable
<1> HIDE DEF row
<1>4. CASE Requests = {}
  <2>1. \A key, n, g : HoldsNext(key, n, g) <=> Holds(key, n, g) BY <1>1 DEF Holds, HoldsNext
  <2>2. TypeOK' BY <1>1, <1>2 DEF TypeOK
  <2>3. PutsAreFresh' /\ VersionsAreStored'
    BY <1>1, <2>1 DEF PutsAreFresh, VersionsAreStored, Holds, HoldsNext
  <2>4. file'[f] = row /\ \A g \in FileIds \ {f} : file'[g] = file[g] BY <1>1 DEF TypeOK
  <2>5. CurrentIsReadable'
    BY <1>1, <1>2, <1>3, <2>1, <2>4, SMTT(30) DEF CurrentIsReadable, Key, Holds, HoldsNext
  <2>6. RequestsFit' /\ ServedRight' BY <1>4 DEF RequestsFit, ServedRight
  <2> QED BY <2>2, <2>3, <2>5, <2>6
<1>5. CASE Requests # {}
  <2>1. PICK p \in Requests : TRUE BY <1>5
  <2> QED BY <1>1, <1>2, <1>3, <2>1, RowWritten
<1> QED BY <1>4, <1>5

\* The row is read, and its last version or the one asked for is one of its own.
LEMMA DownloadStartStep ==
    ASSUME Inductive, NEW p \in Requests, NEW user \in Users \cup {None}, NEW f \in FileIds,
           NEW n \in 0 .. MaxPuts, DownloadStart(p, user, f, n)
    PROVE  Inductive'
<1> USE DEF Inductive
<1>a. PICK k \in Puts : /\ k = (IF n = 0 THEN file[f].last ELSE n)
                        /\ version[k] # None /\ version[k].file = f
  <2>1. file[f] # None BY DEF DownloadStart, Live
  <2>2. CASE n = 0 BY <2>1, <2>2, Members DEF CurrentIsReadable
  <2>3. CASE n # 0
    <3>1. n \in Puts BY <2>3 DEF Puts
    <3> QED BY <2>3, <3>1 DEF DownloadStart
  <2> QED BY <2>2, <2>3
<1> DEFINE x == [Idle EXCEPT !.step = "fetching", !.user = user, !.file = f,
                             !.row = Snapshot(f), !.asked = k]
<1>1. /\ request' = [request EXCEPT ![p] = x] /\ file[f] # None
      /\ file[f].user = user \/ user \in Managers
      /\ file' = file /\ version' = version /\ bucket' = bucket /\ puts' = puts
      /\ versioned' = versioned
  BY <1>a DEF DownloadStart, Live, MayTouch, Tables, Store
<1>2. Snapshot(f) \in Read /\ Snapshot(f).user = file[f].user /\ Snapshot(f) # None
  BY <1>1, SnapshotFacts
<1>3. /\ x \in Request /\ x.step = "fetching" /\ x.file = f /\ x.row = Snapshot(f)
      /\ x.user = user /\ x.asked = k /\ x.got = None
  <2>1. k \in 0 .. MaxPuts BY DEF Puts
  <2> QED BY <1>2, <2>1, IdleFacts DEF Request
<1>4. request'[p] = x BY <1>1 DEF TypeOK
<1> HIDE DEF x
<1>5. ~Holding(p)' /\ ~InTx(p)' /\ Served(p)' BY <1>3, <1>4 DEF Holding, InTx, Served
<1>6. RequestFits(p)'
  BY <1>a, <1>1, <1>2, <1>3, <1>4, <1>5 DEF RequestFits, Uploading, Updating
<1> QED BY <1>1, <1>3, <1>5, <1>6, RequestOnly

\* The object that is found: with versions kept, there is one with the number, and it is
\* the one the version was stored with.
LEMMA FetchStep ==
    ASSUME Inductive, NEW p \in Requests, Fetch(p)
    PROVE  Inductive'
<1> USE DEF Inductive
<1>a. /\ request[p].step = "fetching"
      /\ file' = file /\ version' = version /\ bucket' = bucket /\ puts' = puts
      /\ versioned' = versioned
  BY DEF Fetch, Tables, Store
<1>b. /\ request[p].file \in FileIds /\ request[p].row # None
      /\ file[request[p].file] # None /\ file[request[p].file].user = request[p].row.user
      /\ request[p].user = request[p].row.user \/ request[p].user \in Managers
      /\ request[p].asked \in Puts /\ version[request[p].asked] # None
      /\ version[request[p].asked].file = request[p].file
  BY <1>a, Members DEF RequestsFit, RequestFits, Updating
<1>1. CASE End(p) BY <1>1, <1>a, EndStep DEF Tables, Store
<1>2. ASSUME NEW o \in Stored(Key(request[p].row.user, request[p].row.name), request[p].asked),
             request' = [request EXCEPT ![p] = [request[p] EXCEPT !.step = "sent", !.got = o]]
      PROVE  Inductive'
  <2> DEFINE x == [request[p] EXCEPT !.step = "sent", !.got = o]
  <2>1. /\ o \in bucket /\ o \in Object
        /\ o.key = Key(request[p].row.user, request[p].row.name)
        /\ versioned => o.n = request[p].asked
    BY <1>2 DEF Stored, TypeOK
  <2>2. o.key[1] = request[p].row.user BY <1>b, <2>1, NewNameIsName, KeyFacts
  <2>3. versioned => o.file = request[p].file
    <3>1. Holds(version[request[p].asked].under, request[p].asked, request[p].file)
      BY <1>b DEF VersionsAreStored
    <3>2. SUFFICES ASSUME versioned PROVE o.file = request[p].file OBVIOUS
    <3>3. PICK b \in bucket : b.n = request[p].asked /\ b.file = request[p].file
      BY <3>1, <3>2 DEF Holds
    <3>4. b = o BY <2>1, <3>2, <3>3 DEF PutsAreFresh
    <3> QED BY <3>3, <3>4
  <2>4. /\ x \in Request /\ x.step = "sent" /\ x.got = o
        /\ x.file = request[p].file /\ x.row = request[p].row
        /\ x.asked = request[p].asked /\ x.user = request[p].user
    <3>1. request[p] \in Request BY DEF TypeOK
    <3> QED BY <2>1, <3>1 DEF Request
  <2>5. request'[p] = x BY <1>2 DEF TypeOK
  <2>6. request' = [request EXCEPT ![p] = x] BY <1>2
  <2> HIDE DEF x
  <2>7. Served(p)' BY <1>a, <1>b, <2>1, <2>2, <2>3, <2>4, <2>5 DEF Served
  <2>8. ~Holding(p)' /\ ~InTx(p)' BY <2>4, <2>5 DEF Holding, InTx
  <2>9. RequestFits(p)'
    BY <1>a, <1>b, <2>4, <2>5, <2>8 DEF RequestFits, Uploading, Updating
  <2> QED BY <1>a, <2>4, <2>6, <2>7, <2>8, <2>9, RequestOnly
<1> QED BY <1>1, <1>2 DEF Fetch

-----------------------------------------------------------------------------
(* The theorems *)

\* The inductive invariant of uploads, updates, deletes and downloads, interleaved at every
\* await, with statements and puts that fail.
THEOREM FilesInvariance == Spec => []Inductive
<1>1. Init => Inductive
  <2> SUFFICES ASSUME Init PROVE Inductive OBVIOUS
  <2>1. TypeOK BY IdleFacts DEF Init, TypeOK
  <2>2. PutsAreFresh /\ VersionsAreStored /\ CurrentIsReadable
    BY DEF Init, PutsAreFresh, VersionsAreStored, CurrentIsReadable
  <2>3. \A p \in Requests : RequestFits(p) /\ Served(p) /\ ~Holding(p) /\ ~InTx(p)
    BY IdleFacts DEF Init, RequestFits, Served, Holding, InTx, Uploading, Updating
  <2> QED BY <2>1, <2>2, <2>3 DEF Inductive, RequestsFit, ServedRight
<1>2. Inductive /\ [Next]_vars => Inductive'
  <2> SUFFICES ASSUME Inductive, [Next]_vars PROVE Inductive' OBVIOUS
  <2>1. ASSUME NEW p \in Requests, Upload(p) PROVE Inductive'
    <3>1. UploadRefused(p) \/ UploadFail(p) => End(p) /\ UNCHANGED <<Tables, Store, versioned>>
      BY DEF UploadRefused, UploadFail
    <3> QED BY <2>1, <3>1, UploadsStartStep, UploadBeginStep, UploadPutStep, UploadCommitStep,
               EndStep DEF Upload
  <2>2. ASSUME NEW p \in Requests, Update(p) PROVE Inductive'
    <3>1. UpdateFail(p) => End(p) /\ UNCHANGED <<Tables, Store, versioned>> BY DEF UpdateFail
    <3> QED BY <2>2, <3>1, UpdateStartStep, UpdateRenameStep, UpdatePutStep, UpdateInsertStep,
               UpdatePointStep, EndStep DEF Update
  <2>3. ASSUME NEW p \in Requests, Download(p) PROVE Inductive'
    BY <2>3, DownloadStartStep, FetchStep DEF Download
  <2>4. ASSUME NEW p \in Requests, Finish(p) PROVE Inductive'
    BY <2>4, EndStep DEF Finish
  <2>5. ASSUME NEW user \in Users, NEW f \in FileIds, Delete(user, f) PROVE Inductive'
    BY <2>5, DeleteStep
  <2>6. CASE UNCHANGED vars
    <3>1. /\ file' = file /\ version' = version /\ bucket' = bucket /\ puts' = puts
          /\ versioned' = versioned /\ request' = request
      BY <2>6 DEF vars
    <3>2. \A key, n, f : HoldsNext(key, n, f) <=> Holds(key, n, f)
      BY <3>1 DEF Holds, HoldsNext
    <3>3. Kept /\ puts' \in Nat
      BY <3>1, <3>2 DEF Kept, Inductive, TypeOK
    <3>4. ASSUME NEW q \in Requests
          PROVE  /\ RequestFits(q)' /\ Served(q)'
                 /\ (Holding(q)' <=> Holding(q)) /\ (InTx(q)' <=> InTx(q))
      <4>1. Holding(q) => version'[request[q].put] = None
        BY <3>1 DEF Inductive, RequestsFit, RequestFits, Holding
      <4>2. request'[q] = request[q] BY <3>1
      <4>3. InTx(q) /\ request[q].file # None /\ file[request[q].file] = None =>
                file'[request[q].file] = None
        BY <3>1
      <4> QED BY <3>3, <4>1, <4>2, <4>3, OtherFits
    <3>5. TypeOK' BY <3>1 DEF Inductive, TypeOK
    <3>6. PutsAreFresh' BY <3>1 DEF Inductive, PutsAreFresh
    <3>7. VersionsAreStored'
      BY <3>1, <3>2 DEF Inductive, VersionsAreStored, Holds, HoldsNext
    <3>8. CurrentIsReadable'
      BY <3>1, <3>2 DEF Inductive, CurrentIsReadable, Holds, HoldsNext, Key
    <3>9. RequestsFit'
      BY <3>1, <3>4 DEF Inductive, RequestsFit
    <3> QED BY <3>4, <3>5, <3>6, <3>7, <3>8, <3>9 DEF Inductive, ServedRight
  <2> QED BY <2>1, <2>2, <2>3, <2>4, <2>5, <2>6 DEF Next
<1> QED BY <1>1, <1>2, PTL DEF Spec

\* A file that anyone can see has a version of its own in its owner's part of the bucket, and
\* under the key of that version the bucket holds what was put.
THEOREM CurrentIsAlwaysReadable == Spec => []CurrentIsReadable
<1>1. Inductive => CurrentIsReadable BY DEF Inductive
<1> QED BY <1>1, FilesInvariance, PTL

\* A download sends bytes of the owner's part of the bucket, to the owner or a manager, and
\* with versions kept the version and the file that were asked for.
THEOREM ServedIsRight == Spec => []ServedRight
<1>1. Inductive => ServedRight BY DEF Inductive
<1> QED BY <1>1, FilesInvariance, PTL

\* Both, in every state.
THEOREM FilesAreRight == Spec => []FilesRight
<1> QED BY CurrentIsAlwaysReadable, ServedIsRight, PTL DEF FilesRight

-----------------------------------------------------------------------------
(* FileStore implements FileArchive *)

\* A step that enters no file, gives none another name and begins no transaction leaves the
\* names as they fit.
LEMMA NamesStay ==
    ASSUME NamesFit,
           \A f \in FileIds : file'[f] # None =>
               /\ file[f] # None
               /\ file'[f].user = file[f].user /\ file'[f].name = file[f].name,
           \A p \in Requests : InTx(p)' =>
               /\ InTx(p)
               /\ request'[p].user = request[p].user /\ request'[p].name = request[p].name
               /\ request'[p].file = request[p].file
    PROVE  NamesFit'
<1>1. ASSUME NEW f \in FileIds, NEW g \in FileIds, f # g, file'[f] # None, file'[g] # None,
             file'[f].user = file'[g].user
      PROVE  file'[f].name # file'[g].name
  BY <1>1 DEF NamesFit
<1>2. ASSUME NEW p \in Requests, InTx(p)'
      PROVE  Conflicting(request[p].user, request[p].name)' \subseteq {request'[p].file}
  <2>1. ASSUME NEW f \in FileIds, file'[f] # None, file'[f].user = request'[p].user,
               file'[f].name = request'[p].name
        PROVE  f = request'[p].file
    BY <1>2, <2>1 DEF NamesFit, Conflicting
  <2> QED BY <2>1 DEF Conflicting
<1>3. ASSUME NEW p \in Requests, NEW q \in Requests, p # q, InTx(p)', InTx(q)',
             request'[p].user = request'[q].user
      PROVE  request'[p].name # request'[q].name
  BY <1>3 DEF NamesFit
<1> QED BY <1>1, <1>2, <1>3 DEF NamesFit

\* A transaction begins with a name that no other one has, and the row of that name if there
\* is one.
LEMMA NamesBegin ==
    ASSUME Inductive, NamesFit, NEW p \in Requests, UploadBegin(p)
    PROVE  NamesFit'
<1> USE DEF Inductive
<1>1. PICK user, name, f :
          /\ user = request[p].user /\ name = Head(request[p].todo)
          /\ ~Contended(p, user, name)
          /\ f \in (IF Conflicting(user, name) # {} THEN Conflicting(user, name) ELSE Unused(p))
          /\ request' = [request EXCEPT ![p] = [request[p] EXCEPT !.step = "putting",
                                                  !.file = f, !.name = name]]
  BY DEF UploadBegin
<1>2. file' = file BY DEF UploadBegin, Tables
<1>3. /\ request'[p] = [request[p] EXCEPT !.step = "putting", !.file = f, !.name = name]
      /\ \A q \in Requests \ {p} : request'[q] = request[q]
  BY <1>1 DEF TypeOK
<1>4. request'[p].user = user /\ request'[p].name = name /\ request'[p].file = f
  BY <1>1, <1>3 DEF TypeOK, Request
<1>5. \A q \in Requests \ {p} : InTx(q)' <=> InTx(q) BY <1>3 DEF InTx
<1>6. \A q \in Requests \ {p} : InTx(q) => request[q].user # user \/ request[q].name # name
  BY <1>1 DEF Contended
<1>7. Conflicting(user, name) \subseteq {f}
  <2>1. CASE Conflicting(user, name) = {} BY <2>1
  <2>2. CASE Conflicting(user, name) # {}
    <3>1. ASSUME NEW g \in Conflicting(user, name) PROVE g = f
      BY <1>1, <2>2, <3>1 DEF Conflicting, NamesFit
    <3> QED BY <3>1
  <2> QED BY <2>1, <2>2
<1>8. \A u, n : Conflicting(u, n)' = Conflicting(u, n) BY <1>2 DEF Conflicting
<1>9. ASSUME NEW q \in Requests, InTx(q)'
      PROVE  Conflicting(request'[q].user, request'[q].name) \subseteq {request'[q].file}
  <2>1. CASE q = p BY <1>4, <1>7, <2>1
  <2>2. CASE q # p BY <1>3, <1>5, <1>9, <2>2 DEF NamesFit
  <2> QED BY <2>1, <2>2
<1>10. ASSUME NEW q \in Requests, NEW s \in Requests, q # s, InTx(q)', InTx(s)',
              request'[q].user = request'[s].user
       PROVE  request'[q].name # request'[s].name
  <2>1. CASE q = p BY <1>3, <1>4, <1>5, <1>6, <1>10, <2>1
  <2>2. CASE s = p BY <1>3, <1>4, <1>5, <1>6, <1>10, <2>2
  <2>3. CASE q # p /\ s # p BY <1>3, <1>5, <1>10, <2>3 DEF NamesFit
  <2> QED BY <2>1, <2>2, <2>3
<1>11. \A q \in Requests : InTx(q)' =>
          Conflicting(request[q].user, request[q].name)' \subseteq {request'[q].file}
  BY <1>2, <1>9 DEF Conflicting
<1> QED BY <1>2, <1>10, <1>11 DEF NamesFit

\* A row is inserted under the name that its transaction has held.
LEMMA NamesCommit ==
    ASSUME Inductive, NamesFit, NEW p \in Requests, UploadCommit(p)
    PROVE  NamesFit'
<1> USE DEF Inductive
<1>1. PICK f \in FileIds, user \in Users, name \in Names :
          user = request[p].user /\ name = request[p].name /\ f = request[p].file
  BY Members DEF UploadCommit, RequestsFit, RequestFits, InTx, Uploading
<1>2. InTx(p) BY DEF UploadCommit, InTx
<1>3. /\ ~InTx(p)'
      /\ \A q \in Requests \ {p} : request'[q] = request[q]
  <2>1. request' = [request EXCEPT ![p] =
                      IF Len(request[p].todo) = 1 THEN Idle
                      ELSE [Idle EXCEPT !.step = "next", !.user = user,
                                        !.todo = Tail(request[p].todo)]]
    BY <1>1 DEF UploadCommit
  <2>2. request'[p].step \in {"idle", "next"} BY <2>1, IdleFacts DEF TypeOK, Idle
  <2> QED BY <2>1, <2>2 DEF TypeOK, InTx
<1>4. \A q \in Requests : InTx(q)' => q # p /\ InTx(q) BY <1>3 DEF InTx
<1>5. CASE file[f] # None
  <2>1. file' = [file EXCEPT ![f] = [file[f] EXCEPT !.last = request[p].put]]
    BY <1>1, <1>5 DEF UploadCommit
  <2>2. \A g \in FileIds : file'[g] # None =>
            /\ file[g] # None
            /\ file'[g].user = file[g].user /\ file'[g].name = file[g].name
    BY <1>5, <2>1, Members DEF TypeOK, FileRow
  <2> QED BY <1>3, <1>4, <2>2, NamesStay
<1>6. CASE file[f] = None
  <2>1. file' = [file EXCEPT ![f] = [name |-> name, user |-> user, last |-> request[p].put,
                                     deleted |-> FALSE]]
    BY <1>1, <1>6 DEF UploadCommit
  <2>2. /\ file'[f].user = user /\ file'[f].name = name
        /\ \A g \in FileIds \ {f} : file'[g] = file[g]
    BY <2>1 DEF TypeOK
  <2>3. \A g \in FileIds \ {f} : file[g] # None =>
            file[g].user # user \/ file[g].name # name
    BY <1>1, <1>2 DEF NamesFit, Conflicting
  <2>4. ASSUME NEW g \in FileIds, NEW h \in FileIds, g # h, file'[g] # None, file'[h] # None,
               file'[g].user = file'[h].user
        PROVE  file'[g].name # file'[h].name
    BY <2>2, <2>3, <2>4 DEF NamesFit
  <2>5. ASSUME NEW q \in Requests, InTx(q)', NEW g \in FileIds, file'[g] # None,
               file'[g].user = request'[q].user, file'[g].name = request'[q].name
        PROVE  g = request'[q].file
    <3>1. q # p /\ InTx(q) /\ request'[q] = request[q] BY <1>3, <1>4, <2>5
    <3>2. CASE g = f BY <1>1, <1>2, <2>2, <2>5, <3>1, <3>2 DEF NamesFit
    <3>3. CASE g # f BY <2>2, <2>5, <3>1, <3>3 DEF NamesFit, Conflicting
    <3> QED BY <3>2, <3>3
  <2>6. \A q \in Requests : InTx(q)' =>
            Conflicting(request[q].user, request[q].name)' \subseteq {request'[q].file}
    BY <2>5 DEF Conflicting
  <2>7. \A q, s \in Requests :
            q # s /\ InTx(q)' /\ InTx(s)' /\ request'[q].user = request'[s].user =>
                request'[q].name # request'[s].name
    BY <1>3, <1>4 DEF NamesFit
  <2> QED BY <2>4, <2>6, <2>7 DEF NamesFit
<1> QED BY <1>5, <1>6

\* A name that is free is given, and no transaction that is about to insert a row has it.
LEMMA NamesRename ==
    ASSUME Inductive, NamesFit, NEW p \in Requests, UpdateRename(p)
    PROVE  NamesFit'
<1> USE DEF Inductive
<1>1. /\ request[p].step = "renaming"
      /\ request' = [request EXCEPT ![p] = Idle]
         \/ request' = [request EXCEPT ![p].step = "uputting"]
  BY DEF UpdateRename, End, Goto
<1>2. /\ request[p].file \in FileIds /\ request[p].row # None
      /\ file[request[p].file] # None
      /\ file[request[p].file].user = request[p].row.user
  BY <1>1, Members DEF RequestsFit, RequestFits, Updating
<1>3. ~InTx(p)' /\ \A q \in Requests \ {p} : request'[q] = request[q]
  <2>1. request'[p].step \in {"idle", "uputting"} BY <1>1, IdleFacts DEF TypeOK, Request
  <2> QED BY <1>1, <2>1 DEF TypeOK, InTx
<1>4. \A q \in Requests : InTx(q)' => q # p /\ InTx(q) BY <1>3 DEF InTx
<1>5. CASE file' = file BY <1>3, <1>4, <1>5, NamesStay
<1>6. CASE file' # file
  <2>1. PICK f \in FileIds, user \in Users, name \in Names :
            f = request[p].file /\ user = request[p].row.user /\ name = request[p].name
    BY <1>2, <1>6, Members DEF UpdateRename
  <2>2. /\ file' = [file EXCEPT ![f].name = name]
        /\ ~Contended(p, user, name)
        /\ Conflicting(user, name) \ {f} = {}
    BY <1>6, <2>1 DEF UpdateRename
  <2>3. file[f] \in FileRow /\ file[f] # None /\ file[f].user = user BY <1>2, <2>1, Members
  <2>4. /\ file'[f].user = user /\ file'[f].name = name
        /\ \A g \in FileIds \ {f} : file'[g] = file[g]
    BY <2>2, <2>3 DEF TypeOK, FileRow
  <2>5. \A g \in FileIds \ {f} : file[g] # None => file[g].user # user \/ file[g].name # name
    BY <2>2 DEF Conflicting
  <2>6. \A q \in Requests \ {p} : InTx(q) => request[q].user # user \/ request[q].name # name
    BY <2>2 DEF Contended
  <2>7. ASSUME NEW g \in FileIds, NEW h \in FileIds, g # h, file'[g] # None, file'[h] # None,
               file'[g].user = file'[h].user
        PROVE  file'[g].name # file'[h].name
    BY <2>4, <2>5, <2>7 DEF NamesFit
  <2>8. ASSUME NEW q \in Requests, InTx(q)', NEW g \in FileIds, file'[g] # None,
               file'[g].user = request'[q].user, file'[g].name = request'[q].name
        PROVE  g = request'[q].file
    <3>1. q # p /\ InTx(q) /\ request'[q] = request[q] BY <1>3, <1>4, <2>8
    <3>2. CASE g = f BY <2>4, <2>6, <2>8, <3>1, <3>2
    <3>3. CASE g # f BY <2>4, <2>8, <3>1, <3>3 DEF NamesFit, Conflicting
    <3> QED BY <3>2, <3>3
  <2>9. \A q \in Requests : InTx(q)' =>
            Conflicting(request[q].user, request[q].name)' \subseteq {request'[q].file}
    BY <2>8 DEF Conflicting
  <2>10. \A q, s \in Requests :
            q # s /\ InTx(q)' /\ InTx(s)' /\ request'[q].user = request'[s].user =>
                request'[q].name # request'[s].name
    BY <1>3, <1>4 DEF NamesFit
  <2> QED BY <2>7, <2>9, <2>10 DEF NamesFit
<1> QED BY <1>5, <1>6

\* The current version or the deletion of one row is written: the names stay.
LEMMA NamesWritten ==
    ASSUME Inductive, NamesFit, NEW f \in FileIds, NEW row, file[f] # None,
           file' = [file EXCEPT ![f] = row],
           row.user = file[f].user /\ row.name = file[f].name,
           \A p \in Requests : request'[p] = request[p] \/ ~InTx(p)'
    PROVE  NamesFit'
<1>1. file'[f] = row /\ \A g \in FileIds \ {f} : file'[g] = file[g] BY DEF Inductive, TypeOK
<1>2. \A g \in FileIds : file'[g] # None =>
          file[g] # None /\ file'[g].user = file[g].user /\ file'[g].name = file[g].name
  BY <1>1
<1>3. \A p \in Requests : InTx(p)' =>
          /\ InTx(p)
          /\ request'[p].user = request[p].user /\ request'[p].name = request[p].name
          /\ request'[p].file = request[p].file
  BY DEF InTx
<1> QED BY <1>2, <1>3, NamesStay

\* A handler that ends, or goes on to a step outside of a transaction, without writing rows.
LEMMA NamesIdle ==
    ASSUME Inductive, NamesFit, NEW p \in Requests, NEW x, file' = file,
           request' = [request EXCEPT ![p] = x],
           \/ x.step \notin {"putting", "storing"}
           \/ /\ InTx(p)
              /\ x.user = request[p].user /\ x.name = request[p].name
              /\ x.file = request[p].file
    PROVE  NamesFit'
<1>1. request'[p] = x /\ \A q \in Requests \ {p} : request'[q] = request[q]
  BY DEF Inductive, TypeOK
<1>2. \A q \in Requests : InTx(q)' =>
          /\ InTx(q)
          /\ request'[q].user = request[q].user /\ request'[q].name = request[q].name
          /\ request'[q].file = request[q].file
  BY <1>1 DEF InTx
<1> QED BY <1>2, NamesStay

LEMMA NamesUpload ==
    ASSUME Inductive, NamesFit, NEW p \in Requests, Upload(p)
    PROVE  NamesFit'
<1>1. ASSUME NEW user \in Users, NEW names \in Bodies, UploadsStart(p, user, names)
      PROVE  NamesFit'
  <2>1. PICK x : x = [Idle EXCEPT !.step = "next", !.user = user, !.todo = names] OBVIOUS
  <2>2. x.step = "next" BY <2>1 DEF Idle
  <2> QED BY <1>1, <2>1, <2>2, NamesIdle DEF UploadsStart, Tables
<1>2. CASE UploadRefused(p) \/ UploadFail(p)
  BY <1>2, NamesIdle, IdleFacts DEF UploadRefused, UploadFail, End, Tables
<1>3. CASE UploadPut(p)
  <2>1. PICK x : x = [request[p] EXCEPT !.step = "storing", !.put = puts + 1] OBVIOUS
  <2>2. InTx(p) BY <1>3 DEF UploadPut, InTx
  <2>3. /\ x.user = request[p].user /\ x.name = request[p].name /\ x.file = request[p].file
    BY <2>1 DEF Inductive, TypeOK, Request
  <2>4. file' = file /\ request' = [request EXCEPT ![p] = x] BY <1>3, <2>1 DEF UploadPut, Tables
  <2> QED BY <2>2, <2>3, <2>4, NamesIdle
<1> QED BY <1>1, <1>2, <1>3, NamesBegin, NamesCommit DEF Upload

LEMMA NamesUpdate ==
    ASSUME Inductive, NamesFit, NEW p \in Requests, Update(p)
    PROVE  NamesFit'
<1>1. ASSUME NEW user \in Users, NEW f \in FileIds, NEW name \in Names \cup {None},
             NEW body \in BOOLEAN, UpdateStart(p, user, f, name, body)
      PROVE  NamesFit'
  <2>1. PICK x : x = [Idle EXCEPT !.step = "renaming", !.file = f, !.name = name,
                                  !.body = body, !.row = Snapshot(f)]
    OBVIOUS
  <2>2. x.step = "renaming" BY <2>1 DEF Idle
  <2> QED BY <1>1, <2>1, <2>2, NamesIdle DEF UpdateStart, Tables
<1>2. CASE UpdateFail(p)
  BY <1>2, NamesIdle, IdleFacts DEF UpdateFail, End, Tables
<1>3. CASE UpdatePut(p)
  <2>1. PICK x : x = [request[p] EXCEPT !.step = "inserting", !.put = puts + 1] OBVIOUS
  <2>2. x.step = "inserting" BY <2>1 DEF Inductive, TypeOK, Request
  <2> QED BY <1>3, <2>1, <2>2, NamesIdle DEF UpdatePut, Tables
<1>4. CASE UpdateInsert(p)
  <2>1. PICK x : x = [request[p] EXCEPT !.step = "pointing"] OBVIOUS
  <2>2. x.step = "pointing" BY <2>1 DEF Inductive, TypeOK, Request
  <2>3. file' = file /\ request' = [request EXCEPT ![p] = x]
    BY <1>4, <2>1 DEF UpdateInsert, Goto
  <2> QED BY <2>2, <2>3, NamesIdle
<1>5. CASE UpdatePoint(p)
  <2>1. PICK f : f = request[p].file OBVIOUS
  <2>2. f \in FileIds /\ file[f] # None
    BY <1>5, <2>1, Members DEF UpdatePoint, Inductive, RequestsFit, RequestFits, Updating
  <2>3. PICK row : row = [file[f] EXCEPT !.last = request[p].put] OBVIOUS
  <2>4. row.user = file[f].user /\ row.name = file[f].name
    BY <2>2, <2>3, Members DEF Inductive, FileRow
  <2>5. file' = [file EXCEPT ![f] = row] BY <1>5, <2>1, <2>3 DEF UpdatePoint
  <2>6. \A q \in Requests : request'[q] = request[q] \/ ~InTx(q)'
    BY <1>5, IdleFacts DEF UpdatePoint, End, Inductive, TypeOK, InTx
  <2> QED BY <2>2, <2>4, <2>5, <2>6, NamesWritten
<1> QED BY <1>1, <1>2, <1>3, <1>4, <1>5, NamesRename DEF Update

LEMMA NamesDownload ==
    ASSUME Inductive, NamesFit, NEW p \in Requests, Download(p) \/ Finish(p)
    PROVE  NamesFit'
<1>1. ASSUME NEW user \in Users \cup {None}, NEW f \in FileIds, NEW n \in 0 .. MaxPuts,
             DownloadStart(p, user, f, n)
      PROVE  NamesFit'
  <2>1. PICK x : x = [Idle EXCEPT !.step = "fetching", !.user = user, !.file = f,
                                  !.row = Snapshot(f),
                                  !.asked = IF n = 0 THEN file[f].last ELSE n]
    OBVIOUS
  <2>2. x.step = "fetching" BY <2>1 DEF Idle
  <2> QED BY <1>1, <2>1, <2>2, NamesIdle DEF DownloadStart, Tables
<1>2. CASE Fetch(p)
  <2>1. file' = file BY <1>2 DEF Fetch, Tables
  <2>2. PICK x : request' = [request EXCEPT ![p] = x] /\ x.step \in {"sent", "idle"}
    <3>1. CASE request' = [request EXCEPT ![p] = Idle] BY <3>1, IdleFacts
    <3>2. CASE \E o : request' = [request EXCEPT ![p] = [@ EXCEPT !.step = "sent", !.got = o]]
      <4>1. PICK o : request' = [request EXCEPT ![p] = [@ EXCEPT !.step = "sent", !.got = o]]
        BY <3>2
      <4>2. [request[p] EXCEPT !.step = "sent", !.got = o].step = "sent"
        BY DEF Inductive, TypeOK, Request
      <4> QED BY <4>1, <4>2
    <3> QED BY <1>2, <3>1, <3>2 DEF Fetch, End
  <2> QED BY <2>1, <2>2, NamesIdle
<1>3. CASE Finish(p)
  BY <1>3, NamesIdle, IdleFacts DEF Finish, End, Tables
<1> QED BY <1>1, <1>2, <1>3 DEF Download

\* A user's files have different names, while transactions that insert rows are open and
\* updates give other names.
THEOREM NamesInvariance == Spec => []NamesFit
<1>1. Init => NamesFit
  <2> SUFFICES ASSUME Init PROVE NamesFit OBVIOUS
  <2>1. (\A f \in FileIds : file[f] = None) /\ \A p \in Requests : ~InTx(p)
    BY IdleFacts DEF Init, InTx
  <2> QED BY <2>1 DEF NamesFit
<1>2. Inductive /\ NamesFit /\ [Next]_vars => NamesFit'
  <2> SUFFICES ASSUME Inductive, NamesFit, [Next]_vars PROVE NamesFit' OBVIOUS
  <2>1. ASSUME NEW user \in Users, NEW f \in FileIds, Delete(user, f) PROVE NamesFit'
    <3>1. file[f] # None /\ request' = request BY <2>1 DEF Delete, Live
    <3>2. PICK row : row = [file[f] EXCEPT !.deleted = TRUE] OBVIOUS
    <3>3. row.user = file[f].user /\ row.name = file[f].name
      BY <3>1, <3>2, Members DEF Inductive, FileRow
    <3>4. file' = [file EXCEPT ![f] = row] BY <2>1, <3>2 DEF Delete
    <3> QED BY <3>1, <3>3, <3>4, NamesWritten
  <2>2. CASE UNCHANGED vars BY <2>2, NamesStay DEF vars, InTx
  <2> QED BY <2>1, <2>2, NamesUpload, NamesUpdate, NamesDownload DEF Next
<1> QED BY <1>1, <1>2, FilesInvariance, PTL DEF Spec

-----------------------------------------------------------------------------
(* Each step is one of the archive, or none. *)

\* What of the rows of versions and of requests the archive sees.
Edition(n) == IF version[n] = None THEN None ELSE version[n].file
Delivered(p) ==
    IF versioned /\ request[p].got # None
    THEN [to |-> request[p].user, file |-> request[p].got.file, version |-> request[p].got.n]
    ELSE None
Editions == [n \in Puts |-> Edition(n)]
Deliveries == [p \in Requests |-> Delivered(p)]

\* A request that neither has got an object nor gets one.
LEMMA NothingDelivered ==
    ASSUME Inductive, NEW p \in Requests, NEW x, request' = [request EXCEPT ![p] = x],
           versioned' = versioned, request[p].got = None, x.got = None
    PROVE  Deliveries' = Deliveries
<1>1. request'[p] = x /\ \A q \in Requests \ {p} : request'[q] = request[q]
  BY DEF Inductive, TypeOK
<1>2. \A q \in Requests : Delivered(q)' = Delivered(q) BY <1>1 DEF Delivered
<1> QED BY <1>2 DEF Deliveries

\* Only what has been sent has got an object.
LEMMA GotNothing ==
    ASSUME Inductive, NEW p \in Requests, request[p].step # "sent"
    PROVE  request[p].got = None
BY DEF Inductive, RequestsFit, RequestFits

\* Whatever leaves the rows and deliveries alone is no step of the archive.
LEMMA ArchiveStays ==
    ASSUME file' = file, version' = version, Deliveries' = Deliveries
    PROVE  UNCHANGED Archive!archiveVars
<1>1. \A n \in Puts : Edition(n)' = Edition(n) BY DEF Edition
<1>2. Editions' = Editions BY <1>1 DEF Editions
<1> QED BY <1>2 DEF Archive!archiveVars, Editions, Edition, Deliveries, Delivered

\* A step of one request, by which no object is got.
LEMMA ArchiveIdle ==
    ASSUME Inductive, NEW p \in Requests, NEW x, request' = [request EXCEPT ![p] = x],
           file' = file, version' = version, versioned' = versioned,
           request[p].step # "sent", x.got = None
    PROVE  UNCHANGED Archive!archiveVars
BY GotNothing, NothingDelivered, ArchiveStays

\* The row of a version is written once.
LEMMA EditionWritten ==
    ASSUME Inductive, NEW n \in Puts, NEW f \in FileIds, NEW key,
           version[n] = None,
           version' = [version EXCEPT ![n] = [file |-> f, under |-> key]],
           version'[n] # None
    PROVE  Editions[n] = None /\ Editions' = [Editions EXCEPT ![n] = f]
<1>1. /\ version'[n].file = f
      /\ \A m \in Puts \ {n} : version'[m] = version[m]
  BY DEF Inductive, TypeOK
<1>2. Edition(n) = None /\ Edition(n)' = f BY <1>1 DEF Edition
<1>3. \A m \in Puts \ {n} : Edition(m)' = Edition(m) BY <1>1 DEF Edition
<1> QED BY <1>2, <1>3 DEF Editions

\* The first version of a file enters it, a further one is its current one.
LEMMA ArchiveCommit ==
    ASSUME Inductive, Inductive', NamesFit, NEW p \in Requests, UploadCommit(p)
    PROVE  Archive!Next
<1> USE DEF Inductive
<1>1. PICK f \in FileIds, user \in Users, name \in Names :
          user = request[p].user /\ name = request[p].name /\ f = request[p].file
  BY Members DEF UploadCommit, RequestsFit, RequestFits, InTx, Uploading
<1>2. InTx(p) /\ request[p].step = "storing" BY DEF UploadCommit, InTx
<1>3. PICK n \in Puts : n = request[p].put /\ version[n] = None
  <2>1. request[p].put \in 1 .. puts /\ version[request[p].put] = None
    BY <1>2 DEF RequestsFit, RequestFits
  <2>2. request[p].put \in Puts BY <2>1 DEF TypeOK, Puts
  <2> QED BY <2>1, <2>2
<1>4. version' = [version EXCEPT ![n] = [file |-> f, under |-> Key(user, name)]]
  BY <1>1, <1>3 DEF UploadCommit
<1>5. version'[n] # None
  <2>1. [file |-> f, under |-> Key(user, name)] \in VersionRow BY KeyFacts DEF VersionRow
  <2> QED BY <1>4, <2>1 DEF TypeOK
<1>6. Editions[n] = None /\ Editions' = [Editions EXCEPT ![n] = f]
  BY <1>3, <1>4, <1>5, EditionWritten
<1>7. Deliveries' = Deliveries
  <2>1. PICK x : /\ x = IF Len(request[p].todo) = 1 THEN Idle
                        ELSE [Idle EXCEPT !.step = "next", !.user = user,
                                          !.todo = Tail(request[p].todo)]
                 /\ request' = [request EXCEPT ![p] = x]
    BY <1>1 DEF UploadCommit
  <2>2. x.got = None BY <2>1, IdleFacts DEF Idle
  <2>3. versioned' = versioned BY DEF UploadCommit
  <2> QED BY <1>2, <2>1, <2>2, <2>3, GotNothing, NothingDelivered
<1>8. CASE file[f] = None
  <2>1. file' = [file EXCEPT ![f] = [name |-> name, user |-> user, last |-> n,
                                     deleted |-> FALSE]]
    BY <1>1, <1>3, <1>8 DEF UploadCommit
  <2>2. Archive!Free(f, user, name)
    BY <1>1, <1>2 DEF NamesFit, Conflicting, Archive!Free, Archive!Entered
  <2>3. Archive!Publish(f, n) BY <1>8, <2>1, <2>2 DEF Archive!Publish, Archive!Entered
  <2>4. Archive!Record(f, n)
    BY <1>6, <1>7, <2>3
       DEF Archive!Record, Editions, Edition, Deliveries, Delivered
  <2> QED BY <2>4 DEF Archive!Next
<1>9. CASE file[f] # None
  <2>1. file' = [file EXCEPT ![f] = [file[f] EXCEPT !.last = n]]
    BY <1>1, <1>3, <1>9 DEF UploadCommit
  <2>2. file' = [file EXCEPT ![f].last = n] BY <2>1
  <2>3. Archive!Renew(f, n) BY <1>9, <2>2 DEF Archive!Renew, Archive!Entered
  <2>4. Archive!Record(f, n)
    BY <1>6, <1>7, <2>3
       DEF Archive!Record, Editions, Edition, Deliveries, Delivered
  <2> QED BY <2>4 DEF Archive!Next
<1> QED BY <1>8, <1>9

LEMMA ArchiveUpload ==
    ASSUME Inductive, Inductive', NamesFit, NEW p \in Requests, Upload(p)
    PROVE  [Archive!Next]_(Archive!archiveVars)
<1>1. ASSUME NEW user \in Users, NEW names \in Bodies, UploadsStart(p, user, names)
      PROVE  UNCHANGED Archive!archiveVars
  <2>1. PICK x : x = [Idle EXCEPT !.step = "next", !.user = user, !.todo = names] OBVIOUS
  <2>2. x.got = None BY <2>1, IdleFacts DEF Idle
  <2> QED BY <1>1, <2>1, <2>2, ArchiveIdle DEF UploadsStart, Tables
<1>2. CASE UploadRefused(p) \/ UploadFail(p)
  BY <1>2, ArchiveIdle, IdleFacts DEF UploadRefused, UploadFail, InTx, End, Tables
<1>3. CASE UploadBegin(p)
  <2>1. PICK f, name : request' = [request EXCEPT ![p] = [request[p] EXCEPT
                                      !.step = "putting", !.file = f, !.name = name]]
    BY <1>3 DEF UploadBegin
  <2>2. PICK x : x = [request[p] EXCEPT !.step = "putting", !.file = f, !.name = name] OBVIOUS
  <2>3. request[p].step = "next" /\ file' = file /\ version' = version /\ versioned' = versioned
    BY <1>3 DEF UploadBegin, Tables
  <2>4. x.got = None BY <2>2, <2>3, GotNothing DEF Inductive, TypeOK, Request
  <2> QED BY <2>1, <2>2, <2>3, <2>4, ArchiveIdle
<1>4. CASE UploadPut(p)
  <2>1. PICK x : x = [request[p] EXCEPT !.step = "storing", !.put = puts + 1] OBVIOUS
  <2>2. /\ request[p].step = "putting" /\ file' = file /\ version' = version
        /\ versioned' = versioned /\ request' = [request EXCEPT ![p] = x]
    BY <1>4, <2>1 DEF UploadPut, Tables
  <2>3. x.got = None BY <2>1, <2>2, GotNothing DEF Inductive, TypeOK, Request
  <2> QED BY <2>2, <2>3, ArchiveIdle
<1> QED BY <1>1, <1>2, <1>3, <1>4, ArchiveCommit DEF Upload

\* A name is given, if it is free; nothing else of the row changes.
LEMMA ArchiveRename ==
    ASSUME Inductive, NEW p \in Requests, UpdateRename(p)
    PROVE  [Archive!Next]_(Archive!archiveVars)
<1> USE DEF Inductive
<1>1. /\ request[p].step = "renaming" /\ version' = version /\ versioned' = versioned
      /\ request' = [request EXCEPT ![p] = Idle]
         \/ request' = [request EXCEPT ![p] = [request[p] EXCEPT !.step = "uputting"]]
  BY DEF UpdateRename, End, Goto
<1>2. /\ request[p].file \in FileIds /\ request[p].row # None
      /\ file[request[p].file] # None
      /\ file[request[p].file].user = request[p].row.user
  BY <1>1, Members DEF RequestsFit, RequestFits, Updating
<1>3. PICK x : request' = [request EXCEPT ![p] = x] /\ x.got = None
  <2>1. request[p].got = None BY <1>1, GotNothing
  <2>2. [request[p] EXCEPT !.step = "uputting"].got = None BY <2>1 DEF TypeOK, Request
  <2> QED BY <1>1, <2>2, IdleFacts
<1>4. CASE file' = file BY <1>1, <1>3, <1>4, ArchiveIdle
<1>5. CASE file' # file
  <2>1. PICK f \in FileIds, user \in Users, name \in Names :
            f = request[p].file /\ user = request[p].row.user /\ name = request[p].name
    BY <1>2, <1>5, Members DEF UpdateRename
  <2>2. /\ file' = [file EXCEPT ![f].name = name]
        /\ Conflicting(user, name) \ {f} = {}
    BY <1>5, <2>1 DEF UpdateRename
  <2>3. Archive!Free(f, file[f].user, name)
    BY <1>2, <2>1, <2>2 DEF Conflicting, Archive!Free, Archive!Entered
  <2>4. Deliveries' = Deliveries BY <1>1, <1>3, GotNothing, NothingDelivered
  <2>5. Archive!Rename(f)
    BY <1>1, <1>2, <2>1, <2>2, <2>3, <2>4
       DEF Archive!Rename, Archive!Entered, Deliveries, Delivered
  <2> QED BY <2>5 DEF Archive!Next
<1> QED BY <1>4, <1>5

\* The version is recorded before it becomes the current one.
LEMMA ArchiveInsert ==
    ASSUME Inductive, NEW p \in Requests, UpdateInsert(p)
    PROVE  Archive!Next
<1> USE DEF Inductive
<1>1. request[p].step = "inserting" /\ file' = file /\ versioned' = versioned
  BY DEF UpdateInsert
<1>2. PICK f \in FileIds : f = request[p].file /\ file[f] # None
  BY <1>1, Members DEF RequestsFit, RequestFits, Updating
<1>3. PICK n \in Puts : n = request[p].put /\ version[n] = None
  <2>1. request[p].put \in 1 .. puts /\ version[request[p].put] = None
    BY <1>1 DEF RequestsFit, RequestFits
  <2>2. request[p].put \in Puts BY <2>1 DEF TypeOK, Puts
  <2> QED BY <2>1, <2>2
<1>4. PICK key \in Keys : version' = [version EXCEPT ![n] = [file |-> f, under |-> key]]
  <2>1. request[p].row # None BY <1>1 DEF RequestsFit, RequestFits, Updating
  <2>2. Key(request[p].row.user, NewName(request[p])) \in Keys
    BY <2>1, NewNameIsName, KeyFacts
  <2> QED BY <1>2, <1>3, <2>2 DEF UpdateInsert
<1>5. version'[n] # None
  <2>1. [file |-> f, under |-> key] \in VersionRow BY DEF VersionRow
  <2> QED BY <1>4, <2>1 DEF TypeOK
<1>6. Editions[n] = None /\ Editions' = [Editions EXCEPT ![n] = f]
  BY <1>3, <1>4, <1>5, EditionWritten
<1>7. Deliveries' = Deliveries
  <2>1. PICK x : x = [request[p] EXCEPT !.step = "pointing"] OBVIOUS
  <2>2. request[p].got = None BY <1>1, GotNothing
  <2>3. x.got = None BY <2>1, <2>2 DEF TypeOK, Request
  <2>4. request' = [request EXCEPT ![p] = x] BY <2>1 DEF UpdateInsert, Goto
  <2> QED BY <1>1, <2>2, <2>3, <2>4, NothingDelivered
<1>8. Archive!Renew(f, n) BY <1>1, <1>2 DEF Archive!Renew, Archive!Entered
<1>9. Archive!Record(f, n)
  BY <1>6, <1>7, <1>8 DEF Archive!Record, Editions, Edition, Deliveries, Delivered
<1> QED BY <1>9 DEF Archive!Next

\* What becomes the current version has been recorded as one of the file.
LEMMA ArchivePoint ==
    ASSUME Inductive, NEW p \in Requests, UpdatePoint(p)
    PROVE  Archive!Next
<1> USE DEF Inductive
<1>1. request[p].step = "pointing" /\ version' = version /\ versioned' = versioned
  BY DEF UpdatePoint
<1>2. PICK f \in FileIds : f = request[p].file
  BY <1>1, Members DEF RequestsFit, RequestFits, Updating
<1>3. PICK n \in Puts : n = request[p].put /\ version[n] # None /\ version[n].file = f
  <2>1. /\ request[p].put \in 1 .. puts /\ version[request[p].put] # None
        /\ version[request[p].put].file = request[p].file
    BY <1>1 DEF RequestsFit, RequestFits
  <2>2. request[p].put \in Puts BY <2>1 DEF TypeOK, Puts
  <2> QED BY <1>2, <2>1, <2>2
<1>4. file' = [file EXCEPT ![f].last = n] BY <1>2, <1>3 DEF UpdatePoint
<1>5. Deliveries' = Deliveries
  BY <1>1, GotNothing, NothingDelivered, IdleFacts DEF UpdatePoint, End
<1>6. Editions[n] = f /\ Editions' = Editions BY <1>1, <1>3 DEF Editions, Edition
<1>7. Archive!Point(f, n)
  BY <1>4, <1>5, <1>6 DEF Archive!Point, Editions, Edition, Deliveries, Delivered
<1> QED BY <1>7 DEF Archive!Next

LEMMA ArchiveUpdate ==
    ASSUME Inductive, NEW p \in Requests, Update(p)
    PROVE  [Archive!Next]_(Archive!archiveVars)
<1>1. ASSUME NEW user \in Users, NEW f \in FileIds, NEW name \in Names \cup {None},
             NEW body \in BOOLEAN, UpdateStart(p, user, f, name, body)
      PROVE  UNCHANGED Archive!archiveVars
  <2>1. PICK x : x = [Idle EXCEPT !.step = "renaming", !.file = f, !.name = name,
                                  !.body = body, !.row = Snapshot(f)]
    OBVIOUS
  <2>2. x.got = None BY <2>1, IdleFacts DEF Idle
  <2> QED BY <1>1, <2>1, <2>2, ArchiveIdle DEF UpdateStart, Tables
<1>2. CASE UpdateFail(p)
  BY <1>2, ArchiveIdle, IdleFacts DEF UpdateFail, Updating, End, Tables
<1>3. CASE UpdatePut(p)
  <2>1. PICK x : x = [request[p] EXCEPT !.step = "inserting", !.put = puts + 1] OBVIOUS
  <2>2. /\ request[p].step = "uputting" /\ file' = file /\ version' = version
        /\ versioned' = versioned /\ request' = [request EXCEPT ![p] = x]
    BY <1>3, <2>1 DEF UpdatePut, Tables
  <2>3. x.got = None BY <2>1, <2>2, GotNothing DEF Inductive, TypeOK, Request
  <2> QED BY <2>2, <2>3, ArchiveIdle
<1> QED BY <1>1, <1>2, <1>3, ArchiveRename, ArchiveInsert, ArchivePoint DEF Update

\* With versions kept, what is sent is a version of a file, to its owner or a manager.
LEMMA ArchiveFetch ==
    ASSUME Inductive, Inductive', NEW p \in Requests, Fetch(p)
    PROVE  [Archive!Next]_(Archive!archiveVars)
<1> USE DEF Inductive
<1>1. /\ request[p].step = "fetching" /\ file' = file /\ version' = version
      /\ versioned' = versioned
  BY DEF Fetch, Tables
<1>2. CASE request' = [request EXCEPT ![p] = Idle]
  BY <1>1, <1>2, ArchiveIdle, IdleFacts
<1>3. CASE \E o \in bucket : request' = [request EXCEPT ![p] = [@ EXCEPT !.step = "sent",
                                                                     !.got = o]]
  <2>1. PICK o \in bucket : request' = [request EXCEPT ![p] = [@ EXCEPT !.step = "sent",
                                                                         !.got = o]]
    BY <1>3
  <2>2. PICK x : x = [request[p] EXCEPT !.step = "sent", !.got = o] OBVIOUS
  <2>3. /\ request'[p] = x /\ \A q \in Requests \ {p} : request'[q] = request[q]
    BY <2>1, <2>2 DEF TypeOK
  <2>4. /\ x.got = o /\ x.user = request[p].user /\ x.file = request[p].file
        /\ x.asked = request[p].asked
    BY <2>2 DEF TypeOK, Request
  <2>5. o \in Object /\ o # None BY NoneIsNoRow DEF TypeOK
  <2>6. CASE ~versioned
    <3>1. Deliveries' = Deliveries BY <1>1, <2>6 DEF Deliveries, Delivered
    <3> QED BY <1>1, <3>1, ArchiveStays
  <2>7. CASE versioned
    <3>1. PICK f \in FileIds, n \in Puts :
              /\ f = request[p].file /\ n = request[p].asked
              /\ version[n] # None /\ version[n].file = f
              /\ file[f] # None /\ file[f].user = request[p].row.user
              /\ request[p].user = request[p].row.user \/ request[p].user \in Managers
      BY <1>1, Members DEF RequestsFit, RequestFits
    <3>2. o.n = n /\ o.file = f
      BY <1>1, <2>3, <2>4, <2>5, <2>7, <3>1 DEF ServedRight, Served
    <3>3. PICK user \in Managers \cup {file[f].user} : user = request[p].user BY <3>1
    <3>4. Delivered(p)' = [to |-> user, file |-> f, version |-> n]
      BY <1>1, <2>3, <2>4, <2>5, <2>7, <3>2, <3>3 DEF Delivered
    <3>5. \A q \in Requests \ {p} : Delivered(q)' = Delivered(q)
      BY <1>1, <2>3 DEF Delivered
    <3>6. Deliveries' = [Deliveries EXCEPT ![p] = [to |-> user, file |-> f, version |-> n]]
      BY <3>4, <3>5 DEF Deliveries
    <3>7. Editions[n] = f /\ Editions' = Editions BY <1>1, <3>1 DEF Editions, Edition
    <3>8. Archive!Deliver(f, n)
      BY <1>1, <3>3, <3>6, <3>7
         DEF Archive!Deliver, Editions, Edition, Deliveries, Delivered
    <3> QED BY <3>8 DEF Archive!Next
  <2> QED BY <2>6, <2>7
<1> QED BY <1>2, <1>3 DEF Fetch, End, Stored

LEMMA ArchiveDownload ==
    ASSUME Inductive, Inductive', NEW p \in Requests, Download(p)
    PROVE  [Archive!Next]_(Archive!archiveVars)
<1>1. ASSUME NEW user \in Users \cup {None}, NEW f \in FileIds, NEW n \in 0 .. MaxPuts,
             DownloadStart(p, user, f, n)
      PROVE  UNCHANGED Archive!archiveVars
  <2>1. PICK x : x = [Idle EXCEPT !.step = "fetching", !.user = user, !.file = f,
                                  !.row = Snapshot(f),
                                  !.asked = IF n = 0 THEN file[f].last ELSE n]
    OBVIOUS
  <2>2. x.got = None BY <2>1, IdleFacts DEF Idle
  <2> QED BY <1>1, <2>1, <2>2, ArchiveIdle DEF DownloadStart, Tables
<1> QED BY <1>1, ArchiveFetch DEF Download

LEMMA ArchiveFinish ==
    ASSUME Inductive, NEW p \in Requests, Finish(p)
    PROVE  Archive!Next
<1>1. /\ file' = file /\ version' = version /\ versioned' = versioned
      /\ request'[p] = Idle /\ \A q \in Requests \ {p} : request'[q] = request[q]
  BY DEF Finish, End, Tables, Inductive, TypeOK
<1>2. Delivered(p)' = None BY <1>1, IdleFacts DEF Delivered
<1>3. \A q \in Requests \ {p} : Delivered(q)' = Delivered(q) BY <1>1 DEF Delivered
<1>4. Deliveries' = [Deliveries EXCEPT ![p] = None] BY <1>2, <1>3 DEF Deliveries
<1>5. Editions' = Editions BY <1>1 DEF Editions, Edition
<1>6. Archive!Forget(p)
  BY <1>1, <1>4, <1>5 DEF Archive!Forget, Editions, Edition, Deliveries, Delivered
<1> QED BY <1>6 DEF Archive!Next

LEMMA ArchiveDelete ==
    ASSUME Inductive, NEW user \in Users, NEW f \in FileIds, Delete(user, f)
    PROVE  Archive!Next
<1>1. /\ file[f] # None /\ file' = [file EXCEPT ![f].deleted = TRUE]
      /\ version' = version /\ versioned' = versioned /\ request' = request
  BY DEF Delete, Live
<1>2. Deliveries' = Deliveries /\ Editions' = Editions
  BY <1>1 DEF Deliveries, Delivered, Editions, Edition
<1>3. Archive!Remove(f)
  BY <1>1, <1>2 DEF Archive!Remove, Archive!Entered, Editions, Edition, Deliveries, Delivered
<1> QED BY <1>3 DEF Archive!Next

LEMMA ArchiveStep ==
    Inductive /\ Inductive' /\ NamesFit /\ [Next]_vars => [Archive!Next]_(Archive!archiveVars)
<1> SUFFICES ASSUME Inductive, Inductive', NamesFit, [Next]_vars
             PROVE  [Archive!Next]_(Archive!archiveVars)
  OBVIOUS
<1>1. CASE UNCHANGED vars
  <2>1. Deliveries' = Deliveries BY <1>1 DEF vars, Deliveries, Delivered
  <2> QED BY <1>1, <2>1, ArchiveStays DEF vars
<1> QED BY <1>1, ArchiveUpload, ArchiveUpdate, ArchiveDownload, ArchiveFinish, ArchiveDelete
        DEF Next

\* The refinement: uploads in transactions and updates without one, renames, deletions and
\* downloads, of any number of requests that meet and fail, are steps of FileArchive.
THEOREM RefinesArchive == Spec => ImplementsArchive
<1>1. Init => Archive!Init
  <2> SUFFICES ASSUME Init PROVE Archive!Init OBVIOUS
  <2>1. \A p \in Requests : request[p].got = None BY IdleFacts DEF Init
  <2> QED BY <2>1 DEF Init, Archive!Init
<1> QED BY <1>1, FilesInvariance, NamesInvariance, ArchiveStep, PTL
        DEF Spec, ImplementsArchive, Archive!ArchiveSpec

-----------------------------------------------------------------------------
(* HttpPipeline *)

ServerIds == {"safe id", "made id"}

\* What the client that sent this body may read of an exception.
Presentable(e, body) ==
    /\ RawMessage(e) \notin Internals
    /\ \A c \in ToSet(e.errors) :
          /\ c.message \in TranslationKeys
          /\ c.args.property \in Fields /\ c.args.value = body[c.args.property]
    /\ \/ e.extras = {}
       \/ e.errors = <<>> /\ e.extras = {"lockedUntil"}
          /\ RawMessage(e) = "user.auth.accountLocked"
       \/ e.errors = <<>> /\ e.extras = {"requiresCaptcha"}
          /\ RawMessage(e) = "user.auth.invalidCredentials"

\* The request has its id once it is accepted, and what is handed from stage to stage can be
\* presented.
HttpInductive ==
    /\ fallback \in Locales
    /\ stage \in {"sent", "accepted", "routed", "guarded", "intercepted", "valid", "returned",
                  "thrown", "answered"}
    /\ req \in [asked : Asked, target : Targets, idHeader : IdHeaders, body : Submissions,
                language : {Absent} \cup {<<l>> : l \in Locales}, id : ServerIds \cup {Absent}]
    /\ stage # "sent" => req.id \in ServerIds
    /\ stage = "thrown" => Presentable(outcome, req.body)
    /\ stage = "returned" => outcome.message \in TranslationKeys \cup Prose \cup {Absent}
    /\ NothingLeaks

\* Exceptions of Nest's, of the guards, of the pipe and of the handlers can be presented: the
\* text of an HttpException is the code's or a key, of any other the client gets the key that
\* its class stands for.
LEMMA HttpErrorsArePresentable ==
    ASSUME NEW name, NEW status, NEW message \in KeysUsed \cup TextsUsed, NEW body
    PROVE  Presentable(HttpError(name, status, message), body)
<1>1. PICK e : e = HttpError(name, status, message)
  OBVIOUS
<1>2. e.http = TRUE /\ e.message = message /\ e.errors = <<>> /\ e.extras = {}
  BY <1>1 DEF HttpError
<1>3. RawMessage(e) = message /\ ToSet(<<>>) = {}
  BY <1>2 DEF RawMessage, ToSet
<1> QED
  BY <1>1, <1>2, <1>3, HttpPipelineAssumption DEF Presentable

LEMMA RefusalsArePresentable ==
    ASSUME NEW body
    PROVE  /\ Presentable(HttpError("NotFoundException", 404, "Cannot GET /"), body)
           /\ \A e \in GuardRefusals : Presentable(e, body)
<1>1. /\ {"common.csrf.invalid", "user.auth.tokenStale"} \subseteq KeysUsed
      /\ {"ThrottlerException: Too Many Requests", "Unauthorized", "Forbidden resource",
          "Cannot GET /"} \subseteq TextsUsed
  BY DEF KeysUsed, TextsUsed
<1>2. Presentable(HttpError("NotFoundException", 404, "Cannot GET /"), body)
  BY <1>1, HttpErrorsArePresentable, ZenonT(40)
<1>3. \A e \in GuardRefusals :
        \E name, status, message :
           message \in KeysUsed \cup TextsUsed /\ e = HttpError(name, status, message)
  BY <1>1, ZenonT(40) DEF GuardRefusals
<1>4. ASSUME NEW e \in GuardRefusals PROVE Presentable(e, body)
  <2>1. PICK name, status, message :
           message \in KeysUsed \cup TextsUsed /\ e = HttpError(name, status, message)
    BY <1>3
  <2> QED
    BY <2>1, HttpErrorsArePresentable, ZenonT(40)
<1> QED
  BY <1>2, <1>4

\* What the filter sends of a login refused for the lock or for wrong credentials.
LEMMA LoginRefusalsArePresentable ==
    ASSUME NEW e \in LoginRefusals, NEW body
    PROVE  Presentable(e, body)
<1>1. /\ e.http = TRUE /\ e.errors = <<>>
      /\ \/ e.extras = {"lockedUntil"} /\ e.message = "user.auth.accountLocked"
         \/ e.extras = {"requiresCaptcha"} /\ e.message = "user.auth.invalidCredentials"
  BY DEF LoginRefusals, HttpError
<1>2. e.message \in KeysUsed /\ ToSet(<<>>) = {} /\ RawMessage(e) = e.message
  BY <1>1 DEF KeysUsed, ToSet, RawMessage
<1> QED
  BY <1>1, <1>2, HttpPipelineAssumption DEF Presentable

LEMMA FailuresArePresentable ==
    ASSUME NEW e \in HandlerErrors, NEW body
    PROVE  Presentable(e, body)
<1>1. CASE e \in InternalErrors
  <2>0. ToSet(<<>>) = {}
    BY DEF ToSet
  <2>1. /\ e.http = FALSE /\ e.errors = <<>> /\ e.extras = {}
        /\ e.db \in SqlClasses \cup {Absent}
    BY <1>1 DEF InternalErrors
  <2>2. RawMessage(e) \in KeysUsed
    <3>1. CASE e.db \in SqlClasses /\ e.db # Absent
      <4>1. RawMessage(e) = SqlError[e.db].message
        BY <2>1, <3>1 DEF RawMessage
      <4> QED
        BY <3>1, <4>1 DEF SqlError, KeysUsed
    <3>2. CASE e.db = Absent
      BY <2>1, <3>2 DEF RawMessage, KeysUsed
    <3> QED
      BY <2>1, <3>1, <3>2
  <2> QED
    BY <2>0, <2>1, <2>2, HttpPipelineAssumption DEF Presentable
<1>2. CASE e \in LoginRefusals
  BY <1>2, LoginRefusalsArePresentable
<1>3. CASE e \notin InternalErrors \cup LoginRefusals
  <2>1. /\ {"user.notFound", "file.fileRequired", "captcha.challenge.expired"} \subseteq KeysUsed
        /\ "Request body is too large" \in TextsUsed
    BY DEF KeysUsed, TextsUsed
  <2>2. \/ e = HttpError("NotFoundException", 404, "user.notFound")
        \/ e = HttpError("BadRequestException", 400, "file.fileRequired")
        \/ e = HttpError("GoneException", 410, "captcha.challenge.expired")
        \/ e = HttpError("HttpException", 413, "Request body is too large")
    BY <1>3, ZenonT(40) DEF HandlerErrors
  <2>3. PICK name, status, message :
           message \in KeysUsed \cup TextsUsed /\ e = HttpError(name, status, message)
    BY <2>1, <2>2, ZenonT(40)
  <2> QED
    BY <2>3, HttpErrorsArePresentable, ZenonT(40)
<1> QED
  BY <1>1, <1>2, <1>3

LEMMA ConstraintsArePresentable ==
    ASSUME NEW body, NEW failed \in FailedChecks(body)
    PROVE  Presentable(ValidationError(failed), body)
<1>1. /\ \A c \in ToSet(failed) :
            /\ c.message \in KeysUsed
            /\ c.args.property \in Fields /\ c.args.value = body[c.args.property]
      /\ Head(failed).message \in KeysUsed
  <2>1. CASE failed = <<FailedConstraint("email", "validation.IS_EMAIL", body)>>
    BY <2>1 DEF FailedConstraint, ToSet, KeysUsed, Fields
  <2>2. CASE failed = <<FailedConstraint("password", "validation.IS_STRING", body),
                        FailedConstraint("password", "validation.MIN_LENGTH", body)>>
    BY <2>2 DEF FailedConstraint, ToSet, KeysUsed, Fields
  <2> QED
    BY <2>1, <2>2 DEF FailedChecks
<1>2. PICK e : e = ValidationError(failed)
  OBVIOUS
<1>3. /\ e.http = TRUE /\ e.errors = failed /\ e.extras = {}
      /\ RawMessage(e) = Head(failed).message
  BY <1>2 DEF RawMessage, ValidationError
<1> QED
  BY <1>1, <1>2, <1>3, HttpPipelineAssumption DEF Presentable

\* What the filter makes of a text is a key, or the text.
LEMMA Normalizes ==
    ASSUME NEW m, NEW status, m \notin Internals
    PROVE  NormalizeFrameworkMessage(m, status) \notin Internals
BY HttpPipelineAssumption DEF NormalizeFrameworkMessage, KeysUsed

LEMMA OnRequestStep == HttpInductive /\ OnRequest => HttpInductive'
<1> SUFFICES ASSUME HttpInductive, OnRequest PROVE HttpInductive'
  OBVIOUS
<1>1. PICK id \in ServerIds : id = GenReqId(req.idHeader)
  BY DEF HttpInductive, GenReqId, IdHeaders, ServerIds
<1>2. req' = [req EXCEPT !.id = id] /\ req'.id = id
  BY <1>1 DEF OnRequest, HttpInductive
<1>3. /\ req' \in [asked : Asked, target : Targets, idHeader : IdHeaders, body : Submissions,
                   language : {Absent} \cup {<<l>> : l \in Locales},
                   id : ServerIds \cup {Absent}]
      /\ req'.id \in ServerIds /\ fallback' \in Locales
  BY <1>2 DEF HttpInductive, OnRequest
<1>4. NothingLeaks' /\ stage' \in {"answered", "accepted"}
  <2>1. CASE req.target = "docs"
    <3>1. /\ answer'.id = req'.id /\ answer'.errors = <<>> /\ answer'.extras = {}
          /\ stage' = "answered"
          /\ answer'.message.string = "Unauthorized"
      BY <2>1 DEF OnRequest, Text
    <3>2. "Unauthorized" \notin Internals
      BY HttpPipelineAssumption DEF TextsUsed
    <3>3. ToSet(<<>>) = {}
      BY DEF ToSet
    <3> QED
      BY <1>3, <3>1, <3>2, <3>3 DEF NothingLeaks, ServerIds
  <2>2. CASE req.target # "docs"
    BY <2>2 DEF HttpInductive, OnRequest, NothingLeaks
  <2> QED
    BY <2>1, <2>2
<1> QED
  BY <1>3, <1>4 DEF HttpInductive

LEMMA ThrowSteps == HttpInductive /\ (Route \/ Guard \/ Validate \/ Handle) => HttpInductive'
<1> SUFFICES ASSUME HttpInductive, Route \/ Guard \/ Validate \/ Handle PROVE HttpInductive'
  OBVIOUS
<1>1. UNCHANGED <<fallback, req, answer>> /\ stage # "sent"
  BY DEF Route, Guard, Validate, Handle
<1>2. NothingLeaks'
  BY <1>1 DEF HttpInductive, NothingLeaks
<1>3. \/ stage' \in {"routed", "guarded", "valid"}
      \/ stage' = "thrown" /\ Presentable(outcome', req.body)
      \/ stage' = "returned" /\ outcome'.message \in TranslationKeys \cup Prose \cup {Absent}
  <2>1. ASSUME Route
        PROVE  stage' = "routed" \/ (stage' = "thrown" /\ Presentable(outcome', req.body))
    BY <2>1, RefusalsArePresentable DEF Route, Throw
  <2>2. ASSUME Guard
        PROVE  stage' = "guarded" \/ (stage' = "thrown" /\ Presentable(outcome', req.body))
    BY <2>2, RefusalsArePresentable DEF Guard, Throw
  <2>3. ASSUME Validate
        PROVE  stage' = "valid" \/ (stage' = "thrown" /\ Presentable(outcome', req.body))
    BY <2>3, ConstraintsArePresentable DEF Validate, Throw
  <2>4. ASSUME Handle
        PROVE  \/ stage' = "thrown" /\ Presentable(outcome', req.body)
               \/ stage' = "returned" /\ outcome' \in Values
    BY <2>4, FailuresArePresentable DEF Handle, Throw
  <2>5. \A v \in Values : v.message \in TranslationKeys \cup Prose \cup {Absent}
    BY DEF Values
  <2> QED
    BY <2>1, <2>2, <2>3, <2>4, <2>5
<1> QED
  BY <1>1, <1>2, <1>3 DEF HttpInductive

LEMMA InterceptStep == HttpInductive /\ Intercept => HttpInductive'
<1> SUFFICES ASSUME HttpInductive, Intercept PROVE HttpInductive'
  OBVIOUS
<1>1. PICK language : language = ResolveLanguage(RequestedLanguage)
  OBVIOUS
<1>2. /\ req' = [req EXCEPT !.language = <<language>>] /\ stage' = "intercepted"
      /\ UNCHANGED <<fallback, outcome, answer>> /\ stage = "guarded"
  BY <1>1 DEF Intercept
<1>3. language \in Locales
  BY <1>1 DEF ResolveLanguage, NormalizeLanguage, HttpInductive, Locales
<1> QED
  BY <1>2, <1>3 DEF HttpInductive, NothingLeaks

LEMMA RespondStep == HttpInductive /\ Respond => HttpInductive'
<1> SUFFICES ASSUME HttpInductive, Respond PROVE HttpInductive'
  OBVIOUS
<1>1. UNCHANGED <<fallback, req, outcome>> /\ stage' = "answered" /\ stage = "returned"
  BY DEF Respond
<1>2. /\ answer'.id = req.id /\ answer'.errors = <<>> /\ answer'.extras = {}
      /\ answer'.message.string = outcome.message
  BY DEF Respond, Translate, Text
<1>3. outcome.message \notin Internals /\ req.id \in ServerIds /\ ToSet(<<>>) = {}
  BY <1>1, HttpPipelineAssumption DEF HttpInductive, ToSet
<1> QED
  BY <1>1, <1>2, <1>3 DEF HttpInductive, NothingLeaks, ServerIds

LEMMA CatchStep == HttpInductive /\ Catch => HttpInductive'
<1> SUFFICES ASSUME HttpInductive, Catch PROVE HttpInductive'
  OBVIOUS
<1>1. UNCHANGED <<fallback, req, outcome>> /\ stage' = "answered" /\ stage = "thrown"
  BY DEF Catch
<1>2. PICK message : message = NormalizeFrameworkMessage(RawMessage(outcome), Status(outcome))
  OBVIOUS
<1>3. /\ answer'.id = req.id /\ answer'.message.string = message
      /\ answer'.errors = outcome.errors /\ answer'.extras = outcome.extras
      /\ answer'.key = IF message \in TranslationKeys /\ outcome.errors = <<>>
                       THEN message ELSE Absent
  BY <1>2 DEF Catch, Translate, Text
<1>4. Presentable(outcome, req.body) /\ req.id \in ServerIds
  BY <1>1 DEF HttpInductive
<1>5. message \notin Internals
  BY <1>2, <1>4, Normalizes DEF Presentable
<1>6. \A c \in ToSet(answer'.errors) :
         /\ c.message \in TranslationKeys
         /\ c.args.property \in Fields /\ c.args.value = req.body[c.args.property]
  BY <1>3, <1>4 DEF Presentable
<1>7. \A k \in {"user.auth.accountLocked", "user.auth.invalidCredentials"} :
         k \in TranslationKeys /\ NormalizeFrameworkMessage(k, Status(outcome)) = k
  BY HttpPipelineAssumption DEF NormalizeFrameworkMessage, KeysUsed
<1>8. /\ "lockedUntil" \in answer'.extras => answer'.key = "user.auth.accountLocked"
      /\ "requiresCaptcha" \in answer'.extras => answer'.key = "user.auth.invalidCredentials"
  BY <1>2, <1>3, <1>4, <1>7 DEF Presentable
<1> QED
  BY <1>1, <1>3, <1>4, <1>5, <1>6, <1>8 DEF HttpInductive, NothingLeaks, ServerIds

\* What the parts of the pipeline hand on, at every stage that a request can fail in
\* (main.ts, AllExceptionFilter).
THEOREM PipelineInvariance == HttpPipelineSpec => []HttpInductive
<1>1. HttpInit => HttpInductive
  <2> SUFFICES ASSUME HttpInit PROVE HttpInductive
    OBVIOUS
  <2>1. stage = "sent" /\ answer = Absent /\ fallback \in Locales
    BY DEF HttpInit
  <2>2. req \in [asked : Asked, target : Targets, idHeader : IdHeaders, body : Submissions,
                 language : {Absent} \cup {<<l>> : l \in Locales}, id : ServerIds \cup {Absent}]
    BY DEF HttpInit
  <2> QED
    BY <2>1, <2>2 DEF HttpInductive, NothingLeaks
<1>2. HttpInductive /\ [HttpNext]_httpVars => HttpInductive'
  <2> SUFFICES ASSUME HttpInductive, [HttpNext]_httpVars PROVE HttpInductive'
    OBVIOUS
  <2>1. CASE UNCHANGED httpVars
    <3>1. UNCHANGED <<fallback, req, stage, outcome, answer>>
      BY <2>1 DEF httpVars
    <3>2. Presentable(outcome, req.body)' = Presentable(outcome, req.body)
      BY <3>1 DEF Presentable, RawMessage
    <3>3. NothingLeaks'
      BY <3>1 DEF HttpInductive, NothingLeaks
    <3> QED
      BY <3>1, <3>2, <3>3 DEF HttpInductive
  <2> QED
    BY <2>1, OnRequestStep, ThrowSteps, InterceptStep, RespondStep, CatchStep DEF HttpNext
<1> QED
  BY <1>1, <1>2, PTL DEF HttpPipelineSpec

\* No answer, refusal or error carries the text of a driver's or a programming error or a
\* request id that the server did not check; the details of a validation error are keys and
\* the values this client sent in the fields named, and a lock's end and the captcha are told
\* only to a login refused for them (AllExceptionFilter.catch, createValidationException).
THEOREM NothingEverLeaks == HttpPipelineSpec => []NothingLeaks
BY PipelineInvariance, PTL DEF HttpInductive

-----------------------------------------------------------------------------
(* The language of an answer *)

\* Behind the interceptor the request carries the language that its places name, only an
\* answer to a handler's value has the status 200, and every answer is in the language owed.
LanguageInductive ==
    /\ HttpInductive
    /\ req.language = Absent \/ req.language = <<ResolveLanguage(RequestedLanguage)>>
    /\ stage \in {"intercepted", "valid", "returned"} => req.language # Absent
    /\ stage = "thrown" => Status(outcome) # 200
    /\ answer # Absent => stage = "answered"
    /\ AnswerInLanguage

\* What the interceptor resolved stays what it is when it is resolved again.
LEMMA ResolvedStaysResolved ==
    ASSUME NEW l \in Locales
    PROVE  ResolveLanguage(<<l>>) = l
<1>1. PICK header : header = <<l>>
  OBVIOUS
<1>2. header \notin {Absent, <<>>}
  BY <1>1, NothingIsNoLanguage
<1>3. PICK which : which = {i \in 1 .. Len(header) : header[i] # ""}
  OBVIOUS
<1>4. which = {1} /\ header[1] = l
  <2>1. Len(header) = 1 /\ header[1] = l /\ l # ""
    BY <1>1 DEF Locales
  <2>2. \A i : i \in 1 .. 1 <=> i = 1
    OBVIOUS
  <2> QED
    BY <1>3, <2>1, <2>2
<1>5. (CHOOSE i \in which : \A j \in which : i <= j) = 1
  BY <1>4
<1>6. FirstThat(header, LAMBDA tag : tag # "")
      = header[CHOOSE i \in which : \A j \in which : i <= j]
  BY <1>3, <1>4 DEF FirstThat
<1>7. FirstThat(header, LAMBDA tag : tag # "") = l
  BY <1>4, <1>5, <1>6, Zenon
<1>8. NormalizeLanguage(l) = l
  BY DEF NormalizeLanguage, Locales
<1> QED
  BY <1>1, <1>2, <1>7, <1>8 DEF ResolveLanguage

LEMMA ResolvedIsLocale ==
    ASSUME fallback \in Locales, NEW header
    PROVE  ResolveLanguage(header) \in Locales
BY DEF ResolveLanguage, NormalizeLanguage, Locales

\* The first place that names a language is the same one, looked for by name or by number.
LEMMA FirstPlaceIsOwed ==
    ASSUME req.language # Absent
    PROVE  Owed = ResolveLanguage(RequestedLanguage)
<1>1. PICK which : which = {i \in 1 .. Len(Places) : req.asked[Places[i]] # Absent}
  OBVIOUS
<1>2. CASE which = {}
  <2>1. RequestedLanguage = Absent
    BY <1>1, <1>2 DEF RequestedLanguage, FirstThat
  <2>2. Owed = fallback
    BY <1>1, <1>2 DEF Owed
  <2> QED
    BY <2>1, <2>2 DEF ResolveLanguage
<1>3. CASE which # {}
  <2>1. PICK first : first = CHOOSE i \in which : \A j \in which : i <= j
    OBVIOUS
  <2>2. first \in which
    <3>1. which \subseteq 1 .. 5 /\ Len(Places) = 5
      BY <1>1 DEF Places
    <3>2. \A i \in which : i \in {1, 2, 3, 4, 5}
      BY <3>1
    <3>3. \/ 1 \in which
          \/ 1 \notin which /\ 2 \in which
          \/ 1 \notin which /\ 2 \notin which /\ 3 \in which
          \/ 1 \notin which /\ 2 \notin which /\ 3 \notin which /\ 4 \in which
          \/ which = {5}
      BY <1>3, <3>2
    <3>4. \E i \in which : \A j \in which : i <= j
      BY <3>2, <3>3
    <3> QED
      BY <2>1, <3>4
  <2>3. FirstThat(Places, LAMBDA p : req.asked[p] # Absent) = Places[first]
    BY <1>1, <1>3, <2>1 DEF FirstThat
  <2>4. Places[first] \in ToSet(Places)
    BY <1>1, <2>2 DEF ToSet, Places
  <2>5. Places[first] # Absent
    BY <2>4, NothingIsNoLanguage
  <2>6. RequestedLanguage = req.asked[Places[first]]
    BY <2>3, <2>5 DEF RequestedLanguage
  <2>7. Owed = ResolveLanguage(req.asked[Places[first]])
    BY <1>1, <1>3, <2>1 DEF Owed
  <2> QED
    BY <2>6, <2>7
<1> QED
  BY <1>2, <1>3

\* The filter and the interceptor resolve what they go by to the language owed.
LEMMA HeardIsOwed ==
    ASSUME LanguageInductive
    PROVE  ResolveLanguage(ErrorLanguage) = Owed
<1>1. CASE req.language = Absent
  <2>1. ErrorLanguage = req.asked["accept-language"]
    BY <1>1 DEF ErrorLanguage
  <2>2. PICK heard : heard = <<"accept-language">>
    OBVIOUS
  <2>3. PICK named : named = {i \in 1..Len(heard) : req.asked[heard[i]] # Absent}
    OBVIOUS
  <2>4. Owed = IF named = {} THEN fallback
               ELSE ResolveLanguage(
                        req.asked[heard[CHOOSE i \in named : \A j \in named : i <= j]])
    BY <1>1, <2>2, <2>3 DEF Owed
  <2>5. CASE req.asked["accept-language"] = Absent
    <3>1. named = {}
      BY <2>2, <2>3, <2>5
    <3> QED
      BY <2>1, <2>4, <2>5, <3>1 DEF ResolveLanguage
  <2>6. CASE req.asked["accept-language"] # Absent
    <3>1. named = {1}
      BY <2>2, <2>3, <2>6
    <3>2. (CHOOSE i \in named : \A j \in named : i <= j) = 1
      BY <3>1
    <3> QED
      BY <2>1, <2>2, <2>4, <3>1, <3>2
  <2> QED
    BY <2>5, <2>6
<1>2. CASE req.language # Absent
  <2>1. ErrorLanguage = <<ResolveLanguage(RequestedLanguage)>>
    BY <1>2 DEF ErrorLanguage, LanguageInductive
  <2>2. ResolveLanguage(RequestedLanguage) \in Locales
    BY ResolvedIsLocale DEF LanguageInductive, HttpInductive
  <2>3. ResolveLanguage(<<ResolveLanguage(RequestedLanguage)>>)
        = ResolveLanguage(RequestedLanguage)
    BY <2>2, ResolvedStaysResolved
  <2> QED
    BY <1>2, <2>1, <2>3, FirstPlaceIsOwed
<1> QED
  BY <1>1, <1>2

\* No exception has the status of a value.
LEMMA RefusalsAreNoValues ==
    /\ Status(HttpError("NotFoundException", 404, "Cannot GET /")) # 200
    /\ \A e \in GuardRefusals : Status(e) # 200
BY DEF Status, HttpError, GuardRefusals

LEMMA ConstraintsAreNoValues ==
    ASSUME NEW failed
    PROVE  Status(ValidationError(failed)) # 200
BY DEF Status, ValidationError

LEMMA FailuresAreNoValues == \A e \in HandlerErrors : Status(e) # 200
<1>1. ASSUME NEW e \in InternalErrors PROVE Status(e) # 200
  <2>1. e.http = FALSE /\ e.status = 500 /\ e.db \in SqlClasses \cup {Absent}
    BY DEF InternalErrors
  <2>2. CASE e.db \in SqlClasses /\ e.db # Absent
    <3>1. Status(e) = SqlError[e.db].status
      BY <2>1, <2>2 DEF Status
    <3>2. SqlError[e.db].status # 200
      BY <2>2 DEF SqlError
    <3> QED
      BY <3>1, <3>2
  <2>3. CASE e.db = Absent
    BY <2>1, <2>3 DEF Status
  <2> QED
    BY <2>1, <2>2, <2>3
<1>2. /\ Status(HttpError("NotFoundException", 404, "user.notFound")) # 200
      /\ Status(HttpError("BadRequestException", 400, "file.fileRequired")) # 200
      /\ Status(HttpError("GoneException", 410, "captcha.challenge.expired")) # 200
      /\ Status(HttpError("HttpException", 413, "Request body is too large")) # 200
      /\ \A e \in LoginRefusals : Status(e) # 200
  BY DEF Status, HttpError, LoginRefusals
<1>3. \A e \in HandlerErrors :
         \/ e \in InternalErrors \cup LoginRefusals
         \/ e = HttpError("NotFoundException", 404, "user.notFound")
         \/ e = HttpError("BadRequestException", 400, "file.fileRequired")
         \/ e = HttpError("GoneException", 410, "captcha.challenge.expired")
         \/ e = HttpError("HttpException", 413, "Request body is too large")
  BY ZenonT(40) DEF HandlerErrors
<1> QED
  BY <1>1, <1>2, <1>3

LEMMA LanguageOnRequestStep == LanguageInductive /\ OnRequest => LanguageInductive'
<1> SUFFICES ASSUME LanguageInductive, OnRequest PROVE LanguageInductive'
  OBVIOUS
<1>1. HttpInductive'
  BY OnRequestStep DEF LanguageInductive
<1>2. PICK id : id = GenReqId(req.idHeader)
  OBVIOUS
<1>3. req' = [req EXCEPT !.id = id] /\ UNCHANGED <<fallback, outcome>>
  BY <1>2 DEF OnRequest
<1>4. req'.language = req.language /\ req'.asked = req.asked
  BY <1>3 DEF LanguageInductive, HttpInductive
<1>5. RequestedLanguage' = RequestedLanguage
  BY <1>4 DEF RequestedLanguage, FirstThat
<1>6. ResolveLanguage(RequestedLanguage)' = ResolveLanguage(RequestedLanguage)
  BY <1>3, <1>5 DEF ResolveLanguage, FirstThat
<1>7. \/ stage' = "accepted" /\ UNCHANGED answer
      \/ stage' = "answered" /\ answer'.message.string = "Unauthorized"
  BY DEF OnRequest, Text
<1>8. answer' # Absent => stage' = "answered"
  BY <1>7 DEF OnRequest, LanguageInductive
<1>9. "Unauthorized" \notin TranslationKeys
  BY HttpPipelineAssumption DEF TextsUsed
<1>10. AnswerInLanguage'
  BY <1>7, <1>8, <1>9 DEF AnswerInLanguage
<1>11. stage' \notin {"intercepted", "valid", "returned", "thrown"}
  BY <1>7
<1> QED
  BY <1>1, <1>4, <1>6, <1>8, <1>10, <1>11 DEF LanguageInductive

LEMMA LanguageThrowSteps ==
    LanguageInductive /\ (Route \/ Guard \/ Validate \/ Handle) => LanguageInductive'
<1> SUFFICES ASSUME LanguageInductive, Route \/ Guard \/ Validate \/ Handle
             PROVE  LanguageInductive'
  OBVIOUS
<1>1. HttpInductive'
  BY ThrowSteps DEF LanguageInductive
<1>2. UNCHANGED <<fallback, req, answer>> /\ stage # "answered"
  BY DEF Route, Guard, Validate, Handle
<1>3. answer' = Absent
  BY <1>2 DEF LanguageInductive
<1>4. ResolveLanguage(RequestedLanguage)' = ResolveLanguage(RequestedLanguage)
  BY <1>2 DEF ResolveLanguage, RequestedLanguage, FirstThat
<1>5. /\ stage' \in {"intercepted", "valid", "returned"}
            => stage \in {"intercepted", "valid", "returned"}
      /\ stage' = "thrown" => Status(outcome') # 200
  <2>1. ASSUME Route
        PROVE  stage' = "routed" \/ (stage' = "thrown" /\ Status(outcome') # 200)
    BY <2>1, RefusalsAreNoValues DEF Route, Throw
  <2>2. ASSUME Guard
        PROVE  stage' = "guarded" \/ (stage' = "thrown" /\ Status(outcome') # 200)
    BY <2>2, RefusalsAreNoValues DEF Guard, Throw
  <2>3. ASSUME Validate
        PROVE  /\ stage = "intercepted"
               /\ stage' = "valid" \/ (stage' = "thrown" /\ Status(outcome') # 200)
    BY <2>3, ConstraintsAreNoValues DEF Validate, Throw
  <2>4. ASSUME Handle
        PROVE  /\ stage = "valid"
               /\ stage' = "returned" \/ (stage' = "thrown" /\ Status(outcome') # 200)
    BY <2>4, FailuresAreNoValues DEF Handle, Throw
  <2> QED
    BY <2>1, <2>2, <2>3, <2>4
<1>6. Status(outcome)' = Status(outcome')
  BY DEF Status
<1> QED
  BY <1>1, <1>2, <1>3, <1>4, <1>5, <1>6 DEF LanguageInductive, AnswerInLanguage

LEMMA LanguageInterceptStep == LanguageInductive /\ Intercept => LanguageInductive'
<1> SUFFICES ASSUME LanguageInductive, Intercept PROVE LanguageInductive'
  OBVIOUS
<1>1. HttpInductive'
  BY InterceptStep DEF LanguageInductive
<1>2. PICK language : language = ResolveLanguage(RequestedLanguage)
  OBVIOUS
<1>3. /\ req' = [req EXCEPT !.language = <<language>>] /\ stage' = "intercepted"
      /\ UNCHANGED <<fallback, outcome, answer>> /\ stage = "guarded"
  BY <1>2 DEF Intercept
<1>4. req'.language = <<language>> /\ req'.asked = req.asked
  BY <1>3 DEF LanguageInductive, HttpInductive
<1>5. RequestedLanguage' = RequestedLanguage
  BY <1>4 DEF RequestedLanguage, FirstThat
<1>6. ResolveLanguage(RequestedLanguage)' = language
  <2>1. ResolveLanguage(RequestedLanguage)' = ResolveLanguage(RequestedLanguage)
    BY <1>3, <1>5 DEF ResolveLanguage, FirstThat
  <2> QED
    BY <1>2, <2>1
<1>7. language \in Locales
  BY <1>2, ResolvedIsLocale DEF LanguageInductive, HttpInductive
<1>8. <<language>> # Absent
  BY <1>7, NothingIsNoLanguage
<1>9. answer' = Absent
  BY <1>3 DEF LanguageInductive
<1> QED
  BY <1>1, <1>3, <1>4, <1>6, <1>8, <1>9 DEF LanguageInductive, AnswerInLanguage

\* A text that was looked up for the language owed is in the language it promises.
LEMMA TranslatedIsInLanguage ==
    ASSUME NEW string, NEW header, ResolveLanguage(header) = Owed, string \in TranslationKeys
    PROVE  /\ Translate(string, header).string = string
           /\ Translate(string, header).locale =
                  IF string \in Dictionary[Owed] THEN Owed
                  ELSE IF string \in Dictionary[fallback] THEN fallback ELSE Absent
BY DEF Translate, Text, Lookup

LEMMA OwedStays ==
    ASSUME UNCHANGED <<fallback, req>>
    PROVE  /\ Owed' = Owed
           /\ ResolveLanguage(RequestedLanguage)' = ResolveLanguage(RequestedLanguage)
<1>1. RequestedLanguage' = RequestedLanguage
  BY DEF RequestedLanguage, FirstThat
<1> QED
  BY <1>1 DEF Owed, ResolveLanguage, FirstThat

LEMMA LanguageRespondStep == LanguageInductive /\ Respond => LanguageInductive'
<1> SUFFICES ASSUME LanguageInductive, Respond PROVE LanguageInductive'
  OBVIOUS
<1>1. HttpInductive'
  BY RespondStep DEF LanguageInductive
<1>2. UNCHANGED <<fallback, req, outcome>> /\ stage' = "answered" /\ stage = "returned"
  BY DEF Respond
<1>3. ResolveLanguage(req.language) = Owed
  BY <1>2, HeardIsOwed DEF LanguageInductive, ErrorLanguage
<1>4. AnswerInLanguage'
  <2> SUFFICES ASSUME answer' # Absent, answer'.message.string \in TranslationKeys
               PROVE  IF answer'.status = 200 /\ ~outcome.plain
                      THEN answer'.message.locale = Absent
                      ELSE answer'.message.locale =
                           IF answer'.message.string \in Dictionary[Owed] THEN Owed
                           ELSE IF answer'.message.string \in Dictionary[fallback] THEN fallback
                           ELSE Absent
    BY <1>2, OwedStays DEF AnswerInLanguage
  <2>1. answer'.status = 200
    BY DEF Respond
  <2>2. CASE ~outcome.plain
    <3>1. answer'.message.locale = Absent
      BY <2>2 DEF Respond, Text
    <3> QED
      BY <2>1, <2>2, <3>1
  <2>3. CASE outcome.plain
    <3>1. CASE outcome.message = Absent
      <4>1. answer'.message.string = Absent
        BY <3>1 DEF Respond, Text
      <4> QED
        BY <4>1, HttpPipelineAssumption
    <3>2. CASE outcome.message # Absent
      <4>1. answer'.message = Translate(outcome.message, req.language)
        BY <2>3, <3>2 DEF Respond
      <4>2. answer'.message.string = outcome.message
        BY <4>1 DEF Translate, Text
      <4> QED
        BY <1>3, <2>3, <4>1, <4>2, TranslatedIsInLanguage
    <3> QED
      BY <3>1, <3>2
  <2> QED
    BY <2>2, <2>3
<1> QED
  BY <1>1, <1>2, <1>4, OwedStays DEF LanguageInductive

LEMMA LanguageCatchStep == LanguageInductive /\ Catch => LanguageInductive'
<1> SUFFICES ASSUME LanguageInductive, Catch PROVE LanguageInductive'
  OBVIOUS
<1>1. HttpInductive'
  BY CatchStep DEF LanguageInductive
<1>2. UNCHANGED <<fallback, req, outcome>> /\ stage' = "answered" /\ stage = "thrown"
  BY DEF Catch
<1>3. ResolveLanguage(ErrorLanguage) = Owed
  BY HeardIsOwed
<1>4. PICK message : message = NormalizeFrameworkMessage(RawMessage(outcome), Status(outcome))
  OBVIOUS
<1>5. answer'.message = Translate(message, ErrorLanguage) /\ answer'.status = Status(outcome)
  BY <1>4 DEF Catch
<1>6. answer'.message.string = message /\ answer'.status # 200
  BY <1>2, <1>5 DEF Translate, Text, LanguageInductive
<1>7. AnswerInLanguage'
  <2> SUFFICES ASSUME answer'.message.string \in TranslationKeys
               PROVE  answer'.message.locale =
                      IF answer'.message.string \in Dictionary[Owed] THEN Owed
                      ELSE IF answer'.message.string \in Dictionary[fallback] THEN fallback
                      ELSE Absent
    BY <1>2, <1>6, OwedStays DEF AnswerInLanguage
  <2> QED
    BY <1>3, <1>5, <1>6, TranslatedIsInLanguage
<1> QED
  BY <1>1, <1>2, <1>7, OwedStays DEF LanguageInductive

\* What is in a request's way is in the language that the first place naming one asks for:
\* the interceptor resolves it once, and resolving it again changes nothing
\* (LanguageInterceptor.intercept, I18nService.resolveLanguage).
THEOREM LanguageInvariance == HttpPipelineSpec => []LanguageInductive
<1>1. HttpInit => LanguageInductive
  <2> SUFFICES ASSUME HttpInit PROVE LanguageInductive
    OBVIOUS
  <2>1. HttpInductive
    <3>1. stage = "sent" /\ answer = Absent /\ fallback \in Locales
      BY DEF HttpInit
    <3>2. req \in [asked : Asked, target : Targets, idHeader : IdHeaders, body : Submissions,
                   language : {Absent} \cup {<<l>> : l \in Locales}, id : ServerIds \cup {Absent}]
      BY DEF HttpInit
    <3> QED
      BY <3>1, <3>2 DEF HttpInductive, NothingLeaks
  <2>2. req.language = Absent /\ stage = "sent" /\ answer = Absent
    BY DEF HttpInit
  <2> QED
    BY <2>1, <2>2 DEF LanguageInductive, AnswerInLanguage
<1>2. LanguageInductive /\ [HttpNext]_httpVars => LanguageInductive'
  <2> SUFFICES ASSUME LanguageInductive, [HttpNext]_httpVars PROVE LanguageInductive'
    OBVIOUS
  <2>1. CASE UNCHANGED httpVars
    <3>1. UNCHANGED <<fallback, req, stage, outcome, answer>>
      BY <2>1 DEF httpVars
    <3>2. HttpInductive'
      <4>1. HttpInductive
        BY DEF LanguageInductive
      <4>2. NothingLeaks' /\ Presentable(outcome, req.body)' = Presentable(outcome, req.body)
        BY <3>1, <4>1 DEF HttpInductive, NothingLeaks, Presentable, RawMessage
      <4> QED
        BY <3>1, <4>1, <4>2 DEF HttpInductive
    <3>3. AnswerInLanguage'
      BY <3>1, OwedStays DEF LanguageInductive, AnswerInLanguage
    <3> QED
      BY <3>1, <3>2, <3>3, OwedStays DEF LanguageInductive, Status
  <2> QED
    BY <2>1, LanguageOnRequestStep, LanguageThrowSteps, LanguageInterceptStep,
       LanguageRespondStep, LanguageCatchStep DEF HttpNext
<1> QED
  BY <1>1, <1>2, PTL DEF HttpPipelineSpec

\* Every text, of a handler's or of a refusal, is in the language that the first place naming
\* one asks for, behind the interceptor and before it, and a key is only sent where neither that
\* language nor the deployment's has a text (LanguageInterceptor, AllExceptionFilter).
THEOREM AnswersAreInLanguage == HttpPipelineSpec => []AnswerInLanguage
BY LanguageInvariance, PTL DEF LanguageInductive
=============================================================================
