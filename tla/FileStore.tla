------------------------------- MODULE FileStore -------------------------------
(***************************************************************************)
(* Files: the rows of file and file-version in Postgres, the objects in    *)
(* the S3 bucket, and the requests that upload, update, delete and         *)
(* download files.  An upload writes its object in the middle of a         *)
(* database transaction, an update has no transaction at all, and a        *)
(* download computes the object's key anew from the row: at each await     *)
(* another request may run, and the statement may fail.                    *)
(*                                                                         *)
(* A row of file-version and the version S3 assigns are both named by the  *)
(* number of the put that made them.  The only caller of the upload is the *)
(* controller, so every file belongs to module USER.                       *)
(***************************************************************************)
EXTENDS Naturals, Sequences, FiniteSets

CONSTANTS
    Users,     \* the users
    Managers,  \* the users whose role is MANAGER or ADMIN
    FileIds,   \* the ids of file rows (bounds the model)
    Names,     \* the names files are given
    BadNames,  \* the names with "/" or ".." in them
    Slugs,     \* what slugify makes of names
    Slug,      \* slugify: Slug[n] of each name, not injective
    Requests,  \* the requests in flight together
    MaxPuts,   \* at most so many objects are put (bounds the model)
    None

ASSUME FileStoreAssumption ==
    /\ Managers \subseteq Users
    /\ BadNames \subseteq Names
    /\ Slug \in [Names -> Slugs]
    /\ MaxPuts \in Nat
    /\ None \notin FileIds \cup Users \cup Names

VARIABLES
    file,       \* file[f]: the committed row, or None
    version,    \* version[n]: the row of file-version for put n, or None
    bucket,     \* the objects: key, number of the put, the file it was put for
    puts,       \* puts so far
    versioned,  \* if the bucket keeps the old versions of an object
    request     \* request[p]: the step of a handler and what it has read

vars == <<file, version, bucket, puts, versioned, request>>

-----------------------------------------------------------------------------
Puts == 1 .. MaxPuts
Keys == Users \X Slugs
\* The uploader's id is the row's externalId too, and never changes.
FileRow == [name : Names, user : Users, last : Puts, deleted : BOOLEAN]
\* What a handler goes on using of a row it has read.
Read == [name : Names, user : Users]
Snapshot(f) == [name |-> file[f].name, user |-> file[f].user]
\* under is the key the object was put under: the table has no such column.
VersionRow == [file : FileIds, under : Keys]
Object == [key : Keys, n : Puts, file : FileIds]

\* No row and no object is the value of a missing one.
ASSUME NoneIsNoRow ==
    None \notin FileRow /\ None \notin Read /\ None \notin VersionRow /\ None \notin Object

Idle == [step |-> "idle", user |-> None, todo |-> <<>>, file |-> None, name |-> None,
         body |-> FALSE, put |-> 0, row |-> None, asked |-> 0, got |-> None]
Uploading == {"next", "putting", "storing"}
Updating == {"renaming", "uputting", "inserting", "pointing"}
Request ==
    [step : {"idle", "fetching", "sent"} \cup Uploading \cup Updating,
     user : Users \cup {None}, todo : Seq(Names), file : FileIds \cup {None},
     name : Names \cup {None}, body : BOOLEAN, put : 0 .. MaxPuts,
     row : Read \cup {None}, asked : 0 .. MaxPuts, got : Object \cup {None}]

\* Every variable has its type.
TypeOK ==
    /\ file \in [FileIds -> FileRow \cup {None}]
    /\ version \in [Puts -> VersionRow \cup {None}]
    /\ bucket \subseteq Object
    /\ puts \in 0 .. MaxPuts
    /\ versioned \in BOOLEAN
    /\ request \in [Requests -> Request]

-----------------------------------------------------------------------------
(* The adapter.  A put to a bucket that keeps no versions replaces the object. *)

\* getFilePath: the rest of the path is the same for all files of a user.
Key(user, name) == <<user, Slug[name]>>

Replaced(key) == IF versioned THEN {} ELSE {o \in bucket : o.key = key}

PutObject(key, f) ==
    /\ puts < MaxPuts
    /\ puts' = puts + 1
    /\ bucket' = (bucket \ Replaced(key)) \cup {[key |-> key, n |-> puts + 1, file |-> f]}

\* GetObject with the versionId of the row, which is NULL in a bucket without versions.
Stored(key, n) == {o \in bucket : o.key = key /\ (versioned => o.n = n)}

-----------------------------------------------------------------------------
(* The file table. *)

Live(f) == file[f] # None /\ ~file[f].deleted
\* A transaction that has written the row of f, or inserted it, is open.
InTx(q) == request[q].step \in {"putting", "storing"}
Locked(p, f) == \E q \in Requests \ {p} : InTx(q) /\ request[q].file = f
\* An open transaction has inserted or written the row of this name and externalId.
Contended(p, user, name) ==
    \E q \in Requests \ {p} :
        InTx(q) /\ request[q].user = user /\ request[q].name = name
\* Mutant of Conflicting: the rows of deleted files are not found.
ConflictingLive(user, name) ==
    {f \in FileIds : Live(f) /\ file[f].user = user /\ file[f].name = name}
\* Mutant of Conflicting: the upsert's target leaves out externalId.
ConflictingAnyone(user, name) == {f \in FileIds : file[f] # None /\ file[f].name = name}
\* The rows U_name_module_externalId finds: deleted ones too.
Conflicting(user, name) ==
    {f \in FileIds : file[f] # None /\ file[f].user = user /\ file[f].name = name}
Unused(p) ==
    {f \in FileIds : file[f] = None /\ \A q \in Requests \ {p} : request[q].file # f}

Goto(p, step) == request' = [request EXCEPT ![p].step = step]
\* The handler returns, or throws.
End(p) == request' = [request EXCEPT ![p] = Idle]
Tables == <<file, version>>
Store == <<bucket, puts>>

-----------------------------------------------------------------------------
(* Upload: one transaction for each file of the request. *)

\* The parts of the multipart body, each with its name.
Bodies == {<<n>> : n \in Names} \cup {<<m, n>> : m, n \in Names}

UploadsStart(p, user, names) ==
    /\ request[p].step = "idle"
    /\ request' = [request EXCEPT ![p] =
                     [Idle EXCEPT !.step = "next", !.user = user, !.todo = names]]
    /\ UNCHANGED <<Tables, Store, versioned>>

\* getFilePath throws, and the files before this one stay uploaded.
UploadRefused(p) ==
    /\ request[p].step = "next"
    /\ Head(request[p].todo) \in BadNames
    /\ End(p)
    /\ UNCHANGED <<Tables, Store, versioned>>

\* BEGIN, then INSERT ... ON CONFLICT DO UPDATE, which leaves deletedAt as it is.
UploadBegin(p) ==
    LET user == request[p].user
        name == Head(request[p].todo)
        known == Conflicting(user, name)
    IN /\ request[p].step = "next"
       /\ name \notin BadNames
       /\ ~Contended(p, user, name)
       /\ \E f \in IF known # {} THEN known ELSE Unused(p) :
            /\ ~Locked(p, f)
            /\ request' = [request EXCEPT ![p] = [@ EXCEPT !.step = "putting", !.file = f,
                                                           !.name = name]]
       /\ UNCHANGED <<Tables, Store, versioned>>

\* uploadVersion inside the transaction: the upload itself.
UploadPut(p) ==
    /\ request[p].step = "putting"
    /\ PutObject(Key(request[p].user, request[p].name), request[p].file)
    /\ request' = [request EXCEPT ![p] = [@ EXCEPT !.step = "storing", !.put = puts + 1]]
    /\ UNCHANGED <<Tables, versioned>>

\* The version, lastVersionId and COMMIT; then the next file of the request.
UploadCommit(p) ==
    LET r == request[p]
        f == r.file
    IN /\ r.step = "storing"
       /\ version' = [version EXCEPT ![r.put] =
                        [file |-> f, under |-> Key(r.user, r.name)]]
       /\ file' = [file EXCEPT ![f] =
                     IF file[f] = None
                     THEN [name |-> r.name, user |-> r.user, last |-> r.put,
                           deleted |-> FALSE]
                     ELSE [file[f] EXCEPT !.last = r.put]]
       /\ request' = [request EXCEPT ![p] =
                        IF Len(r.todo) = 1 THEN Idle
                        ELSE [Idle EXCEPT !.step = "next", !.user = r.user,
                                          !.todo = Tail(r.todo)]]
       /\ UNCHANGED <<Store, versioned>>

\* The put, the head request or a statement fails, or the process dies: the
\* transaction is rolled back and the object, if there is one, stays.
UploadFail(p) ==
    /\ InTx(p)
    /\ End(p)
    /\ UNCHANGED <<Tables, Store, versioned>>

-----------------------------------------------------------------------------
(* Update: a rename, a new version, or both, without a transaction. *)

MayTouch(user, f) == file[f].user = user \/ user \in Managers

\* The row as findById returned it is used for the key until the end.
UpdateStart(p, user, f, name, body) ==
    /\ request[p].step = "idle"
    /\ Live(f)
    /\ MayTouch(user, f)
    /\ request' = [request EXCEPT ![p] =
                     [Idle EXCEPT !.step = "renaming", !.file = f, !.name = name,
                                  !.body = body, !.row = Snapshot(f)]]
    /\ UNCHANGED <<Tables, Store, versioned>>

NewName(r) == IF r.name # None THEN r.name ELSE r.row.name

\* UPDATE ... SET name WHERE id: the unique index may refuse it.
UpdateRename(p) ==
    LET r == request[p]
        taken == r.name # None /\ Conflicting(r.row.user, r.name) \ {r.file} # {}
    IN /\ r.step = "renaming"
       /\ r.name # None => ~Locked(p, r.file) /\ ~Contended(p, r.row.user, r.name)
       /\ IF taken \/ ~r.body \/ NewName(r) \in BadNames THEN End(p)
          ELSE Goto(p, "uputting")
       /\ file' = IF taken \/ r.name = None THEN file
                  ELSE [file EXCEPT ![r.file].name = r.name]
       /\ UNCHANGED <<version, Store, versioned>>

UpdatePut(p) ==
    LET r == request[p]
    IN /\ r.step = "uputting"
       /\ PutObject(Key(r.row.user, NewName(r)), r.file)
       /\ request' = [request EXCEPT ![p] = [@ EXCEPT !.step = "inserting", !.put = puts + 1]]
       /\ UNCHANGED <<Tables, versioned>>

UpdateInsert(p) ==
    LET r == request[p]
    IN /\ r.step = "inserting"
       /\ version' = [version EXCEPT ![r.put] =
                        [file |-> r.file, under |-> Key(r.row.user, NewName(r))]]
       /\ Goto(p, "pointing")
       /\ UNCHANGED <<file, Store, versioned>>

\* updateVersion: WHERE id, so a row deleted meanwhile is written too.
UpdatePoint(p) ==
    LET r == request[p]
    IN /\ r.step = "pointing"
       /\ ~Locked(p, r.file)
       /\ file' = [file EXCEPT ![r.file].last = r.put]
       /\ End(p)
       /\ UNCHANGED <<version, Store, versioned>>

\* A statement or the put fails: what was done stays done.
UpdateFail(p) ==
    /\ request[p].step \in Updating
    /\ End(p)
    /\ UNCHANGED <<Tables, Store, versioned>>

-----------------------------------------------------------------------------
(* Delete and download. *)

Delete(user, f) ==
    /\ Live(f)
    /\ MayTouch(user, f)
    /\ \A q \in Requests : InTx(q) => request[q].file # f
    /\ file' = [file EXCEPT ![f].deleted = TRUE]
    /\ UNCHANGED <<version, Store, versioned, request>>

\* Mutant of DownloadStart: the version asked for is not compared with the file.
DownloadAnyVersion(p, user, f, n) ==
    /\ request[p].step = "idle" /\ user # None /\ Live(f) /\ MayTouch(user, f)
    /\ n # 0 => version[n] # None
    /\ request' = [request EXCEPT ![p] =
                     [Idle EXCEPT !.step = "fetching", !.user = user, !.file = f,
                                  !.row = Snapshot(f),
                                  !.asked = IF n = 0 THEN file[f].last ELSE n]]
    /\ UNCHANGED <<Tables, Store, versioned>>

\* n = 0 asks for the last version.  Without a user only PUBLIC files are found.
DownloadStart(p, user, f, n) ==
    /\ request[p].step = "idle"
    /\ user # None
    /\ Live(f)
    /\ MayTouch(user, f)
    /\ n # 0 => version[n] # None /\ version[n].file = f
    /\ request' = [request EXCEPT ![p] =
                     [Idle EXCEPT !.step = "fetching", !.user = user, !.file = f,
                                  !.row = Snapshot(f),
                                  !.asked = IF n = 0 THEN file[f].last ELSE n]]
    /\ UNCHANGED <<Tables, Store, versioned>>

\* downloadObject, under the key of the name the row had.
Fetch(p) ==
    LET r == request[p]
        found == IF r.row.name \in BadNames THEN {}
                 ELSE Stored(Key(r.row.user, r.row.name), r.asked)
    IN /\ r.step = "fetching"
       /\ \/ \E o \in found :
               request' = [request EXCEPT ![p] = [@ EXCEPT !.step = "sent", !.got = o]]
          \/ found = {} /\ End(p)
       /\ UNCHANGED <<Tables, Store, versioned>>

Finish(p) ==
    /\ request[p].step = "sent"
    /\ End(p)
    /\ UNCHANGED <<Tables, Store, versioned>>

-----------------------------------------------------------------------------
Init ==
    /\ file = [f \in FileIds |-> None]
    /\ version = [n \in Puts |-> None]
    /\ bucket = {}
    /\ puts = 0
    /\ versioned \in BOOLEAN
    /\ request = [p \in Requests |-> Idle]

Upload(p) ==
    \/ \E user \in Users, names \in Bodies : UploadsStart(p, user, names)
    \/ UploadRefused(p) \/ UploadBegin(p) \/ UploadPut(p) \/ UploadCommit(p)
    \/ UploadFail(p)

Update(p) ==
    \/ \E user \in Users, f \in FileIds, name \in Names \cup {None}, body \in BOOLEAN :
          UpdateStart(p, user, f, name, body)
    \/ UpdateRename(p) \/ UpdatePut(p) \/ UpdateInsert(p) \/ UpdatePoint(p)
    \/ UpdateFail(p)

Download(p) ==
    \/ \E user \in Users \cup {None}, f \in FileIds, n \in 0 .. MaxPuts :
          DownloadStart(p, user, f, n)
    \/ Fetch(p)

Next ==
    \/ \E p \in Requests : Upload(p) \/ Update(p) \/ Download(p) \/ Finish(p)
    \/ \E user \in Users, f \in FileIds : Delete(user, f)

Spec == Init /\ [][Next]_vars
-----------------------------------------------------------------------------
(* What holds of the store. *)

Holds(key, n, f) == \E o \in bucket : o.key = key /\ (versioned => o.n = n /\ o.file = f)

\* A row of file-version never refers to an object that is not there: the put comes
\* before the row on both paths, and nothing of this module deletes an object.
VersionsAreStored ==
    \A n \in Puts : version[n] # None => Holds(version[n].under, n, version[n].file)

\* A file row that anyone can see has a version of its own, put in its owner's part of
\* the bucket.  Unless a rename has given it another key since, a download finds the
\* object under the key it computes, and with versions kept it is this file's.
CurrentIsReadable ==
    \A f \in FileIds : file[f] # None =>
        LET row == file[f]
            v == version[row.last]
            key == Key(row.user, row.name)
        IN /\ v # None /\ v.file = f /\ v.under[1] = row.user
           /\ v.under = key => Holds(key, row.last, f)

\* Whatever the interleaving of uploads, updates and downloads, a download sends bytes of
\* the owner's part of the bucket, to the owner or a manager; and with versions kept
\* they are the version asked for, of the file asked for, also where two names of the
\* user have one key.
Served(p) ==
    LET r == request[p]
    IN  r.got # None =>
           /\ r.user = r.row.user \/ r.user \in Managers
           /\ r.got.key[1] = r.row.user /\ r.row.user = file[r.file].user
           /\ version[r.asked] # None /\ version[r.asked].file = r.file
           /\ versioned => r.got.n = r.asked /\ r.got.file = r.file

\* The same of every request in flight: no download sends bytes of another user's part of
\* the bucket, and with versions kept none sends another version or another file.
ServedRight == \A p \in Requests : Served(p)

\* Both at once: whatever uploads, renames, deletes and downloads do to each other between
\* their awaits, what a row names can be read, and what is read may be.
FilesRight == CurrentIsReadable /\ ServedRight

\* Numbers of puts are not used twice.
PutsAreFresh ==
    /\ \A o \in bucket : o.n <= puts
    /\ \A n \in Puts : version[n] # None => n <= puts
    /\ \A o1, o2 \in bucket : o1.n = o2.n => o1 = o2

\* What a request in flight has read or written is still so.
HeldKey(r) == IF r.step = "storing" THEN Key(r.user, r.name) ELSE Key(r.row.user, NewName(r))
RequestFits(p) ==
    LET r == request[p]
    IN /\ r.step = "next" => r.todo # <<>>
       /\ r.step \in Uploading => r.user # None
       /\ InTx(p) => /\ r.file # None /\ r.name # None /\ r.todo # <<>>
                     /\ file[r.file] # None => file[r.file].user = r.user
       /\ r.step \in Updating \cup {"fetching"} =>
             /\ r.file # None /\ r.row # None
             /\ file[r.file] # None /\ file[r.file].user = r.row.user
       /\ r.step \in {"storing", "inserting"} =>
             /\ r.put \in 1 .. puts /\ version[r.put] = None
             /\ Holds(HeldKey(r), r.put, r.file)
       /\ r.step = "pointing" =>
             /\ r.put \in 1 .. puts /\ version[r.put] # None
             /\ version[r.put].file = r.file /\ version[r.put].under[1] = r.row.user
       /\ r.step = "fetching" =>
             /\ r.user = r.row.user \/ r.user \in Managers
             /\ r.asked \in Puts /\ version[r.asked] # None
             /\ version[r.asked].file = r.file
       /\ r.got # None =>
             /\ r.step = "sent" /\ r.file # None /\ r.row # None /\ r.asked \in Puts
             /\ file[r.file] # None
Holding(p) == request[p].step \in {"storing", "inserting"}
RequestsFit ==
    /\ \A p \in Requests : RequestFits(p)
    /\ \A p, q \in Requests : p # q /\ Holding(p) /\ Holding(q) => request[p].put # request[q].put
    /\ \A p, q \in Requests : p # q /\ InTx(p) /\ InTx(q) => request[p].file # request[q].file

\* A user's files have different names, and an open transaction has a name of its own.
NamesFit ==
    /\ \A f, g \in FileIds :
          f # g /\ file[f] # None /\ file[g] # None /\ file[f].user = file[g].user =>
              file[f].name # file[g].name
    /\ \A p \in Requests :
          InTx(p) => Conflicting(request[p].user, request[p].name) \subseteq {request[p].file}
    /\ \A p, q \in Requests :
          p # q /\ InTx(p) /\ InTx(q) /\ request[p].user = request[q].user =>
              request[p].name # request[q].name

\* The inductive invariant, and the type invariant with it.
Inductive ==
    /\ TypeOK /\ PutsAreFresh /\ RequestsFit
    /\ VersionsAreStored /\ CurrentIsReadable /\ ServedRight

\* Uploads, updates, deletions and downloads that meet and fail are steps of an archive: the
\* owners, names, versions and deletions of files, and, with versions kept, what downloads
\* send (the handlers of module file; FileArchive).
Archive == INSTANCE FileArchive WITH
    catalog <- file,
    edition <- [n \in Puts |-> IF version[n] = None THEN None ELSE version[n].file],
    delivered <- [p \in Requests |->
                     IF versioned /\ request[p].got # None
                     THEN [to |-> request[p].user, file |-> request[p].got.file,
                           version |-> request[p].got.n]
                     ELSE None]
ImplementsArchive == Archive!ArchiveSpec
=============================================================================
