------------------------------ MODULE MCFileStore ------------------------------
(***************************************************************************)
(* Small instances of FileStore, HttpPipeline, UserDirectory and           *)
(* AuditTrail for TLC.  They share no state: a behaviour belongs to one    *)
(* of the parts, and the others stay as they were initially.               *)
(***************************************************************************)
EXTENDS FileStore, HttpPipeline, UserDirectory, AuditTrail, TLC

CONSTANTS plain, twin, dotted, s1, s2

VARIABLE part

FilesVars == <<part, vars, httpVars, directoryVars, auditVars>>
FilesInit ==
    /\ part \in {"files", "http", "users", "log"}
    /\ Init /\ HttpInit /\ DirectoryInit /\ AuditInit
    /\ req.body["email"] = "one" /\ req.body["password"] = "other"
    /\ part # "files" => ~versioned
    /\ part # "http" => /\ fallback = "ru" /\ req.target = "route" /\ req.idHeader = Absent
                        /\ req.asked = [p \in ToSet(Places) |-> Absent]
FilesNext ==
    /\ UNCHANGED part
    /\ \/ part = "files" /\ Next /\ UNCHANGED <<httpVars, directoryVars, auditVars>>
       \/ part = "http" /\ HttpNext /\ UNCHANGED <<vars, directoryVars, auditVars>>
       \/ part = "users" /\ DirectoryNext /\ UNCHANGED <<vars, httpVars, auditVars>>
       \/ part = "log" /\ AuditNext /\ UNCHANGED <<vars, httpVars, directoryVars>>
FilesSpec == FilesInit /\ [][FilesNext]_FilesVars

\* Two names share a slug, and one has no path.
MCSlug == (plain :> s1) @@ (twin :> s1) @@ (dotted :> s2)

\* Keys no dictionary has, a key one of them lacks, and the keys both have.
MCKeys ==
    {"captcha.challenge.expired", "user.auth.tokenStale", "user.notFound", "file.fileRequired",
     "common.csrf.invalid", "common.auth.unauthorized", "common.auth.forbidden",
     "common.request.bad",
     "common.server.internal", "common.server.unavailable", "common.route.notFound",
     "common.db.uniqueViolation", "common.db.foreignKeyViolation", "common.db.notNullViolation",
     "common.db.constraintViolation", "common.db.dataError", "validation.IS_EMAIL",
     "validation.IS_STRING", "validation.MIN_LENGTH", "user.auth.accountLocked",
     "user.auth.invalidCredentials"}
MCDictionary ==
    LET both == MCKeys \ {"captcha.challenge.expired", "user.auth.tokenStale", "file.fileRequired"}
    IN  [l \in Locales |-> IF l = "en" THEN both \ {"user.notFound"} ELSE both]

\* The two names of one key are alike.  Rows of `user` and addresses are model values of the
\* files and of these names.
Symmetry == Permutations(FileIds) \cup Permutations(Requests) \cup Permutations({plain, twin})
=============================================================================
