---------------------------- MODULE MCAuthSecrets ----------------------------
(***************************************************************************)
(* Small instances for TLC of AuthSessions with fair handlers, of          *)
(* PasswordHashes and of FieldEncryption.  They share no state: a          *)
(* behaviour belongs to one of the parts, and the others stay as they were *)
(* initially, where none of their fair steps is enabled.                   *)
(***************************************************************************)
EXTENDS AuthSessions, PasswordHashes, FieldEncryption

VARIABLE part

OneDeployment == CHOOSE s \in [secret : HmacSecrets, options : Argon2Options] : TRUE
OnePassword == CHOOSE password \in Spellings : TRUE
OneKey == CHOOSE k \in WrittenKeys : TRUE
OneValue == Value("plain", CHOOSE t \in Plaintexts : TRUE)

SecretsVars == <<part, vars, hashVars, fieldVars>>
SecretsInit ==
    /\ part \in {"sessions", "hashes", "fields"}
    /\ Init /\ HashInit /\ FieldInit
    /\ part # "hashes" =>
          settings = OneDeployment /\ stored = HmacHash(OnePassword, settings.secret)
    /\ part # "fields" => keyed = [s \in Services |-> OneKey] /\ given = OneValue
SecretsNext ==
    /\ UNCHANGED part
    /\ \/ part = "sessions" /\ Next /\ UNCHANGED <<hashVars, fieldVars>>
       \/ part = "hashes" /\ HashNext /\ UNCHANGED <<vars, fieldVars>>
       \/ part = "fields" /\ FieldNext /\ UNCHANGED <<vars, hashVars>>
SecretsSpec ==
    /\ SecretsInit /\ [][SecretsNext]_SecretsVars
    /\ \A p \in Requests : WF_vars(Continue(p))
=============================================================================
