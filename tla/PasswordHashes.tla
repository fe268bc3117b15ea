---------------------------- MODULE PasswordHashes ----------------------------
(***************************************************************************)
(* The hash of one user's password, the two algorithms it may be of, and   *)
(* the migration from the old to the new one when he logs in.  The secret  *)
(* of the old algorithm is the secret of the access tokens, which a new    *)
(* deployment may replace, as it may the parameters of Argon2id.           *)
(* A login reads the hash, verifies the password, makes a new hash and     *)
(* saves it, with an await at each; the verification and the new hash are  *)
(* of what the login has read, and are taken with the step they lead to.   *)
(* What the logins and changes do to the sessions is AuthSessions.         *)
(***************************************************************************)
CONSTANTS
    Words,         \* passwords, normalised
    HmacSecrets,   \* values of jwt.access.token
    Argon2Options, \* what Argon2id may be run with
    Logins         \* requests to log in as the user

VARIABLES
    settings,      \* the secret and the options of the deployment
    stored,        \* `user`.password
    entering,      \* [Logins -> the login in flight]
    word,          \* (history) the password the user set last
    outdated,      \* (history) the passwords he had before
    entered,       \* (history) whether a login has succeeded
    restored       \* (history) whether a login that read the hash before the password was
                   \* set last has saved its new hash after

hashVars == <<settings, stored, entering, word, outdated, entered, restored>>

-----------------------------------------------------------------------------
\* One password in two spellings: composed and decomposed characters.
Spellings == [word : Words, form : {"composed", "decomposed"}]

\* String.normalize.
Normalized(password) == password.word

Argon2Hash(password, options) ==
    [type |-> "argon2id", of |-> Normalized(password), with |-> options]

HmacHash(password, secret) ==
    [type |-> "hmac-sha256", of |-> Normalized(password), with |-> secret]

\* argon2 reads its options out of the hash; a row it cannot read is no match.
VerifyPassword(hash, password, secret) ==
    CASE hash.type = "argon2id" -> hash.of = Normalized(password)
      [] hash.type = "hmac-sha256" -> hash = HmacHash(password, secret)

\* Mutant of NeedsRehash: only the options are looked at.
NeedsOtherOptions(hash, options) == hash.type = "argon2id" /\ hash.with # options

NeedsRehash(hash, options) == hash.type = "hmac-sha256" \/ hash.with # options

-----------------------------------------------------------------------------
NoLogin == [at |-> "none"]

\* Reset, change and creation; the old hash of a change has been verified before.
SetPassword(password) ==
    /\ stored' = Argon2Hash(password, settings.options)
    /\ word' = Normalized(password)
    /\ outdated' = outdated \cup {word}
    /\ restored' = FALSE
    /\ entering' = [l \in Logins |->
          IF entering[l] = NoLogin THEN NoLogin ELSE [entering[l] EXCEPT !.overtaken = TRUE]]
    /\ UNCHANGED <<settings, entered>>

\* findByEmail, in a process of the present deployment.
ReadHash(l, password) ==
    /\ entering[l] = NoLogin
    /\ entering' = [entering EXCEPT ![l] =
          [at |-> "verify", hash |-> stored, password |-> password, settings |-> settings,
           overtaken |-> FALSE]]
    /\ UNCHANGED <<settings, stored, word, outdated, entered, restored>>

\* The password is that of the hash that was read.
Verified(l) ==
    /\ entering[l] # NoLogin
    /\ VerifyPassword(entering[l].hash, entering[l].password, entering[l].settings.secret)

\* The hash is one of today.
EnterPassword(l) ==
    /\ Verified(l) /\ ~NeedsRehash(entering[l].hash, entering[l].settings.options)
    /\ entering' = [entering EXCEPT ![l] = NoLogin]
    /\ entered' = TRUE
    /\ UNCHANGED <<settings, stored, word, outdated, restored>>

\* It is not: the row is given a new hash of what was entered, whatever it holds by now.
RehashPassword(l) ==
    /\ Verified(l) /\ NeedsRehash(entering[l].hash, entering[l].settings.options)
    /\ stored' = Argon2Hash(entering[l].password, entering[l].settings.options)
    /\ restored' = (restored \/ entering[l].overtaken)
    /\ entering' = [entering EXCEPT ![l] = NoLogin]
    /\ entered' = TRUE
    /\ UNCHANGED <<settings, word, outdated>>

\* The password is wrong, a query fails or the process stops.
GiveUp(l) ==
    /\ entering[l] # NoLogin
    /\ entering' = [entering EXCEPT ![l] = NoLogin]
    /\ UNCHANGED <<settings, stored, word, outdated, entered, restored>>

\* A new deployment reads its configuration; requests of the old one go on.
Redeploy(secret, options) ==
    /\ settings' = [secret |-> secret, options |-> options]
    /\ UNCHANGED <<stored, entering, word, outdated, entered, restored>>

-----------------------------------------------------------------------------
\* A row of either algorithm, of an earlier deployment.
HashInit ==
    \E password \in Spellings, secret \in HmacSecrets, options \in Argon2Options :
        /\ settings = [secret |-> secret, options |-> options]
        /\ entering = [l \in Logins |-> NoLogin]
        /\ word = Normalized(password) /\ outdated = {}
        /\ entered = FALSE /\ restored = FALSE
        /\ \/ stored = HmacHash(password, secret)
           \/ stored = Argon2Hash(password, options)

HashNext ==
    \/ \E password \in Spellings :
          SetPassword(password) \/ \E l \in Logins : ReadHash(l, password)
    \/ \E l \in Logins : EnterPassword(l) \/ RehashPassword(l) \/ GiveUp(l)
    \/ \E secret \in HmacSecrets, options \in Argon2Options : Redeploy(secret, options)

HashSpec == HashInit /\ [][HashNext]_hashVars

-----------------------------------------------------------------------------
(* Properties *)

\* The password the user set last opens the account, however its characters are composed
\* and whatever secret and options the deployment has by now, once a login has succeeded or
\* it was set since Argon2id came: the first login after that migration frees the account
\* from the secret (login.handler, PasswordServiceAdapter).  No other password opens it,
\* unless a login that had read the hash before has saved its new one since: then it is one
\* the user had before, and the last one need not open the account.
PasswordOutlivesSecret ==
    \A password \in Spellings :
        LET opens == VerifyPassword(stored, password, settings.secret)
            last == Normalized(password) = word
        IN  /\ opens => last \/ (restored /\ Normalized(password) \in outdated)
            /\ (entered \/ stored.type = "argon2id") /\ last => opens \/ restored
=============================================================================
