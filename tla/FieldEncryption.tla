---------------------------- MODULE FieldEncryption ----------------------------
(***************************************************************************)
(* A column encrypted with AES-256-GCM and the fingerprint it is looked up *)
(* by, as the services that share the database write and read them.  Each  *)
(* is given the same 32 bytes as the key, in the format its operator       *)
(* likes.  EncryptionService offers this; nothing calls it yet.            *)
(***************************************************************************)
EXTENDS Naturals, Sequences

CONSTANTS
    Plaintexts,    \* texts to keep, none of them starting with a prefix of the service
    KeyMaterials,  \* 32-byte keys
    Services       \* the services that share the column

VARIABLES
    keyed,         \* keyed[s]: the configured key of s, as its operator wrote it
    column,        \* the encrypted column
    lookup,        \* the fingerprint beside it
    given,         \* (history) the value saved last
    under          \* (history) the key material it was meant to be saved under

fieldVars == <<keyed, column, lookup, given, under>>

-----------------------------------------------------------------------------
(* parseKey *)

\* A key in writing: how many characters are of the base64 alphabet, without padding,
\* whether all are hexadecimal, and how many bytes it has in UTF-8.  The last has
\* the wrong length in any format.
Writings == {
    [format |-> "base64", chars |-> 43, hexadecimal |-> FALSE, bytes |-> 44],
    [format |-> "hex",    chars |-> 64, hexadecimal |-> TRUE,  bytes |-> 64],
    [format |-> "utf8",   chars |-> 32, hexadecimal |-> FALSE, bytes |-> 32],
    [format |-> "utf8",   chars |-> 32, hexadecimal |-> TRUE,  bytes |-> 32],
    [format |-> "utf8",   chars |-> 20, hexadecimal |-> FALSE, bytes |-> 32],
    [format |-> "none",   chars |-> 40, hexadecimal |-> FALSE, bytes |-> 41]}

\* How many bytes each reading of it yields; Buffer.from skips what is not base64.
Candidates(w) == <<
    [format |-> "base64", bytes |-> (3 * w.chars) \div 4],
    [format |-> "hex",    bytes |-> IF w.chars = 64 /\ w.hexadecimal THEN 32 ELSE 0],
    [format |-> "utf8",   bytes |-> w.bytes]>>

\* Mutant of Fits: a candidate with enough bytes.
IsLongEnough(candidate) == candidate.bytes >= 32

Fits(candidate) == candidate.bytes = 32

Usable(w) == \E i \in DOMAIN Candidates(w) : Fits(Candidates(w)[i])

\* The first reading of 32 bytes is the key; another reading than the writer's is other bytes.
ParseKey(k) ==
    LET c == Candidates(k.writing)
        i == CHOOSE i \in DOMAIN c : Fits(c[i]) /\ \A j \in 1 .. i - 1 : ~Fits(c[j])
    IN  [material |-> k.material, asMeant |-> c[i].format = k.writing.format]

-----------------------------------------------------------------------------
(* Values: null, "", a plain text, a plain text that starts like a wire string, and   *)
(* wire strings                                                                       *)

Value(kind, text) == [kind |-> kind, text |-> text]
Blank == {Value("null", "none"), Value("empty", "none")}
Givable == Blank \cup {Value(kind, t) : kind \in {"plain", "prefixed"}, t \in Plaintexts}

Wire(key, v) == [kind |-> "wire", text |-> v, key |-> key]
IsEncrypted(v) == v.kind \in {"prefixed", "wire"}

EncryptNullable(key, v) == IF v \in Blank \/ IsEncrypted(v) THEN v ELSE Wire(key, v)

\* The tag tells another key; what only looks like a wire string is malformed.
Invalid == Value("invalid", "none")
DecryptNullable(key, v) ==
    CASE v.kind \in {"null", "empty", "plain"} -> v
      [] v.kind = "wire" -> IF v.key = key THEN v.text ELSE Invalid
      [] v.kind = "prefixed" -> Invalid

HashLookupSecret(v) == IF v.kind = "hash" THEN v ELSE Value("hash", v)
IsHashedLookupSecret(v) == v.kind = "hash"

-----------------------------------------------------------------------------
\* A service whose key is refused does not start.
Runs(s) == Usable(keyed[s].writing)

Save(s, v) ==
    /\ Runs(s)
    /\ column' = EncryptNullable(ParseKey(keyed[s]), v)
    /\ lookup' = HashLookupSecret(v)
    /\ given' = v /\ under' = keyed[s].material
    /\ UNCHANGED keyed

\* The row is saved as it was read, encrypted and hashed.
SaveAgain(s) ==
    /\ Runs(s)
    /\ column' = EncryptNullable(ParseKey(keyed[s]), column)
    /\ lookup' = HashLookupSecret(lookup)
    /\ under' = IF column.kind = "plain" THEN keyed[s].material ELSE under
    /\ UNCHANGED <<keyed, given>>

\* A service is started with a key that is written in some way.
Rekey(s, k) ==
    /\ keyed' = [keyed EXCEPT ![s] = k]
    /\ UNCHANGED <<column, lookup, given, under>>

WrittenKeys == [material : KeyMaterials, writing : Writings]

\* A row from before the encryption, as plain text.
FieldInit ==
    \E k \in WrittenKeys, t \in Plaintexts :
        /\ keyed = [s \in Services |-> k]
        /\ given = Value("plain", t) /\ column = given
        /\ lookup = HashLookupSecret(given)
        /\ under = k.material

FieldNext ==
    \E s \in Services :
        \/ \E v \in Givable : Save(s, v)
        \/ SaveAgain(s)
        \/ \E k \in WrittenKeys : Rekey(s, k)

FieldSpec == FieldInit /\ [][FieldNext]_fieldVars

-----------------------------------------------------------------------------
(* Properties *)

\* Whichever service saved the value and however often the row was saved again, every
\* service with the same key material reads it back, in whatever format the key was
\* written for either, and with other material nobody reads anything instead; the
\* fingerprint is found from the value and from itself.  Except a plain text that starts
\* like a wire string: it is stored as it is, and nobody can read it (EncryptionService).
FieldReadsBack ==
    \A s \in Services : Runs(s) =>
        LET read == DecryptNullable(ParseKey(keyed[s]), column) IN
        /\ given.kind # "prefixed" =>
              read = IF column.kind # "wire" \/ keyed[s].material = under THEN given ELSE Invalid
        /\ IsHashedLookupSecret(lookup) /\ HashLookupSecret(given) = lookup
=============================================================================
