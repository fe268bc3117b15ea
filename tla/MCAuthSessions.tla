---------------------------- MODULE MCAuthSessions ----------------------------
(* Small instances of AuthSessions for TLC. *)
EXTENDS AuthSessions, TLC

\* Users, tokens, secrets and requests are interchangeable (safety runs only).
Symmetry == Permutations(Users) \cup Permutations(RefreshTokens)
            \cup Permutations(Requests) \cup Permutations(Secrets)
=============================================================================
