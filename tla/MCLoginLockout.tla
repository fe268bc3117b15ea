---------------------------- MODULE MCLoginLockout ----------------------------
(***************************************************************************)
(* Small instances of LoginLockout and of AuthGateway for TLC.  They share *)
(* no state: a behaviour belongs to one of the parts, and the other stays  *)
(* as it was initially.                                                    *)
(***************************************************************************)
EXTENDS LoginLockout, AuthGateway, TLC

VARIABLE part

LoginVars == <<part, vars, gateVars>>
LoginInit ==
    /\ Init /\ GateInit
    /\ \/ part = "lockout" /\ config = [mode |-> "HYBRID", csrf |-> FALSE, reads |-> FALSE]
       \/ part = "gateway"

\* The account is blocked while no login is in flight: the next Read is what it stops.
BlockedAtRest == blocked => InFlight = {}

\* Of two calls in flight one at least logs in or out or refreshes.
OneMoves == \E p \in Calls : call[p].step = "idle" \/ call[p].kind \in MovesTokens

LoginNext ==
    /\ UNCHANGED part
    /\ \/ part = "lockout" /\ Next /\ BlockedAtRest' /\ UNCHANGED gateVars
       \/ part = "gateway" /\ GateNext /\ OneMoves' /\ UNCHANGED vars
LoginSpec == LoginInit /\ [][LoginNext]_LoginVars

\* Logins are interchangeable, and so are the calls of the browser.
Symmetry == Permutations(Requests)
=============================================================================
