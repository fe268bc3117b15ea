---------------------------- MODULE MCAccessVersion ---------------------------
(***************************************************************************)
(* Small instances of AccessVersion and of Bootstrap for TLC.  They share  *)
(* no state: a behaviour belongs to one of the parts, and the other stays  *)
(* as it was initially.                                                    *)
(***************************************************************************)
EXTENDS AccessVersion, Bootstrap, TLC

VARIABLE part

AccessVars == <<part, vars, bootVars>>
AccessInit == Init /\ BootInit /\ part \in {"versions", "boot"}
AccessNext ==
    /\ UNCHANGED part
    /\ \/ part = "versions" /\ Next /\ UNCHANGED bootVars
       \/ part = "boot" /\ BootNext /\ UNCHANGED vars
AccessSpec == AccessInit /\ [][AccessNext]_AccessVars

\* The second release grants more than the first.
Grants == [v \in Releases |->
    {<<"ADMIN", "edit">>, <<"USER", "read">>} \cup
        IF v = "new" THEN {<<"ADMIN", "read">>} ELSE {}]

\* The roles of tokens are interchangeable, and so are requests; the instances
\* of the backend are the same model values as the requests.
Symmetry == Permutations(Roles) \cup Permutations(Requests)
=============================================================================
