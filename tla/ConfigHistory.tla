----------------------------- MODULE ConfigHistory -----------------------------
(***************************************************************************)
(* What the table captcha_config promises to whoever reads it, whatever    *)
(* the handlers of administrators' requests do in between.  The            *)
(* configurations of a template are a list that only grows: the number of  *)
(* a configuration is its place, for ever.  Some of them are in force.  A  *)
(* list loses what is in force at once, and what comes into force is on a  *)
(* list already.                                                           *)
(***************************************************************************)
EXTENDS Sequences

CONSTANTS Templates, Configs

VARIABLES
    history,  \* history[t]: the configurations of t, in the order of their versions
    inForce   \* the configurations that are active

historyVars == <<history, inForce>>

Listed(t) == {history[t][v] : v \in DOMAIN history[t]}

Init ==
    /\ history = [t \in Templates |-> <<>>]
    /\ inForce = {}

\* A configuration is drafted once, at the end of one list.
Draft(t, c) ==
    /\ \A u \in Templates : c \notin Listed(u)
    /\ history' = [history EXCEPT ![t] = Append(@, c)]
    /\ UNCHANGED inForce

\* An activation first archives what is in force of its template.
Archive(t) ==
    /\ inForce' = inForce \ Listed(t)
    /\ UNCHANGED history

\* Then its own configuration comes into force.
Enforce(t, c) ==
    /\ c \in Listed(t)
    /\ inForce' = inForce \cup {c}
    /\ UNCHANGED history

Next ==
    \E t \in Templates :
        \/ Archive(t)
        \/ \E c \in Configs : Draft(t, c) \/ Enforce(t, c)

HistorySpec == Init /\ [][Next]_historyVars
=============================================================================
