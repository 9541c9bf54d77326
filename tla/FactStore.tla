------------------------------ MODULE FactStore ------------------------------
(***************************************************************************)
(* What index commands rely on when they write facts: a source unit has    *)
(* the facts of one snapshot or none, a call replaces those of all its     *)
(* units at once, and one that does not return Ok has replaced nothing.    *)
(***************************************************************************)
CONSTANTS
    Units,      \* source units
    Snapshots,  \* analysis snapshots
    None        \* no facts

VARIABLES
    facts,      \* facts[u]: the snapshot unit u has the facts of, or None
    call,       \* what the current call asks for, by unit; empty between calls
    result      \* what the last call returned; "none" while one runs

vars == <<facts, call, result>>

NoCall == [u \in {} |-> None]

Init ==
    /\ facts \in [Units -> Snapshots \cup {None}]
    /\ call = NoCall
    /\ result = "none"

Ask ==
    /\ call = NoCall /\ call' # NoCall
    /\ DOMAIN call' \subseteq Units
    /\ \A u \in DOMAIN call' : call'[u] \in Snapshots \cup {None}
    /\ result' = "none"
    /\ UNCHANGED facts

Replace ==
    /\ call # NoCall /\ call' = NoCall
    /\ result' = "ok"
    /\ facts' = [u \in Units |-> IF u \in DOMAIN call THEN call[u] ELSE facts[u]]

\* Refused, rolled back, or cut off by a crash, which returns nothing.
Fail ==
    /\ call' = NoCall
    /\ result' \in {"none", "error"}
    /\ UNCHANGED facts

Next == Ask \/ Replace \/ Fail

Spec == Init /\ [][Next]_vars
=============================================================================
