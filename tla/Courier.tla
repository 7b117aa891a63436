------------------------------ MODULE Courier -------------------------------
(***************************************************************************)
(* What alert delivery promises, whatever it takes to keep the promise: an *)
(* alert, once raised, is owed to the operator until it is closed, and is  *)
(* sent only while it is owed.  A closed alert is never sent again.        *)
(***************************************************************************)
EXTENDS Naturals

CONSTANT Alerts

VARIABLES
    owed,     \* alerts raised and not closed
    closed,   \* alerts of which nothing more is sent
    told      \* how many copies of each the operator received

vars == <<owed, closed, told>>

Init ==
    /\ owed = {}
    /\ closed = {}
    /\ told = [a \in Alerts |-> 0]

Raise(a) ==
    /\ a \notin owed \cup closed
    /\ owed' = owed \cup {a}
    /\ UNCHANGED <<closed, told>>

Tell(a) ==
    /\ a \in owed
    /\ told' = [told EXCEPT ![a] = @ + 1]
    /\ UNCHANGED <<owed, closed>>

Close(gone) ==
    /\ owed' = owed \ gone
    /\ closed' = closed \cup gone
    /\ UNCHANGED told

Next ==
    \/ \E a \in Alerts : Raise(a) \/ Tell(a)
    \/ \E gone \in SUBSET owed : Close(gone)

Spec == Init /\ [][Next]_vars
=============================================================================
