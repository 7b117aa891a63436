------------------------------ MODULE BidSlot -------------------------------
(***************************************************************************)
(* What the control loop promises of its orders, whatever it takes to keep *)
(* the promise: the account has one slot.  An order is placed only in an   *)
(* empty slot, under an id never used before; it may be cancelled, and the *)
(* slot is empty again only when Braiins has dropped the order.            *)
(***************************************************************************)
CONSTANT Orders

VARIABLES
    live,   \* the daemon's orders that exist
    firm,   \* those of them that are not being unwound
    used    \* every id the daemon ever had

vars == <<live, firm, used>>

Init == live = {} /\ firm = {} /\ used = {}

Place(o) ==
    /\ live = {}
    /\ o \notin used
    /\ live' = {o}
    /\ firm' = {o}
    /\ used' = used \cup {o}

Cancel(o) ==
    /\ o \in firm
    /\ firm' = firm \ {o}
    /\ UNCHANGED <<live, used>>

Leave(o) ==
    /\ o \in live
    /\ live' = live \ {o}
    /\ firm' = firm \ {o}
    /\ UNCHANGED used

Next == \E o \in Orders : Place(o) \/ Cancel(o) \/ Leave(o)

Spec == Init /\ [][Next]_vars

FairSpec == Spec /\ \A o \in Orders : WF_vars(o \notin firm /\ Leave(o))
=============================================================================
