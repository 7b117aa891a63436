---------------------------- MODULE SingleOrder -----------------------------
(***************************************************************************)
(* Why the daemon has at most one order.  Controller implements BidSlot    *)
(* when ticks do not run side by side, no answer is lost, no list misses   *)
(* an order, the process does not die between a POST and its insert, and   *)
(* the stale-URL route leaves the ledger alone; Calm says so.  Fetches may *)
(* fail, calls may be refused, the run mode may change at any moment and   *)
(* strangers may place orders as often as they like.                       *)
(***************************************************************************)
EXTENDS Controller

Calm ==
    /\ \A t, u \in Ticks : t = u
    /\ Faults \cap {"lost", "blip", "crash"} = {}
    /\ "staleUrl" \notin Events

OwnEver == {o \in Orders : orders[o].mine}

Slot == INSTANCE BidSlot WITH live <- OwnLive, firm <- OwnFirm, used <- OwnEver

\* Controller implements the abstract slot: every order is placed into an
\* empty slot, and cancelled or dropped before the next (decide.ts:221-242).
SlotSpec == Slot!Spec

\* And with the fairness of the code and of Braiins the slot of a cancelled
\* order is freed again (decide.ts:57-65).
SlotFairSpec == Slot!FairSpec

-----------------------------------------------------------------------------
(* The inductive invariant *)

\* Only a recorded order has a row, and an id is either unused or not.
RowsAreOwn ==
    \A o \in Orders :
        /\ orders[o].mine => orders[o].status # "NONE"
        /\ HasRow(o) => orders[o].mine
        /\ IsLive(o) /\ ~orders[o].mine => orders[o].listed

\* A live order of the daemon has a row, except while the insert is pending.
Tracked ==
    \A o \in OwnLive :
        \/ HasRow(o)
        \/ \E t \in Ticks : \E c \in tick[t].sent :
              c.order = o /\ c.proposal.kind = "CREATE_BID"

\* An order the list does not show yet keeps its row active.
HiddenRowActive ==
    \A o \in OwnLive : HasRow(o) => RowActive(o) \/ orders[o].listed

\* A row is no older than its order, so it outlives the listing lag.
HiddenRowYoung ==
    \A o \in Hidden : HasRow(o) => ledger[o].age <= orders[o].lag

\* What a tick remembers stays true of the orders that are still live.
SnapshotListed ==
    \A t \in Ticks : \A o \in tick[t].old \cup Seen(t) :
        /\ orders[o].status # "NONE"
        /\ IsLive(o) => orders[o].listed

\* Outside "acting" nothing is planned or pending; at most one call is
\* pending, about an order of ours, a cancel about one the list showed.
PlanShape ==
    \A t \in Ticks :
        /\ tick[t].pc # "acting" => tick[t].todo = {} /\ tick[t].sent = {}
        /\ \A p \in tick[t].todo :
              /\ p.kind = "CREATE_BID" => tick[t].todo = {p} /\ tick[t].sent = {}
              /\ p.kind \in {"EDIT_PRICE", "EDIT_SPEED", "CANCEL_BID"}
                    => p.order \in OwnedIn(t)
        /\ \A c \in tick[t].sent :
              /\ tick[t].sent = {c}
              /\ orders[c.order].mine
              /\ c.proposal.kind = "CANCEL_BID" => c.order \in Seen(t)
        /\ \A o \in tick[t].ids : orders[o].mine

\* What decide() takes for a confirmed empty snapshot.
ConfirmedEmpty(t) ==
    tick[t].active = 0 /\ tick[t].bidsOk /\ OwnedIn(t) = {}

\* The three stages of an empty slot: no active row at the start of the tick
\* (so each live order is listed and known by its row), none of ours in a
\* list that arrived, a CREATE planned.
EmptySlot ==
    \A t \in Ticks :
        /\ tick[t].pc = "begun" /\ tick[t].active = 0
              => \A o \in OwnLive : orders[o].listed /\ o \in tick[t].ids
        /\ tick[t].pc \in {"read", "synced"} /\ ConfirmedEmpty(t)
              => OwnLive = {}
        /\ (\E p \in tick[t].todo : p.kind = "CREATE_BID") => OwnLive = {}

\* Every step keeps all of these; NoOverlap alone says too little to be kept.
SlotInvariant ==
    /\ cancelled = {}
    /\ RowsAreOwn
    /\ Tracked
    /\ HiddenRowActive
    /\ HiddenRowYoung
    /\ SnapshotListed
    /\ PlanShape
    /\ EmptySlot
    /\ NoOverlap
=============================================================================
