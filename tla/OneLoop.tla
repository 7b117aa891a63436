------------------------------ MODULE OneLoop ------------------------------
(***************************************************************************)
(* What a single loop remembers, and what stays true of it.  Ticks that do *)
(* not run side by side are enough for "a PAUSE has a reason"; calls that  *)
(* are answered and a process that does not die in between, for the        *)
(* cooldown; a list that misses an order at most once, for one firm order. *)
(* The stale-URL route, strangers, refusals, failed fetches and changes of *)
(* the run mode are all allowed.                                           *)
(***************************************************************************)
EXTENDS SingleOrder

OneTickAtATime == \A t, u \in Ticks : t = u

Answered == Faults \cap {"lost", "crash"} = {}

MissesOnce == "blip" \in Faults => MaxFaults <= 1

-----------------------------------------------------------------------------
(* A PAUSE has a reason *)

\* The rows of the ledger are those the tick has read, until it inserts one.
RowsAsRead ==
    /\ cancelled \subseteq KnownIds
    /\ \A t \in Ticks :
          /\ tick[t].pc # "acting" => tick[t].todo = {} /\ tick[t].sent = {}
          /\ tick[t].pc \in {"begun", "read", "synced"} => tick[t].ids = KnownIds
          /\ Pause \in tick[t].todo =>
                /\ tick[t].todo = {Pause} /\ tick[t].sent = {}
                /\ tick[t].ids = KnownIds
                /\ ~(Seen(t) \subseteq tick[t].ids)

-----------------------------------------------------------------------------
(* The cooldown *)

EditPlanned(t) == \E p \in tick[t].todo : p.kind = "EDIT_PRICE"

\* A row knows of the last decrease, unless the write is pending.
DecreaseRecorded ==
    \A o \in Orders :
        HasRow(o) /\ IsLive(o) =>
            \/ ledger[o].cool <= orders[o].drop
            \/ \E t \in Ticks : \E c \in tick[t].sent :
                  c.order = o /\ Lowers(c.proposal)

\* Until its one price edit is sent, a tick knows the price of each order
\* and whether it may be lowered.
PricesAsRead ==
    \A t \in Ticks :
        tick[t].pc # "acting" \/ EditPlanned(t) =>
            /\ \A o \in Seen(t) :
                  IsLive(o) => orders[o].price = tick[t].list[o].price
            /\ \A o \in tick[t].ids \ tick[t].cooling :
                  IsLive(o) => orders[o].drop >= Cooldown

EditShape ==
    \A t \in Ticks :
        /\ tick[t].pc # "acting" => tick[t].todo = {} /\ tick[t].sent = {}
        /\ tick[t].ids \subseteq KnownIds
        /\ \A o \in Seen(t) : orders[o].status # "NONE"
        /\ \A p \in tick[t].todo :
              /\ p.kind \in {"EDIT_PRICE", "EDIT_SPEED", "CANCEL_BID"}
                    => p.order \in OwnedIn(t)
              /\ p.kind = "EDIT_PRICE" =>
                    /\ p.old = tick[t].list[p.order].price
                    /\ p.price < p.old => p.order \notin tick[t].cooling
                    /\ \A q \in tick[t].todo : q.kind = "EDIT_PRICE" => q = p
        /\ \A c \in tick[t].sent :
              /\ tick[t].sent = {c}
              /\ c.proposal.kind # "CREATE_BID" => HasRow(c.order)
              /\ c.proposal.kind = "CREATE_BID" /\ IsLive(c.order)
                    => orders[c.order].drop = Cooldown

CooldownInvariant ==
    /\ cancelled \subseteq KnownIds
    /\ DecreaseRecorded
    /\ PricesAsRead
    /\ EditShape

-----------------------------------------------------------------------------
(* One firm order.  The parts of SlotInvariant, for firm orders only: the    *)
(* row of an order that unwinds, or that a list has missed, may be terminal. *)

Unmissed == "blip" \in Faults => faults = 0

\* The stale-URL route has cancelled these.
CancelledUnwinds ==
    \A o \in cancelled : HasRow(o) /\ orders[o].status \notin Firm

FirmTracked ==
    \A o \in OwnFirm :
        \/ HasRow(o)
        \/ \E t \in Ticks : \E c \in tick[t].sent :
              c.order = o /\ c.proposal.kind = "CREATE_BID"

FirmRowActive ==
    \A o \in OwnFirm : HasRow(o) => RowActive(o) \/ (orders[o].listed /\ ~Unmissed)

\* A list that arrived has every old order, unless it is the one that misses
\* some.
SnapshotComplete ==
    \A t \in Ticks :
        tick[t].pc = "read" /\ tick[t].bidsOk /\ Unmissed =>
            \A o \in tick[t].old : IsLive(o) => o \in Seen(t)

CancelSent ==
    \A t \in Ticks : \A c \in tick[t].sent :
        c.proposal.kind = "CANCEL_BID" => orders[c.order].status \notin Firm

\* The stages of a slot without a firm order.
NoFirmOrder ==
    \A t \in Ticks :
        /\ tick[t].pc = "begun" /\ tick[t].active = 0 =>
              /\ \A o \in OwnFirm : orders[o].listed /\ o \in tick[t].ids
              /\ Unmissed => OwnFirm = {}
        /\ tick[t].pc \in {"read", "synced"} /\ ConfirmedEmpty(t) => OwnFirm = {}
        /\ (\E p \in tick[t].todo : p.kind = "CREATE_BID") => OwnFirm = {}

FirmInvariant ==
    /\ RowsAreOwn
    /\ CancelledUnwinds
    /\ FirmTracked
    /\ FirmRowActive
    /\ HiddenRowYoung
    /\ SnapshotListed
    /\ SnapshotComplete
    /\ PlanShape
    /\ CancelSent
    /\ NoFirmOrder
    /\ AtMostOneFirm
=============================================================================
