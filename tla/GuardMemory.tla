---------------------------- MODULE GuardMemory ----------------------------
(***************************************************************************)
(* What the bid guard's memory is worth: what is true of the orders when    *)
(* the guard holds back CREATEs, counts a cycle or remembers a cancel.      *)
(***************************************************************************)
EXTENDS GuardedController, OneLoop

Distinct(bids) ==
    \A i, j \in 1..Len(bids) : bids[i].order = bids[j].order => i = j

GuardWellFormed == GuardType /\ Distinct(guard.tracked)

-----------------------------------------------------------------------------
(* A CREATE is planned, and refused, only without a hold; only a tick of the *)
(* loop sets one when it is over.                                            *)

CreatePlanned(t) == \E p \in tick[t].todo : p.kind = "CREATE_BID"

CreatesUnheld ==
    /\ \A t \in Ticks :
          (t = "loop" \/ OneTickAtATime) /\ CreatePlanned(t)
             => guard.hold = G!NoHold
    /\ refusals # {} => guard.hold = G!NoHold

-----------------------------------------------------------------------------
(* What is known of an order stays true of it, whoever runs ticks. *)

OrdersKnown ==
    /\ \A o \in Orders :
          /\ orders[o].mine => orders[o].status # "NONE"
          /\ HasRow(o) => orders[o].mine
    /\ cancelled \subseteq KnownIds
    /\ \A t \in Ticks :
          /\ tick[t].pc # "acting" => tick[t].todo = {} /\ tick[t].sent = {}
          /\ tick[t].ids \subseteq KnownIds
          /\ tick[t].cancels \subseteq Ended
          /\ \A o \in Seen(t) :
                /\ orders[o].status # "NONE"
                /\ IsLive(o) => orders[o].listed
          /\ \A p \in tick[t].todo :
                p.kind \in {"EDIT_PRICE", "EDIT_SPEED", "CANCEL_BID"}
                   => p.order \in OwnedIn(t)
          /\ \A c \in tick[t].sent :
                /\ orders[c.order].mine
                /\ c.proposal.kind = "CANCEL_BID" => c.order \in Ended

-----------------------------------------------------------------------------
(* Cycles are counted once, and only for orders that ended. *)

Memory(o) == guard.cancels[o]

\* The loop's tick cannot miss an order that the guard tracks.
TrackedListed ==
    \A o \in Orders :
        G!IsTracked(guard, o) =>
            /\ HasRow(o)
            /\ IsLive(o) => orders[o].listed
            /\ \A t \in Ticks \cap {"loop"} :
                  /\ tick[t].pc # "idle" => o \in tick[t].ids
                  /\ tick[t].pc \in {"read", "synced", "acting"} /\ tick[t].bidsOk
                       => o \in Seen(t) \/ ~IsLive(o)

\* No cancel is forgotten before its order is out of sight.
CancelsKept ==
    \A o \in Orders :
        /\ Memory(o) # G!NoCancel => o \in Ended
        /\ Memory(o) > OwnCancelMemory =>
              /\ ~IsLive(o) /\ ~G!IsTracked(guard, o)
              /\ \A t \in Ticks : o \notin Seen(t)

\* Orders that no departure to come will count.
Spent ==
    {o \in Ended :
        \/ Memory(o) # G!NoCancel
        \/ /\ ~IsLive(o) /\ ~G!IsTracked(guard, o)
           /\ \A t \in Ticks \cap {"loop"} : o \notin Seen(t)}

CyclesCounted ==
    /\ guard.streak <= Cardinality(Spent)
    /\ guard.hold.kind = "churn" \/ stored.kind = "churn"
          => Cardinality(Ended) >= ChurnStreakThreshold

EvidenceInvariant == OrdersKnown /\ TrackedListed /\ CancelsKept /\ CyclesCounted

-----------------------------------------------------------------------------
(* One order at a time to count: where only the loop runs ticks, no list    *)
(* misses an order and the stale-URL route leaves the ledger alone.         *)

Alone ==
    /\ Ticks = {"loop"}
    /\ "blip" \notin Faults
    /\ "staleUrl" \notin Events
    /\ ChurnStreakThreshold > 1

Forgotten(o) == G!IsTracked(guard, o) /\ Memory(o) = G!NoCancel

\* The order of a row that is in the market, in a list or in the guard.
Busy ==
    {o \in KnownIds : IsLive(o) \/ o \in Seen("loop") \/ Forgotten(o)}

Countable == {o \in Busy : Memory(o) = G!NoCancel}

CreateSent == \E c \in tick["loop"].sent : c.proposal.kind = "CREATE_BID"

\* A CREATE is decided, refused or recorded only when there is none.
CreatesAlone ==
    /\ CreatePlanned("loop") \/ CreateSent \/ refusals # {} =>
          /\ Busy = {}
          /\ guard.hold = G!NoHold
          /\ tick["loop"].pc = "acting"
    /\ CreatePlanned("loop") =>
          /\ ~CreateSent /\ refusals = {}
          /\ \E p \in tick["loop"].todo : tick["loop"].todo = {p}
    /\ CreateSent => refusals = {}
    /\ \A a, b \in Busy : a = b

\* What a tick remembers of the rows it has read.
RowsRead ==
    LET t == "loop" IN
    /\ tick[t].pc \in {"begun", "read", "synced"} => KnownIds \subseteq tick[t].ids
    /\ ~tick[t].bidsOk => Seen(t) = {}
    /\ \A o \in tick[t].old : HasRow(o) /\ (IsLive(o) => orders[o].listed)
    /\ \A c \in tick[t].sent :
          c.proposal.kind # "CREATE_BID" => c.order \in OwnedIn(t)

\* Why a tick that finds no active row and no order has none to fear: of an
\* order that it did not see it has seen the row.
RowsActive ==
    LET t == "loop" IN
    \A o \in KnownIds :
        /\ o \in Hidden => RowActive(o) /\ ledger[o].age <= orders[o].lag
        /\ tick[t].pc \in {"begun", "read"} /\ RowActive(o) => tick[t].active # 0
        /\ /\ tick[t].pc \in {"read", "synced"} /\ tick[t].bidsOk
           /\ IsLive(o) /\ o \notin Seen(t)
           => tick[t].active # 0
        /\ o \in OwnedIn(t) /\ tick[t].pc \in {"synced", "acting"}
              => RowActive(o) \/ o \in tick[t].cancels
        /\ Forgotten(o) =>
              IF tick[t].pc \in {"synced", "acting"} /\ tick[t].bidsOk
              THEN tick[t].active # 0
              ELSE RowActive(o)

StreakUnderHold ==
    /\ guard.streak >= ChurnStreakThreshold => guard.hold.kind = "churn"
    /\ guard.hold.kind = "blacklist" /\ Countable # {}
          => guard.streak + 1 < ChurnStreakThreshold

BreakerInvariant ==
    cancelled = {} /\ RowsRead /\ RowsActive /\ CreatesAlone /\ StreakUnderHold
=============================================================================
