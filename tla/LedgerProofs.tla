---------------------------- MODULE LedgerProofs ----------------------------
(* What is counted and added up, whatever the number of payouts, bids and   *)
(* offers: the table of payouts, the lifetime spend of the account and the  *)
(* depth of an order book.                                                  *)
EXTENDS PayoutLedger, AccountSpend, Orderbook, FiniteSetTheorems,
        NaturalsInduction, WellFoundedInduction, TLAPS

SyncType ==
    sync \in [at : {"idle", "fetch", "wipe", "store", "scan", "rekey", "drop", "reattach"},
              full : BOOLEAN, got : SUBSET Payouts, reset : BOOLEAN]

\* A sync begins with nothing in its hands.
LEMMA FetchingType ==
    ASSUME NEW full, NEW reset
    PROVE  Fetching(full, reset)
              \in [at : {"fetch"}, full : BOOLEAN, got : SUBSET Payouts,
                   reset : BOOLEAN]
BY DEF Fetching, NoSync

\* What a sync has left behind by the time anything else gets to run.
NoDouble == \A p \in Payouts : ~({Real(p), Deduced(p)} \subseteq Stored)

CountInvariant ==
    /\ surfaced \subseteq Payouts
    /\ SyncType
    /\ {forceFull, forceReset, healDue} \subseteq BOOLEAN
    /\ sync.at = "reattach" => NoDouble
    /\ Yielding /\ ~healDue => NoDouble

\* A payout is known to the table by its deduced row or by its record, never
\* by both, once a full backfill is over: the scan that ends every sync
\* leaves no deduced row beside its record, and a crash that prevents it has
\* the next sync read the ledger in full.
THEOREM CountedOnceHolds == LedgerSpec => []CountedOnce
<1> USE DEF Yielding
<1>1. LedgerInit => CountInvariant
  <2>1. LedgerInit => SyncType /\ ~(sync.at = "reattach")
    BY DEF LedgerInit, SyncType, NoSync
  <2>2. LedgerInit => surfaced \subseteq Payouts
    BY DEF LedgerInit
  <2>3. LedgerInit => forceFull = FALSE /\ forceReset = FALSE /\ healDue = TRUE
    BY DEF LedgerInit
  <2> QED
    BY <2>1, <2>2, <2>3 DEF CountInvariant
<1>2. CountInvariant /\ [LedgerNext]_ledgerVars => CountInvariant'
  <2> SUFFICES ASSUME CountInvariant, [LedgerNext]_ledgerVars
               PROVE  CountInvariant'
    OBVIOUS
  <2> USE DEF CountInvariant, world, flow, detector
  <2>1. ASSUME NEW p \in Payouts, Settle(p) \/ Surface(p) \/ GrowOlder(p)
        PROVE  CountInvariant'
    BY <2>1, LedgerAssumption DEF Settle, Surface, GrowOlder, SyncType, NoDouble, Stored
  <2>2. ASSUME ADayLater \/ ToggleConfirm \/ \E k \in Stored : Annotate(k)
        PROVE  CountInvariant'
    BY <2>2 DEF ADayLater, Annotate, ToggleConfirm, SyncType, NoDouble, Stored
  <2>3. ASSUME StartSync \/ RequestFull \/ HardReset
        PROVE  CountInvariant'
    <3>1. SyncType' /\ sync'.at = "fetch"
      <4>1. CASE sync' = sync /\ sync.at = "fetch"
        BY <4>1 DEF SyncType
      <4>2. CASE \E full, reset : sync' = Fetching(full, reset)
        BY <4>2, FetchingType DEF SyncType
      <4> QED
        BY <2>3, <4>1, <4>2 DEF StartSync, RequestFull, HardReset
    <3>2. rows' = rows /\ sync.at \in {"idle", "fetch"} /\ healDue' = healDue
      BY <2>3 DEF StartSync, RequestFull, HardReset
    <3>3. surfaced' = surfaced /\ {forceFull', forceReset'} \subseteq BOOLEAN
      BY <2>3 DEF StartSync, RequestFull, HardReset
    <3>4. NoDouble' <=> NoDouble
      BY <3>2 DEF NoDouble, Stored
    <3> QED
      BY <3>1, <3>2, <3>3, <3>4
  <2>4. ASSUME FetchFails \/ Fetched
        PROVE  CountInvariant'
    <3>1. CASE FetchFails
      BY <3>1 DEF FetchFails, NoSync, SyncType, NoDouble, Stored
    <3>2. CASE Fetched
      <4>1. {p \in surfaced : sync.full \/ settled[p] <= 1} \subseteq Payouts
        OBVIOUS
      <4>2. SyncType'
        BY <3>2, <4>1 DEF Fetched, SyncType
      <4>3. sync'.at \in {"wipe", "store"}
        BY <3>2 DEF Fetched, SyncType
      <4>4. (forceFull \in BOOLEAN /\ forceReset \in BOOLEAN /\ healDue \in BOOLEAN)'
        BY <3>2 DEF Fetched, SyncType
      <4> QED
        BY <3>2, <4>2, <4>3, <4>4 DEF Fetched
    <3> QED
      BY <2>4, <3>1, <3>2
  <2>5. ASSUME Wipe \/ StoreRows \/ DeduceRows \/ RekeyNote
        PROVE  CountInvariant'
    BY <2>5 DEF Wipe, StoreRows, DeduceRows, RekeyNote, SyncType
  <2>6. ASSUME DropRows
        PROVE  CountInvariant'
    <3>1. NoDouble'
      BY <2>6 DEF DropRows, NoDouble, Superseded, Stored, Real, Deduced
    <3> QED
      BY <2>6, <3>1 DEF DropRows, SyncType, NoSync
  <2>7. ASSUME Reattach
        PROVE  CountInvariant'
    BY <2>7 DEF Reattach, SyncType, NoSync, NoDouble, Stored
  <2>8. ASSUME BaselinePayouts \/ BeginConfirm \/ MarkConfirmed
               \/ \E k \in Payouts \X {"real"} : Confirm(k)
        PROVE  CountInvariant'
    BY <2>8 DEF BaselinePayouts, BeginConfirm, MarkConfirmed, Marked, Confirm,
       SyncType, NoDouble, Stored
  <2>9. ASSUME CrashLedger
        PROVE  CountInvariant'
    BY <2>9 DEF CrashLedger, SyncType, NoSync
  <2>10. ASSUME UNCHANGED ledgerVars
         PROVE  CountInvariant'
    BY <2>10 DEF ledgerVars, SyncType, NoDouble, Stored
  <2> QED
    BY <2>1, <2>2, <2>3, <2>4, <2>5, <2>6, <2>7, <2>8, <2>9, <2>10
       DEF LedgerNext, SyncStep
<1>3. CountInvariant => CountedOnce
  BY DEF CountInvariant, CountedOnce, NoDouble
<1> QED
  BY <1>1, <1>2, <1>3, PTL DEF LedgerSpec

-----------------------------------------------------------------------------
(* One confirmation per payout *)

\* The row waits for a pass of the detector, or a pass has it still to send.
Unconfirmed(p) ==
    /\ baselined
    /\ Real(p) \in Stored
    /\ ~rows[Real(p)]
    /\ Real(p) \notin confirming.rows

InHand(p) == Real(p) \in confirming.left

One(condition) == IF condition THEN 1 ELSE 0

\* Confirmations made and on their way.
Weight(p) == confirmed[p] + One(Unconfirmed(p)) + One(InHand(p))

\* A refresh of the last 60 days that a reset has joined.
Joined == sync.at \in {"fetch", "wipe"} /\ forceReset /\ ~sync.full

ConfirmType ==
    /\ SyncType
    /\ forceReset \in BOOLEAN
    /\ surfaced \subseteq Payouts
    /\ surfaced \subseteq DOMAIN settled
    /\ \A p \in DOMAIN settled : settled[p] \in 0..2
    /\ confirmed \in [Payouts -> Nat]
    /\ confirming = [left |-> confirming.left, rows |-> confirming.rows]
    /\ joined \in Nat

\* No payout is heavier than allowed, and less than that where it may be
\* stored anew as unconfirmed: after the wipe of such a reset.  Otherwise
\* what has weight keeps its row, unless it is too old for a refresh or the
\* table is empty, which has the next sync read all there is.
OnePayout(p) ==
    /\ Weight(p) <= 1 + joined
    /\ Joined => Weight(p) <= joined
    /\ sync.at = "store" /\ ~sync.full /\ p \in sync.got /\ Real(p) \notin Stored
          => Weight(p) <= joined
    /\ Real(p) \notin Stored /\ Weight(p) > 0 =>
          \/ settled[p] = 2
          \/ Stored = {} /\ sync.at \in {"idle", "fetch", "wipe", "store"}
    /\ Real(p) \in Stored \/ Weight(p) > 0 => p \in surfaced

SyncInvariant ==
    /\ sync.at = "wipe" => forceReset
    /\ sync.at = "fetch" /\ Stored = {} => sync.full
    /\ sync.at \in {"wipe", "store"} =>
          sync.got = {p \in surfaced : sync.full \/ settled[p] <= 1}

ConfirmInvariant ==
    /\ ConfirmType
    /\ SyncInvariant
    /\ \A p \in Payouts : OnePayout(p)

LEMMA WeightType ==
    ASSUME ConfirmType
    PROVE  \A p \in Payouts : Weight(p) \in Nat /\ confirmed[p] \in 0..Weight(p)
  BY DEF ConfirmType, Weight, One

\* A step that leaves the rows and the detector alone leaves the weights.
LEMMA WeightKept ==
    ASSUME UNCHANGED <<rows, detector>>
    PROVE  \A p : Weight(p)' = Weight(p) /\ (Real(p) \in Stored)' = (Real(p) \in Stored)
  BY DEF Weight, One, Unconfirmed, InHand, detector, Stored, Real

LEMMA ConfirmTypeInit == LedgerInit => ConfirmType
<1> SUFFICES ASSUME LedgerInit PROVE ConfirmType
  OBVIOUS
<1>1. SyncType
  BY DEF LedgerInit, SyncType, NoSync
<1>2. DOMAIN settled = {}
  BY DEF LedgerInit
<1>3. /\ forceReset = FALSE /\ surfaced = {} /\ joined = 0
      /\ confirmed \in [Payouts -> Nat] /\ confirming = NoPass
  BY DEF LedgerInit
<1> QED
  BY <1>1, <1>2, <1>3 DEF ConfirmType, NoPass

LEMMA ConfirmTypeInductive ==
    ASSUME ConfirmType, [LedgerNext]_ledgerVars
    PROVE  ConfirmType'
<1> USE DEF ConfirmType
<1>1. SyncType' /\ forceReset' \in BOOLEAN
  <2>1. CASE \E p \in Payouts : Settle(p) \/ Surface(p) \/ GrowOlder(p)
    BY <2>1 DEF Settle, Surface, GrowOlder, flow, SyncType
  <2>2. CASE ADayLater \/ (\E k \in Stored : Annotate(k)) \/ ToggleConfirm
    BY <2>2 DEF ADayLater, Annotate, ToggleConfirm, flow, SyncType
  <2>3. CASE StartSync \/ RequestFull \/ HardReset
    <3>1. SyncType'
      <4>1. CASE sync' = sync
        BY <4>1 DEF SyncType
      <4>2. CASE \E full, reset : sync' = Fetching(full, reset)
        BY <4>2, FetchingType DEF SyncType
      <4> QED
        BY <2>3, <4>1, <4>2 DEF StartSync, RequestFull, HardReset
    <3> QED
      BY <2>3, <3>1 DEF StartSync, RequestFull, HardReset, flow
  <2>4. CASE FetchFails
    BY <2>4 DEF FetchFails, NoSync, flow, SyncType
  <2>5. CASE Fetched
    <3>1. {p \in surfaced : sync.full \/ settled[p] <= 1} \subseteq Payouts
      OBVIOUS
    <3> QED
      BY <2>5, <3>1 DEF Fetched, SyncType
  <2>6. CASE SyncStep
    <3>1. CASE Wipe
      BY <3>1 DEF Wipe, SyncType
    <3>2. CASE StoreRows \/ DeduceRows \/ RekeyNote
      BY <3>2 DEF StoreRows, DeduceRows, RekeyNote, flow, SyncType
    <3>3. CASE DropRows
      <4>1. sync' = NoSync \/ sync' = [sync EXCEPT !.at = "reattach"]
        BY <3>3 DEF DropRows
      <4>2. forceReset' = forceReset
        BY <3>3 DEF DropRows, flow
      <4>3. NoSync \in [at : {"idle"}, full : BOOLEAN, got : SUBSET Payouts, reset : BOOLEAN]
        BY DEF NoSync
      <4>4. CASE sync' = NoSync
        BY <4>2, <4>3, <4>4 DEF SyncType
      <4>5. CASE sync' = [sync EXCEPT !.at = "reattach"]
        BY <4>2, <4>5 DEF SyncType
      <4> QED
        BY <4>1, <4>4, <4>5
    <3>4. CASE Reattach
      BY <3>4 DEF Reattach, NoSync, flow, SyncType
    <3> QED
      BY <2>6, <3>1, <3>2, <3>3, <3>4 DEF SyncStep
  <2>7. CASE BaselinePayouts \/ BeginConfirm \/ MarkConfirmed
             \/ \E k \in Payouts \X {"real"} : Confirm(k)
    BY <2>7 DEF BaselinePayouts, BeginConfirm, MarkConfirmed, Confirm, flow, SyncType
  <2>8. CASE CrashLedger
    BY <2>8 DEF CrashLedger, NoSync, SyncType
  <2>9. CASE UNCHANGED ledgerVars
    BY <2>9 DEF ledgerVars, SyncType
  <2> QED
    BY <2>1, <2>2, <2>3, <2>4, <2>5, <2>6, <2>7, <2>8, <2>9 DEF LedgerNext
<1>2. (surfaced \subseteq Payouts /\ surfaced \subseteq DOMAIN settled)'
  <2>1. CASE \E p \in Payouts : Settle(p)
    BY <2>1 DEF Settle
  <2>2. CASE \E p \in Payouts : Surface(p)
    BY <2>2, LedgerAssumption DEF Surface
  <2>3. CASE \E p \in Payouts : GrowOlder(p)
    BY <2>3 DEF GrowOlder
  <2>4. CASE UNCHANGED <<settled, surfaced>>
    BY <2>4
  <2> QED
    BY <2>1, <2>2, <2>3, <2>4 DEF LedgerNext, ADayLater, Annotate, ToggleConfirm,
       StartSync, RequestFull, HardReset, FetchFails, Fetched, SyncStep, Wipe,
       StoreRows, DeduceRows, RekeyNote, DropRows, Reattach, BaselinePayouts,
       BeginConfirm, MarkConfirmed, Confirm, CrashLedger, world, ledgerVars
<1>3. (\A p \in DOMAIN settled : settled[p] \in 0..2)'
  <2>1. CASE \E p \in Payouts : Settle(p)
    BY <2>1 DEF Settle
  <2>2. CASE \E p \in Payouts : GrowOlder(p)
    BY <2>2 DEF GrowOlder
  <2>3. CASE UNCHANGED settled
    BY <2>3
  <2> QED
    BY <2>1, <2>2, <2>3 DEF LedgerNext, Surface, ADayLater, Annotate, ToggleConfirm,
       StartSync, RequestFull, HardReset, FetchFails, Fetched, SyncStep, Wipe,
       StoreRows, DeduceRows, RekeyNote, DropRows, Reattach, BaselinePayouts,
       BeginConfirm, MarkConfirmed, Confirm, CrashLedger, world, ledgerVars
<1>4. (confirmed \in [Payouts -> Nat])'
  <2>1. CASE \E k \in Payouts \X {"real"} : Confirm(k)
    BY <2>1 DEF Confirm
  <2>2. CASE UNCHANGED confirmed
    BY <2>2
  <2> QED
    BY <2>1, <2>2 DEF LedgerNext, Settle, Surface, GrowOlder, ADayLater, Annotate,
       ToggleConfirm, StartSync, RequestFull, HardReset, FetchFails, Fetched, SyncStep,
       Wipe, StoreRows, DeduceRows, RekeyNote, DropRows, Reattach, BaselinePayouts,
       BeginConfirm, MarkConfirmed, CrashLedger, detector, ledgerVars
<1>5. (confirming = [left |-> confirming.left, rows |-> confirming.rows])'
  <2>1. CASE Wipe \/ BeginConfirm \/ MarkConfirmed \/ CrashLedger
             \/ \E k \in Payouts \X {"real"} : Confirm(k)
    BY <2>1 DEF Wipe, BeginConfirm, MarkConfirmed, CrashLedger, Confirm, NoPass
  <2>2. CASE UNCHANGED confirming
    BY <2>2
  <2> QED
    BY <2>1, <2>2 DEF LedgerNext, Settle, Surface, GrowOlder, ADayLater, Annotate,
       ToggleConfirm, StartSync, RequestFull, HardReset, FetchFails, Fetched, SyncStep,
       StoreRows, DeduceRows, RekeyNote, DropRows, Reattach, BaselinePayouts,
       detector, ledgerVars
<1>6. (joined \in Nat)'
  <2>1. CASE HardReset
    <3>1. joined' = joined \/ joined' = joined + 1
      BY <2>1 DEF HardReset
    <3> QED
      BY <3>1
  <2>2. CASE UNCHANGED joined
    BY <2>2
  <2> QED
    BY <2>1, <2>2 DEF LedgerNext, Settle, Surface, GrowOlder, ADayLater, Annotate,
       ToggleConfirm, StartSync, RequestFull, FetchFails, Fetched, SyncStep, Wipe,
       StoreRows, DeduceRows, RekeyNote, DropRows, Reattach, BaselinePayouts,
       BeginConfirm, MarkConfirmed, Confirm, CrashLedger, world, ledgerVars
<1> QED
  BY <1>1, <1>2, <1>3, <1>4, <1>5, <1>6

LEMMA SyncInvariantInductive ==
    ASSUME ConfirmType, SyncInvariant, [LedgerNext]_ledgerVars
    PROVE  SyncInvariant'
<1> USE DEF SyncInvariant
<1>1. CASE \E p \in Payouts : Settle(p) \/ Surface(p) \/ GrowOlder(p)
  BY <1>1 DEF Settle, Surface, GrowOlder, Yielding, Stored, flow
<1>2. CASE ADayLater \/ (\E k \in Stored : Annotate(k)) \/ ToggleConfirm
  BY <1>2 DEF ADayLater, Annotate, ToggleConfirm, Yielding, Stored, flow, world
<1>3. CASE StartSync
  <2>1. sync'.at = "fetch" /\ (Stored = {} => sync'.full)
    BY <1>3 DEF StartSync, Fetching, NoSync
  <2> QED
    BY <1>3, <2>1 DEF StartSync, Stored
<1>4. CASE RequestFull \/ HardReset
  <2>1. CASE sync' = sync
    BY <1>4, <2>1 DEF RequestFull, HardReset, Yielding, Stored, world
  <2>2. CASE sync' # sync
    <3>1. sync'.at = "fetch" /\ sync'.full
      BY <1>4, <2>2 DEF RequestFull, HardReset, Fetching, NoSync
    <3> QED
      BY <3>1
  <2> QED
    BY <2>1, <2>2
<1>5. CASE FetchFails \/ Reattach \/ CrashLedger
  BY <1>5 DEF FetchFails, Reattach, CrashLedger, NoSync
<1>6. CASE Fetched
  <2>1. sync'.at = "wipe" => forceReset'
    BY <1>6 DEF Fetched, ConfirmType, SyncType
  <2>2. sync'.at # "fetch" /\ sync'.full = sync.full
    BY <1>6 DEF Fetched, ConfirmType, SyncType
  <2>3. sync'.got = {p \in surfaced : sync.full \/ settled[p] <= 1}
    BY <1>6 DEF Fetched, ConfirmType, SyncType
  <2> QED
    BY <1>6, <2>1, <2>2, <2>3 DEF Fetched, world
<1>7. CASE Wipe
  BY <1>7 DEF Wipe, ConfirmType, SyncType, world
<1>8. CASE StoreRows \/ DeduceRows \/ RekeyNote
  BY <1>8 DEF StoreRows, DeduceRows, RekeyNote, ConfirmType, SyncType
<1>9. CASE DropRows
  <2>1. sync' = NoSync \/ sync' = [sync EXCEPT !.at = "reattach"]
    BY <1>9 DEF DropRows
  <2> QED
    BY <2>1 DEF NoSync, ConfirmType, SyncType
<1>10. CASE BaselinePayouts \/ BeginConfirm \/ MarkConfirmed
            \/ \E k \in Payouts \X {"real"} : Confirm(k)
  <2>1. sync' = sync /\ forceReset' = forceReset /\ Yielding
    BY <1>10 DEF BaselinePayouts, BeginConfirm, MarkConfirmed, Confirm, flow
  <2>2. Stored' = Stored
    BY <1>10 DEF BaselinePayouts, BeginConfirm, MarkConfirmed, Confirm, Marked, Stored
  <2> QED
    BY <2>1, <2>2 DEF Yielding
<1>11. CASE UNCHANGED ledgerVars
  BY <1>11 DEF ledgerVars, Stored
<1> QED
  BY <1>1, <1>2, <1>3, <1>4, <1>5, <1>6, <1>7, <1>8, <1>9, <1>10, <1>11
     DEF LedgerNext, SyncStep

LEMMA OnePayoutInductive ==
    ASSUME ConfirmType, SyncInvariant, [LedgerNext]_ledgerVars,
           NEW p \in Payouts, OnePayout(p)
    PROVE  OnePayout(p)'
<1> USE DEF OnePayout
<1>0. Weight(p) \in Nat /\ confirmed[p] \in 0..Weight(p) /\ joined \in Nat
  BY WeightType DEF ConfirmType
<1>1. CASE \E q \in Payouts : Settle(q) \/ Surface(q) \/ GrowOlder(q)
  <2>1. Weight(p)' = Weight(p) /\ (Real(p) \in Stored)' = (Real(p) \in Stored)
    BY <1>1, WeightKept DEF Settle, Surface, GrowOlder
  <2>2. UNCHANGED <<sync, forceReset, joined, Stored>>
    BY <1>1 DEF Settle, Surface, GrowOlder, flow, Stored
  <2>3. p \in surfaced => p \in surfaced' /\ p \in DOMAIN settled
    BY <1>1 DEF Settle, Surface, GrowOlder, ConfirmType
  <2>4. p \in DOMAIN settled /\ settled[p] = 2 => settled'[p] = 2
    BY <1>1 DEF Settle, Surface, GrowOlder
  <2> QED
    BY <2>1, <2>2, <2>3, <2>4, <1>0 DEF Joined
<1>2. CASE ADayLater \/ (\E k \in Stored : Annotate(k)) \/ ToggleConfirm
  <2>1. Weight(p)' = Weight(p) /\ (Real(p) \in Stored)' = (Real(p) \in Stored)
    BY <1>2, WeightKept DEF ADayLater, Annotate, ToggleConfirm
  <2>2. UNCHANGED <<sync, forceReset, joined, surfaced, settled, Stored>>
    BY <1>2 DEF ADayLater, Annotate, ToggleConfirm, flow, world, Stored
  <2> QED
    BY <2>1, <2>2 DEF Joined
<1>3. CASE StartSync \/ RequestFull
  <2>1. Weight(p)' = Weight(p) /\ (Real(p) \in Stored)' = (Real(p) \in Stored)
    BY <1>3, WeightKept DEF StartSync, RequestFull
  <2>2. UNCHANGED <<forceReset, joined, surfaced, settled, Stored>>
    BY <1>3 DEF StartSync, RequestFull, flow, world, Stored
  <2>3. CASE sync' = sync
    BY <2>1, <2>2, <2>3 DEF Joined
  <2>4. CASE sync' # sync
    <3>1. sync.at = "idle" /\ sync'.at = "fetch" /\ (forceReset => sync'.full)
      BY <1>3, <2>4 DEF StartSync, RequestFull, Fetching, NoSync
    <3> QED
      BY <2>1, <2>2, <3>1 DEF Joined
  <2> QED
    BY <2>3, <2>4
<1>4. CASE HardReset
  <2>1. Weight(p)' = Weight(p) /\ (Real(p) \in Stored)' = (Real(p) \in Stored)
    BY <1>4, WeightKept DEF HardReset
  <2>2. UNCHANGED <<surfaced, settled, Stored>>
    BY <1>4 DEF HardReset, Stored
  <2>3. CASE sync.at = "idle"
    <3>1. sync'.at = "fetch" /\ sync'.full /\ joined' = joined
      BY <1>4, <2>3 DEF HardReset, Fetching, NoSync
    <3> QED
      BY <2>1, <2>2, <2>3, <3>1 DEF Joined
  <2>4. CASE sync.at # "idle"
    <3>1. sync' = sync /\ sync.at = "fetch" /\ joined' = joined + 1
      BY <1>4, <2>4 DEF HardReset
    <3> QED
      BY <1>0, <2>1, <2>2, <3>1 DEF Joined
  <2> QED
    BY <2>3, <2>4
<1>5. CASE FetchFails \/ RekeyNote \/ Reattach
  <2>1. Weight(p)' = Weight(p) /\ (Real(p) \in Stored)' = (Real(p) \in Stored)
    BY <1>5, WeightKept DEF FetchFails, RekeyNote, Reattach
  <2>2. UNCHANGED <<joined, surfaced, settled, Stored>>
    BY <1>5 DEF FetchFails, RekeyNote, Reattach, world, Stored
  <2>3. /\ sync'.at \in {"idle", "drop"}
        /\ sync'.at = "drop" => sync.at = "rekey"
    BY <1>5 DEF FetchFails, RekeyNote, Reattach, NoSync, ConfirmType, SyncType
  <2>4. sync.at \in {"fetch", "rekey", "reattach"}
    BY <1>5 DEF FetchFails, RekeyNote, Reattach
  <2> QED
    BY <2>1, <2>2, <2>3, <2>4 DEF Joined
<1>6. CASE Fetched
  <2>1. Weight(p)' = Weight(p) /\ (Real(p) \in Stored)' = (Real(p) \in Stored)
    BY <1>6, WeightKept DEF Fetched
  <2>2. UNCHANGED <<forceReset, joined, surfaced, settled, Stored>>
    BY <1>6 DEF Fetched, world, Stored
  <2>3. /\ sync'.at \in {"wipe", "store"}
        /\ sync'.full = sync.full
        /\ sync'.got = {q \in surfaced : sync.full \/ settled[q] <= 1}
    BY <1>6 DEF Fetched, ConfirmType, SyncType
  <2>4. sync.at = "fetch"
    BY <1>6 DEF Fetched
  <2>5. ~sync'.full /\ p \in sync'.got /\ Real(p) \notin Stored => Weight(p) = 0
    BY <1>0, <2>3, <2>4 DEF SyncInvariant, ConfirmType
  <2> QED
    BY <1>0, <2>1, <2>2, <2>3, <2>4, <2>5 DEF Joined
<1>7. CASE Wipe
  <2>1. Stored' = {}
    BY <1>7 DEF Wipe, Stored
  <2>2. UNCHANGED <<joined, surfaced, settled, confirmed>>
    BY <1>7 DEF Wipe, world
  <2>3. ~Unconfirmed(p)' /\ (InHand(p)' => InHand(p))
    BY <1>7, <2>1 DEF Wipe, Unconfirmed, InHand
  <2>4. Weight(p)' <= Weight(p)
    BY <1>0, <2>2, <2>3 DEF Weight, One, ConfirmType
  <2>5. Weight(p)' \in Nat
    BY <2>2 DEF Weight, One, ConfirmType
  <2>6. sync.at = "wipe" /\ sync' = [sync EXCEPT !.at = "store"]
    BY <1>7 DEF Wipe
  <2>7. sync'.at = "store" /\ sync'.full = sync.full
    BY <2>6 DEF ConfirmType, SyncType
  <2>8. ~sync.full => Weight(p) <= joined
    BY <2>6 DEF SyncInvariant, Joined
  <2> QED
    BY <1>0, <2>1, <2>2, <2>4, <2>5, <2>7, <2>8 DEF Joined
<1>8. CASE StoreRows
  <2>1. sync.at = "store" /\ sync'.at = "scan"
    BY <1>8 DEF StoreRows, ConfirmType, SyncType
  <2>2. UNCHANGED <<joined, surfaced, settled, detector>>
    BY <1>8 DEF StoreRows, world
  <2>3. \/ /\ Real(p) \in Stored
           /\ Real(p) \in Stored'
           /\ rows'[Real(p)] = rows[Real(p)]
        \/ /\ Real(p) \notin Stored
           /\ p \in sync.got
           /\ Real(p) \in Stored'
           /\ rows'[Real(p)] = sync.full
        \/ /\ Real(p) \notin Stored
           /\ p \notin sync.got
           /\ Real(p) \notin Stored'
    BY <1>8 DEF StoreRows, Insert, Enriched, Real, Stored
  <2>4. sync.full \in BOOLEAN /\ (p \in sync.got <=> p \in surfaced /\ (sync.full \/ settled[p] <= 1))
    BY <2>1 DEF SyncInvariant, ConfirmType, SyncType
  <2>5. CASE Real(p) \in Stored
    <3>1. Weight(p)' = Weight(p) /\ Real(p) \in Stored'
      BY <2>2, <2>3, <2>5 DEF Weight, One, Unconfirmed, InHand, detector
    <3> QED
      BY <1>0, <2>1, <2>2, <2>5, <3>1 DEF Joined
  <2>6. CASE Real(p) \notin Stored /\ p \in sync.got
    <3>1. /\ sync.full => Weight(p)' = Weight(p)
          /\ Weight(p)' \in {Weight(p), Weight(p) + 1}
      BY <1>0, <2>2, <2>3, <2>4, <2>6 DEF Weight, One, Unconfirmed, InHand, detector, ConfirmType
    <3>2. Real(p) \in Stored' /\ p \in surfaced
      BY <2>3, <2>4, <2>6
    <3> QED
      BY <1>0, <2>1, <2>2, <2>4, <2>6, <3>1, <3>2 DEF Joined
  <2>7. CASE Real(p) \notin Stored /\ p \notin sync.got
    <3>1. Weight(p)' = Weight(p) /\ Real(p) \notin Stored'
      BY <2>2, <2>3, <2>7 DEF Weight, One, Unconfirmed, InHand, detector
    <3>2. Weight(p) > 0 => settled[p] = 2
      BY <1>0, <2>4, <2>7 DEF ConfirmType
    <3> QED
      BY <1>0, <2>1, <2>2, <3>1, <3>2 DEF Joined
  <2> QED
    BY <2>5, <2>6, <2>7
<1>9. CASE DeduceRows \/ DropRows
  <2>1. UNCHANGED <<joined, surfaced, settled, detector>>
    BY <1>9 DEF DeduceRows, DropRows, world
  <2>2. \A q : Real(p) # Deduced(q)
    BY DEF Real, Deduced
  <2>3. /\ Real(p) \in Stored' <=> Real(p) \in Stored
        /\ Real(p) \in Stored => rows'[Real(p)] = rows[Real(p)]
    <3>1. CASE DeduceRows
      BY <2>2, <3>1 DEF DeduceRows, Insert, Stored
    <3>2. CASE DropRows
      BY <2>2, <3>2 DEF DropRows, Stored
    <3> QED
      BY <1>9, <3>1, <3>2
  <2>4. Weight(p)' = Weight(p)
    BY <2>1, <2>3 DEF Weight, One, Unconfirmed, InHand, detector
  <2>5. sync.at \in {"scan", "drop"}
    BY <1>9 DEF DeduceRows, DropRows
  <2>6. sync'.at \in {"rekey", "reattach", "idle"}
    <3>1. CASE DeduceRows
      BY <3>1 DEF DeduceRows, ConfirmType, SyncType
    <3>2. CASE DropRows
      <4>1. sync' = NoSync \/ sync' = [sync EXCEPT !.at = "reattach"]
        BY <3>2 DEF DropRows
      <4> QED
        BY <4>1 DEF NoSync, ConfirmType, SyncType
    <3> QED
      BY <1>9, <3>1, <3>2
  <2> QED
    BY <1>0, <2>1, <2>3, <2>4, <2>5, <2>6 DEF Joined
<1>10. CASE BaselinePayouts \/ BeginConfirm \/ MarkConfirmed
            \/ \E k \in Payouts \X {"real"} : Confirm(k)
  <2>1. UNCHANGED <<sync, forceReset, joined, surfaced, settled, Stored>>
    BY <1>10 DEF BaselinePayouts, BeginConfirm, MarkConfirmed, Marked, Confirm, flow,
       world, Stored
  <2>2. Weight(p)' = Weight(p)
    <3>1. CASE BaselinePayouts
      BY <1>0, <3>1 DEF BaselinePayouts, Weight, One, Unconfirmed, InHand, Stored, ConfirmType
    <3>2. CASE BeginConfirm
      <4> DEFINE fresh == {k \in Stored : ~rows[k]}
      <4>1. /\ confirming = NoPass
            /\ baselined
            /\ UNCHANGED <<rows, baselined, confirmed>>
            /\ confirming' = [left |-> fresh, rows |-> fresh]
        BY <3>2 DEF BeginConfirm
      <4>2. (Unconfirmed(p) <=> Real(p) \in fresh) /\ ~InHand(p)
        BY <4>1 DEF Unconfirmed, InHand, NoPass
      <4>3. ~Unconfirmed(p)' /\ (InHand(p)' <=> Real(p) \in fresh)
        BY <4>1 DEF Unconfirmed, InHand, Real, Stored
      <4> HIDE DEF fresh
      <4> QED
        BY <1>0, <4>1, <4>2, <4>3 DEF Weight, One
    <3>3. CASE MarkConfirmed
      <4>1. /\ confirming.left = {}
            /\ confirming' = NoPass
            /\ UNCHANGED <<baselined, confirmed>>
            /\ rows' = Marked
        BY <3>3 DEF MarkConfirmed
      <4>2. ~InHand(p) /\ ~InHand(p)'
        BY <4>1 DEF InHand, NoPass
      <4>3. /\ Real(p) \in Stored' <=> Real(p) \in Stored
            /\ Real(p) \in Stored =>
                 (rows'[Real(p)] <=> rows[Real(p)] \/ Real(p) \in confirming.rows)
        BY <4>1 DEF Marked, Stored
      <4>4. Unconfirmed(p)' <=> Unconfirmed(p)
        BY <4>1, <4>3 DEF Unconfirmed, Real, NoPass
      <4> QED
        BY <4>1, <4>2, <4>4 DEF Weight, One
    <3>4. CASE \E k \in Payouts \X {"real"} : Confirm(k)
      <4> PICK k \in Payouts \X {"real"} : Confirm(k)
        BY <3>4
      <4>1. /\ UNCHANGED <<rows, baselined>>
            /\ k \in confirming.left
            /\ confirming'.left = confirming.left \ {k}
            /\ confirming'.rows = confirming.rows
            /\ confirmed' = [confirmed EXCEPT ![k[1]] = @ + 1]
        BY DEF Confirm, ConfirmType
      <4>2. Unconfirmed(p)' <=> Unconfirmed(p)
        BY <4>1 DEF Unconfirmed, Real, Stored
      <4>3. CASE k = Real(p)
        <5>1. InHand(p) /\ ~InHand(p)' /\ k[1] = p
          BY <4>1, <4>3 DEF InHand, Real
        <5>2. confirmed'[p] = confirmed[p] + 1
          BY <4>1, <5>1 DEF ConfirmType
        <5> QED
          BY <4>2, <5>1, <5>2 DEF Weight, One, ConfirmType
      <4>4. CASE k # Real(p)
        <5>1. (InHand(p)' <=> InHand(p)) /\ k[1] # p
          BY <4>1, <4>4 DEF InHand, Real
        <5>2. confirmed'[p] = confirmed[p]
          BY <4>1, <5>1 DEF ConfirmType
        <5> QED
          BY <4>2, <5>1, <5>2 DEF Weight, One
      <4> QED
        BY <4>3, <4>4
    <3> QED
      BY <1>10, <3>1, <3>2, <3>3, <3>4
  <2> QED
    BY <2>1, <2>2 DEF Joined
<1>11. CASE CrashLedger
  <2>1. UNCHANGED <<joined, surfaced, settled, confirmed, Stored>> /\ sync'.at = "idle"
    BY <1>11 DEF CrashLedger, world, Stored, NoSync
  <2>2. Weight(p)' = confirmed[p]
    <3>1. ~Unconfirmed(p)' /\ ~InHand(p)'
      BY <1>11 DEF CrashLedger, Unconfirmed, InHand, NoPass
    <3> QED
      BY <2>1, <3>1 DEF Weight, One, ConfirmType
  <2> QED
    BY <1>0, <2>1, <2>2 DEF Joined
<1>12. CASE UNCHANGED ledgerVars
  <2>1. Weight(p)' = Weight(p)
    BY <1>12, WeightKept DEF ledgerVars, detector
  <2> QED
    BY <1>12, <2>1 DEF ledgerVars, Joined, Stored
<1> QED
  BY <1>1, <1>2, <1>3, <1>4, <1>5, <1>6, <1>7, <1>8, <1>9, <1>10, <1>11, <1>12
     DEF LedgerNext, SyncStep

\* No settlement is confirmed twice, whatever is reset, rebuilt or restarted:
\* a confirmation made, in hand or waiting in the table weighs one, and no
\* step makes a payout heavier than one for each reset that was joined to a
\* running refresh.
THEOREM ConfirmedOnceHolds == LedgerSpec => []ConfirmedOnce
<1>1. LedgerInit => ConfirmInvariant
  <2> SUFFICES ASSUME LedgerInit PROVE ConfirmInvariant
    OBVIOUS
  <2>1. ConfirmType
    BY ConfirmTypeInit
  <2>2. SyncInvariant
    BY DEF LedgerInit, SyncInvariant, NoSync
  <2>3. ASSUME NEW p \in Payouts PROVE OnePayout(p)
    <3>1. Weight(p) = 0 /\ Real(p) \notin Stored
      BY DEF LedgerInit, NoPass, Weight, One, Unconfirmed, InHand, Stored
    <3> QED
      BY <2>1, <3>1 DEF OnePayout, ConfirmType
  <2> QED
    BY <2>1, <2>2, <2>3 DEF ConfirmInvariant
<1>2. ConfirmInvariant /\ [LedgerNext]_ledgerVars => ConfirmInvariant'
  BY ConfirmTypeInductive, SyncInvariantInductive, OnePayoutInductive
     DEF ConfirmInvariant
<1>3. ConfirmInvariant => ConfirmedOnce
  BY WeightType DEF ConfirmInvariant, ConfirmType, OnePayout, ConfirmedOnce
<1> QED
  BY <1>1, <1>2, <1>3, PTL DEF LedgerSpec

-----------------------------------------------------------------------------
(* The note keeps its payout *)

\* A record is stored of what has surfaced, a deduced row of what was made.
Keys == {Real(p) : p \in surfaced} \cup {Deduced(p) : p \in DOMAIN settled}

NoteType ==
    /\ SyncType
    /\ forceReset \in BOOLEAN
    /\ surfaced \subseteq DOMAIN settled
    /\ DOMAIN settled \subseteq Payouts
    /\ sync.got \subseteq surfaced
    /\ crashes \in Nat /\ joined \in Nat
    /\ Stored \subseteq Keys
    /\ note # Null =>
          /\ note = [row |-> note.row, lost |-> note.lost]
          /\ note.row \in Keys
          /\ note.lost \in {"not", "wiped"}

\* A reset that was joined to nothing reads all there is, ...
ResetIsFull ==
    joined = 0 =>
        /\ sync.at = "fetch" /\ forceReset => sync.full
        /\ sync.at \notin {"idle", "fetch"} /\ sync.reset => sync.full

\* ... and so stores a record of all that has surfaced and deduces the rest.
FullStores ==
    sync.full =>
        /\ sync.at \in {"wipe", "store"} => sync.got = surfaced
        /\ sync.at \in {"scan", "rekey", "drop", "reattach"} =>
              \A p \in surfaced : Real(p) \in Stored
        /\ sync.at \in {"rekey", "drop", "reattach"} =>
              \A p \in DOMAIN settled : {Real(p), Deduced(p)} \cap Stored # {}

\* The first sight of the record, in a reset, has taken the row of the note.
Outrun == \E p \in Payouts : note.row = Deduced(p) /\ Real(p) \in Stored

NoteSafe ==
    /\ sync.at = "wipe" => sync.reset
    /\ note # Null =>
          /\ sync.at = "drop" /\ note.lost = "not" =>
                note.row \notin {Deduced(p) : p \in Superseded}
          /\ note.lost = "wiped" /\ crashes = 0 /\ joined = 0 =>
                \/ Outrun
                \/ /\ sync.reset
                   /\ sync.at \in {"store", "scan", "rekey", "drop", "reattach"}

NoteInvariant == NoteType /\ ResetIsFull /\ FullStores /\ NoteSafe

\* Keys of different payouts or kinds differ.
LEMMA KeysDiffer ==
    ASSUME NEW p, NEW q
    PROVE  /\ Real(p) # Deduced(q)
           /\ Real(p) = Real(q) => p = q
           /\ Deduced(p) = Deduced(q) => p = q
           /\ Real(p)[1] = p /\ Deduced(p)[1] = p /\ Deduced(p)[2] = "deduced"
BY DEF Real, Deduced

\* Steps that leave the sync, the note and the keys of the table alone.
LEMMA NoteUndisturbed ==
    ASSUME NoteInvariant, UNCHANGED <<sync, note, crashes>>, Stored' = Stored,
           forceReset' = forceReset, joined' = joined,
           surfaced \subseteq surfaced', surfaced' \subseteq DOMAIN settled',
           DOMAIN settled \subseteq DOMAIN settled', DOMAIN settled' \subseteq Payouts,
           \/ Yielding
           \/ surfaced' = surfaced /\ DOMAIN settled' = DOMAIN settled
    PROVE  NoteInvariant'
<1>1. Keys \subseteq Keys'
  BY DEF Keys
<1>2. NoteType'
  BY <1>1 DEF NoteInvariant, NoteType, SyncType
<1>3. ResetIsFull'
  BY DEF NoteInvariant, ResetIsFull
<1>4. FullStores'
  BY DEF NoteInvariant, FullStores, Yielding
<1>5. Outrun' <=> Outrun
  BY DEF Outrun
<1>6. Superseded' = Superseded
  BY DEF Superseded
<1>7. NoteSafe'
  BY <1>5, <1>6 DEF NoteInvariant, NoteSafe
<1> QED
  BY <1>2, <1>3, <1>4, <1>7 DEF NoteInvariant

LEMMA NoteInvariantNext ==
    NoteInvariant /\ [LedgerNext]_ledgerVars => NoteInvariant'
<1> SUFFICES ASSUME NoteInvariant, [LedgerNext]_ledgerVars
             PROVE  NoteInvariant'
  OBVIOUS
<1>0. NoteType /\ ResetIsFull /\ FullStores /\ NoteSafe /\ SyncType
  BY DEF NoteInvariant, NoteType
<1>1. ASSUME NEW p \in Payouts, Settle(p) \/ Surface(p) \/ GrowOlder(p)
      PROVE  NoteInvariant'
  <2>1. /\ Yielding
        /\ UNCHANGED <<sync, note, crashes, rows, forceReset, joined>>
        /\ surfaced' \subseteq surfaced \cup {p}
        /\ DOMAIN settled' \subseteq DOMAIN settled \cup {p}
        /\ surfaced \subseteq surfaced'
        /\ DOMAIN settled \subseteq DOMAIN settled'
        /\ surfaced' \subseteq DOMAIN settled'
    BY <1>0, <1>1 DEF NoteType, Settle, Surface, GrowOlder, flow
  <2>2. Stored' = Stored /\ DOMAIN settled' \subseteq Payouts
    BY <1>0, <1>1, <2>1 DEF Stored, NoteType
  <2> QED
    BY <2>1, <2>2, NoteUndisturbed
<1>2. ASSUME \/ ADayLater \/ ToggleConfirm
             \/ BaselinePayouts \/ BeginConfirm \/ MarkConfirmed
             \/ \E k \in Payouts \X {"real"} : Confirm(k)
             \/ UNCHANGED ledgerVars
      PROVE  NoteInvariant'
  <2>1. /\ UNCHANGED <<sync, note, crashes, forceReset, joined, surfaced, settled>>
        /\ Stored' = Stored
    BY <1>2 DEF ADayLater, ToggleConfirm, BaselinePayouts, BeginConfirm,
       MarkConfirmed, Marked, Confirm, ledgerVars, world, flow, detector, Stored
  <2> QED
    BY <1>0, <2>1, NoteUndisturbed DEF NoteType
<1>3. ASSUME NEW k \in Stored, Annotate(k)
      PROVE  NoteInvariant'
  <2>1. /\ note' = [row |-> k, lost |-> "not"]
        /\ UNCHANGED <<sync, rows, crashes, forceReset, joined, surfaced, settled>>
        /\ sync.at \in {"idle", "fetch"}
    BY <1>3 DEF Annotate, world, flow, Yielding
  <2>2. Stored' = Stored /\ Keys' = Keys
    BY <2>1 DEF Stored, Keys
  <2>3. NoteType'
    BY <1>0, <2>1, <2>2 DEF NoteType, SyncType
  <2>4. ResetIsFull' /\ FullStores'
    BY <1>0, <2>1, <2>2 DEF ResetIsFull, FullStores
  <2>5. NoteSafe'
    BY <2>1 DEF NoteSafe
  <2> QED
    BY <2>3, <2>4, <2>5 DEF NoteInvariant
<1>4. ASSUME StartSync \/ RequestFull \/ HardReset
      PROVE  NoteInvariant'
  <2>1. /\ UNCHANGED <<note, rows, crashes, surfaced, settled>>
        /\ sync.at \in {"idle", "fetch"} /\ sync'.at = "fetch"
        /\ forceReset' \in BOOLEAN /\ SyncType' /\ sync'.got \subseteq surfaced
        /\ joined' = joined \/ joined' = joined + 1
    BY <1>0, <1>4 DEF StartSync, RequestFull, HardReset, Fetching, NoSync, world,
       flow, detector, SyncType, NoteType, Yielding
  <2>2. Stored' = Stored /\ Keys' = Keys
    BY <2>1 DEF Stored, Keys
  <2>3. NoteType'
    BY <1>0, <2>1, <2>2 DEF NoteType
  <2>4. joined' = 0 /\ forceReset' => sync'.full
    <3>1. CASE StartSync
      BY <3>1 DEF StartSync, Fetching, NoSync, flow
    <3>2. CASE RequestFull
      <4>1. CASE sync.at = "idle"
        BY <3>2, <4>1 DEF RequestFull, Fetching, NoSync
      <4>2. CASE sync.at = "fetch"
        BY <1>0, <3>2, <4>2 DEF RequestFull, world, ResetIsFull
      <4> QED
        BY <2>1, <4>1, <4>2
    <3>3. CASE HardReset
      <4>1. CASE sync.at = "idle"
        BY <3>3, <4>1 DEF HardReset, Fetching, NoSync
      <4>2. CASE sync.at = "fetch"
        <5>1. joined' = joined + 1
          BY <3>3, <4>2 DEF HardReset
        <5> QED
          BY <1>0, <5>1 DEF NoteType
      <4> QED
        BY <2>1, <4>1, <4>2
    <3> QED
      BY <1>4, <3>1, <3>2, <3>3
  <2>5. ResetIsFull' /\ FullStores'
    BY <2>1, <2>4 DEF ResetIsFull, FullStores
  <2>6. Outrun => Outrun'
    BY <2>1, <2>2 DEF Outrun
  <2>7. NoteSafe'
    BY <1>0, <2>1, <2>6 DEF NoteSafe, NoteType
  <2> QED
    BY <2>3, <2>5, <2>7 DEF NoteInvariant
<1>5. ASSUME FetchFails
      PROVE  NoteInvariant'
  <2>1. /\ UNCHANGED <<note, rows, crashes, surfaced, settled, forceReset, joined>>
        /\ sync.at = "fetch" /\ sync' = NoSync
    BY <1>5 DEF FetchFails, world, flow
  <2>2. Stored' = Stored /\ Keys' = Keys /\ (Outrun => Outrun')
    BY <2>1 DEF Stored, Keys, Outrun
  <2>3. NoteType'
    BY <1>0, <2>1, <2>2 DEF NoteType, SyncType, NoSync
  <2>4. ResetIsFull' /\ FullStores'
    BY <2>1 DEF ResetIsFull, FullStores, NoSync
  <2>5. NoteSafe'
    BY <1>0, <2>1, <2>2 DEF NoteSafe, NoSync
  <2> QED
    BY <2>3, <2>4, <2>5 DEF NoteInvariant
<1>6. ASSUME Fetched
      PROVE  NoteInvariant'
  <2>1. /\ UNCHANGED <<note, rows, crashes, surfaced, settled, forceReset, joined>>
        /\ sync.at = "fetch"
        /\ sync'.at = (IF forceReset THEN "wipe" ELSE "store")
        /\ sync'.full = sync.full
        /\ sync'.got = {p \in surfaced : sync.full \/ settled[p] <= 1}
        /\ sync'.reset = forceReset
    BY <1>0, <1>6 DEF Fetched, world, SyncType
  <2>2. Stored' = Stored /\ Keys' = Keys /\ (Outrun => Outrun')
    BY <2>1 DEF Stored, Keys, Outrun
  <2>3. SyncType'
    <3>1. {p \in surfaced : sync.full \/ settled[p] <= 1} \subseteq Payouts
      BY <1>0 DEF NoteType
    <3> QED
      BY <1>0, <1>6, <3>1 DEF Fetched, SyncType, NoteType
  <2>4. NoteType'
    BY <1>0, <2>1, <2>2, <2>3 DEF NoteType
  <2>5. sync.full => sync'.got = surfaced
    BY <2>1
  <2>6. ResetIsFull' /\ FullStores'
    BY <1>0, <2>1, <2>5 DEF ResetIsFull, FullStores, NoteType
  <2>7. NoteSafe'
    BY <1>0, <2>1, <2>2 DEF NoteSafe, NoteType
  <2> QED
    BY <2>4, <2>6, <2>7 DEF NoteInvariant
<1>7. ASSUME Wipe
      PROVE  NoteInvariant'
  <2>1. /\ UNCHANGED <<crashes, surfaced, settled, joined>>
        /\ sync.at = "wipe" /\ sync' = [sync EXCEPT !.at = "store"]
        /\ forceReset' = FALSE /\ rows' = <<>>
        /\ note' = IF note = Null THEN Null ELSE [note EXCEPT !.lost = "wiped"]
    BY <1>7 DEF Wipe, world
  <2>2. Stored' = {} /\ Keys' = Keys
    BY <2>1 DEF Stored, Keys
  <2>3. /\ SyncType' /\ sync'.at = "store" /\ sync'.full = sync.full
        /\ sync'.got = sync.got /\ sync'.reset = sync.reset
    BY <1>0, <2>1 DEF SyncType
  <2>4. note' # Null =>
           /\ note' = [row |-> note.row, lost |-> "wiped"]
           /\ note.row \in Keys
    BY <1>0, <2>1 DEF NoteType
  <2>5. NoteType'
    BY <1>0, <2>1, <2>2, <2>3, <2>4 DEF NoteType
  <2>6. ResetIsFull' /\ FullStores'
    BY <1>0, <2>1, <2>3 DEF ResetIsFull, FullStores
  <2>7. NoteSafe'
    BY <1>0, <2>1, <2>3 DEF NoteSafe
  <2> QED
    BY <2>5, <2>6, <2>7 DEF NoteInvariant
<1>8. ASSUME StoreRows \/ DeduceRows
      PROVE  NoteInvariant'
  <2>1. /\ UNCHANGED <<note, crashes, surfaced, settled, forceReset, joined>>
        /\ SyncType' /\ sync'.full = sync.full
        /\ sync'.got = sync.got /\ sync'.reset = sync.reset
        /\ \/ sync.at = "store" /\ sync'.at = "scan"
           \/ sync.at = "scan" /\ sync'.at = "rekey"
    BY <1>0, <1>8 DEF StoreRows, DeduceRows, SyncType, world, flow
  <2>2. /\ StoreRows => Stored' = Stored \cup {Real(p) : p \in sync.got}
        /\ DeduceRows => Stored' = Stored \cup {Deduced(p) : p \in Unexplained}
    BY DEF StoreRows, DeduceRows, Insert, Stored
  <2>3. Keys' = Keys
    BY <2>1 DEF Keys
  <2>4. Stored' \subseteq Keys
    BY <1>0, <1>8, <2>2 DEF NoteType, Keys, Unexplained
  <2>5. NoteType'
    BY <1>0, <2>1, <2>3, <2>4 DEF NoteType
  <2>6. ResetIsFull'
    BY <1>0, <2>1 DEF ResetIsFull
  <2>7. FullStores'
    <3>1. CASE StoreRows
      <4>1. sync.at = "store" /\ sync'.at = "scan"
        BY <3>1, <2>1 DEF StoreRows
      <4>2. sync.full => \A p \in surfaced : Real(p) \in Stored'
        BY <1>0, <2>2, <3>1, <4>1 DEF FullStores
      <4> QED
        BY <2>1, <4>1, <4>2 DEF FullStores
    <3>2. CASE DeduceRows
      <4>1. sync.at = "scan" /\ sync'.at = "rekey"
        BY <3>2, <2>1 DEF DeduceRows
      <4>2. Stored \subseteq Stored'
        BY <2>2, <3>2
      <4>3. ASSUME sync.full, NEW p \in DOMAIN settled
            PROVE  Real(p) \in Stored' \/ Deduced(p) \in Stored'
        BY <2>2, <3>2, <4>3 DEF Unexplained
      <4>4. sync.full => \A p \in surfaced : Real(p) \in Stored'
        BY <1>0, <4>1, <4>2 DEF FullStores
      <4> QED
        BY <2>1, <4>1, <4>3, <4>4 DEF FullStores
    <3> QED
      BY <1>8, <3>1, <3>2
  <2>8. Outrun => Outrun'
    BY <1>8, <2>1, <2>2 DEF Outrun
  <2>9. NoteSafe'
    BY <1>0, <2>1, <2>8 DEF NoteSafe
  <2> QED
    BY <2>5, <2>6, <2>7, <2>9 DEF NoteInvariant
<1>9. ASSUME RekeyNote
      PROVE  NoteInvariant'
  <2>1. /\ UNCHANGED <<rows, crashes, surfaced, settled, forceReset, joined>>
        /\ SyncType' /\ sync'.full = sync.full
        /\ sync'.got = sync.got /\ sync'.reset = sync.reset
        /\ sync.at = "rekey" /\ sync'.at = "drop"
        /\ note' = Rekeyed(note)
    BY <1>0, <1>9 DEF RekeyNote, SyncType, world, flow
  <2>2. Stored' = Stored /\ Keys' = Keys /\ Superseded' = Superseded
    BY <2>1 DEF Stored, Keys, Superseded
  <2>3. ResetIsFull' /\ FullStores'
    BY <1>0, <2>1, <2>2 DEF ResetIsFull, FullStores
  <2>4. CASE /\ note # Null /\ note.lost = "not"
             /\ note.row \in {Deduced(p) : p \in Superseded}
    <3>1. PICK p \in Superseded : note.row = Deduced(p)
      BY <2>4
    <3>2. note' = [row |-> Real(p), lost |-> "not"]
      BY <1>0, <2>1, <2>4, <3>1, KeysDiffer DEF Rekeyed, NoteType
    <3>3. Real(p) \in Stored
      BY DEF Superseded
    <3>4. NoteType'
      BY <1>0, <2>1, <2>2, <3>2, <3>3 DEF NoteType
    <3>5. Real(p) \notin {Deduced(q) : q \in Superseded}
      BY KeysDiffer
    <3>6. NoteSafe'
      BY <2>1, <2>2, <3>2, <3>5 DEF NoteSafe
    <3> QED
      BY <2>3, <3>4, <3>6 DEF NoteInvariant
  <2>5. CASE ~(/\ note # Null /\ note.lost = "not"
               /\ note.row \in {Deduced(p) : p \in Superseded})
    <3>1. note' = note
      BY <2>1, <2>5 DEF Rekeyed
    <3>2. NoteType' /\ Outrun' = Outrun
      BY <1>0, <2>1, <2>2, <3>1 DEF NoteType, Outrun
    <3>3. NoteSafe'
      BY <1>0, <2>1, <2>2, <2>5, <3>1, <3>2 DEF NoteSafe
    <3> QED
      BY <2>3, <3>2, <3>3 DEF NoteInvariant
  <2> QED
    BY <2>4, <2>5
<1>10. ASSUME DropRows
       PROVE  NoteInvariant'
  <2>1. /\ UNCHANGED <<crashes, surfaced, settled, forceReset, joined>>
        /\ sync.at = "drop"
        /\ sync' = IF sync.reset THEN [sync EXCEPT !.at = "reattach"] ELSE NoSync
    BY <1>10 DEF DropRows, world, flow
  <2>2. /\ SyncType' /\ sync'.got \subseteq surfaced
        /\ \/ /\ sync.reset /\ sync'.at = "reattach" /\ sync'.full = sync.full
              /\ sync'.reset = sync.reset
           \/ ~sync.reset /\ sync'.at = "idle" /\ ~sync'.full
    BY <1>0, <2>1 DEF SyncType, NoSync, NoteType
  <2>3. Stored' = Stored \ {Deduced(p) : p \in Superseded}
    BY <1>10 DEF DropRows, Stored
  <2>4. note' = note
    BY <1>0, <1>10, <2>1 DEF DropRows, NoteSafe
  <2>5. Keys' = Keys
    BY <2>1 DEF Keys
  <2>6. NoteType'
    BY <1>0, <2>1, <2>2, <2>3, <2>4, <2>5 DEF NoteType
  <2>7. ResetIsFull'
    BY <1>0, <2>1, <2>2 DEF ResetIsFull
  <2>8. \A p : Real(p) \in Stored => Real(p) \in Stored'
    BY <2>3, KeysDiffer
  <2>9. \A p : Deduced(p) \in Stored => Deduced(p) \in Stored' \/ Real(p) \in Stored
    BY <2>3, KeysDiffer DEF Superseded
  <2>10. FullStores'
    <3>1. ASSUME sync.full, NEW p \in DOMAIN settled
          PROVE  Real(p) \in Stored' \/ Deduced(p) \in Stored'
      BY <1>0, <2>1, <2>8, <2>9, <3>1 DEF FullStores
    <3>2. sync.full => \A p \in surfaced : Real(p) \in Stored'
      BY <1>0, <2>1, <2>8 DEF FullStores
    <3> QED
      BY <2>1, <2>2, <3>1, <3>2 DEF FullStores
  <2>11. Outrun => Outrun'
    BY <2>4, <2>8 DEF Outrun
  <2>12. NoteSafe'
    BY <1>0, <2>1, <2>2, <2>4, <2>11 DEF NoteSafe
  <2> QED
    BY <2>6, <2>7, <2>10, <2>12 DEF NoteInvariant
<1>11. ASSUME Reattach
       PROVE  NoteInvariant'
  <2>1. /\ UNCHANGED <<rows, crashes, surfaced, settled, forceReset, joined>>
        /\ sync.at = "reattach" /\ sync' = NoSync
        /\ note' = Reattached(note)
    BY <1>11 DEF Reattach, world, flow
  <2>2. Stored' = Stored /\ Keys' = Keys
    BY <2>1 DEF Stored, Keys
  <2>3. ResetIsFull' /\ FullStores'
    BY <2>1 DEF ResetIsFull, FullStores, NoSync
  <2>4. SyncType' /\ sync'.got = {} /\ sync'.at = "idle"
    BY <2>1 DEF SyncType, NoSync
  <2>5. CASE note # Null /\ note.row \in Stored
    <3>1. note' = [row |-> note.row, lost |-> "not"]
      BY <1>0, <2>1, <2>5 DEF Reattached, NoteType
    <3>2. NoteType'
      BY <1>0, <2>1, <2>2, <2>4, <2>5, <3>1 DEF NoteType
    <3>3. NoteSafe'
      BY <2>4, <3>1 DEF NoteSafe
    <3> QED
      BY <2>3, <3>2, <3>3 DEF NoteInvariant
  <2>6. CASE ~(note # Null /\ note.row \in Stored)
    <3>1. note' = note
      BY <2>1, <2>6 DEF Reattached
    <3>2. NoteType'
      BY <1>0, <2>1, <2>2, <2>4, <3>1 DEF NoteType
    <3>3. ASSUME note # Null, note.lost = "wiped", crashes = 0, joined = 0
          PROVE  Outrun
      <4>1. CASE ~sync.reset
        BY <1>0, <3>3, <4>1 DEF NoteSafe
      <4>2. CASE sync.reset
        <5>1. sync.full
          BY <1>0, <2>1, <3>3, <4>2 DEF ResetIsFull
        <5>2. note.row \in Keys /\ note.row \notin Stored
          BY <1>0, <2>6, <3>3 DEF NoteType
        <5>3. PICK p \in DOMAIN settled : note.row = Deduced(p)
          BY <1>0, <2>1, <5>1, <5>2 DEF FullStores, Keys
        <5>4. Real(p) \in Stored
          BY <1>0, <2>1, <5>1, <5>2, <5>3 DEF FullStores
        <5> QED
          BY <1>0, <5>3, <5>4 DEF Outrun, NoteType
      <4> QED
        BY <4>1, <4>2
    <3>4. Outrun => Outrun'
      BY <2>2, <3>1 DEF Outrun
    <3>5. NoteSafe'
      BY <2>1, <2>4, <3>1, <3>3, <3>4 DEF NoteSafe
    <3> QED
      BY <2>3, <3>2, <3>5 DEF NoteInvariant
  <2> QED
    BY <2>5, <2>6
<1>12. ASSUME CrashLedger
       PROVE  NoteInvariant'
  <2>1. /\ UNCHANGED <<note, rows, surfaced, settled, joined>>
        /\ forceReset' = FALSE /\ sync' = NoSync /\ crashes' = crashes + 1
    BY <1>12 DEF CrashLedger, Dies, world
  <2>2. Stored' = Stored /\ Keys' = Keys
    BY <2>1 DEF Stored, Keys
  <2>3. NoteType'
    <3>1. SyncType' /\ sync'.got = {}
      BY <2>1 DEF SyncType, NoSync
    <3>2. crashes' \in Nat
      BY <1>0, <2>1 DEF NoteType
    <3> QED
      BY <1>0, <2>1, <2>2, <3>1, <3>2 DEF NoteType
  <2>4. ResetIsFull' /\ FullStores'
    BY <2>1 DEF ResetIsFull, FullStores, NoSync
  <2>5. crashes' # 0
    BY <1>0, <2>1 DEF NoteType
  <2>6. NoteSafe'
    BY <2>1, <2>5 DEF NoteSafe, NoSync
  <2> QED
    BY <2>3, <2>4, <2>6 DEF NoteInvariant
<1> QED
  BY <1>1, <1>2, <1>3, <1>4, <1>5, <1>6, <1>7, <1>8, <1>9, <1>10, <1>11, <1>12
     DEF LedgerNext, SyncStep

LEMMA NoteInvariantInit == LedgerInit => NoteInvariant
<1> SUFFICES ASSUME LedgerInit PROVE NoteInvariant
  OBVIOUS
<1>1. DOMAIN settled = {} /\ Stored = {}
  BY DEF LedgerInit, Stored
<1>2. NoteType
  BY <1>1 DEF LedgerInit, NoteType, SyncType, NoSync
<1>3. ResetIsFull /\ FullStores /\ NoteSafe
  BY DEF LedgerInit, ResetIsFull, FullStores, NoteSafe, NoSync
<1> QED
  BY <1>2, <1>3 DEF NoteInvariant

\* The note of the operator keeps its payout through every sync and every
\* reset, unless the daemon died, a reset was joined to a refresh, or a reset
\* was the first to see the record of a deduced payout: the scan moves a note
\* before it drops the row, and a full reset stores or deduces all that was
\* there.
THEOREM NoteFollowsHolds == LedgerSpec => []NoteFollows
<1>1. NoteInvariant => NoteFollows
  <2> SUFFICES ASSUME NoteInvariant, note # Null, sync.at = "idle",
                      note.lost # "not"
               PROVE  /\ note.lost = "wiped"
                      /\ \/ crashes > 0
                         \/ joined > 0
                         \/ /\ note.row[2] = "deduced"
                            /\ Real(note.row[1]) \in Stored
    BY Zenon DEF NoteFollows
  <2>1. note.lost = "wiped" /\ crashes \in Nat /\ joined \in Nat
    BY DEF NoteInvariant, NoteType
  <2>2. crashes = 0 /\ joined = 0 => Outrun
    BY <2>1 DEF NoteInvariant, NoteSafe
  <2>3. Outrun => note.row[2] = "deduced" /\ Real(note.row[1]) \in Stored
    BY KeysDiffer DEF Outrun
  <2> QED
    BY <2>1, <2>2, <2>3
<1>2. NoteInvariant /\ [LedgerNext]_ledgerVars => NoteInvariant'
  BY NoteInvariantNext
<1> QED
  BY <1>1, <1>2, NoteInvariantInit, PTL DEF LedgerSpec

-----------------------------------------------------------------------------
(* The payouts: types *)

LedgerTypes ==
    /\ NoteInvariant
    /\ ConfirmType
    /\ surfaced \subseteq OnChain
    /\ \A k \in Stored : rows[k] \in BOOLEAN
    /\ joined <= MaxJoined

LEMMA RowsStayFlags ==
    ASSUME LedgerTypes, [LedgerNext]_ledgerVars
    PROVE  \A k \in Stored' : rows'[k] \in BOOLEAN
<1>1. \A k \in Stored : rows[k] \in BOOLEAN
  BY DEF LedgerTypes
<1>2. CASE StoreRows \/ DeduceRows
  <2>1. sync.full \in BOOLEAN
    BY DEF LedgerTypes, ConfirmType, SyncType
  <2>2. PICK keys : rows' = Insert(keys, sync.full) \/ rows' = Insert(keys, TRUE)
    BY <1>2 DEF StoreRows, DeduceRows, Enriched
  <2>3. PICK enriched \in BOOLEAN : rows' = Insert(keys, enriched)
    BY <2>1, <2>2
  <2>4. ASSUME NEW k \in DOMAIN rows'
        PROVE  rows'[k] = (IF k \in Stored THEN rows[k] ELSE enriched)
    BY <2>3 DEF Insert
  <2>5. ASSUME NEW k \in DOMAIN rows' PROVE rows'[k] \in BOOLEAN
    <3>1. CASE k \in Stored
      BY <1>1, <2>4, <3>1
    <3>2. CASE k \notin Stored
      BY <2>4, <3>2
    <3> QED
      BY <3>1, <3>2
  <2> QED
    BY <2>5 DEF Stored
<1>3. CASE Wipe \/ DropRows \/ BaselinePayouts
  <2>1. CASE Wipe
    <3>1. DOMAIN rows' = {}
      BY <2>1 DEF Wipe
    <3> QED
      BY <3>1 DEF Stored
  <2>2. CASE DropRows
    <3>1. \E dropped : rows' = [k \in Stored \ dropped |-> rows[k]]
      BY <2>2 DEF DropRows
    <3> QED
      BY <1>1, <3>1 DEF Stored
  <2>3. CASE BaselinePayouts
    BY <2>3 DEF BaselinePayouts, Stored
  <2> QED
    BY <1>3, <2>1, <2>2, <2>3
<1>6. CASE MarkConfirmed
  <2>1. rows' = [k \in Stored |-> rows[k] \/ k \in confirming.rows]
    BY <1>6 DEF MarkConfirmed, Marked
  <2>2. \A k \in Stored : (rows[k] \/ k \in confirming.rows) \in BOOLEAN
    BY <1>1
  <2> QED
    BY <2>1, <2>2 DEF Stored
<1>4. CASE rows' = rows
  BY <1>1, <1>4 DEF Stored
<1>5. rows' = rows \/ StoreRows \/ DeduceRows \/ Wipe \/ DropRows \/ BaselinePayouts
        \/ MarkConfirmed
  BY DEF LedgerNext, Settle, Surface, GrowOlder, ADayLater, Annotate, ToggleConfirm,
         StartSync, RequestFull, HardReset, FetchFails, Fetched, SyncStep, RekeyNote,
         Reattach, BeginConfirm, Confirm, CrashLedger, ledgerVars
<1> QED
  BY <1>2, <1>3, <1>4, <1>5, <1>6

LEMMA LedgerTypesNext ==
    ASSUME LedgerTypes, [LedgerNext]_ledgerVars
    PROVE  LedgerTypes'
<1>1. NoteInvariant' /\ ConfirmType'
  BY NoteInvariantNext, ConfirmTypeInductive DEF LedgerTypes
<1>2. surfaced' \subseteq OnChain
  BY DEF LedgerTypes, LedgerNext, Settle, Surface, GrowOlder, ADayLater, Annotate,
         ToggleConfirm, StartSync, RequestFull, HardReset, FetchFails, Fetched, SyncStep,
         Wipe, StoreRows, DeduceRows, RekeyNote, DropRows, Reattach, BaselinePayouts,
         BeginConfirm, MarkConfirmed, Confirm, CrashLedger, world, ledgerVars
<1>3. joined' <= MaxJoined
  <2>1. joined' = joined \/ (joined < MaxJoined /\ joined' = joined + 1)
    BY DEF LedgerNext, Settle, Surface, GrowOlder, ADayLater, Annotate, ToggleConfirm,
           StartSync, RequestFull, HardReset, FetchFails, Fetched, SyncStep, Wipe,
           StoreRows, DeduceRows, RekeyNote, DropRows, Reattach, BaselinePayouts,
           BeginConfirm, MarkConfirmed, Confirm, CrashLedger, world, ledgerVars
  <2>2. joined \in Nat /\ MaxJoined \in Nat
    BY LedgerAssumption DEF LedgerTypes, ConfirmType
  <2> QED
    BY <2>1, <2>2 DEF LedgerTypes
<1> QED
  BY <1>1, <1>2, <1>3, RowsStayFlags DEF LedgerTypes

LEMMA LedgerTypesInit == LedgerInit => LedgerTypes
<1> SUFFICES ASSUME LedgerInit PROVE LedgerTypes
  OBVIOUS
<1>1. Stored = {} /\ surfaced = {} /\ joined = 0
  BY DEF LedgerInit, Stored
<1> QED
  BY <1>1, NoteInvariantInit, ConfirmTypeInit, LedgerAssumption DEF LedgerTypes

LEMMA LedgerTyped ==
    ASSUME LedgerTypes
    PROVE  LedgerType
<1>1. NoteType /\ ConfirmType
  BY DEF LedgerTypes, NoteInvariant
<1>2. Stored \subseteq (DOMAIN settled) \X {"real", "deduced"}
  BY <1>1 DEF NoteType, ConfirmType, Keys, Real, Deduced
<1>3. joined \in 0..MaxJoined
  BY <1>1, LedgerAssumption DEF LedgerTypes, ConfirmType
<1>4. \A p \in DOMAIN settled : p \in Payouts /\ settled[p] \in 0..2
  BY <1>1 DEF NoteType, ConfirmType
<1>5. surfaced \subseteq OnChain \cap DOMAIN settled
  BY <1>1 DEF LedgerTypes, NoteType
<1>6. sync.at \in {"idle", "fetch", "wipe", "store", "scan", "rekey", "drop", "reattach"}
  BY <1>1 DEF NoteType, SyncType
<1>7. note # Null => note.lost \in {"not", "wiped", "dropped"}
  BY <1>1 DEF NoteType
<1> QED
  BY <1>2, <1>3, <1>4, <1>5, <1>6, <1>7 DEF LedgerType, LedgerTypes

\* Whatever a sync finds, drops or wipes, and however often the daemon dies on
\* its way, the table has rows of settled payouts only, under one of their two
\* keys, and the detector has surfaced only settled ones
\* (deduced-payouts.ts:22-40, alert-evaluator.ts:1175-1196).
THEOREM LedgerTypeHolds == LedgerSpec => []LedgerType
<1> QED
  BY LedgerTypesInit, LedgerTypesNext, LedgerTyped, PTL DEF LedgerSpec

-----------------------------------------------------------------------------
(* Sums *)

\* A set of numbers that has 0 and every successor of its elements has all.
LEMMA SetInduction ==
    ASSUME NEW Good \in SUBSET Nat, 0 \in Good,
           \A k \in Nat : k \in Good => k + 1 \in Good
    PROVE  Good = Nat
<1> SUFFICES ASSUME NEW x \in Nat, x \notin Good PROVE FALSE
  OBVIOUS
<1> DEFINE bad == Nat \ Good
<1>1. bad \subseteq Nat /\ bad # {}
  OBVIOUS
<1>2. PICK k \in bad : \A j \in bad : ~(<<j, k>> \in OpToRel(<, Nat))
  <2> HIDE DEF bad
  <2> QED
    BY <1>1, NatLessThanWellFounded, WFMin
<1>3. k \in Nat /\ k # 0
  OBVIOUS
<1>4. k - 1 \in Nat /\ k - 1 < k /\ (k - 1) + 1 = k
  BY <1>3
<1>5. k - 1 \notin bad
  BY <1>2, <1>3, <1>4 DEF OpToRel
<1> QED
  BY <1>3, <1>4, <1>5

\* What bids of a list have consumed.
Total(list, ids) == MapThenSumSet(LAMBDA b : list[b].consumed, ids)

Pick(s) == CHOOSE x \in s : TRUE

\* One bid after the other.
Step(list, g, s) ==
    IF s = {} THEN 0 ELSE list[Pick(s)].consumed + g[s \ {Pick(s)}]

Adds(list, S, g) == g = [s \in SUBSET S |-> Step(list, g, s)]

LEMMA AdderExists ==
    ASSUME NEW list, NEW S, IsFiniteSet(S)
    PROVE  \E g : Adds(list, S, g)
<1> DEFINE Good(g, n) == \A s \in SUBSET S : Cardinality(s) <= n => g[s] = Step(list, g, s)
           Function(g) == g = [s \in SUBSET S |-> g[s]]
           reached == {n \in Nat : \E g : Function(g) /\ Good(g, n)}
<1>0. \A s \in SUBSET S : IsFiniteSet(s) /\ Cardinality(s) \in Nat
                          /\ (Cardinality(s) = 0 <=> s = {})
                          /\ Cardinality(s) <= Cardinality(S)
  BY FS_Subset, FS_CardinalityType, FS_EmptySet
<1>1. 0 \in reached
  <2> DEFINE g == [s \in SUBSET S |-> 0]
  <2>1. Function(g)
    OBVIOUS
  <2>2. ASSUME NEW s \in SUBSET S, Cardinality(s) <= 0 PROVE g[s] = Step(list, g, s)
    <3>1. s = {}
      BY <1>0, <2>2
    <3> QED
      BY <3>1 DEF Step
  <2> QED
    BY <2>1, <2>2
<1>2. ASSUME NEW n \in Nat, n \in reached PROVE n + 1 \in reached
  <2>1. PICK g : Function(g) /\ Good(g, n)
    BY <1>2
  <2> DEFINE h == [s \in SUBSET S |-> Step(list, g, s)]
  <2>2. Function(h)
    OBVIOUS
  <2>3. \A s \in SUBSET S : h[s] = Step(list, g, s)
    OBVIOUS
  <2> HIDE DEF h
  <2>4. ASSUME NEW s \in SUBSET S, Cardinality(s) <= n + 1
        PROVE  Step(list, g, s) = Step(list, h, s)
    <3>1. CASE s = {}
      BY <3>1 DEF Step
    <3>2. CASE s # {}
      <4> DEFINE r == s \ {Pick(s)}
      <4>1. Pick(s) \in s
        BY <3>2 DEF Pick
      <4>2. r \in SUBSET S /\ Cardinality(r) = Cardinality(s) - 1
        BY <1>0, <4>1, FS_RemoveElement
      <4>3. Cardinality(r) <= n
        BY <1>0, <2>4, <4>2
      <4>4. g[r] = h[r]
        <5> HIDE DEF r
        <5> QED
          BY <2>1, <2>3, <4>2, <4>3
      <4> QED
        BY <3>2, <4>4 DEF Step
    <3> QED
      BY <3>1, <3>2
  <2>5. Good(h, n + 1)
    BY <2>3, <2>4
  <2>6. n + 1 \in Nat /\ \E f : Function(f) /\ Good(f, n + 1)
    <3> HIDE DEF Good, Function
    <3> QED
      BY <2>2, <2>5
  <2> HIDE DEF Good, Function
  <2> QED
    BY <2>6
<1>3. Cardinality(S) \in reached
  <2>1. reached \in SUBSET Nat
    OBVIOUS
  <2> HIDE DEF reached
  <2>2. reached = Nat
    BY <1>1, <1>2, <2>1, SetInduction
  <2> QED
    BY <2>2, FS_CardinalityType
<1>4. PICK g : Function(g) /\ Good(g, Cardinality(S))
  BY <1>3
<1>5. \A s \in SUBSET S : g[s] = Step(list, g, s)
  BY <1>0, <1>4
<1>6. Adds(list, S, g)
  <2>1. g = [s \in SUBSET S |-> g[s]]
    BY <1>4
  <2> QED
    BY <1>5, <2>1 DEF Adds
<1> QED
  BY <1>6

LEMMA TotalAdds ==
    ASSUME NEW list, NEW S, IsFiniteSet(S)
    PROVE  \E g : Adds(list, S, g) /\ Total(list, S) = g[S]
<1> DEFINE adder == CHOOSE g : Adds(list, S, g)
<1>1. Total(list, S) = adder[S]
  BY DEF Total, MapThenSumSet, MapThenFoldSet, Adds, Step, Pick
<1>2. Adds(list, S, adder)
  BY AdderExists
<1> QED
  BY <1>1, <1>2

Priced(list, S) == \A b \in S : list[b].consumed \in Nat

\* The order does not matter.
LEMMA AdderLaws ==
    ASSUME NEW list, NEW S, IsFiniteSet(S), Priced(list, S),
           NEW g, Adds(list, S, g)
    PROVE  \A s \in SUBSET S :
              /\ g[s] \in Nat
              /\ \A y \in s : g[s] = list[y].consumed + g[s \ {y}]
<1> DEFINE Good(s) == g[s] \in Nat /\ \A y \in s : g[s] = list[y].consumed + g[s \ {y}]
           reached == {n \in Nat : \A s \in SUBSET S : Cardinality(s) <= n => Good(s)}
<1>0. \A s \in SUBSET S : /\ IsFiniteSet(s) /\ Cardinality(s) \in Nat
                          /\ Cardinality(s) = 0 <=> s = {}
                          /\ Cardinality(s) <= Cardinality(S)
                          /\ \A y \in s : Cardinality(s \ {y}) = Cardinality(s) - 1
  BY FS_Subset, FS_CardinalityType, FS_EmptySet, FS_RemoveElement
<1>1. \A s \in SUBSET S : g[s] = Step(list, g, s)
  BY DEF Adds
<1>2. 0 \in reached
  <2> SUFFICES ASSUME NEW s \in SUBSET S, Cardinality(s) <= 0 PROVE Good(s)
    OBVIOUS
  <2>1. s = {}
    BY <1>0
  <2>2. g[s] = 0
    BY <1>1, <2>1 DEF Step
  <2> QED
    BY <2>1, <2>2
<1>3. ASSUME NEW n \in Nat, n \in reached PROVE n + 1 \in reached
  <2> SUFFICES ASSUME NEW s \in SUBSET S, Cardinality(s) <= n + 1 PROVE Good(s)
    OBVIOUS
  <2>1. CASE s = {}
    <3>1. g[s] = 0
      BY <1>1, <2>1 DEF Step
    <3> QED
      BY <2>1, <3>1
  <2>2. CASE s # {}
    <3> DEFINE x == Pick(s)
    <3>1. x \in s
      BY <2>2 DEF Pick
    <3>2. \A y \in s : s \ {y} \in SUBSET S /\ Cardinality(s \ {y}) <= n
      BY <1>0
    <3>3. \A y \in s : Good(s \ {y})
      BY <1>3, <3>2
    <3>4. g[s] = list[x].consumed + g[s \ {x}]
      BY <1>1, <2>2 DEF Step
    <3>5. \A y \in s : list[y].consumed \in Nat
      BY DEF Priced
    <3> HIDE DEF x
    <3>6. g[s] \in Nat
      <4>1. list[x].consumed \in Nat
        BY <3>1, <3>5
      <4>2. g[s \ {x}] \in Nat
        BY <3>1, <3>3
      <4> QED
        BY <3>4, <4>1, <4>2
    <3>7. ASSUME NEW y \in s PROVE g[s] = list[y].consumed + g[s \ {y}]
      <4>1. CASE y = x
        BY <3>4, <4>1
      <4>2. CASE y # x
        <5> DEFINE r == (s \ {x}) \ {y}
        <5>1. r = (s \ {y}) \ {x}
          OBVIOUS
        <5>2. g[s \ {x}] = list[y].consumed + g[r]
          BY <3>1, <3>3, <4>2
        <5>3. g[s \ {y}] = list[x].consumed + g[r]
          BY <3>1, <3>3, <4>2, <5>1
        <5>4. r = (s \ {x}) \ {y} /\ y \in s \ {x}
          BY <4>2
        <5>5. r \in SUBSET S /\ Cardinality(r) <= n
          <6>1. Cardinality(s \ {x}) <= n /\ s \ {x} \in SUBSET S
            BY <3>1, <3>2
          <6>2. Cardinality(r) = Cardinality(s \ {x}) - 1
            BY <1>0, <5>4, <6>1
          <6>3. Cardinality(s \ {x}) \in Nat
            BY <1>0, <6>1
          <6> QED
            BY <6>1, <6>2, <6>3
        <5>6. g[r] \in Nat
          <6> HIDE DEF r
          <6> QED
            BY <1>3, <5>5
        <5> HIDE DEF r
        <5> QED
          BY <3>1, <3>4, <3>5, <5>2, <5>3, <5>6
      <4> QED
        BY <4>1, <4>2
    <3> QED
      BY <3>6, <3>7
  <2> QED
    BY <2>1, <2>2
<1>4. Cardinality(S) \in reached
  <2>1. reached \in SUBSET Nat
    OBVIOUS
  <2> HIDE DEF reached
  <2>2. reached = Nat
    BY <1>2, <1>3, <2>1, SetInduction
  <2> QED
    BY <2>2, FS_CardinalityType
<1> QED
  BY <1>0, <1>4

\* Adding up a part of the bids only needs to know those.
LEMMA AddersAgree ==
    ASSUME NEW list, NEW other, NEW S, NEW T, IsFiniteSet(S), T \subseteq S,
           Priced(list, S), \A b \in T : other[b].consumed = list[b].consumed,
           NEW g, Adds(list, S, g), NEW h, Adds(other, T, h)
    PROVE  \A s \in SUBSET T : g[s] = h[s]
<1> DEFINE reached == {n \in Nat : \A s \in SUBSET T : Cardinality(s) <= n => g[s] = h[s]}
<1>0. \A s \in SUBSET T : /\ IsFiniteSet(s) /\ Cardinality(s) \in Nat
                          /\ Cardinality(s) = 0 <=> s = {}
                          /\ Cardinality(s) <= Cardinality(S)
                          /\ \A y \in s : Cardinality(s \ {y}) = Cardinality(s) - 1
  BY FS_Subset, FS_CardinalityType, FS_EmptySet, FS_RemoveElement
<1>1. \A s \in SUBSET T : g[s] = Step(list, g, s) /\ h[s] = Step(other, h, s)
  BY DEF Adds
<1>2. 0 \in reached
  <2> SUFFICES ASSUME NEW s \in SUBSET T, Cardinality(s) <= 0 PROVE g[s] = h[s]
    OBVIOUS
  <2>1. s = {}
    BY <1>0
  <2> QED
    BY <1>1, <2>1 DEF Step
<1>3. ASSUME NEW n \in Nat, n \in reached PROVE n + 1 \in reached
  <2> SUFFICES ASSUME NEW s \in SUBSET T, Cardinality(s) <= n + 1 PROVE g[s] = h[s]
    OBVIOUS
  <2>1. CASE s = {}
    BY <1>1, <2>1 DEF Step
  <2>2. CASE s # {}
    <3>1. Pick(s) \in s
      BY <2>2 DEF Pick
    <3>2. s \ {Pick(s)} \in SUBSET T /\ Cardinality(s \ {Pick(s)}) <= n
      BY <1>0, <3>1
    <3>3. g[s \ {Pick(s)}] = h[s \ {Pick(s)}]
      BY <1>3, <3>2
    <3>4. other[Pick(s)].consumed = list[Pick(s)].consumed
      BY <3>1
    <3> QED
      BY <1>1, <2>2, <3>3, <3>4 DEF Step
  <2> QED
    BY <2>1, <2>2
<1>4. Cardinality(S) \in reached
  <2>1. reached \in SUBSET Nat
    OBVIOUS
  <2> HIDE DEF reached
  <2>2. reached = Nat
    BY <1>2, <1>3, <2>1, SetInduction
  <2> QED
    BY <2>2, FS_CardinalityType
<1> QED
  BY <1>0, <1>4

LEMMA AddersEqual ==
    ASSUME NEW list, NEW S, IsFiniteSet(S), Priced(list, S),
           NEW g, Adds(list, S, g), NEW h, Adds(list, S, h)
    PROVE  g[S] = h[S]
<1> DEFINE T == S
           same == list
<1>1. T \subseteq S /\ Adds(same, T, h) /\ \A b \in T : same[b].consumed = list[b].consumed
  OBVIOUS
<1> HIDE DEF T, same
<1>2. \A s \in SUBSET T : g[s] = h[s]
  BY <1>1, AddersAgree
<1> QED
  BY <1>2 DEF T

LEMMA TotalLaws ==
    ASSUME NEW list, NEW S, IsFiniteSet(S), Priced(list, S)
    PROVE  /\ Total(list, S) \in Nat
           /\ \A y \in S : Total(list, S) = list[y].consumed + Total(list, S \ {y})
<1>1. PICK g : Adds(list, S, g) /\ Total(list, S) = g[S]
  BY TotalAdds
<1>2. ASSUME NEW y \in S PROVE Total(list, S \ {y}) = g[S \ {y}]
  <2>1. IsFiniteSet(S \ {y})
    BY FS_RemoveElement
  <2>2. PICK h : Adds(list, S \ {y}, h) /\ Total(list, S \ {y}) = h[S \ {y}]
    BY <2>1, TotalAdds
  <2>3. S \ {y} \subseteq S /\ S \ {y} \in SUBSET (S \ {y})
    OBVIOUS
  <2>4. \A s \in SUBSET (S \ {y}) : g[s] = h[s]
    <3> DEFINE r == S \ {y}
               same == list
    <3>1. r \subseteq S /\ Adds(same, r, h)
      BY <2>2
    <3>2. \A b \in r : same[b].consumed = list[b].consumed
      OBVIOUS
    <3> HIDE DEF r, same
    <3>3. \A s \in SUBSET r : g[s] = h[s]
      BY <1>1, <3>1, <3>2, AddersAgree
    <3> QED
      BY <3>3 DEF r
  <2> QED
    BY <2>2, <2>3, <2>4
<1> QED
  BY <1>1, <1>2, AdderLaws

LEMMA TotalNone == ASSUME NEW list PROVE Total(list, {}) = 0
<1>1. PICK g : Adds(list, {}, g) /\ Total(list, {}) = g[{}]
  BY TotalAdds, FS_EmptySet
<1> QED
  BY <1>1 DEF Adds, Step

\* What the bids of the sum have consumed is all that it depends on.
LEMMA TotalSame ==
    ASSUME NEW list, NEW other, NEW S, IsFiniteSet(S), Priced(list, S),
           \A b \in S : other[b].consumed = list[b].consumed
    PROVE  Total(other, S) = Total(list, S)
<1>1. PICK g : Adds(list, S, g) /\ Total(list, S) = g[S]
  BY TotalAdds
<1>2. PICK h : Adds(other, S, h) /\ Total(other, S) = h[S]
  BY TotalAdds
<1> QED
  BY <1>1, <1>2, AddersAgree

\* More bids have consumed no less, and those that consumed nothing do not
\* count.
LEMMA TotalAtMost ==
    ASSUME NEW list, NEW U, IsFiniteSet(U), Priced(list, U),
           NEW S \in SUBSET U, NEW T \in SUBSET U,
           \A b \in S : list[b].consumed > 0 => b \in T
    PROVE  Total(list, S) <= Total(list, T)
<1> DEFINE Fits(s, t) == \A b \in s : list[b].consumed > 0 => b \in t
           reached == {n \in Nat : \A s, t \in SUBSET U :
                          Cardinality(s) <= n /\ Fits(s, t) => Total(list, s) <= Total(list, t)}
<1>0. \A s \in SUBSET U : /\ IsFiniteSet(s) /\ Priced(list, s) /\ Cardinality(s) \in Nat
                          /\ Cardinality(s) = 0 <=> s = {}
                          /\ Cardinality(s) <= Cardinality(U)
                          /\ \A y \in s : Cardinality(s \ {y}) = Cardinality(s) - 1
  <2>1. \A s \in SUBSET U : Priced(list, s)
    BY DEF Priced
  <2> QED
    BY <2>1, FS_Subset, FS_CardinalityType, FS_EmptySet, FS_RemoveElement
<1>1. \A s \in SUBSET U :
         /\ Total(list, s) \in Nat
         /\ \A y \in s : Total(list, s) = list[y].consumed + Total(list, s \ {y})
  BY <1>0, TotalLaws
<1>2. 0 \in reached
  <2> SUFFICES ASSUME NEW s \in SUBSET U, NEW t \in SUBSET U, Cardinality(s) <= 0
               PROVE  Total(list, s) <= Total(list, t)
    OBVIOUS
  <2>1. s = {}
    BY <1>0
  <2>2. Total(list, s) = 0
    BY <2>1, TotalNone
  <2> QED
    BY <1>1, <2>2
<1>3. ASSUME NEW n \in Nat, n \in reached PROVE n + 1 \in reached
  <2> SUFFICES ASSUME NEW s \in SUBSET U, NEW t \in SUBSET U, Cardinality(s) <= n + 1,
                      Fits(s, t)
               PROVE  Total(list, s) <= Total(list, t)
    OBVIOUS
  <2>1. CASE s = {}
    <3>1. Total(list, s) = 0
      BY <2>1, TotalNone
    <3> QED
      BY <1>1, <3>1
  <2>2. CASE s # {}
    <3>1. PICK y \in s : TRUE
      BY <2>2
    <3>2. /\ s \ {y} \in SUBSET U /\ t \ {y} \in SUBSET U
          /\ Cardinality(s \ {y}) <= n
      BY <1>0, <3>1
    <3>3. /\ Total(list, s) = list[y].consumed + Total(list, s \ {y})
          /\ Total(list, s \ {y}) \in Nat /\ Total(list, t \ {y}) \in Nat
          /\ Total(list, t) \in Nat /\ list[y].consumed \in Nat
      BY <1>0, <1>1, <3>1, <3>2 DEF Priced
    <3>4. CASE list[y].consumed = 0
      <4>1. Fits(s \ {y}, t)
        OBVIOUS
      <4>2. Total(list, s \ {y}) <= Total(list, t)
        BY <1>3, <3>2, <4>1
      <4> QED
        BY <3>3, <3>4, <4>2
    <3>5. CASE list[y].consumed > 0
      <4>1. Fits(s \ {y}, t \ {y}) /\ y \in t
        BY <3>1, <3>5
      <4>2. Total(list, s \ {y}) <= Total(list, t \ {y})
        BY <1>3, <3>2, <4>1
      <4>3. Total(list, t) = list[y].consumed + Total(list, t \ {y})
        BY <1>1, <4>1
      <4> QED
        BY <3>3, <4>2, <4>3
    <3> QED
      BY <3>3, <3>4, <3>5
  <2> QED
    BY <2>1, <2>2
<1>4. Cardinality(U) \in reached
  <2>1. reached \in SUBSET Nat
    OBVIOUS
  <2> HIDE DEF reached
  <2>2. reached = Nat
    BY <1>2, <1>3, <2>1, SetInduction
  <2> QED
    BY <2>2, FS_CardinalityType
<1>5. Cardinality(S) <= Cardinality(U) /\ Fits(S, T)
  BY <1>0
<1> QED
  BY <1>4, <1>5

-----------------------------------------------------------------------------
(* The order book *)

\* What is open of each ask, in the form the sums take.
Depths(book) == [i \in DOMAIN book |-> [consumed |-> UnmatchedPh(book[i])]]

\* The first k asks have been visited, in that order.
Visited(order, k) == {order[i] : i \in 1..k}

Walked(order, k) ==
    /\ rest = [i \in 1..(Len(asks) - k) |-> asks[order[k + i]]]
    /\ cumulative = Total(Depths(asks), Visited(order, k))

\* Enough up to the price, too little below it.
JustEnough(price) ==
    /\ Total(Depths(asks), UpTo(price)) >= needed
    /\ \A i \in DOMAIN asks :
          asks[i].price < price =>
              Total(Depths(asks), UpTo(asks[i].price)) < Larger(needed, 1)

BookInvariant ==
    /\ asks \in Seq(Ask) /\ needed \in Int
    /\ result = {} =>
          /\ \E order \in Ascending(asks) : \E k \in 0..Len(asks) : Walked(order, k)
          /\ cumulative < needed \/ cumulative = 0
    /\ result # {} => \E r : result = {r} /\ (~r.thin => JustEnough(r.price))

LEMMA BookFacts ==
    ASSUME NEW book \in Seq(Ask)
    PROVE  /\ Len(book) \in Nat /\ DOMAIN book = 1..Len(book)
           /\ IsFiniteSet(DOMAIN book)
           /\ \A i \in DOMAIN book : /\ book[i].price \in Int
                                     /\ book[i].available \in Int
                                     /\ book[i].matched \in Int
                                     /\ UnmatchedPh(book[i]) \in Nat
                                     /\ Depths(book)[i].consumed = UnmatchedPh(book[i])
           /\ Priced(Depths(book), DOMAIN book)
<1>1. Len(book) \in Nat /\ DOMAIN book = 1..Len(book)
  OBVIOUS
<1>2. IsFiniteSet(DOMAIN book)
  BY <1>1, FS_Interval
<1>3. ASSUME NEW i \in DOMAIN book
      PROVE  /\ book[i].price \in Int /\ book[i].available \in Int
             /\ book[i].matched \in Int /\ UnmatchedPh(book[i]) \in Nat
             /\ Depths(book)[i].consumed = UnmatchedPh(book[i])
  <2>1. book[i] \in Ask
    BY <1>1
  <2>2. book[i].price \in Int /\ book[i].available \in Int /\ book[i].matched \in Int
    BY <2>1 DEF Ask
  <2>3. UnmatchedPh(book[i]) \in Nat
    BY <2>2 DEF UnmatchedPh, Larger
  <2> QED
    BY <2>2, <2>3 DEF Depths
<1>4. Priced(Depths(book), DOMAIN book)
  BY <1>3 DEF Priced
<1> QED
  BY <1>1, <1>2, <1>3, <1>4

\* The units above what is matched are those the function counts.
LEMMA UnitsCounted ==
    ASSUME asks \in Seq(Ask), NEW i \in DOMAIN asks
    PROVE  Units(i) = UnmatchedPh(asks[i])
<1>1. asks[i].available \in Int /\ asks[i].matched \in Int
  BY BookFacts
<1>2. PICK a \in Int, m \in Int : a = asks[i].available /\ m = asks[i].matched
  BY <1>1
<1> DEFINE from == Larger(0, m) + 1
<1>3. from \in Int /\ {n \in 1..a : n > m} = from..a
  BY DEF Larger
<1>4. Cardinality(from..a) = IF from > a THEN 0 ELSE a - from + 1
  <2> HIDE DEF from
  <2> QED
    BY <1>3, FS_Interval
<1>5. UnmatchedPh(asks[i]) = Larger(0, Larger(0, a) - Larger(0, m))
  BY <1>2 DEF UnmatchedPh
<1>6. Larger(0, Larger(0, a) - Larger(0, m)) = IF from > a THEN 0 ELSE a - from + 1
  BY DEF Larger
<1> QED
  BY <1>2, <1>3, <1>4, <1>5, <1>6 DEF Units

LEMMA SupplyIsTotal ==
    ASSUME asks \in Seq(Ask), NEW ids \in SUBSET DOMAIN asks
    PROVE  Supply(ids) = Total(Depths(asks), ids)
<1>1. IsFiniteSet(ids) /\ Priced(Depths(asks), ids)
  BY BookFacts, FS_Subset DEF Priced
<1>2. \A i \in ids : Units(i) = Depths(asks)[i].consumed
  BY UnitsCounted, BookFacts
<1> DEFINE Count(g, s) == IF s = {} THEN 0 ELSE Units(Pick(s)) + g[s \ {Pick(s)}]
           Counts(g) == g = [s \in SUBSET ids |-> Count(g, s)]
           counter == CHOOSE g : Counts(g)
<1>3. Supply(ids) = counter[ids]
  BY DEF Supply, MapThenSumSet, MapThenFoldSet, Pick
<1>4. ASSUME NEW g PROVE Counts(g) <=> Adds(Depths(asks), ids, g)
  <2>1. \A s \in SUBSET ids : s # {} => Pick(s) \in ids
    BY DEF Pick
  <2>2. \A s \in SUBSET ids : Count(g, s) = Step(Depths(asks), g, s)
    BY <1>2, <2>1 DEF Step
  <2>3. [s \in SUBSET ids |-> Count(g, s)] = [s \in SUBSET ids |-> Step(Depths(asks), g, s)]
    BY <2>2
  <2> QED
    BY <2>3 DEF Adds
<1>5. Adds(Depths(asks), ids, counter)
  <2>1. \E g : Counts(g)
    <3> HIDE DEF Counts
    <3> QED
      BY <1>1, <1>4, AdderExists
  <2>2. Counts(counter)
    <3> HIDE DEF Counts
    <3> QED
      BY <2>1
  <2> HIDE DEF Counts, counter
  <2> QED
    BY <1>4, <2>2
<1>6. PICK g : Adds(Depths(asks), ids, g) /\ Total(Depths(asks), ids) = g[ids]
  BY <1>1, TotalAdds
<1>7. counter[ids] = g[ids]
  <2>1. PICK c : c = counter
    OBVIOUS
  <2>2. Adds(Depths(asks), ids, c)
    <3> HIDE DEF counter
    <3> QED
      BY <1>5, <2>1
  <2>3. c[ids] = g[ids]
    BY <1>1, <1>6, <2>2, AddersEqual
  <2> HIDE DEF counter
  <2> QED
    BY <2>1, <2>3
<1> HIDE DEF counter
<1> QED
  BY <1>3, <1>6, <1>7

LEMMA OpenFacts ==
    ASSUME NEW book \in Seq(Ask), NEW S \in SUBSET DOMAIN book, NEW T \in SUBSET DOMAIN book
    PROVE  /\ Total(Depths(book), S) \in Nat
           /\ S \subseteq T => Total(Depths(book), S) <= Total(Depths(book), T)
           /\ \A i \in DOMAIN book \ S :
                 Total(Depths(book), S \cup {i}) = UnmatchedPh(book[i]) + Total(Depths(book), S)
<1>1. /\ IsFiniteSet(DOMAIN book) /\ Priced(Depths(book), DOMAIN book)
      /\ \A U \in SUBSET DOMAIN book : IsFiniteSet(U) /\ Priced(Depths(book), U)
  BY BookFacts, FS_Subset DEF Priced
<1>2. S \subseteq T => Total(Depths(book), S) <= Total(Depths(book), T)
  BY <1>1, TotalAtMost
<1>3. ASSUME NEW i \in DOMAIN book \ S
      PROVE  Total(Depths(book), S \cup {i}) = UnmatchedPh(book[i]) + Total(Depths(book), S)
  <2> DEFINE more == S \cup {i}
  <2>1. more \in SUBSET DOMAIN book /\ i \in more /\ more \ {i} = S
    OBVIOUS
  <2>2. Depths(book)[i].consumed = UnmatchedPh(book[i])
    BY BookFacts
  <2> HIDE DEF more
  <2>3. Total(Depths(book), more) = UnmatchedPh(book[i]) + Total(Depths(book), S)
    BY <1>1, <2>1, <2>2, TotalLaws
  <2> QED
    BY <2>3 DEF more
<1> QED
  BY <1>1, <1>2, <1>3, TotalLaws

\* No ask comes twice.
LEMMA AscendingFacts ==
    ASSUME NEW book \in Seq(Ask), NEW order \in Ascending(book)
    PROVE  /\ order \in [DOMAIN book -> DOMAIN book]
           /\ \A i, j \in DOMAIN book : order[i] = order[j] => i = j
           /\ \A i \in DOMAIN book : \E j \in DOMAIN book : order[j] = i
           /\ \A i, j \in DOMAIN book : i < j => book[order[i]].price <= book[order[j]].price
BY DEF Ascending, Bijection, Injection, Surjection, IsInjective

\* One ask further on.
LEMMA OneFurther ==
    ASSUME asks \in Seq(Ask), NEW order \in Ascending(asks), NEW k \in 0..Len(asks),
           Walked(order, k), rest # <<>>
    PROVE  /\ k + 1 \in 0..Len(asks) /\ order[k + 1] \in DOMAIN asks
           /\ Head(rest) = asks[order[k + 1]]
           /\ Tail(rest) = [i \in 1..(Len(asks) - (k + 1)) |-> asks[order[k + 1 + i]]]
           /\ Total(Depths(asks), Visited(order, k + 1))
                = cumulative + UnmatchedPh(Head(rest))
           /\ \A j \in 1..k : asks[order[j]].price <= Head(rest).price
           /\ \A j \in (k + 2)..Len(asks) : asks[order[j]].price >= Head(rest).price
           /\ Visited(order, k) \subseteq DOMAIN asks /\ Visited(order, k + 1) \subseteq DOMAIN asks
           /\ cumulative \in Nat /\ UnmatchedPh(Head(rest)) \in Nat
<1>1. /\ Len(asks) \in Nat /\ DOMAIN asks = 1..Len(asks)
      /\ \A i \in DOMAIN asks : UnmatchedPh(asks[i]) \in Nat
  BY BookFacts
<1>2. PICK L \in Nat : L = Len(asks)
  BY <1>1
<1>3. /\ order \in [1..L -> 1..L]
      /\ \A i, j \in 1..L : order[i] = order[j] => i = j
      /\ \A i, j \in 1..L : i < j => asks[order[i]].price <= asks[order[j]].price
  <2>1. /\ order \in [DOMAIN asks -> DOMAIN asks]
        /\ \A i, j \in DOMAIN asks : order[i] = order[j] => i = j
        /\ \A i, j \in DOMAIN asks : i < j => asks[order[i]].price <= asks[order[j]].price
    BY AscendingFacts
  <2>2. DOMAIN asks = 1..L
    BY <1>1, <1>2
  <2> QED
    BY <2>1, <2>2
<1>4. /\ rest = [i \in 1..(L - k) |-> asks[order[k + i]]]
      /\ cumulative = Total(Depths(asks), Visited(order, k))
  BY <1>2 DEF Walked
<1>5. k \in Nat /\ k <= L /\ L - k \in Nat
  BY <1>2
<1>6. rest \in Seq(Ask) /\ Len(rest) = L - k /\ L - k # 0
  <2>1. \A i \in 1..(L - k) : k + i \in 1..L
    BY <1>5
  <2>2. \A i \in 1..(L - k) : asks[order[k + i]] \in Ask
    BY <1>1, <1>2, <1>3, <2>1
  <2> DEFINE f == [i \in 1..(L - k) |-> asks[order[k + i]]]
  <2>3. f \in Seq(Ask) /\ Len(f) = L - k
    BY <1>5, <2>2
  <2>4. L - k = 0 => f = <<>>
    OBVIOUS
  <2>5. rest = f
    BY <1>4
  <2> HIDE DEF f
  <2>6. L - k # 0
    BY <2>4, <2>5
  <2> QED
    BY <2>3, <2>5, <2>6
<1>7. k + 1 \in 1..L /\ k + 1 \in Nat /\ order[k + 1] \in 1..L
  <2>1. k + 1 \in 1..L /\ k + 1 \in Nat
    BY <1>5, <1>6
  <2>2. order \in [1..L -> 1..L]
    BY <1>3
  <2> QED
    BY <2>1, <2>2
<1>8. Head(rest) = asks[order[k + 1]]
  BY <1>4, <1>5, <1>6
<1>9. Tail(rest) = [i \in 1..(L - (k + 1)) |-> asks[order[k + 1 + i]]]
  <2>0. PICK s \in Seq(Ask), m \in Nat : s = rest /\ m = L - k - 1 /\ Len(s) = m + 1
    BY <1>5, <1>6
  <2>1. /\ Len(Tail(rest)) = L - k - 1
        /\ \A i \in 1..(L - k - 1) : Tail(rest)[i] = rest[i + 1]
        /\ Tail(rest) = [i \in 1..(L - k - 1) |-> Tail(rest)[i]]
    <3>1. Tail(s) \in Seq(Ask) /\ Len(Tail(s)) = m
      BY <2>0
    <3>2. \A i \in 1..m : Tail(s)[i] = s[i + 1]
      BY <2>0
    <3>3. Tail(s) = [i \in 1..Len(Tail(s)) |-> Tail(s)[i]]
      <4> DEFINE t == Tail(s)
      <4>1. t \in Seq(Ask)
        BY <3>1
      <4> HIDE DEF t
      <4>2. t = [i \in 1..Len(t) |-> t[i]]
        BY <4>1
      <4> QED
        BY <4>2 DEF t
    <3> QED
      BY <2>0, <3>1, <3>2, <3>3
  <2>2. L - (k + 1) = L - k - 1
    BY <1>5
  <2>3. ASSUME NEW i \in 1..(L - k - 1) PROVE Tail(rest)[i] = asks[order[k + 1 + i]]
    <3>1. i + 1 \in 1..(L - k) /\ k + (i + 1) = k + 1 + i
      BY <1>5, <2>3
    <3>2. rest[i + 1] = asks[order[k + (i + 1)]]
      BY <1>4, <3>1
    <3> QED
      BY <2>1, <3>1, <3>2
  <2>4. Tail(rest) = [i \in 1..(L - k - 1) |-> asks[order[k + 1 + i]]]
    BY <2>1, <2>3
  <2> QED
    BY <2>2, <2>4
<1>10. /\ Visited(order, k + 1) = Visited(order, k) \cup {order[k + 1]}
       /\ order[k + 1] \notin Visited(order, k)
       /\ Visited(order, k) \subseteq 1..L
  <2>1. 1..(k + 1) = 1..k \cup {k + 1} /\ k + 1 \notin 1..k /\ 1..k \subseteq 1..L
    BY <1>5
  <2>2. Visited(order, k + 1) = Visited(order, k) \cup {order[k + 1]}
    BY <2>1 DEF Visited
  <2>3. ASSUME NEW i \in 1..k PROVE order[i] \in 1..L /\ order[i] # order[k + 1]
    <3>1. i \in 1..L /\ i # k + 1
      BY <2>1
    <3> QED
      BY <1>3, <1>7, <3>1
  <2> QED
    BY <2>2, <2>3 DEF Visited
<1>11. /\ Total(Depths(asks), Visited(order, k + 1)) = UnmatchedPh(Head(rest)) + cumulative
       /\ cumulative \in Nat /\ UnmatchedPh(Head(rest)) \in Nat
  <2>1. Visited(order, k) \in SUBSET DOMAIN asks /\ order[k + 1] \in DOMAIN asks \ Visited(order, k)
    BY <1>1, <1>2, <1>7, <1>10
  <2> QED
    BY <1>1, <1>4, <1>8, <1>10, <2>1, OpenFacts
<1>12. /\ \A j \in 1..k : asks[order[j]].price <= Head(rest).price
       /\ \A j \in (k + 2)..L : asks[order[j]].price >= Head(rest).price
  <2>1. \A j \in 1..L : asks[order[j]].price \in Int
    BY <1>1, <1>2, <1>3, BookFacts
  <2>2. \A j \in 1..k : j \in 1..L /\ j < k + 1
    BY <1>5
  <2>3. \A j \in (k + 2)..L : j \in 1..L /\ k + 1 < j
    BY <1>5
  <2> QED
    BY <1>3, <1>7, <1>8, <2>1, <2>2, <2>3
<1>13. Total(Depths(asks), Visited(order, k + 1)) = cumulative + UnmatchedPh(Head(rest))
  BY <1>11
<1>14. k + 1 \in 0..Len(asks) /\ order[k + 1] \in DOMAIN asks
  BY <1>1, <1>2, <1>7
<1>15. Visited(order, k) \subseteq DOMAIN asks /\ Visited(order, k + 1) \subseteq DOMAIN asks
  BY <1>1, <1>2, <1>7, <1>10
<1> QED
  BY <1>2, <1>8, <1>9, <1>11, <1>12, <1>13, <1>14, <1>15

LEMMA BookStarts == BookInit => BookInvariant
<1> SUFFICES ASSUME BookInit PROVE BookInvariant
  OBVIOUS
<1>1. asks \in Seq(Ask) /\ needed \in Int /\ cumulative = 0 /\ result = {}
  BY BookAssumption DEF BookInit
<1>2. PICK order \in Ascending(asks) : rest = [i \in DOMAIN asks |-> asks[order[i]]]
  BY DEF BookInit
<1>3. Walked(order, 0)
  <2>1. Len(asks) \in Nat /\ DOMAIN asks = 1..Len(asks)
    BY <1>1, BookFacts
  <2>2. Visited(order, 0) = {}
    BY DEF Visited
  <2>3. rest = [i \in 1..(Len(asks) - 0) |-> asks[order[0 + i]]]
    BY <1>2, <2>1
  <2> QED
    BY <1>1, <2>2, <2>3, TotalNone DEF Walked
<1>4. 0 \in 0..Len(asks)
  BY <1>1, BookFacts
<1> QED
  BY <1>1, <1>3, <1>4 DEF BookInvariant

LEMMA BookStep ==
    ASSUME BookInvariant, [BookNext]_bookVars
    PROVE  BookInvariant'
<1>1. asks \in Seq(Ask) /\ needed \in Int
  BY DEF BookInvariant
<1>2. CASE UNCHANGED bookVars
  <2>1. UNCHANGED <<asks, needed, rest, cumulative, result>>
    BY <1>2 DEF bookVars
  <2>2. \A order, k : Walked(order, k)' <=> Walked(order, k)
    BY <2>1 DEF Walked
  <2>3. \A price : JustEnough(price)' <=> JustEnough(price)
    BY <2>1 DEF JustEnough, UpTo
  <2> QED
    BY <2>1, <2>2, <2>3 DEF BookInvariant
<1>3. CASE SkipAsk
  <2>1. /\ UNCHANGED <<asks, needed, cumulative, result>>
        /\ result = {} /\ rest # <<>> /\ UnmatchedPh(Head(rest)) = 0
        /\ rest' = Tail(rest)
    BY <1>3 DEF SkipAsk
  <2>2. PICK order \in Ascending(asks) : \E k \in 0..Len(asks) : Walked(order, k)
    BY <2>1 DEF BookInvariant
  <2>3. PICK k \in 0..Len(asks) : Walked(order, k)
    BY <2>2
  <2>4. /\ k + 1 \in 0..Len(asks)
        /\ Tail(rest) = [i \in 1..(Len(asks) - (k + 1)) |-> asks[order[k + 1 + i]]]
        /\ Total(Depths(asks), Visited(order, k + 1)) = cumulative + UnmatchedPh(Head(rest))
        /\ cumulative \in Nat
    BY <1>1, <2>1, <2>3, OneFurther
  <2>5. Total(Depths(asks), Visited(order, k + 1)) = cumulative
    BY <2>1, <2>4
  <2>6. PICK n \in 0..Len(asks) : n = k + 1
    BY <2>4
  <2>7. Walked(order, n)'
    BY <2>1, <2>4, <2>5, <2>6 DEF Walked
  <2>8. cumulative < needed \/ cumulative = 0
    BY <2>1 DEF BookInvariant
  <2> QED
    BY <1>1, <2>1, <2>7, <2>8 DEF BookInvariant
<1>4. CASE TakeAsk
  <2>1. /\ UNCHANGED <<asks, needed>>
        /\ result = {} /\ rest # <<>> /\ UnmatchedPh(Head(rest)) > 0
        /\ rest' = Tail(rest)
        /\ cumulative' = cumulative + UnmatchedPh(Head(rest))
        /\ lastNonZero' = Head(rest).price
        /\ result' = IF DeepEnough(cumulative')
                     THEN {[price |-> lastNonZero', thin |-> FALSE]} ELSE {}
    BY <1>4 DEF TakeAsk
  <2>2. PICK order \in Ascending(asks) : \E k \in 0..Len(asks) : Walked(order, k)
    BY <2>1 DEF BookInvariant
  <2>3. PICK k \in 0..Len(asks) : Walked(order, k)
    BY <2>2
  <2>4. /\ k + 1 \in 0..Len(asks) /\ order[k + 1] \in DOMAIN asks
        /\ Head(rest) = asks[order[k + 1]]
        /\ Tail(rest) = [i \in 1..(Len(asks) - (k + 1)) |-> asks[order[k + 1 + i]]]
        /\ Total(Depths(asks), Visited(order, k + 1)) = cumulative + UnmatchedPh(Head(rest))
        /\ \A j \in 1..k : asks[order[j]].price <= Head(rest).price
        /\ \A j \in (k + 2)..Len(asks) : asks[order[j]].price >= Head(rest).price
        /\ Visited(order, k) \subseteq DOMAIN asks /\ Visited(order, k + 1) \subseteq DOMAIN asks
        /\ cumulative \in Nat /\ UnmatchedPh(Head(rest)) \in Nat
    BY <1>1, <2>1, <2>3, OneFurther
  <2>5. CASE DeepEnough(cumulative')
    <3>1. PICK price : price = Head(rest).price
      OBVIOUS
    <3>2. result' = {[price |-> price, thin |-> FALSE]}
      BY <2>1, <2>5, <3>1
    <3>3. /\ Len(asks) \in Nat /\ DOMAIN asks = 1..Len(asks) /\ price \in Int
          /\ \A i \in DOMAIN asks : asks[i].price \in Int
          /\ k \in Nat
      BY <1>1, <2>4, <3>1, BookFacts
    <3>4. Total(Depths(asks), UpTo(price)) >= needed
      <4>1. Visited(order, k + 1) \subseteq UpTo(price)
        <5>1. \A j \in 1..(k + 1) : j \in 1..k \/ j = k + 1
          BY <3>3
        <5>2. \A j \in 1..(k + 1) : asks[order[j]].price <= price
          <6>1. \A j \in 1..k : asks[order[j]].price <= price
            BY <2>4, <3>1
          <6>2. asks[order[k + 1]].price <= price
            <7>1. asks[order[k + 1]].price = price
              BY <2>4, <3>1
            <7>2. \A p \in Int : p <= p
              OBVIOUS
            <7> QED
              BY <3>3, <7>1, <7>2
          <6> QED
            BY <5>1, <6>1, <6>2
        <5> QED
          BY <2>4, <5>2 DEF Visited, UpTo
      <4>2. UpTo(price) \in SUBSET DOMAIN asks
        BY DEF UpTo
      <4>3. /\ Total(Depths(asks), Visited(order, k + 1)) <= Total(Depths(asks), UpTo(price))
            /\ Total(Depths(asks), UpTo(price)) \in Nat
        BY <1>1, <2>4, <4>1, <4>2, OpenFacts
      <4>4. Total(Depths(asks), Visited(order, k + 1)) >= needed
        BY <2>1, <2>4, <2>5 DEF DeepEnough
      <4>5. Total(Depths(asks), Visited(order, k + 1)) \in Nat
        BY <2>4
      <4> QED
        BY <1>1, <4>3, <4>4, <4>5
    <3>5. ASSUME NEW i \in DOMAIN asks, asks[i].price < price
          PROVE  Total(Depths(asks), UpTo(asks[i].price)) < Larger(needed, 1)
      <4>1. UpTo(asks[i].price) \subseteq Visited(order, k)
        <5> SUFFICES ASSUME NEW c \in DOMAIN asks, asks[c].price <= asks[i].price
                     PROVE  c \in Visited(order, k)
          BY DEF UpTo
        <5>1. PICK j \in DOMAIN asks : order[j] = c
          BY <1>1, AscendingFacts
        <5>2. ~(asks[c].price >= price) /\ asks[c].price # price
          BY <3>3, <3>5
        <5>3. j # k + 1
          BY <2>4, <3>1, <5>1, <5>2
        <5>4. j \notin (k + 2)..Len(asks)
          <6>1. \A i1 \in (k + 2)..Len(asks) : asks[order[i1]].price >= price
            BY <2>4, <3>1
          <6> QED
            BY <5>1, <5>2, <6>1
        <5>5. j \in 1..k
          BY <3>3, <5>3, <5>4
        <5> QED
          BY <5>1, <5>5 DEF Visited
      <4>2. UpTo(asks[i].price) \in SUBSET DOMAIN asks
        BY DEF UpTo
      <4>3. /\ Total(Depths(asks), UpTo(asks[i].price)) <= Total(Depths(asks), Visited(order, k))
            /\ Total(Depths(asks), UpTo(asks[i].price)) \in Nat
        BY <1>1, <2>4, <4>1, <4>2, OpenFacts
      <4>4. cumulative = Total(Depths(asks), Visited(order, k))
        BY <2>3 DEF Walked
      <4>5. cumulative < needed \/ cumulative = 0
        BY <2>1 DEF BookInvariant
      <4>6. cumulative < Larger(needed, 1) /\ Larger(needed, 1) \in Int
        BY <1>1, <2>4, <4>5 DEF Larger
      <4> QED
        BY <2>4, <4>3, <4>4, <4>6
    <3>6. JustEnough(price)'
      BY <2>1, <3>4, <3>5 DEF JustEnough, UpTo
    <3>7. \E r : result' = {r} /\ (~r.thin => JustEnough(r.price)')
      <4>1. PICK r : r = [price |-> price, thin |-> FALSE]
        OBVIOUS
      <4>2. result' = {r} /\ r.price = price
        BY <3>2, <4>1
      <4>3. JustEnough(r.price)'
        BY <3>6, <4>2
      <4> QED
        BY <4>2, <4>3
    <3>8. result' # {}
      BY <3>2
    <3> QED
      BY <1>1, <2>1, <3>7, <3>8 DEF BookInvariant
  <2>6. CASE ~DeepEnough(cumulative')
    <3>1. result' = {} /\ cumulative' < needed
      BY <1>1, <2>1, <2>4, <2>6 DEF DeepEnough
    <3>2. PICK n \in 0..Len(asks) : n = k + 1
      BY <2>4
    <3>3. Walked(order, n)'
      BY <2>1, <2>4, <3>2 DEF Walked
    <3> QED
      BY <1>1, <2>1, <3>1, <3>3 DEF BookInvariant
  <2> QED
    BY <2>5, <2>6
<1>5. CASE RunOut
  <2>1. /\ UNCHANGED <<asks, needed>>
        /\ result' = {[price |-> lastNonZero, thin |-> TRUE]}
    BY <1>5 DEF RunOut
  <2>2. PICK r : r = [price |-> lastNonZero, thin |-> TRUE]
    OBVIOUS
  <2>3. result' = {r} /\ r.thin /\ result' # {}
    BY <2>1, <2>2
  <2> QED
    BY <1>1, <2>1, <2>3 DEF BookInvariant
<1> QED
  BY <1>2, <1>3, <1>4, <1>5 DEF BookNext

\* For every book and every depth, the price that is returned is the cheapest
\* that reaches the depth (cheapestAskForDepth).
THEOREM CheapestDeepEnoughHolds == BookSpec => []CheapestDeepEnough
<1>1. BookInvariant => CheapestDeepEnough
  <2> SUFFICES ASSUME BookInvariant, Returned, ~Answer.thin
               PROVE  /\ Supply(UpTo(Answer.price)) >= needed
                      /\ \A i \in DOMAIN asks :
                            asks[i].price < Answer.price =>
                                Supply(UpTo(asks[i].price)) < Larger(needed, 1)
    BY DEF CheapestDeepEnough
  <2>1. PICK r : result = {r} /\ (~r.thin => JustEnough(r.price))
    BY DEF BookInvariant, Returned
  <2>2. Answer = r
    BY <2>1 DEF Answer
  <2>3. JustEnough(r.price)
    BY <2>1, <2>2
  <2>4. \A price : Supply(UpTo(price)) = Total(Depths(asks), UpTo(price))
    <3>1. \A price : UpTo(price) \in SUBSET DOMAIN asks
      BY DEF UpTo
    <3> QED
      BY <3>1, SupplyIsTotal DEF BookInvariant
  <2> QED
    BY <2>2, <2>3, <2>4 DEF JustEnough
<1> QED
  BY <1>1, BookStarts, BookStep, PTL DEF BookSpec

-----------------------------------------------------------------------------
(* The lifetime spend *)

\* The ended bids that count.
CountedBids == {b \in Terminal : bids[b].consumed > 0}

Idling == {b \in DOMAIN bids : bids[b].current \/ bids[b].consumed = 0}

\* Every older bid that counts is in the set too.
ClosedBelow(ids) == \A b \in ids : \A a \in CountedBids : a < b => a \in ids

BidsType ==
    /\ bids \in Seq([current : BOOLEAN, consumed : Nat])
    /\ \A a, b \in DOMAIN bids : a < b => ~bids[a].current
    /\ Uncounted < PageSize
    /\ closedCache \subseteq CountedBids

PagingType ==
    paging.at # "idle" =>
        /\ paging = [at |-> paging.at, cached |-> paging.cached,
                     known |-> paging.known, new |-> paging.new,
                     active |-> paging.active, offset |-> paging.offset,
                     page |-> paging.page, stored |-> paging.stored,
                     started |-> paging.started, due |-> paging.due]
        /\ {paging.cached, paging.new, paging.stored, paging.started} \subseteq Nat
        /\ paging.offset \in 0..Len(bids)
        /\ paging.started \in 0..Len(bids)
        /\ paging.known \subseteq CountedBids
        /\ paging.cached + paging.new = Total(bids, paging.known)
        /\ paging.at = "store" => paging.page = Page(paging.offset)

\* A walk has in hand what it has stored, which nobody has taken away.
Untorn ==
    ~torn =>
        /\ paging.at = "idle" \/ paging.new = 0 => ClosedBelow(closedCache)
        /\ paging.at # "idle" => closedCache = paging.known

Items == {paging.page[i] : i \in DOMAIN paging.page}

\* The oldest bid of the page.
Oldest == Len(bids) + 1 - paging.offset - Len(paging.page)

\* Down to low, what counts is known, but for the exceptions: those bids
\* that had ended when the walk began, and those older than a known one; and
\* so is what is older than a known bid below low.
KnownDownTo(low, exceptions, ended) ==
    /\ \A b \in paging.known : \A a \in CountedBids :
          a < b /\ (b < low \/ a >= low) => a \in paging.known \cup exceptions
    /\ \A a \in ended \cap CountedBids :
          a >= low => a \in paging.known \cup exceptions

\* The next page begins no later than just below low, and low is so far down
\* that what a page shows again is no more than what was placed meanwhile.
Reaches(low) ==
    /\ low - 1 <= Len(bids) - paging.offset
    /\ low + paging.offset >= paging.started + 1

WalkCovers(ended) ==
    /\ paging.at = "list" =>
          \E low \in 1..(Len(bids) + 1) : KnownDownTo(low, {}, ended) /\ Reaches(low)
    /\ paging.at = "store" =>
          /\ KnownDownTo(Oldest, Items, ended)
          /\ paging.stored = 0 /\ ToStore = {} /\ Len(paging.page) = PageSize =>
                \A a \in CountedBids : a < Oldest => a \in paging.known

WalkInvariant ==
    paging.at # "idle" =>
        \E ended \in SUBSET Terminal :
            /\ paging.due = Total(bids, ended)
            /\ ~torn => WalkCovers(ended)

ResultSound ==
    spend # Null =>
        /\ spend.closed \in Nat /\ spend.due \in Nat
        /\ spend.closed <= Total(bids, Terminal)
        /\ ~torn => spend.closed >= spend.due

SpendInvariant ==
    /\ BidsType
    /\ PagingType
    /\ torn \in BOOLEAN
    /\ Untorn
    /\ WalkInvariant
    /\ ResultSound

LEMMA ListFacts ==
    ASSUME NEW list \in Seq([current : BOOLEAN, consumed : Nat])
    PROVE  /\ Len(list) \in Nat /\ DOMAIN list = 1..Len(list)
           /\ IsFiniteSet(DOMAIN list)
           /\ \A b \in DOMAIN list : /\ list[b] \in [current : BOOLEAN, consumed : Nat]
                                     /\ list[b].current \in BOOLEAN
                                     /\ list[b].consumed \in Nat
           /\ Priced(list, DOMAIN list)
<1>1. Len(list) \in Nat /\ DOMAIN list = 1..Len(list)
  OBVIOUS
<1>2. IsFiniteSet(DOMAIN list)
  BY <1>1, FS_Interval
<1>3. \A b \in DOMAIN list : list[b] \in [current : BOOLEAN, consumed : Nat]
  <2> DEFINE Record == [current : BOOLEAN, consumed : Nat]
  <2>1. list \in Seq(Record)
    OBVIOUS
  <2> HIDE DEF Record
  <2>2. \A b \in 1..Len(list) : list[b] \in Record
    BY <2>1
  <2> QED
    BY <1>1, <2>2 DEF Record
<1> QED
  BY <1>1, <1>2, <1>3 DEF Priced

LEMMA SpentIsTotal ==
    ASSUME NEW ids
    PROVE  Spent(ids) = Total(bids, ids)
BY DEF Spent, Total

LEMMA TotalFacts ==
    ASSUME BidsType, NEW S \in SUBSET DOMAIN bids, NEW T \in SUBSET DOMAIN bids
    PROVE  /\ Total(bids, S) \in Nat
           /\ (\A b \in S : bids[b].consumed > 0 => b \in T) => Total(bids, S) <= Total(bids, T)
           /\ \A b \in S : Total(bids, S) = bids[b].consumed + Total(bids, S \ {b})
<1>1. /\ IsFiniteSet(DOMAIN bids) /\ Priced(bids, DOMAIN bids)
      /\ IsFiniteSet(S) /\ Priced(bids, S)
  BY ListFacts, FS_Subset DEF BidsType, Priced
<1> QED
  BY <1>1, TotalLaws, TotalAtMost

-----------------------------------------------------------------------------
(* The account moves on *)

LEMMA NewestRuns ==
    ASSUME BidsType, NEW b \in DOMAIN bids, bids[b].current
    PROVE  \A a \in DOMAIN bids : a <= b
BY ListFacts DEF BidsType

\* What ended keeps what it consumed, and what ends is the newest.
LEMMA AccountMoves ==
    ASSUME BidsType, PagingType,
           PlaceBid \/ \E b \in DOMAIN bids : Consume(b) \/ EndBid(b)
    PROVE  /\ UNCHANGED <<closedCache, paging, spend, torn>>
           /\ paging.at \in {"idle", "list"}
           /\ BidsType'
           /\ Len(bids) <= Len(bids')
           /\ Terminal \subseteq Terminal'
           /\ \A b \in Terminal : bids'[b].consumed = bids[b].consumed
           /\ CountedBids \subseteq CountedBids'
           /\ \A a \in CountedBids' \ CountedBids : a \notin Terminal /\ \A b \in CountedBids : b < a
<1>0. /\ UNCHANGED <<closedCache, paging, spend, torn>>
      /\ paging.at \in {"idle", "list"}
  BY DEF PlaceBid, Consume, EndBid, Waiting
<1> DEFINE Record == [current : BOOLEAN, consumed : Nat]
<1>1. /\ bids \in Seq(Record) /\ Len(bids) \in Nat /\ DOMAIN bids = 1..Len(bids)
      /\ IsFiniteSet(DOMAIN bids)
      /\ \A b \in DOMAIN bids : /\ bids[b] \in Record
                                /\ bids[b].current \in BOOLEAN
                                /\ bids[b].consumed \in Nat
  BY ListFacts DEF BidsType
<1>2. Idling \subseteq DOMAIN bids /\ IsFiniteSet(Idling) /\ Cardinality(Idling) \in Nat
  BY <1>1, FS_Subset, FS_CardinalityType DEF Idling
<1>3. PageSize \in Nat
  BY SpendAssumption
<1> DEFINE Placed == IF paging.at = "idle" THEN 0 ELSE Len(bids) - paging.started
<1>4. Uncounted = Cardinality(Idling) + Placed /\ Placed \in Int
  BY <1>1 DEF Uncounted, Idling, PagingType
<1>5. CASE PlaceBid
  <2>0. PICK new \in Nat : new = Len(bids) + 1
    BY <1>1
  <2>1. /\ bids' = Append(bids, [current |-> TRUE, consumed |-> 0])
        /\ \A b \in DOMAIN bids : ~bids[b].current
        /\ Uncounted + (IF paging.at = "idle" THEN 1 ELSE 2) < PageSize
    BY <1>5 DEF PlaceBid
  <2>2. [current |-> TRUE, consumed |-> 0] \in Record
    OBVIOUS
  <2>3. /\ bids' \in Seq(Record) /\ Len(bids') = new
        /\ DOMAIN bids' = 1..new
        /\ bids'[new] = [current |-> TRUE, consumed |-> 0]
        /\ \A b \in DOMAIN bids : bids'[b] = bids[b]
    BY <1>1, <2>0, <2>1, <2>2
  <2>4. DOMAIN bids' = DOMAIN bids \cup {new} /\ new \notin DOMAIN bids
    BY <1>1, <2>0, <2>3
  <2>5. Terminal' = Terminal /\ \A b \in Terminal : bids'[b] = bids[b]
    <3>1. bids'[new].current
      BY <2>3
    <3>2. \A b \in DOMAIN bids' : ~bids'[b].current <=> b \in DOMAIN bids /\ ~bids[b].current
      BY <2>3, <2>4, <3>1
    <3> QED
      BY <2>3, <2>4, <3>2 DEF Terminal
  <2>6. CountedBids' = CountedBids
    BY <2>5 DEF CountedBids
  <2>7. Idling' = Idling \cup {new} /\ new \notin Idling
    <3>1. bids'[new].current
      BY <2>3
    <3>2. \A b \in DOMAIN bids' : bids'[b].current \/ bids'[b].consumed = 0
                                  <=> b \in Idling \/ b = new
      BY <2>3, <2>4, <3>1 DEF Idling
    <3> QED
      BY <2>4, <3>2 DEF Idling
  <2>8. Cardinality(Idling') = Cardinality(Idling) + 1
    BY <1>2, <2>7, FS_AddElement
  <2>9. Uncounted' = Cardinality(Idling') + (IF paging.at = "idle" THEN 0 ELSE new - paging.started)
    BY <1>0, <2>3 DEF Uncounted, Idling
  <2>10. Uncounted' < PageSize
    <3>1. CASE paging.at = "idle"
      BY <1>2, <1>3, <1>4, <2>1, <2>8, <2>9, <3>1
    <3>2. CASE paging.at # "idle"
      <4>1. paging.started \in Nat
        BY <3>2 DEF PagingType
      <4>2. Uncounted = Cardinality(Idling) + (Len(bids) - paging.started)
        BY <1>4, <3>2
      <4>3. Uncounted' = (Cardinality(Idling) + 1) + (new - paging.started)
        BY <2>8, <2>9, <3>2
      <4>4. Uncounted + 2 < PageSize
        BY <2>1, <3>2
      <4>5. PICK c \in Nat, l \in Nat, s \in Nat :
               c = Cardinality(Idling) /\ l = Len(bids) /\ s = paging.started
        BY <1>1, <1>2, <4>1
      <4>6. c + (l - s) + 2 < PageSize
        BY <4>2, <4>4, <4>5
      <4>7. (c + 1) + (l + 1 - s) < PageSize
        BY <1>3, <4>6
      <4>8. Uncounted' = (c + 1) + (l + 1 - s)
        <5>1. new = l + 1
          BY <2>0, <4>5
        <5>2. Cardinality(Idling) = c /\ paging.started = s
          BY <4>5
        <5>3. Uncounted' = (c + 1) + (new - s)
          BY <4>3, <5>2
        <5> QED
          BY <5>1, <5>3
      <4> QED
        BY <4>7, <4>8
    <3> QED
      BY <3>1, <3>2
  <2>11. \A a, b \in DOMAIN bids' : a < b => ~bids'[a].current
    BY <1>1, <2>1, <2>3, <2>4
  <2>12. BidsType'
    BY <1>0, <2>3, <2>6, <2>10, <2>11 DEF BidsType
  <2>13. Len(bids) <= Len(bids')
    BY <1>1, <2>0, <2>3
  <2> QED
    BY <1>0, <2>5, <2>6, <2>12, <2>13
<1>6. CASE \E b \in DOMAIN bids : Consume(b) \/ EndBid(b)
  <2>1. PICK b \in DOMAIN bids : Consume(b) \/ EndBid(b)
    BY <1>6
  <2>2. bids[b].current /\ \A a \in DOMAIN bids : a <= b
    BY <2>1, NewestRuns DEF Consume, EndBid
  <2>3. /\ DOMAIN bids' = DOMAIN bids
        /\ \A a \in DOMAIN bids : a # b => bids'[a] = bids[a]
        /\ bids'[b] \in Record
        /\ ~bids'[b].current => bids'[b].consumed = bids[b].consumed
        /\ bids'[b].consumed = 0 => bids[b].consumed = 0
        /\ \E r \in Record : bids' = [bids EXCEPT ![b] = r]
    <3>1. CASE Consume(b)
      <4> DEFINE r == [bids[b] EXCEPT !.consumed = @ + 1]
      <4>1. bids' = [bids EXCEPT ![b] = r]
        BY <3>1 DEF Consume
      <4>2. r \in Record /\ r.current /\ r.consumed = bids[b].consumed + 1
        BY <1>1, <2>2
      <4> HIDE DEF r
      <4>3. bids'[b] = r /\ r.consumed # 0 /\ \A a \in DOMAIN bids : a # b => bids'[a] = bids[a]
        BY <1>1, <4>1, <4>2
      <4> HIDE DEF Record
      <4> QED
        BY <4>1, <4>2, <4>3
    <3>2. CASE EndBid(b)
      <4> DEFINE r == [bids[b] EXCEPT !.current = FALSE]
      <4>1. bids' = [bids EXCEPT ![b] = r]
        BY <3>2 DEF EndBid
      <4>2. r \in Record /\ r.consumed = bids[b].consumed
        BY <1>1
      <4> HIDE DEF r
      <4> QED
        BY <1>1, <4>1, <4>2
    <3> QED
      BY <2>1, <3>1, <3>2
  <2>4. bids' \in Seq(Record) /\ Len(bids') = Len(bids)
    BY <1>1, <2>3
  <2>5. b \notin Terminal /\ Terminal \subseteq Terminal' /\ Terminal' \subseteq Terminal \cup {b}
    BY <2>2, <2>3 DEF Terminal
  <2>6. \A a \in Terminal : bids'[a].consumed = bids[a].consumed
    BY <2>3, <2>5 DEF Terminal
  <2>7. CountedBids \subseteq CountedBids' /\ CountedBids' \subseteq CountedBids \cup {b}
    BY <2>5, <2>6 DEF CountedBids
  <2>8. \A a \in CountedBids : a < b
    BY <1>1, <2>2, <2>5 DEF CountedBids, Terminal
  <2>9. Idling' \subseteq Idling
    BY <2>2, <2>3 DEF Idling
  <2>10. Cardinality(Idling') \in Nat /\ Cardinality(Idling') <= Cardinality(Idling)
    BY <1>2, <2>9, FS_Subset, FS_CardinalityType
  <2>11. Uncounted' = Cardinality(Idling') + Placed
    BY <1>0, <2>4 DEF Uncounted, Idling
  <2>12. Uncounted' < PageSize
    BY <1>2, <1>3, <1>4, <2>10, <2>11 DEF BidsType
  <2>13. \A a, c \in DOMAIN bids' : a < c => ~bids'[a].current
    BY <1>1, <2>2, <2>3 DEF BidsType
  <2>14. BidsType'
    BY <1>0, <2>4, <2>7, <2>12, <2>13 DEF BidsType
  <2> QED
    BY <1>0, <1>1, <2>4, <2>5, <2>6, <2>7, <2>8, <2>14
<1> QED
  BY <1>5, <1>6

LEMMA AccountKeeps ==
    ASSUME SpendInvariant,
           PlaceBid \/ \E b \in DOMAIN bids : Consume(b) \/ EndBid(b)
    PROVE  SpendInvariant'
<1>1. BidsType /\ PagingType
  BY DEF SpendInvariant
<1>2. /\ UNCHANGED <<closedCache, paging, spend, torn>>
      /\ paging.at \in {"idle", "list"}
      /\ BidsType'
      /\ Len(bids) <= Len(bids')
      /\ Terminal \subseteq Terminal'
      /\ \A b \in Terminal : bids'[b].consumed = bids[b].consumed
      /\ CountedBids \subseteq CountedBids'
      /\ \A a \in CountedBids' \ CountedBids : a \notin Terminal /\ \A b \in CountedBids : b < a
  BY <1>1, AccountMoves
<1>3. /\ Len(bids) \in Nat /\ DOMAIN bids = 1..Len(bids)
      /\ Len(bids') \in Nat /\ DOMAIN bids' = 1..Len(bids')
      /\ IsFiniteSet(DOMAIN bids) /\ Priced(bids, DOMAIN bids)
      /\ IsFiniteSet(DOMAIN bids') /\ Priced(bids', DOMAIN bids')
  <2>1. bids' \in Seq([current : BOOLEAN, consumed : Nat])
    BY <1>2 DEF BidsType
  <2> QED
    BY <1>1, <2>1, ListFacts DEF BidsType
<1>4. Terminal \subseteq DOMAIN bids /\ Terminal' \subseteq DOMAIN bids'
  BY DEF Terminal
<1>5. ASSUME NEW S \in SUBSET Terminal PROVE Total(bids', S) = Total(bids, S)
  <2>1. IsFiniteSet(S) /\ Priced(bids, S)
    BY <1>3, <1>4, FS_Subset DEF Priced
  <2> QED
    BY <1>2, <2>1, TotalSame
<1>6. /\ CountedBids \subseteq Terminal /\ CountedBids \subseteq DOMAIN bids
      /\ CountedBids' \subseteq DOMAIN bids'
  BY <1>4 DEF CountedBids
<1>7. PagingType'
  <2> SUFFICES ASSUME paging.at # "idle" PROVE PagingType'
    BY <1>2 DEF PagingType
  <2>1. paging.known \subseteq CountedBids
    BY <1>1 DEF PagingType
  <2>2. paging.cached + paging.new = Total(bids', paging.known)
    BY <1>1, <1>5, <1>6, <2>1 DEF PagingType
  <2>3. paging.offset \in 0..Len(bids') /\ paging.started \in 0..Len(bids')
    BY <1>1, <1>2, <1>3 DEF PagingType
  <2>4. paging.at # "store"
    BY <1>2
  <2> QED
    BY <1>1, <1>2, <2>1, <2>2, <2>3, <2>4 DEF PagingType
<1>8. Untorn'
  <2>1. ClosedBelow(closedCache) => ClosedBelow(closedCache)'
    BY <1>1, <1>2, <1>3, <1>6 DEF ClosedBelow, BidsType
  <2> QED
    BY <1>2, <2>1 DEF SpendInvariant, Untorn
<1>9. WalkInvariant'
  <2> SUFFICES ASSUME paging.at # "idle" PROVE WalkInvariant'
    BY <1>2 DEF WalkInvariant
  <2>1. PICK ended \in SUBSET Terminal :
           paging.due = Total(bids, ended) /\ (~torn => WalkCovers(ended))
    BY DEF SpendInvariant, WalkInvariant
  <2>2. ended \in SUBSET Terminal' /\ paging'.due = Total(bids', ended)
    BY <1>2, <1>5, <2>1
  <2>3. paging.at = "list" /\ paging'.at = "list"
    BY <1>2
  <2>4. ASSUME ~torn PROVE WalkCovers(ended)'
    <3>1. PICK low \in 1..(Len(bids) + 1) : KnownDownTo(low, {}, ended) /\ Reaches(low)
      BY <2>1, <2>3, <2>4 DEF WalkCovers
    <3>2. low \in 1..(Len(bids') + 1)
      BY <1>2, <1>3
    <3>3. paging.offset \in Nat /\ paging.known \subseteq CountedBids
      BY <1>1, <1>3 DEF PagingType
    <3>4. Reaches(low)'
      BY <1>2, <1>3, <3>1, <3>3 DEF Reaches
    <3>5. \A b \in paging.known : \A a \in CountedBids' : a < b => a \in CountedBids
      BY <1>2, <1>3, <1>6, <3>3
    <3>6. ended \cap CountedBids' \subseteq CountedBids
      BY <1>2
    <3>7. KnownDownTo(low, {}, ended)'
      BY <1>2, <3>1, <3>5, <3>6 DEF KnownDownTo
    <3> QED
      BY <2>3, <3>2, <3>4, <3>7 DEF WalkCovers
  <2> QED
    BY <1>2, <2>2, <2>4 DEF WalkInvariant
<1>10. ResultSound'
  <2>1. Total(bids', Terminal) <= Total(bids', Terminal')
    BY <1>2, <1>3, <1>4, TotalAtMost
  <2>2. spend # Null => spend.closed <= Total(bids', Terminal)
    BY <1>5 DEF SpendInvariant, ResultSound
  <2>3. Total(bids', Terminal) \in Nat /\ Total(bids', Terminal') \in Nat
    <3>1. \A S \in SUBSET DOMAIN bids' : IsFiniteSet(S) /\ Priced(bids', S)
      BY <1>3, FS_Subset DEF Priced
    <3> QED
      BY <1>2, <1>4, <3>1, TotalLaws
  <2> QED
    BY <1>2, <2>1, <2>2, <2>3 DEF SpendInvariant, ResultSound
<1> QED
  BY <1>2, <1>7, <1>8, <1>9, <1>10 DEF SpendInvariant

-----------------------------------------------------------------------------
(* The walk *)

LEMMA BidsKept ==
    ASSUME BidsType, PagingType, UNCHANGED bids, closedCache' \subseteq CountedBids,
           \/ paging'.at = "idle"
           \/ paging'.started = Len(bids)
           \/ paging.at # "idle" /\ paging'.started = paging.started
    PROVE  BidsType' /\ CountedBids' = CountedBids /\ Terminal' = Terminal
<1>1. /\ Len(bids) \in Nat /\ IsFiniteSet(DOMAIN bids)
  BY ListFacts DEF BidsType
<1>2. Cardinality(Idling) \in Nat
  BY <1>1, FS_Subset, FS_CardinalityType DEF Idling
<1>3. CountedBids' = CountedBids /\ Terminal' = Terminal
  BY DEF CountedBids, Terminal
<1> DEFINE Placed == IF paging.at = "idle" THEN 0 ELSE Len(bids) - paging.started
           Later == IF paging'.at = "idle" THEN 0 ELSE Len(bids) - paging'.started
<1>4. Uncounted = Cardinality(Idling) + Placed
  BY DEF Uncounted, Idling
<1>5. Uncounted' = Cardinality(Idling) + Later
  BY DEF Uncounted, Idling
<1>6. Placed \in Nat /\ Later \in Nat /\ Later <= Placed
  BY <1>1 DEF PagingType
<1>7. Uncounted' < PageSize
  <2> HIDE DEF Placed, Later
  <2> QED
    BY <1>2, <1>4, <1>5, <1>6, SpendAssumption DEF BidsType
<1> QED
  BY <1>3, <1>7 DEF BidsType

LEMMA SpendIdles ==
    ASSUME SpendInvariant, UNCHANGED <<bids, closedCache, paging, spend, torn>>
    PROVE  SpendInvariant'
<1>1. BidsType' /\ PagingType'
  BY DEF SpendInvariant, BidsType, PagingType, Uncounted, CountedBids, Terminal, Page
<1>2. Untorn'
  BY DEF SpendInvariant, Untorn, ClosedBelow, CountedBids, Terminal
<1>3. WalkInvariant'
  BY DEF SpendInvariant, WalkInvariant, WalkCovers, KnownDownTo, Reaches,
         CountedBids, Terminal, Items, Oldest, ToStore
<1>4. ResultSound'
  BY DEF SpendInvariant, ResultSound, Terminal
<1> QED
  BY <1>1, <1>2, <1>3, <1>4 DEF SpendInvariant

LEMMA GetLifetimeSpendKeeps ==
    ASSUME SpendInvariant, GetLifetimeSpend
    PROVE  SpendInvariant'
<1>1. BidsType /\ PagingType /\ Untorn
  BY DEF SpendInvariant
<1>2. /\ UNCHANGED <<bids, closedCache, spend, torn>>
      /\ paging.at = "idle"
  BY DEF GetLifetimeSpend
<1>3. /\ paging'.at = "list" /\ paging'.cached = Total(bids, closedCache)
      /\ paging'.known = closedCache /\ paging'.new = 0 /\ paging'.offset = 0
      /\ paging'.stored = 0 /\ paging'.started = Len(bids)
      /\ paging'.due = Total(bids, Terminal)
      /\ paging' = [at |-> paging'.at, cached |-> paging'.cached,
                    known |-> paging'.known, new |-> paging'.new,
                    active |-> paging'.active, offset |-> paging'.offset,
                    page |-> paging'.page, stored |-> paging'.stored,
                    started |-> paging'.started, due |-> paging'.due]
  BY SpentIsTotal DEF GetLifetimeSpend
<1>4. /\ Len(bids) \in Nat /\ DOMAIN bids = 1..Len(bids)
      /\ closedCache \subseteq CountedBids /\ Terminal \subseteq DOMAIN bids
      /\ CountedBids \subseteq DOMAIN bids /\ closedCache \subseteq DOMAIN bids
      /\ Total(bids, closedCache) \in Nat
  <2>1. CountedBids \subseteq DOMAIN bids /\ Terminal \subseteq DOMAIN bids
    BY DEF CountedBids, Terminal
  <2> QED
    BY <1>1, <2>1, ListFacts, TotalFacts DEF BidsType
<1>5. BidsType' /\ CountedBids' = CountedBids /\ Terminal' = Terminal
  BY <1>1, <1>2, <1>3, <1>4, BidsKept
<1>6. PagingType'
  BY <1>2, <1>3, <1>4, <1>5 DEF PagingType
<1>7. ~torn => ClosedBelow(closedCache)
  BY <1>1, <1>2 DEF Untorn
<1>8. Untorn'
  BY <1>2, <1>3, <1>5, <1>7 DEF Untorn, ClosedBelow
<1>9. WalkInvariant'
  <2>0. PICK low \in Nat : low = Len(bids) + 1
    BY <1>4
  <2>1. PICK ended : ended = Terminal
    OBVIOUS
  <2>2. low \in 1..(Len(bids') + 1)
    BY <1>2, <1>4, <2>0
  <2>3. Reaches(low)'
    BY <1>2, <1>3, <1>4, <2>0 DEF Reaches
  <2>4. ~torn => KnownDownTo(low, {}, ended)'
    BY <1>2, <1>3, <1>4, <1>5, <1>7, <2>0 DEF KnownDownTo, ClosedBelow
  <2>5. ~torn => WalkCovers(ended)'
    BY <1>3, <2>2, <2>3, <2>4 DEF WalkCovers
  <2> QED
    BY <1>2, <1>3, <1>5, <2>1, <2>5 DEF WalkInvariant
<1>10. ResultSound'
  BY <1>2, <1>5 DEF SpendInvariant, ResultSound
<1> QED
  BY <1>2, <1>5, <1>6, <1>8, <1>9, <1>10 DEF SpendInvariant

\* A walk that breaks off before it stored anything leaves the cache closed
\* below.
LEMMA BreakOffKeeps ==
    ASSUME SpendInvariant, PageFails \/ CrashSpend
    PROVE  SpendInvariant'
<1>1. BidsType /\ PagingType /\ Untorn
  BY DEF SpendInvariant
<1>2. /\ UNCHANGED <<bids, closedCache>>
      /\ paging' = NoPaging
      /\ spend' = spend \/ spend' = Null
      /\ torn' = (torn \/ (paging.at # "idle" /\ paging.new > 0))
  BY DEF PageFails, CrashSpend
<1>3. paging'.at = "idle"
  BY <1>2 DEF NoPaging
<1>4. BidsType' /\ CountedBids' = CountedBids /\ Terminal' = Terminal
  BY <1>1, <1>2, <1>3, BidsKept DEF BidsType
<1>5. PagingType' /\ WalkInvariant'
  BY <1>3 DEF PagingType, WalkInvariant
<1>6. Untorn'
  <2>1. ~torn' => paging.at = "idle" \/ paging.new = 0
    <3>1. paging.at # "idle" => paging.new \in Nat
      BY <1>1 DEF PagingType
    <3>2. ~torn' => paging.at = "idle" \/ ~(paging.new > 0)
      BY <1>2, Zenon
    <3> QED
      BY <3>1, <3>2
  <2>2. ~torn' => ~torn
    BY <1>2, Zenon
  <2>3. ~torn' => ClosedBelow(closedCache)
    BY <1>1, <2>1, <2>2 DEF Untorn
  <2> QED
    BY <1>2, <1>3, <1>4, <2>3 DEF Untorn, ClosedBelow
<1>7. ResultSound'
  BY <1>2, <1>4 DEF SpendInvariant, ResultSound
<1>8. torn' \in BOOLEAN
  BY <1>2
<1> QED
  BY <1>4, <1>5, <1>6, <1>7, <1>8 DEF SpendInvariant

LEMMA RebuildSpendKeeps ==
    ASSUME SpendInvariant, RebuildSpend
    PROVE  SpendInvariant'
<1>1. BidsType /\ PagingType
  BY DEF SpendInvariant
<1>2. /\ UNCHANGED <<bids, paging>>
      /\ closedCache' = {} /\ spend' = Null
      /\ torn' = (paging.at # "idle")
  BY DEF RebuildSpend
<1>3. BidsType' /\ CountedBids' = CountedBids /\ Terminal' = Terminal
  BY <1>1, <1>2, BidsKept
<1>4. PagingType'
  BY <1>1, <1>2, <1>3 DEF PagingType, Page
<1>5. Untorn'
  BY <1>2 DEF Untorn, ClosedBelow
<1>6. WalkInvariant'
  BY <1>2, <1>3 DEF SpendInvariant, WalkInvariant
<1>7. ResultSound'
  BY <1>2 DEF ResultSound
<1>8. torn' \in BOOLEAN
  BY <1>2
<1> QED
  BY <1>3, <1>4, <1>5, <1>6, <1>7, <1>8 DEF SpendInvariant

\* A page, newest bid first: n bids of L, after offset of them.
PageShape(page, L, offset, n) ==
    /\ n <= PageSize /\ n <= L - offset
    /\ n < PageSize => n = L - offset
    /\ Len(page) = n /\ DOMAIN page = 1..n
    /\ \A i \in 1..n : page[i] = L + 1 - offset - i
    /\ \A b : b \in {page[i] : i \in DOMAIN page}
              <=> b \in (L + 1 - offset - n)..(L - offset)

LEMMA PageFacts ==
    ASSUME NEW L \in Nat, Len(bids) = L, NEW offset \in 0..L
    PROVE  \E n \in Nat : PageShape(Page(offset), L, offset, n)
<1> DEFINE n == Earlier(PageSize, L - offset)
<1>1. /\ n \in Nat /\ n <= PageSize /\ n <= L - offset
      /\ n < PageSize => n = L - offset
  BY SpendAssumption DEF Earlier
<1>2. Page(offset) = [i \in 1..n |-> L + 1 - offset - i]
  BY DEF Page
<1> HIDE DEF n
<1>3. Len(Page(offset)) = n /\ DOMAIN Page(offset) = 1..n
  BY <1>1, <1>2
<1>4. \A i \in 1..n : Page(offset)[i] = L + 1 - offset - i
  BY <1>2
<1>5. ASSUME NEW b PROVE b \in {Page(offset)[i] : i \in DOMAIN Page(offset)}
                          <=> b \in (L + 1 - offset - n)..(L - offset)
  <2>1. ASSUME NEW i \in 1..n, b = Page(offset)[i]
        PROVE  b \in (L + 1 - offset - n)..(L - offset)
    BY <1>1, <1>4, <2>1
  <2>2. ASSUME b \in (L + 1 - offset - n)..(L - offset)
        PROVE  \E i \in 1..n : b = Page(offset)[i]
    <3>1. L + 1 - offset - b \in 1..n
      BY <1>1, <2>2
    <3>2. Page(offset)[L + 1 - offset - b] = b
      BY <1>1, <1>4, <2>2, <3>1
    <3> QED
      BY <3>1, <3>2
  <2> QED
    BY <1>3, <2>1, <2>2
<1> QED
  BY <1>1, <1>3, <1>4, <1>5 DEF PageShape

\* What the walk has in hand after it has read a page.
LEMMA ItemsFacts ==
    ASSUME BidsType, PagingType, paging.at = "store"
    PROVE  /\ Len(paging.page) \in Nat /\ Len(paging.page) <= PageSize
           /\ paging.offset + Len(paging.page) <= Len(bids)
           /\ Len(paging.page) < PageSize => Oldest = 1
           /\ Oldest = Len(bids) + 1 - paging.offset - Len(paging.page)
           /\ Oldest \in 1..(Len(bids) + 1)
           /\ DOMAIN paging.page = 1..Len(paging.page)
           /\ \A b : b \in Items <=> b \in Oldest..(Len(bids) - paging.offset)
<1>1. /\ Len(bids) \in Nat /\ paging.offset \in 0..Len(bids)
      /\ paging.page = Page(paging.offset)
  BY ListFacts DEF BidsType, PagingType
<1>2. PICK L \in Nat, offset \in Nat : L = Len(bids) /\ offset = paging.offset /\ offset \in 0..L
  BY <1>1
<1>3. PICK n \in Nat : PageShape(Page(offset), L, offset, n)
  BY <1>2, PageFacts
<1>4. /\ n <= PageSize /\ n <= L - offset
      /\ n < PageSize => n = L - offset
      /\ Len(paging.page) = n /\ DOMAIN paging.page = 1..n
  BY <1>1, <1>2, <1>3 DEF PageShape
<1>5. Oldest = L + 1 - offset - n
  BY <1>1, <1>2, <1>4 DEF Oldest
<1>6. \A b : b \in Items <=> b \in Oldest..(Len(bids) - paging.offset)
  <2>1. Items = {Page(offset)[i] : i \in DOMAIN Page(offset)}
    BY <1>1, <1>2 DEF Items
  <2>2. \A b : b \in {Page(offset)[i] : i \in DOMAIN Page(offset)}
               <=> b \in (L + 1 - offset - n)..(L - offset)
    BY <1>3 DEF PageShape
  <2> QED
    BY <1>2, <1>5, <2>1, <2>2
<1>7. Oldest \in 1..(L + 1) /\ (n < PageSize => Oldest = 1)
  <2>1. L \in Nat /\ offset \in Nat /\ n \in Nat
    OBVIOUS
  <2>2. n <= L - offset /\ (n < PageSize => n = L - offset)
    BY <1>4
  <2> QED
    BY <1>5, <2>1, <2>2
<1> QED
  BY <1>2, <1>4, <1>5, <1>6, <1>7

\* A page is longer than what the walk sees again and does not count, so one
\* that is full and has nothing new has an older bid that is known already.
LEMMA PageListedKeeps ==
    ASSUME SpendInvariant, PageListed
    PROVE  SpendInvariant'
<1>1. BidsType /\ PagingType /\ Untorn
  BY DEF SpendInvariant
<1>2. /\ UNCHANGED <<bids, closedCache, spend, torn>>
      /\ paging.at = "list"
  BY DEF PageListed
<1>3. /\ paging'.at = "store" /\ paging'.page = Page(paging.offset) /\ paging'.stored = 0
      /\ paging'.cached = paging.cached /\ paging'.known = paging.known
      /\ paging'.new = paging.new /\ paging'.offset = paging.offset
      /\ paging'.started = paging.started /\ paging'.due = paging.due
      /\ paging' = [at |-> paging'.at, cached |-> paging'.cached,
                    known |-> paging'.known, new |-> paging'.new,
                    active |-> paging'.active, offset |-> paging'.offset,
                    page |-> paging'.page, stored |-> paging'.stored,
                    started |-> paging'.started, due |-> paging'.due]
  BY <1>1, <1>2 DEF PageListed, PagingType
<1>4. /\ Len(bids) \in Nat /\ DOMAIN bids = 1..Len(bids)
      /\ paging.offset \in 0..Len(bids) /\ paging.started \in 0..Len(bids)
      /\ paging.known \subseteq CountedBids
      /\ CountedBids \subseteq DOMAIN bids
      /\ IsFiniteSet(DOMAIN bids) /\ PageSize \in Nat
  BY <1>1, <1>2, ListFacts, SpendAssumption DEF BidsType, PagingType, CountedBids, Terminal
<1>41. PageSize \in Nat
  BY SpendAssumption
<1>5. BidsType' /\ CountedBids' = CountedBids /\ Terminal' = Terminal
  BY <1>1, <1>2, <1>3, BidsKept DEF BidsType
<1>6. PagingType'
  <2>1. paging'.page = Page(paging.offset)'
    BY <1>2, <1>3 DEF Page
  <2> QED
    BY <1>1, <1>2, <1>3, <1>5, <2>1 DEF PagingType
<1>7. Untorn'
  BY <1>1, <1>2, <1>3, <1>5 DEF Untorn, ClosedBelow
<1>8. WalkInvariant'
  <2>1. PICK ended \in SUBSET Terminal :
           paging.due = Total(bids, ended) /\ (~torn => WalkCovers(ended))
    BY <1>2 DEF SpendInvariant, WalkInvariant
  <2> SUFFICES ASSUME ~torn PROVE WalkCovers(ended)'
    BY <1>2, <1>3, <1>5, <2>1 DEF WalkInvariant
  <2>2. PICK low \in 1..(Len(bids) + 1) : KnownDownTo(low, {}, ended) /\ Reaches(low)
    BY <1>2, <2>1 DEF WalkCovers
  <2>3. PICK L \in Nat, offset \in Nat, started \in Nat :
           L = Len(bids) /\ offset = paging.offset /\ started = paging.started
    <3>1. Len(bids) \in Nat /\ paging.offset \in Nat /\ paging.started \in Nat
      BY <1>4
    <3> QED
      BY <3>1, Zenon
  <2>31. offset \in 0..L /\ started <= L /\ low \in Nat /\ low >= 1 /\ low <= L + 1
    BY <1>4, <2>2, <2>3
  <2>4. PICK n \in Nat : PageShape(paging'.page, L, offset, n)
    BY <1>3, <2>3, <2>31, PageFacts
  <2>5. /\ n <= PageSize /\ n <= L - offset
        /\ n < PageSize => n = L - offset
        /\ Len(paging'.page) = n /\ DOMAIN paging'.page = 1..n
    BY <2>4 DEF PageShape
  <2>6. PICK first \in Nat : first = L + 1 - offset - n /\ first >= 1
    BY <2>31, <2>5
  <2>7. Oldest' = first
    BY <1>2, <1>3, <2>3, <2>5, <2>6 DEF Oldest
  <2>8. \A b : b \in Items' <=> b \in first..(L - offset)
    BY <2>4, <2>6 DEF Items, PageShape
  <2>9. low - 1 <= L - offset /\ low + offset >= started + 1
    BY <2>2, <2>3 DEF Reaches
  <2>10. /\ Cardinality(Idling) \in Nat /\ IsFiniteSet(Idling)
         /\ Cardinality(Idling) + (L - started) < PageSize
    <3>1. IsFiniteSet(Idling) /\ Cardinality(Idling) \in Nat
      BY <1>4, FS_Subset, FS_CardinalityType DEF Idling
    <3>2. Uncounted = Cardinality(Idling) + (L - started)
      BY <1>2, <2>3 DEF Uncounted, Idling
    <3> QED
      BY <1>1, <3>1, <3>2 DEF BidsType
  <2>11. first <= low
    BY <1>41, <2>31, <2>5, <2>6, <2>9, <2>10
  <2>12. KnownDownTo(Oldest, Items, ended)'
    <3>1. \A a \in CountedBids : a >= first => a \in Items' \/ a >= low
      BY <1>4, <2>2, <2>3, <2>8, <2>9
    <3>2. \A b \in CountedBids : b < first => b < low
      BY <1>4, <2>2, <2>11
    <3>3. ASSUME NEW b \in paging.known, NEW a \in CountedBids, a < b, b < first \/ a >= first
          PROVE  a \in paging.known \cup Items'
      BY <1>4, <2>2, <3>1, <3>2, <3>3 DEF KnownDownTo
    <3>4. ASSUME NEW a \in ended \cap CountedBids, a >= first
          PROVE  a \in paging.known \cup Items'
      BY <2>2, <3>1, <3>4 DEF KnownDownTo
    <3> QED
      BY <1>3, <1>5, <2>7, <3>3, <3>4 DEF KnownDownTo
  <2>13. ASSUME paging'.stored = 0, ToStore' = {}, Len(paging'.page) = PageSize,
                NEW a \in CountedBids, a < first
         PROVE  a \in paging.known
    <3>1. PICK c \in first..(low - 1) : c \in CountedBids
      <4> SUFFICES ASSUME \A c \in first..(low - 1) : c \notin CountedBids PROVE FALSE
        OBVIOUS
      <4>1. first..(low - 1) \subseteq DOMAIN bids
        <5>1. \A c \in first..(low - 1) : c \in 1..L
          BY <2>31, <2>6, <2>9
        <5> QED
          BY <1>4, <2>3, <5>1
      <4>2. \A c \in DOMAIN bids : bids[c].consumed \in Nat
        BY <1>1, ListFacts DEF BidsType
      <4>3. first..(low - 1) \subseteq Idling
        BY <4>1, <4>2 DEF Idling, CountedBids, Terminal
      <4>4. Cardinality(first..(low - 1)) <= Cardinality(Idling)
        BY <2>10, <4>3, FS_Subset
      <4>5. low \in Int /\ low - 1 >= first
        BY <1>41, <2>31, <2>5, <2>6, <2>9, <2>10, <2>13
      <4>6. Cardinality(first..(low - 1)) = low - first
        BY <4>5, FS_Interval
      <4> QED
        BY <1>41, <2>31, <2>5, <2>6, <2>9, <2>10, <2>13, <4>4, <4>5, <4>6
    <3>2. c \in Items' /\ c \in Int /\ c < low /\ a < c
      <4>1. a \in Int /\ c \in Int /\ c >= first /\ c <= low - 1
        BY <1>4, <2>6, <2>31, <3>1
      <4>2. c \in first..(L - offset)
        BY <2>6, <2>9, <2>31, <4>1
      <4> QED
        BY <2>6, <2>8, <2>13, <2>31, <4>1, <4>2
    <3>3. c \in paging.known
      <4>1. PICK i \in DOMAIN paging'.page : paging'.page[i] = c
        BY <3>2 DEF Items
      <4>2. ~(c \in Terminal \ paging.known /\ bids[c].consumed > 0)
        BY <1>2, <1>3, <1>5, <2>13, <4>1 DEF ToStore
      <4> QED
        BY <3>1, <4>2 DEF CountedBids
    <3> QED
      BY <2>2, <3>2, <3>3 DEF KnownDownTo
  <2> QED
    BY <1>3, <1>5, <2>7, <2>12, <2>13 DEF WalkCovers
<1>9. ResultSound'
  BY <1>2, <1>5 DEF SpendInvariant, ResultSound
<1> QED
  BY <1>2, <1>5, <1>6, <1>7, <1>8, <1>9 DEF SpendInvariant

LEMMA MinFacts ==
    ASSUME NEW S \in SUBSET Nat, S # {}
    PROVE  Min(S) \in S
<1>1. PICK k \in S : \A j \in S : ~(<<j, k>> \in OpToRel(<, Nat))
  BY NatLessThanWellFounded, WFMin
<1>2. ASSUME NEW j \in S PROVE k <= j
  <2>1. j \in Nat /\ k \in Nat
    OBVIOUS
  <2>2. ~(j < k)
    BY <1>1, <2>1 DEF OpToRel
  <2> QED
    BY <2>1, <2>2
<1> QED
  BY <1>2 DEF Min

LEMMA StoreTerminalKeeps ==
    ASSUME SpendInvariant, StoreTerminal
    PROVE  SpendInvariant'
<1>1. BidsType /\ PagingType /\ Untorn
  BY DEF SpendInvariant
<1>2. /\ UNCHANGED <<bids, spend, torn>>
      /\ paging.at = "store" /\ ToStore # {}
  BY DEF StoreTerminal
<1>3. /\ Len(bids) \in Nat /\ DOMAIN bids = 1..Len(bids)
      /\ paging.offset \in 0..Len(bids)
      /\ paging.known \subseteq CountedBids
      /\ CountedBids \subseteq DOMAIN bids
  BY <1>1, <1>2, ListFacts DEF BidsType, PagingType, CountedBids, Terminal
<1>4. PICK i \in ToStore : i = Min(ToStore)
  <2>1. ToStore \subseteq Nat
    BY <1>1, <1>2, ItemsFacts DEF ToStore
  <2> QED
    BY <1>2, <2>1, MinFacts
<1>5. PICK b : b = paging.page[i]
  OBVIOUS
<1>6. /\ b \in Items /\ b \in CountedBids /\ b \notin paging.known
      /\ bids[b].consumed \in Nat /\ bids[b].consumed > 0
  <2>1. \A c \in DOMAIN bids : bids[c].consumed \in Nat
    BY <1>1, ListFacts DEF BidsType
  <2>2. b \in Items /\ b \in CountedBids /\ b \notin paging.known /\ bids[b].consumed > 0
    BY <1>4, <1>5 DEF ToStore, Items, CountedBids
  <2> QED
    BY <1>3, <2>1, <2>2
<1>7. closedCache' = closedCache \cup {b}
  BY <1>4, <1>5 DEF StoreTerminal
<1>8. /\ paging'.at = "store" /\ paging'.page = paging.page
      /\ paging'.stored = paging.stored + 1 /\ paging'.known = paging.known \cup {b}
      /\ paging'.new = paging.new + bids[b].consumed
      /\ paging'.cached = paging.cached /\ paging'.offset = paging.offset
      /\ paging'.started = paging.started /\ paging'.due = paging.due
      /\ paging' = [at |-> paging'.at, cached |-> paging'.cached,
                    known |-> paging'.known, new |-> paging'.new,
                    active |-> paging'.active, offset |-> paging'.offset,
                    page |-> paging'.page, stored |-> paging'.stored,
                    started |-> paging'.started, due |-> paging'.due]
  BY <1>1, <1>2, <1>4, <1>5 DEF StoreTerminal, PagingType
<1>9. BidsType' /\ CountedBids' = CountedBids /\ Terminal' = Terminal
  <2>1. closedCache' \subseteq CountedBids
    BY <1>1, <1>6, <1>7 DEF BidsType
  <2> QED
    BY <1>1, <1>2, <1>8, <2>1, BidsKept
<1>10. PagingType'
  <2>1. Total(bids, paging'.known) = bids[b].consumed + Total(bids, paging.known)
    <3> DEFINE more == paging.known \cup {b}
    <3>1. more \in SUBSET DOMAIN bids /\ b \in more /\ more \ {b} = paging.known
      BY <1>3, <1>6
    <3> HIDE DEF more
    <3>2. Total(bids, more) = bids[b].consumed + Total(bids, paging.known)
      BY <1>1, <3>1, TotalFacts
    <3> QED
      BY <1>8, <3>2 DEF more
  <2>2. {paging.cached, paging.new, paging.stored, paging.started} \subseteq Nat
    BY <1>1, <1>2 DEF PagingType
  <2>3. paging.cached + paging.new = Total(bids, paging.known)
    BY <1>1, <1>2 DEF PagingType
  <2>4. paging'.cached + paging'.new = Total(bids, paging'.known)
    BY <1>6, <1>8, <2>1, <2>2, <2>3
  <2>5. {paging'.cached, paging'.new, paging'.stored, paging'.started} \subseteq Nat
    BY <1>6, <1>8, <2>2
  <2>6. paging'.known \subseteq CountedBids
    BY <1>3, <1>6, <1>8
  <2>7. paging'.page = Page(paging.offset)'
    BY <1>1, <1>2, <1>8 DEF PagingType, Page
  <2>8. paging.started \in 0..Len(bids)
    BY <1>1, <1>2 DEF PagingType
  <2> QED
    BY <1>2, <1>3, <1>8, <1>9, <2>4, <2>5, <2>6, <2>7, <2>8 DEF PagingType
<1>11. Untorn'
  <2>1. paging.new \in Nat
    BY <1>1, <1>2 DEF PagingType
  <2>2. paging'.new # 0
    BY <1>6, <1>8, <2>1
  <2>3. ~torn => closedCache' = paging'.known
    BY <1>1, <1>2, <1>7, <1>8 DEF Untorn
  <2> QED
    BY <1>2, <1>8, <2>2, <2>3 DEF Untorn
<1>12. WalkInvariant'
  <2>1. PICK ended \in SUBSET Terminal :
           paging.due = Total(bids, ended) /\ (~torn => WalkCovers(ended))
    BY <1>2 DEF SpendInvariant, WalkInvariant
  <2> SUFFICES ASSUME ~torn PROVE WalkCovers(ended)'
    BY <1>2, <1>8, <1>9, <2>1 DEF WalkInvariant
  <2>2. KnownDownTo(Oldest, Items, ended)
    BY <1>2, <2>1 DEF WalkCovers
  <2>3. Oldest' = Oldest /\ Items' = Items
    BY <1>2, <1>8 DEF Oldest, Items
  <2>4. paging'.stored # 0
    <3>1. paging.stored \in Nat
      BY <1>1, <1>2 DEF PagingType
    <3> QED
      BY <1>8, <3>1
  <2>5. Oldest \in Nat /\ \A a : a \in Items <=> a \in Oldest..(Len(bids) - paging.offset)
    BY <1>1, <1>2, <1>3, ItemsFacts
  <2>6. ASSUME NEW a \in CountedBids, a < b, b < Oldest \/ a >= Oldest
        PROVE  a \in Items
    BY <1>3, <1>6, <2>5, <2>6
  <2>7. KnownDownTo(Oldest, Items, ended)'
    BY <1>8, <1>9, <2>2, <2>3, <2>6 DEF KnownDownTo
  <2> QED
    BY <1>8, <2>4, <2>7 DEF WalkCovers
<1>13. ResultSound'
  BY <1>2, <1>9 DEF SpendInvariant, ResultSound
<1> QED
  BY <1>2, <1>9, <1>10, <1>11, <1>12, <1>13 DEF SpendInvariant

LEMMA NextPageKeeps ==
    ASSUME SpendInvariant, NextPage
    PROVE  SpendInvariant'
<1>1. BidsType /\ PagingType /\ Untorn
  BY DEF SpendInvariant
<1>2. /\ UNCHANGED <<bids, closedCache, spend, torn>>
      /\ paging.at = "store" /\ ToStore = {}
      /\ ~LastPage(paging.page, paging.stored)
  BY DEF NextPage
<1>3. /\ Len(bids) \in Nat /\ DOMAIN bids = 1..Len(bids)
      /\ paging.offset \in 0..Len(bids) /\ paging.started \in 0..Len(bids)
      /\ paging.known \subseteq CountedBids
      /\ CountedBids \subseteq DOMAIN bids
  BY <1>1, <1>2, ListFacts DEF BidsType, PagingType, CountedBids, Terminal
<1>4. /\ Len(paging.page) \in Nat
      /\ paging.offset + Len(paging.page) <= Len(bids)
      /\ Oldest = Len(bids) + 1 - paging.offset - Len(paging.page)
      /\ Oldest \in 1..(Len(bids) + 1)
  BY <1>1, <1>2, ItemsFacts
<1>5. /\ paging'.at = "list" /\ paging'.offset = paging.offset + Len(paging.page)
      /\ paging'.cached = paging.cached /\ paging'.known = paging.known
      /\ paging'.new = paging.new /\ paging'.stored = paging.stored
      /\ paging'.started = paging.started /\ paging'.due = paging.due
      /\ paging' = [at |-> paging'.at, cached |-> paging'.cached,
                    known |-> paging'.known, new |-> paging'.new,
                    active |-> paging'.active, offset |-> paging'.offset,
                    page |-> paging'.page, stored |-> paging'.stored,
                    started |-> paging'.started, due |-> paging'.due]
  BY <1>1, <1>2 DEF NextPage, PagingType
<1>6. BidsType' /\ CountedBids' = CountedBids /\ Terminal' = Terminal
  BY <1>1, <1>2, <1>5, BidsKept DEF BidsType
<1>7. PagingType'
  <2>1. paging'.offset \in 0..Len(bids)
    BY <1>3, <1>4, <1>5
  <2> QED
    BY <1>1, <1>2, <1>5, <1>6, <2>1 DEF PagingType
<1>8. Untorn'
  BY <1>1, <1>2, <1>5, <1>6 DEF Untorn, ClosedBelow
<1>9. WalkInvariant'
  <2>1. PICK ended \in SUBSET Terminal :
           paging.due = Total(bids, ended) /\ (~torn => WalkCovers(ended))
    BY <1>2 DEF SpendInvariant, WalkInvariant
  <2> SUFFICES ASSUME ~torn PROVE WalkCovers(ended)'
    BY <1>2, <1>5, <1>6, <2>1 DEF WalkInvariant
  <2>2. KnownDownTo(Oldest, Items, ended)
    BY <1>2, <2>1 DEF WalkCovers
  <2>3. PICK low \in 1..(Len(bids) + 1) : low = Oldest
    BY <1>4
  <2>4. CountedBids \cap Items \subseteq paging.known
    BY <1>2 DEF CountedBids, Items, ToStore
  <2>5. KnownDownTo(low, {}, ended)'
    BY <1>5, <1>6, <2>2, <2>3, <2>4 DEF KnownDownTo
  <2>6. Reaches(low)'
    <3>1. low = Len(bids) + 1 - (paging.offset + Len(paging.page))
      BY <1>3, <1>4, <2>3
    <3>2. /\ paging.offset + Len(paging.page) \in Nat /\ Len(bids) \in Nat
          /\ paging.started \in Nat /\ paging.started <= Len(bids)
      BY <1>3, <1>4
    <3>3. /\ low - 1 <= Len(bids) - (paging.offset + Len(paging.page))
          /\ low + (paging.offset + Len(paging.page)) >= paging.started + 1
      BY <3>1, <3>2
    <3> QED
      BY <1>2, <1>5, <3>3 DEF Reaches
  <2> QED
    BY <1>2, <1>5, <2>5, <2>6 DEF WalkCovers
<1>10. ResultSound'
  BY <1>2, <1>6 DEF SpendInvariant, ResultSound
<1> QED
  BY <1>2, <1>6, <1>7, <1>8, <1>9, <1>10 DEF SpendInvariant

LEMMA FinishSpendKeeps ==
    ASSUME SpendInvariant, FinishSpend
    PROVE  SpendInvariant'
<1>1. BidsType /\ PagingType /\ Untorn
  BY DEF SpendInvariant
<1>2. /\ UNCHANGED <<bids, closedCache, torn>>
      /\ paging.at = "store" /\ ToStore = {}
      /\ LastPage(paging.page, paging.stored)
      /\ spend' = [closed |-> paging.cached + paging.new, active |-> paging.active,
                   due |-> paging.due]
      /\ paging' = NoPaging
  BY DEF FinishSpend
<1>3. paging'.at = "idle"
  BY <1>2 DEF NoPaging
<1>4. BidsType' /\ CountedBids' = CountedBids /\ Terminal' = Terminal
  BY <1>1, <1>2, <1>3, BidsKept DEF BidsType
<1>5. PagingType' /\ WalkInvariant'
  BY <1>3 DEF PagingType, WalkInvariant
<1>6. /\ paging.known \subseteq CountedBids /\ CountedBids \subseteq Terminal
      /\ Terminal \subseteq DOMAIN bids /\ DOMAIN bids = 1..Len(bids) /\ Len(bids) \in Nat
      /\ paging.cached + paging.new = Total(bids, paging.known)
  BY <1>1, <1>2, ListFacts DEF BidsType, PagingType, CountedBids, Terminal
<1>7. PICK ended \in SUBSET Terminal :
         paging.due = Total(bids, ended) /\ (~torn => WalkCovers(ended))
  BY <1>2 DEF SpendInvariant, WalkInvariant
<1>8. ASSUME ~torn
      PROVE  /\ \A b \in paging.known : \A a \in CountedBids : a < b => a \in paging.known
             /\ ended \cap CountedBids \subseteq paging.known
  <2>1. /\ KnownDownTo(Oldest, Items, ended)
        /\ paging.stored = 0 /\ ToStore = {} /\ Len(paging.page) = PageSize =>
              \A a \in CountedBids : a < Oldest => a \in paging.known
    BY <1>2, <1>7, <1>8 DEF WalkCovers
  <2>2. /\ Len(paging.page) \in Nat /\ Len(paging.page) <= PageSize
        /\ Len(paging.page) < PageSize => Oldest = 1
        /\ Oldest \in Int
    BY <1>1, <1>2, ItemsFacts
  <2>3. \A a \in CountedBids : a < Oldest => a \in paging.known
    BY <1>2, <1>6, <2>1, <2>2, SpendAssumption DEF LastPage
  <2>4. CountedBids \cap Items \subseteq paging.known
    BY <1>2 DEF CountedBids, Items, ToStore
  <2>5. \A a \in CountedBids : a < Oldest \/ a >= Oldest
    BY <1>6, <2>2
  <2> QED
    BY <2>1, <2>3, <2>4, <2>5 DEF KnownDownTo
<1>9. Untorn'
  BY <1>1, <1>2, <1>3, <1>4, <1>8 DEF Untorn, ClosedBelow
<1>10. ResultSound'
  <2>1. /\ paging.known \in SUBSET DOMAIN bids /\ Terminal \in SUBSET DOMAIN bids
        /\ ended \in SUBSET DOMAIN bids
    BY <1>6, <1>7
  <2>2. /\ Total(bids, paging.known) \in Nat /\ Total(bids, ended) \in Nat
        /\ Total(bids, paging.known) <= Total(bids, Terminal)
    BY <1>1, <1>6, <2>1, TotalFacts
  <2>3. ASSUME ~torn PROVE Total(bids, ended) <= Total(bids, paging.known)
    <3>1. \A b \in ended : bids[b].consumed > 0 => b \in paging.known
      BY <1>7, <1>8, <2>3 DEF CountedBids
    <3> QED
      BY <1>1, <2>1, <3>1, TotalFacts
  <2>4. spend'.closed = Total(bids, paging.known) /\ spend'.due = Total(bids, ended)
    BY <1>2, <1>6, <1>7
  <2> QED
    BY <1>2, <1>4, <2>2, <2>3, <2>4 DEF ResultSound
<1> QED
  BY <1>1, <1>2, <1>4, <1>5, <1>9, <1>10 DEF SpendInvariant

LEMMA SpendStep ==
    ASSUME SpendInvariant, [SpendNext]_spendVars
    PROVE  SpendInvariant'
<1>1. CASE UNCHANGED spendVars
  BY <1>1, SpendIdles DEF spendVars
<1>2. CASE SpendNext
  <2>1. SpendExpires => UNCHANGED <<bids, closedCache, paging, spend, torn>>
    BY DEF SpendExpires
  <2> QED
    BY <1>2, <2>1, AccountKeeps, SpendIdles, GetLifetimeSpendKeeps, PageListedKeeps,
       BreakOffKeeps, StoreTerminalKeeps, NextPageKeeps, FinishSpendKeeps,
       RebuildSpendKeeps DEF SpendNext
<1> QED
  BY <1>1, <1>2

LEMMA SpendStarts == SpendInit => SpendInvariant
<1> SUFFICES ASSUME SpendInit PROVE SpendInvariant
  OBVIOUS
<1>1. /\ bids = <<>> /\ closedCache = {} /\ paging = NoPaging /\ spend = Null
      /\ torn = FALSE /\ paging.at = "idle"
  BY DEF SpendInit, NoPaging
<1>2. BidsType
  <2>1. DOMAIN bids = {}
    BY <1>1
  <2>2. {b \in DOMAIN bids : bids[b].current \/ bids[b].consumed = 0} = {}
    BY <2>1
  <2>3. Uncounted = 0
    BY <1>1, <2>2, FS_EmptySet DEF Uncounted
  <2> QED
    BY <1>1, <2>1, <2>3, SpendAssumption DEF BidsType
<1> QED
  BY <1>1, <1>2 DEF SpendInvariant, PagingType, Untorn, ClosedBelow, WalkInvariant, ResultSound

\* The lifetime spend has every bid that had ended when its walk began, each
\* once, unless a walk broke off with a part stored or a rebuild met one.
THEOREM SpendCompleteHolds == SpendSpec => []SpendComplete
<1>1. SpendInvariant => SpendComplete
  BY SpentIsTotal DEF SpendInvariant, ResultSound, SpendComplete
<1> QED
  BY <1>1, SpendStarts, SpendStep, PTL DEF SpendSpec

-----------------------------------------------------------------------------
(* The lifetime spend: types *)

SpendTypes ==
    /\ SpendInvariant
    /\ \A b \in DOMAIN bids : bids[b].consumed <= MaxConsumed
    /\ paging.at \in {"idle", "list", "store"}
    /\ spendFresh \in BOOLEAN

\* No bid consumes more than there is.
LEMMA ConsumedBound ==
    ASSUME SpendTypes, [SpendNext]_spendVars
    PROVE  \A b \in DOMAIN bids' : bids'[b].consumed <= MaxConsumed
<1>1. bids \in Seq([current : BOOLEAN, consumed : Nat]) /\ DOMAIN bids = 1..Len(bids)
  BY DEF SpendTypes, SpendInvariant, BidsType
<1>2. CASE bids' = bids
  BY <1>2 DEF SpendTypes
<1>3. CASE PlaceBid
  <2>1. bids' = Append(bids, [current |-> TRUE, consumed |-> 0])
    BY <1>3 DEF PlaceBid
  <2>2. ASSUME NEW b \in DOMAIN bids' PROVE bids'[b].consumed <= MaxConsumed
    <3>1. \/ b \in DOMAIN bids /\ bids'[b] = bids[b]
          \/ bids'[b] = [current |-> TRUE, consumed |-> 0]
      BY <1>1, <2>1
    <3> QED
      BY <3>1, SpendAssumption DEF SpendTypes
  <2> QED
    BY <2>2
<1>4. ASSUME NEW b \in DOMAIN bids, Consume(b) \/ EndBid(b)
      PROVE  \A a \in DOMAIN bids' : bids'[a].consumed <= MaxConsumed
  <2>1. bids[b] \in [current : BOOLEAN, consumed : Nat] /\ MaxConsumed \in Nat
    BY <1>1, ListFacts, SpendAssumption
  <2>2. /\ DOMAIN bids' = DOMAIN bids
        /\ \A a \in DOMAIN bids : a # b => bids'[a] = bids[a]
        /\ bids'[b].consumed \in {bids[b].consumed, bids[b].consumed + 1}
        /\ bids'[b].consumed # bids[b].consumed => bids[b].consumed < MaxConsumed
    BY <1>4, <2>1 DEF Consume, EndBid
  <2>3. bids'[b].consumed <= MaxConsumed
    BY <2>1, <2>2 DEF SpendTypes
  <2> QED
    BY <2>2, <2>3 DEF SpendTypes
<1>5. bids' = bids \/ PlaceBid \/ \E b \in DOMAIN bids : Consume(b) \/ EndBid(b)
  BY DEF SpendNext, SpendExpires, GetLifetimeSpend, PageListed, PageFails,
         StoreTerminal, NextPage, FinishSpend, RebuildSpend, CrashSpend, spendVars
<1> QED
  BY <1>2, <1>3, <1>4, <1>5

LEMMA PagingStages ==
    ASSUME SpendTypes, [SpendNext]_spendVars
    PROVE  paging'.at \in {"idle", "list", "store"} /\ spendFresh' \in BOOLEAN
<1>1. paging.at # "idle" =>
        paging = [at |-> paging.at, cached |-> paging.cached,
                  known |-> paging.known, new |-> paging.new,
                  active |-> paging.active, offset |-> paging.offset,
                  page |-> paging.page, stored |-> paging.stored,
                  started |-> paging.started, due |-> paging.due]
  BY DEF SpendTypes, SpendInvariant, PagingType
<1>2. NoPaging.at = "idle"
  BY DEF NoPaging
<1>3. paging'.at \in {paging.at, "idle", "list", "store"}
  <2>1. CASE paging' = paging \/ paging' = NoPaging
    BY <1>2, <2>1
  <2>2. CASE GetLifetimeSpend
    BY <2>2 DEF GetLifetimeSpend
  <2>3. CASE PageListed \/ NextPage
    BY <1>1, <2>3 DEF PageListed, NextPage
  <2>4. CASE StoreTerminal
    <3>1. paging.at = "store"
      BY <2>4 DEF StoreTerminal
    <3>2. PICK known, stored, new :
             paging' = [paging EXCEPT !.known = known, !.stored = stored, !.new = new]
      BY <2>4 DEF StoreTerminal
    <3> QED
      BY <1>1, <3>1, <3>2
  <2> QED
    BY <2>1, <2>2, <2>3, <2>4 DEF SpendNext, PlaceBid, Consume, EndBid, SpendExpires,
       PageFails, FinishSpend, RebuildSpend, CrashSpend, spendVars
<1>4. spendFresh' \in BOOLEAN
  BY DEF SpendTypes, SpendNext, PlaceBid, Consume, EndBid, SpendExpires, GetLifetimeSpend,
         PageListed, PageFails, StoreTerminal, NextPage, FinishSpend, RebuildSpend,
         CrashSpend, spendVars
<1> QED
  BY <1>3, <1>4 DEF SpendTypes

LEMMA SpendTypesNext ==
    ASSUME SpendTypes, [SpendNext]_spendVars
    PROVE  SpendTypes'
<1>1. SpendInvariant'
  BY SpendStep DEF SpendTypes
<1> QED
  BY <1>1, ConsumedBound, PagingStages DEF SpendTypes

LEMMA SpendTypesInit == SpendInit => SpendTypes
<1> SUFFICES ASSUME SpendInit PROVE SpendTypes
  OBVIOUS
<1>1. DOMAIN bids = {} /\ paging.at = "idle" /\ spendFresh = FALSE
  BY DEF SpendInit, NoPaging
<1> QED
  BY <1>1, SpendStarts DEF SpendTypes

LEMMA SpendTyped ==
    ASSUME SpendTypes
    PROVE  SpendType
<1>1. ASSUME NEW b \in DOMAIN bids
      PROVE  bids[b] \in [current : BOOLEAN, consumed : 0..MaxConsumed]
  <2>1. bids[b] \in [current : BOOLEAN, consumed : Nat]
    BY ListFacts DEF SpendTypes, SpendInvariant, BidsType
  <2>2. bids[b].consumed <= MaxConsumed /\ MaxConsumed \in Nat
    BY SpendAssumption DEF SpendTypes
  <2>3. bids[b].consumed \in 0..MaxConsumed
    BY <2>1, <2>2
  <2> QED
    BY <2>1, <2>3
<1>2. closedCache \subseteq Terminal
  BY DEF SpendTypes, SpendInvariant, BidsType, CountedBids
<1>3. spend # Null => spend.closed \in Nat
  BY DEF SpendTypes, SpendInvariant, ResultSound
<1> QED
  BY <1>1, <1>2, <1>3 DEF SpendType, SpendTypes, SpendInvariant

\* Only bids that have ended are ever stored for good, and a result is a sum of
\* what has been consumed, whenever a bid ends in the middle of a walk, for any
\* number of bids (account-spend.ts:103-158).
THEOREM SpendTypeHolds == SpendSpec => []SpendType
<1> QED
  BY SpendTypesInit, SpendTypesNext, SpendTyped, PTL DEF SpendSpec
=============================================================================
