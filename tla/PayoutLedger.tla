---------------------------- MODULE PayoutLedger ----------------------------
(***************************************************************************)
(* OceanPayoutsService, DeducedPayoutsScanner and the "payout confirmed"     *)
(* detector over the table ocean_payouts.  A sync reads Ocean's payout       *)
(* ledger, in full or its last 60 days, and stores what is new; the scan     *)
(* that follows deduces from the drops of the unpaid balance the payouts the *)
(* ledger does not have, and drops a deduced one whose record surfaced.      *)
(* Every tick the detector confirms the rows not yet confirmed.  The         *)
(* operator may rebuild or reset the table and annotate a payout.            *)
(*                                                                          *)
(* After its fetch a sync waits for SQLite only, which is synchronous:       *)
(* nothing else runs until it is over, but the daemon may die in between.    *)
(***************************************************************************)
EXTENDS Daemon

CONSTANTS
    Payouts,    \* payouts Ocean makes
    OnChain,    \* those that surface in its ledger
    MaxJoined   \* bound on resets asked for while a sync runs

ASSUME LedgerAssumption == OnChain \subseteq Payouts /\ MaxJoined \in Nat

VARIABLES
    settled,     \* payouts made, by age: 0 to 3 days, 1 to 60 days, 2 older
    surfaced,    \* those in Ocean's ledger
    rows,        \* ocean_payouts: enriched_alert, by dedup key
    note,        \* a note of the operator: its row, and how that was lost
    sync,        \* the sync under way
    forceFull,   \* forceFullBackfill
    forceReset,  \* forceHardReset
    healDue,     \* the last full backfill is a day old, or of another life
    wanted,      \* notify_on_payout_confirmed
    baselined,   \* payoutSettledBaselined
    confirming,  \* the pass of the detector: still to send, rows to mark
    confirmed,   \* history: confirmations per payout
    joined       \* history: resets asked for while a sync ran

ledgerVars == <<settled, surfaced, rows, note, sync, forceFull, forceReset, healDue,
                wanted, baselined, confirming, confirmed, joined, crashes>>

world == <<settled, surfaced, wanted, joined>>
detector == <<baselined, confirming, confirmed>>
flow == <<forceFull, forceReset, healDue>>

\* A row is keyed by the transaction or, deduced, by the tick of the drop.
Real(p) == <<p, "real">>
Deduced(p) == <<p, "deduced">>
Stored == DOMAIN rows

NoSync == [at |-> "idle", full |-> FALSE, got |-> {}, reset |-> FALSE]
NoPass == [left |-> {}, rows |-> {}]

LedgerInit ==
    /\ settled = <<>>
    /\ surfaced = {}
    /\ rows = <<>>
    /\ note = Null
    /\ sync = NoSync
    /\ forceFull = FALSE
    /\ forceReset = FALSE
    /\ healDue = TRUE
    /\ wanted = TRUE
    /\ baselined = FALSE
    /\ confirming = NoPass
    /\ confirmed = [p \in Payouts |-> 0]
    /\ joined = 0
    /\ crashes = 0

\* Only then does anything but the sync get to run.
Yielding == sync.at \in {"idle", "fetch"}

-----------------------------------------------------------------------------
(* Ocean, time and the operator *)

Settle(p) ==
    /\ Yielding
    /\ p \notin DOMAIN settled
    /\ settled' = [q \in DOMAIN settled \cup {p} |-> IF q = p THEN 0 ELSE settled[q]]
    /\ UNCHANGED <<surfaced, rows, note, sync, flow, wanted, detector, joined, crashes>>

\* The record of an on-chain payout surfaces within hours.
Surface(p) ==
    /\ Yielding
    /\ p \in (OnChain \cap DOMAIN settled) \ surfaced
    /\ surfaced' = surfaced \cup {p}
    /\ UNCHANGED <<settled, rows, note, sync, flow, wanted, detector, joined, crashes>>

GrowOlder(p) ==
    /\ Yielding
    /\ p \in DOMAIN settled
    /\ p \in OnChain => p \in surfaced
    /\ settled[p] < 2
    /\ settled' = [settled EXCEPT ![p] = @ + 1]
    /\ UNCHANGED <<surfaced, rows, note, sync, flow, wanted, detector, joined, crashes>>

ADayLater ==
    /\ Yielding
    /\ ~healDue
    /\ healDue' = TRUE
    /\ UNCHANGED <<world, rows, note, sync, forceFull, forceReset, detector, crashes>>

Annotate(row) ==
    /\ Yielding
    /\ note = Null
    /\ row \in Stored
    /\ note' = [row |-> row, lost |-> "not"]
    /\ UNCHANGED <<world, rows, sync, flow, detector, crashes>>

ToggleConfirm ==
    /\ Yielding
    /\ wanted' = ~wanted
    /\ UNCHANGED <<settled, surfaced, rows, note, sync, flow, detector, joined, crashes>>

-----------------------------------------------------------------------------
(* doSync() *)

\* Mutation of Fetching: a reset fetches no more than a refresh does.
FetchingWindow(full, reset) ==
    [NoSync EXCEPT !.at = "fetch", !.full = Stored = {} \/ full \/ healDue]

\* Mutation of Fetching: no daily backfill.
FetchingOnce(full, reset) ==
    [NoSync EXCEPT !.at = "fetch", !.full = Stored = {} \/ full \/ reset]

\* What to read is decided here, before the call to Ocean.
Fetching(full, reset) ==
    [NoSync EXCEPT !.at = "fetch", !.full = Stored = {} \/ full \/ reset \/ healDue]

\* The timer.
StartSync ==
    /\ sync.at = "idle"
    /\ sync' = Fetching(forceFull, forceReset)
    /\ UNCHANGED <<world, rows, note, flow, detector, crashes>>

\* The buttons start a sync or join the one that runs.
RequestFull ==
    /\ Yielding
    /\ forceFull' = TRUE
    /\ sync' = IF sync.at = "idle" THEN Fetching(TRUE, forceReset) ELSE sync
    /\ UNCHANGED <<world, rows, note, forceReset, healDue, detector, crashes>>

HardReset ==
    /\ Yielding
    /\ forceReset' = TRUE
    /\ \/ /\ sync.at = "idle"
          /\ sync' = Fetching(forceFull, TRUE)
          /\ UNCHANGED joined
       \/ /\ sync.at = "fetch"
          /\ joined < MaxJoined
          /\ joined' = joined + 1
          /\ UNCHANGED sync
    /\ UNCHANGED <<settled, surfaced, rows, note, forceFull, healDue, wanted, detector,
                   crashes>>

\* Ocean does not answer: the table stays as it is.
FetchFails ==
    /\ sync.at = "fetch"
    /\ sync' = NoSync
    /\ UNCHANGED <<world, rows, note, flow, detector, crashes>>

\* The answer, which a reset asked for in the meantime applies to as well.
Fetched ==
    /\ sync.at = "fetch"
    /\ sync' = [sync EXCEPT !.at = IF forceReset THEN "wipe" ELSE "store",
                            !.got = {p \in surfaced : sync.full \/ settled[p] <= 1},
                            !.reset = forceReset]
    /\ forceFull' = (forceFull /\ ~sync.full)
    /\ healDue' = (healDue /\ ~sync.full)
    /\ UNCHANGED <<world, rows, note, forceReset, detector, crashes>>

\* deleteForAddress(); the ids a pass of the detector holds are gone too.
Wipe ==
    /\ sync.at = "wipe"
    /\ rows' = <<>>
    /\ note' = IF note = Null THEN Null ELSE [note EXCEPT !.lost = "wiped"]
    /\ confirming' = [confirming EXCEPT !.rows = {}]
    /\ forceReset' = FALSE
    /\ sync' = [sync EXCEPT !.at = "store"]
    /\ UNCHANGED <<world, forceFull, healDue, baselined, confirmed, crashes>>

\* enriched_alert of new rows: what a backfill finds counts as history.
Enriched(full) == full

Insert(keys, enriched) ==
    [k \in Stored \cup keys |-> IF k \in Stored THEN rows[k] ELSE enriched]

StoreRows ==
    /\ sync.at = "store"
    /\ rows' = Insert({Real(p) : p \in sync.got}, Enriched(sync.full))
    /\ sync' = [sync EXCEPT !.at = "scan"]
    /\ UNCHANGED <<world, note, flow, detector, crashes>>

\* Mutation of Superseded: the scan only adds.
SupersededNone == {}

\* Deduced rows whose record is there now.
Superseded == {p \in Payouts : {Real(p), Deduced(p)} \subseteq Stored}

\* The drops a scan sees that no record explains.
Unexplained ==
    {p \in DOMAIN settled : (sync.full \/ settled[p] = 0) /\ Real(p) \notin Stored}

\* The scan adds what it deduces, ...
DeduceRows ==
    /\ sync.at = "scan"
    /\ rows' = Insert({Deduced(p) : p \in Unexplained}, TRUE)
    /\ sync' = [sync EXCEPT !.at = "rekey"]
    /\ UNCHANGED <<world, note, flow, detector, crashes>>

\* Mutation of Rekeyed: the note stays where it is.
RekeyedNot(n) == n

\* The note of a deduced row goes to the record.
Rekeyed(n) ==
    IF n # Null /\ n.lost = "not" /\ n.row \in {Deduced(p) : p \in Superseded}
    THEN [n EXCEPT !.row = Real(@[1])] ELSE n

\* ... moves the notes of what the ledger has after all, ...
RekeyNote ==
    /\ sync.at = "rekey"
    /\ note' = Rekeyed(note)
    /\ sync' = [sync EXCEPT !.at = "drop"]
    /\ UNCHANGED <<world, rows, flow, detector, crashes>>

\* ... and deletes those rows.
DropRows ==
    /\ sync.at = "drop"
    /\ rows' = [k \in Stored \ {Deduced(p) : p \in Superseded} |-> rows[k]]
    /\ note' = IF note # Null /\ note.lost = "not"
                    /\ note.row \in {Deduced(p) : p \in Superseded}
               THEN [note EXCEPT !.lost = "dropped"] ELSE note
    /\ sync' = IF sync.reset THEN [sync EXCEPT !.at = "reattach"] ELSE NoSync
    /\ UNCHANGED <<world, flow, detector, crashes>>

\* A note is given the new id of its row, which the dedup key finds.
Reattached(n) ==
    IF n # Null /\ n.row \in Stored THEN [n EXCEPT !.lost = "not"] ELSE n

\* reattachPayoutNotes(); the snapshot taken before the wipe is what tells a
\* note that was lost now from one lost before, and there is one note.
Reattach ==
    /\ sync.at = "reattach"
    /\ note' = Reattached(note)
    /\ sync' = NoSync
    /\ UNCHANGED <<world, rows, flow, detector, crashes>>

-----------------------------------------------------------------------------
(* evaluatePayoutConfirmed(), once per tick *)

\* The first eligible tick: all that is stored is history.
BaselinePayouts ==
    /\ Yielding
    /\ wanted
    /\ ~baselined
    /\ baselined' = TRUE
    /\ rows' = [k \in Stored |-> TRUE]
    /\ UNCHANGED <<world, note, sync, flow, confirming, confirmed, crashes>>

BeginConfirm ==
    /\ Yielding
    /\ wanted
    /\ baselined
    /\ confirming = NoPass
    /\ LET fresh == {k \in Stored : ~rows[k]}
       IN  /\ fresh # {}
           /\ confirming' = [left |-> fresh, rows |-> fresh]
    /\ UNCHANGED <<world, rows, note, sync, flow, baselined, confirmed, crashes>>

Confirm(k) ==
    /\ Yielding
    /\ k \in confirming.left
    /\ confirmed' = [confirmed EXCEPT ![k[1]] = @ + 1]
    /\ confirming' = [confirming EXCEPT !.left = @ \ {k}]
    /\ UNCHANGED <<world, rows, note, sync, flow, baselined, crashes>>

\* markEnriched(), by the ids the pass began with.
Marked == [k \in Stored |-> rows[k] \/ k \in confirming.rows]

MarkConfirmed ==
    /\ Yielding
    /\ confirming # NoPass
    /\ confirming.left = {}
    /\ rows' = Marked
    /\ confirming' = NoPass
    /\ UNCHANGED <<world, note, sync, flow, baselined, confirmed, crashes>>

\* The table and the note are all that is left.
CrashLedger ==
    /\ Dies
    /\ sync' = NoSync
    /\ forceFull' = FALSE
    /\ forceReset' = FALSE
    /\ healDue' = TRUE
    /\ baselined' = FALSE
    /\ confirming' = NoPass
    /\ UNCHANGED <<world, rows, note, confirmed>>

SyncStep ==
    Wipe \/ StoreRows \/ DeduceRows \/ RekeyNote \/ DropRows \/ Reattach

LedgerNext ==
    \/ \E p \in Payouts : Settle(p) \/ Surface(p) \/ GrowOlder(p)
    \/ ADayLater
    \/ \E k \in Stored : Annotate(k)
    \/ ToggleConfirm
    \/ StartSync \/ RequestFull \/ HardReset
    \/ FetchFails \/ Fetched \/ SyncStep
    \/ BaselinePayouts \/ BeginConfirm \/ MarkConfirmed
    \/ \E k \in Payouts \X {"real"} : Confirm(k)
    \/ CrashLedger

LedgerSpec == LedgerInit /\ [][LedgerNext]_ledgerVars

-----------------------------------------------------------------------------
(* Properties *)

LedgerType ==
    /\ \A p \in DOMAIN settled : p \in Payouts /\ settled[p] \in 0..2
    /\ surfaced \subseteq OnChain \cap DOMAIN settled
    /\ Stored \subseteq (DOMAIN settled) \X {"real", "deduced"}
    /\ \A k \in Stored : rows[k] \in BOOLEAN
    /\ sync.at \in {"idle", "fetch", "wipe", "store", "scan", "rekey", "drop", "reattach"}
    /\ note # Null => note.lost \in {"not", "wiped", "dropped"}
    /\ joined \in 0..MaxJoined

\* A settlement is confirmed at most once, over restarts, rebuilds and
\* resets, while a pass of the detector waits for Telegram, unless a reset
\* was asked for while a refresh of the last 60 days was under way
\* (alert-evaluator.ts:1175-1196).
ConfirmedOnce == \A p \in Payouts : confirmed[p] <= 1 + joined

\* No payout counts twice, as deduced and as recorded, once the first sync
\* since boot is over, however far a sync got before a crash
\* (deduced-payouts.ts:22-40, the "collected" sum of the P&L).
CountedOnce ==
    sync.at \in {"idle", "fetch"} /\ ~healDue =>
        \A p \in Payouts : ~({Real(p), Deduced(p)} \subseteq Stored)

\* The note on a payout keeps a row: the record that replaces a deduced row
\* takes it over, crashes in between included, and a reset gives it back,
\* apart from a reset that crashes, that was joined to a refresh, or that is
\* the first to see the record
\* (ocean-payouts-service.ts:80-88, deduced-payouts.ts:148-150).
NoteFollows ==
    note # Null /\ sync.at = "idle" =>
        \/ note.lost = "not"
        \/ /\ note.lost = "wiped"
           /\ \/ crashes > 0
              \/ joined > 0
              \/ note.row[2] = "deduced" /\ Real(note.row[1]) \in Stored

\* Whatever the operator resets and however often Ocean fails, the table
\* comes back to a row for every payout made: the record if there is one.
Healed ==
    \A p \in Payouts :
        []<>(p \in DOMAIN settled =>
                IF p \in surfaced THEN Real(p) \in Stored ELSE Deduced(p) \in Stored)

\* Timers fire, days pass, database steps are taken, and now and then Ocean
\* answers.
LedgerFairness ==
    /\ WF_ledgerVars(StartSync)
    /\ SF_ledgerVars(ADayLater)
    /\ WF_ledgerVars(SyncStep)
    /\ SF_ledgerVars(Fetched)
=============================================================================
