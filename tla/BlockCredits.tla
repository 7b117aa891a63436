---------------------------- MODULE BlockCredits ----------------------------
(***************************************************************************)
(* The two detectors of AlertEvaluator that follow the balance Ocean owes:  *)
(* "pool block credited", which waits for a new block to show in the         *)
(* balance, and "payout initiated", which looks for its drop.  Both keep     *)
(* their baselines in memory.  The blocks are in the table pool_blocks,      *)
(* which the tick and the backfill at boot fill.  Time is counted in ticks.  *)
(***************************************************************************)
EXTENDS Daemon, FiniteSets, FiniteSetsExt

CONSTANTS
    PastBlocks,     \* heights mined before the install
    NewBlocks,      \* heights mined after it
    Slice,          \* how many of the newest blocks Ocean tells a tick
    Failsafe,       \* ticks after which a block is announced anyway
    MaxBalance,     \* bound on the balance: no block is credited beyond it
    PayoutThreshold, \* OCEAN_PAYOUT_THRESHOLD_SAT, in the unit of the balance
    MaxFailures,    \* bound on alerts that cannot be recorded
    MaxPayouts      \* bound on payouts

Blocks == PastBlocks \cup NewBlocks

\* A pass: blocks still to announce, those done, and what Ocean told.
Passes == [left : SUBSET Blocks, done : SUBSET Blocks, reading : {Null} \cup Nat]

ASSUME BlocksAssumption ==
    /\ Blocks \subseteq Nat
    /\ PastBlocks # {}
    /\ \A p \in PastBlocks, n \in NewBlocks : p < n
    /\ \E top \in Blocks : \A h \in Blocks : h <= top
    /\ Null \notin Passes
    /\ {Slice, Failsafe, MaxBalance, PayoutThreshold, MaxFailures,
        MaxPayouts} \subseteq Nat

VARIABLES
    mined,      \* Ocean: its blocks
    balance,    \* Ocean: what it owes, in units of one block's share
    uncredited, \* Ocean: blocks its balance does not have yet
    poolBlocks, \* the heights in pool_blocks
    walk,       \* runPoolBlocksBackfill(): the height it is down to
    watermark,  \* lastNotifiedBlockHeight
    pending,    \* pendingPoolBlockCredits: what was owed, and for how long
    round,      \* the pass under way, of Passes, or Null
    prevUnpaid, \* payoutPrevUnpaidSat
    following,  \* notify_on_pool_block_credit and notify_on_payout_initiated
    praised,    \* history: announcements per block
    initiated,  \* history: payouts announced
    payouts,    \* history: payouts made
    failures,   \* history: alerts that could not be recorded
    blankPass   \* history: a first pass met an empty table

creditVars == <<mined, balance, uncredited, poolBlocks, walk, watermark, pending, round,
                prevUnpaid, following, praised, initiated, payouts, failures,
                blankPass, crashes>>

ocean == <<mined, balance, uncredited, payouts>>
memoryOf == <<watermark, pending, round, prevUnpaid>>
history == <<praised, initiated>>
bounds == <<failures, blankPass, crashes>>

\* The backfill at boot walks down from the newest block, unless the table
\* reaches back far enough.
Top == 1 + Max(Blocks)
Backfill(heights) == IF Min(PastBlocks) \in heights THEN Null ELSE Top

CreditInit ==
    /\ mined = PastBlocks
    /\ balance = 0
    /\ uncredited = {}
    /\ poolBlocks = {}
    /\ walk = Backfill({})
    /\ watermark = Null
    /\ pending = <<>>
    /\ round = Null
    /\ prevUnpaid = Null
    /\ following = TRUE
    /\ praised = [h \in Blocks |-> 0]
    /\ initiated = 0
    /\ payouts = 0
    /\ failures = 0
    /\ blankPass = FALSE
    /\ crashes = 0

-----------------------------------------------------------------------------
(* Ocean, the table, the operator *)

MineBlock(h) ==
    /\ h \in NewBlocks \ mined
    /\ \A g \in mined : g < h
    /\ mined' = mined \cup {h}
    /\ uncredited' = uncredited \cup {h}
    /\ UNCHANGED <<balance, payouts, poolBlocks, walk, memoryOf, following,
                   history, bounds>>

\* The balance lags behind the list of blocks by minutes.
CreditBlock(h) ==
    /\ h \in uncredited
    /\ balance < MaxBalance
    /\ balance' = balance + 1
    /\ uncredited' = uncredited \ {h}
    /\ UNCHANGED <<mined, payouts, poolBlocks, walk, memoryOf, following,
                   history, bounds>>

PayOut ==
    /\ balance >= PayoutThreshold
    /\ payouts < MaxPayouts
    /\ balance' = 0
    /\ payouts' = payouts + 1
    /\ UNCHANGED <<mined, uncredited, poolBlocks, walk, memoryOf, following,
                   history, bounds>>

Newest == {h \in mined : Cardinality({g \in mined : g > h}) < Slice}

\* observe(): the newest blocks, if Ocean answers.
StoreNewest ==
    /\ round = Null
    /\ ~(Newest \subseteq poolBlocks)
    /\ poolBlocks' = poolBlocks \cup Newest
    /\ UNCHANGED <<ocean, walk, memoryOf, following, history, bounds>>

\* The next page of the backfill, down to the end of its lookback; a page
\* that fails ends it.
BackfillPage ==
    /\ walk # Null
    /\ LET below == {h \in mined : h < walk}
       IN  /\ poolBlocks' = IF below = {} THEN poolBlocks
                            ELSE poolBlocks \cup {Max(below)}
           /\ walk' = IF Cardinality(below) <= 1 THEN Null ELSE Max(below)
    /\ UNCHANGED <<ocean, memoryOf, following, history, bounds>>

BackfillFails ==
    /\ walk # Null
    /\ walk' = Null
    /\ UNCHANGED <<ocean, poolBlocks, memoryOf, following, history, bounds>>

ToggleCredits ==
    /\ following' = ~following
    /\ UNCHANGED <<ocean, poolBlocks, walk, memoryOf, history, bounds>>

-----------------------------------------------------------------------------
(* evaluatePoolBlockCredited() and evaluatePayoutInitiated() *)

\* What is above both the watermark and the queue is new.
Unnoticed == {h \in poolBlocks : \A g \in {watermark} \cup DOMAIN pending : g < h}

Queue(reading) ==
    [h \in DOMAIN pending \cup Unnoticed |->
        IF h \in Unnoticed THEN [owed |-> reading, age |-> 0]
        ELSE [pending[h] EXCEPT !.age = Older(@, Failsafe)]]

\* Mutation of Ready: without the failsafe.
ReadyOnCredit(entry, reading) ==
    reading # Null /\ (entry.owed = Null \/ reading > entry.owed)

\* The balance rose, is known again, or the wait has been long enough.
Ready(entry, reading) ==
    \/ entry.age = Failsafe
    \/ reading # Null /\ (entry.owed = Null \/ reading > entry.owed)

\* More than 30% down, to less than the threshold.
Dropped(from, reading) ==
    /\ reading # Null
    /\ from # Null
    /\ 10 * (from - reading) > 3 * from
    /\ reading < PayoutThreshold

\* A tick, with the balance if Ocean told it; the first pass of all only
\* sets the watermark.
BeginPass(reading) ==
    /\ round = Null
    /\ following
    /\ IF watermark = Null
       THEN /\ watermark' = IF poolBlocks = {} THEN -1 ELSE Max(poolBlocks)
            /\ blankPass' = (blankPass \/ poolBlocks = {})
            /\ round' = [left |-> {}, done |-> {}, reading |-> reading]
            /\ UNCHANGED pending
       ELSE /\ pending' = Queue(reading)
            /\ round' = [left |-> {h \in DOMAIN pending' : Ready(pending'[h], reading)},
                         done |-> {}, reading |-> reading]
            /\ UNCHANGED <<watermark, blankPass>>
    /\ UNCHANGED <<ocean, poolBlocks, walk, prevUnpaid, following, history,
                   failures, crashes>>

\* With the toggles off neither detector does anything.
SkipPass ==
    /\ round = Null
    /\ ~following
    /\ pending' = [h \in DOMAIN pending |->
                     [pending[h] EXCEPT !.age = Older(@, Failsafe)]]
    /\ UNCHANGED <<ocean, poolBlocks, walk, watermark, round, prevUnpaid,
                   following, history, bounds>>

\* The blocks that are ready, by height.
AnnounceBlock ==
    /\ round # Null
    /\ round.left # {}
    /\ LET h == Min(round.left)
       IN  /\ praised' = [praised EXCEPT ![h] = @ + 1]
           /\ watermark' = Max({h, watermark})
           /\ round' = [round EXCEPT !.left = @ \ {h}, !.done = @ \cup {h}]
    /\ UNCHANGED <<ocean, poolBlocks, walk, pending, prevUnpaid, following,
                   initiated, bounds>>

\* An alert cannot be recorded: the pass ends there, and the queue keeps
\* what this pass announced.
AnnouncementFails ==
    /\ round # Null
    /\ round.left # {}
    /\ failures < MaxFailures
    /\ failures' = failures + 1
    /\ round' = Null
    /\ UNCHANGED <<ocean, poolBlocks, walk, watermark, pending, prevUnpaid,
                   following, history, blankPass, crashes>>

Kept == [h \in DOMAIN pending \ round.done |-> pending[h]]

\* Mutation of Remembered: the highest balance stays the baseline.
RememberedHighest(reading) ==
    IF reading = Null \/ prevUnpaid = Null THEN reading ELSE Max({prevUnpaid, reading})

\* payoutPrevUnpaidSat: the last reading, unknown ones included.
Remembered(reading) == reading

\* The queue is what was not ready; then the other detector.
EndPass ==
    /\ round # Null
    /\ round.left = {}
    /\ pending' = Kept
    /\ initiated' = initiated + (IF Dropped(prevUnpaid, round.reading) THEN 1 ELSE 0)
    /\ prevUnpaid' = Remembered(round.reading)
    /\ round' = Null
    /\ UNCHANGED <<ocean, poolBlocks, walk, watermark, following, praised, bounds>>

\* Mutation of Hydration: nothing is known at boot.
HydrationBlank(heights) == IF heights = {} THEN Null ELSE -1

\* hydrate(): all that is in the table is known.
Hydration(heights) == IF heights = {} THEN Null ELSE Max(heights)

CrashCredits ==
    /\ Dies
    /\ watermark' = Hydration(poolBlocks)
    /\ pending' = <<>>
    /\ round' = Null
    /\ prevUnpaid' = Null
    /\ walk' = Backfill(poolBlocks)
    /\ UNCHANGED <<ocean, poolBlocks, following, history, failures, blankPass>>

Pass == AnnounceBlock \/ AnnouncementFails \/ EndPass

CreditNext ==
    \/ \E h \in Blocks : MineBlock(h) \/ CreditBlock(h)
    \/ PayOut
    \/ StoreNewest \/ BackfillPage \/ BackfillFails
    \/ ToggleCredits
    \/ \E reading \in {Null, balance} : BeginPass(reading)
    \/ SkipPass
    \/ Pass
    \/ CrashCredits

CreditSpec == CreditInit /\ [][CreditNext]_creditVars

-----------------------------------------------------------------------------
(* Properties *)

CreditType ==
    /\ mined \subseteq Blocks
    /\ poolBlocks \subseteq mined
    /\ balance \in 0..MaxBalance
    /\ watermark \in {Null, -1} \cup Blocks
    /\ DOMAIN pending \subseteq poolBlocks
    /\ \A h \in DOMAIN pending : pending[h].age \in 0..Failsafe
    /\ round # Null => round.left \cup round.done \subseteq DOMAIN pending

\* A block is announced once, over restarts, toggles and payouts, except that
\* an alert that could not be recorded repeats those before it in its pass;
\* and one of before the install is not announced, in whatever order the
\* ticks, the backfill and restarts fill the table, unless the first pass ran
\* before anything was in it (alert-evaluator.ts:902-941, pool_blocks.ts:140-145).
BlockOnce ==
    \A h \in Blocks :
        praised[h] <= IF h \in PastBlocks /\ ~blankPass THEN 0 ELSE 1 + failures

\* There are no more alerts of a payout than payouts, through toggles,
\* restarts and readings that fail (alert-evaluator.ts:1114-1124).
InitiatedOnce == initiated <= payouts

\* A block above all the detector has noticed is announced within the
\* failsafe, whatever becomes of the balance, unless the daemon dies or the
\* toggle is off (alert-evaluator.ts:917-933).
BlockAnnounced ==
    \A h \in NewBlocks :
        watermark # Null /\ h \in Unnoticed ~> praised[h] > 0 \/ ~following \/ crashes > 0

\* Ticks follow each other, and a pass ends.
CreditFairness ==
    /\ WF_creditVars(\E reading \in {Null, balance} : BeginPass(reading))
    /\ WF_creditVars(Pass)
=============================================================================
