------------------------- MODULE GuardedController --------------------------
(***************************************************************************)
(* The controller with its bid guard, wired as main.ts wires them: decide() *)
(* reads the hold through getCreateHold, TickLoop's onTick feeds the guard  *)
(* when a tick of the loop is over, and the hold is written to SQLite by a  *)
(* write that nobody waits for.  The tick-now route runs the same ticks and *)
(* does not feed the guard.                                                 *)
(***************************************************************************)
EXTENDS Controller, Sequences

CONSTANTS
    ChurnStreakThreshold, OwnCancelMemory, BlacklistMargin, BlacklistFallback,
    Bans    \* how long, in minutes, Braiins may blacklist the pool

G == INSTANCE BidGuard WITH GuardedIds <- Orders

ASSUME GuardAssumption ==
    /\ ChurnStreakThreshold \in Nat \ {0}
    /\ OwnCancelMemory \in Nat
    /\ BlacklistMargin \in Nat
    /\ BlacklistFallback \in Nat \ {0}
    /\ Bans \subseteq Nat \ {0}

VARIABLES
    guard,      \* the BidGuardService
    stored,     \* SQLite runtime_state.create_hold_*
    delivered,  \* orders that have delivered hashrate
    heard,      \* delivered, when the loop's tick read the list
    ban,        \* minutes the pool stays on Braiins' blacklist
    refusals    \* expiries named by the refused CREATEs of the loop's tick

guardVars == <<guard, stored, delivered, heard, ban, refusals>>
allVars == <<vars, guardVars>>

GuardedInit ==
    /\ Init
    /\ guard = G!NewGuard
    /\ stored = G!NoHold
    /\ delivered = {}
    /\ heard = {}
    /\ ban = 0
    /\ refusals = {}

-----------------------------------------------------------------------------
(* Ticks *)

HearList(t) ==
    /\ ReadList(t)
    /\ heard' = IF t = "loop" THEN delivered ELSE heard
    /\ UNCHANGED <<guard, stored, delivered, ban, refusals>>

\* observe() ends by reading the hold, which drops one that has run out.
DecideGuarded(t) ==
    /\ guard' = G!Refreshed(guard)
    /\ \E quote \in Quotes, reachable \in Probes, stale \in NodeStale :
          DecideNow(t, quote, reachable, stale, guard'.hold # G!NoHold)
    /\ UNCHANGED <<stored, delivered, heard, ban, refusals>>

\* While the pool is blacklisted Braiins refuses every CREATE and says until
\* when; the daemon can read it, or cannot (0).
SendRefused(t, p) ==
    /\ MaySend(t, p)
    /\ p.kind = "CREATE_BID"
    /\ ban > 0
    /\ Failed(t, p)
    /\ \E expiry \in {ban, 0} :
          refusals' = IF t = "loop" THEN {expiry} ELSE refusals
    /\ UNCHANGED <<orders, ledger, runMode, poolFails, cancelled, faults>>
    /\ UNCHANGED <<guard, stored, delivered, heard, ban>>

Send(t) ==
    \E p \in tick[t].todo :
        \/ SendRefused(t, p)
        \/ /\ p.kind = "CREATE_BID" => ban = 0
           /\ \/ SendCreate(t, p) \/ SendEditPrice(t, p) \/ SendEditSpeed(t, p)
              \/ SendCancel(t, p) \/ ExecutePause(t, p)
           /\ UNCHANGED guardVars

\* onTick: first the orders, as patched by the tick, then the executions.
FeedGuard(t) ==
    G!Executed(G!Observed(guard, PatchedOwned(t), heard, tick[t].bidsOk),
               tick[t].cancels, refusals)

FinishTick(t) ==
    /\ Finish(t)
    /\ guard' = IF t = "loop" THEN FeedGuard(t) ELSE guard
    /\ heard' = IF t = "loop" THEN {} ELSE heard
    /\ refusals' = IF t = "loop" THEN {} ELSE refusals
    /\ UNCHANGED <<stored, delivered, ban>>

GuardedStep(t) ==
    \/ (Begin(t) \/ SyncLedger(t) \/ Record(t)) /\ UNCHANGED guardVars
    \/ HearList(t)
    \/ DecideGuarded(t)
    \/ Send(t)
    \/ FinishTick(t)

-----------------------------------------------------------------------------
(* The rest of the world *)

\* setHold()'s write lands.
StoreHold ==
    /\ stored # guard.hold
    /\ stored' = guard.hold
    /\ UNCHANGED <<vars, guard, delivered, heard, ban, refusals>>

\* The operator's resume button.
ClearHold ==
    /\ "clearHold" \in Events
    /\ guard.hold # G!NoHold
    /\ guard' = G!Cleared(guard)
    /\ UNCHANGED <<vars, stored, delivered, heard, ban, refusals>>

Deliver(o) ==
    /\ "delivers" \in Events
    /\ orders[o].status = "ACTIVE"
    /\ o \notin delivered
    /\ delivered' = delivered \cup {o}
    /\ UNCHANGED <<vars, guard, stored, heard, ban, refusals>>

Blacklist(minutes) ==
    /\ ban = 0
    /\ ban' = minutes
    /\ UNCHANGED <<vars, guard, stored, delivered, heard, refusals>>

\* Mutation of Restarted: the hold is not restored.
RestartedEmpty(hold) == G!NewGuard

Restarted(hold) == G!Hydrated(hold)

GuardedCrash ==
    /\ Crash
    /\ guard' = Restarted(stored)
    /\ heard' = {}
    /\ refusals' = {}
    /\ UNCHANGED <<stored, delivered, ban>>

\* Braiins unwinds a cancelled order, and a tick sees it gone, well within
\* the time the guard remembers the cancel (bid-guard.ts:42-48).
Unwinding ==
    {o \in Orders :
        /\ guard.cancels[o] # G!NoCancel
        /\ IsLive(o) \/ G!IsTracked(guard, o) \/ \E t \in Ticks : o \in Seen(t)}

GuardedMinute ==
    /\ Minute
    /\ \A o \in Unwinding : guard.cancels[o] < OwnCancelMemory
    /\ guard' = G!MinuteOn(guard)
    /\ stored' = G!NextMinute(stored)
    /\ ban' = IF ban = 0 THEN 0 ELSE ban - 1
    /\ UNCHANGED <<delivered, heard, refusals>>

GuardedNext ==
    \/ \E t \in Ticks : GuardedStep(t)
    \/ StoreHold
    \/ ClearHold
    \/ \E o \in Orders : Deliver(o)
    \/ \E minutes \in Bans : Blacklist(minutes)
    \/ GuardedCrash
    \/ GuardedMinute
    \/ /\ \/ \E mode \in RunModes : SetRunMode(mode)
          \/ \E o \in Orders :
                \/ CancelStaleUrl(o) \/ RecordStaleUrl(o)
                \/ Surface(o) \/ Leave(o) \/ PauseOrResume(o) \/ PlaceByHand(o)
       /\ UNCHANGED guardVars

GuardedSpec == GuardedInit /\ [][GuardedNext]_allVars

-----------------------------------------------------------------------------
(* Properties *)

HoldType == {G!NoHold, G!ChurnHold} \cup [kind : {"blacklist"}, left : Nat]

TrackedType == [order : Orders, delivered : BOOLEAN]

GuardRecord ==
    [hold : HoldType, streak : Nat, tracked : Seq(TrackedType),
     cancels : [Orders -> {G!NoCancel} \cup 0..(OwnCancelMemory + 1)]]

GuardType ==
    /\ guard \in GuardRecord
    /\ stored \in HoldType
    /\ delivered \subseteq Orders /\ heard \subseteq Orders
    /\ ban \in Nat /\ refusals \subseteq Nat

Ended == {o \in Orders : orders[o].mine /\ orders[o].status \notin Firm}

\* The breaker trips on as many different orders that ended as it says, never
\* on one order seen several times or on lists that did not arrive
\* (bid-guard.ts:137-146, 165-191).
EvidenceBehindHold ==
    guard.hold.kind = "churn" => Cardinality(Ended) >= ChurnStreakThreshold

\* No order is placed while a hold is in force, whenever in a tick it was
\* set or however many restarts it has lived through (bid-guard.ts:11-30,
\* decide.ts:221-242).
HoldStopsCreate ==
    [][OwnLive' \subseteq OwnLive \/ guard.hold = G!NoHold]_allVars

\* "Release is MANUAL ONLY" (bid-guard.ts:18): a churn hold ends by the hand
\* of the operator, or with a process that dies before it is written down, but
\* not by restarts, expiring blacklists or new refusals.
ChurnHoldManual ==
    [][guard.hold.kind = "churn" /\ guard'.hold.kind # "churn" =>
          ClearHold \/ (GuardedCrash /\ stored.kind # "churn")]_allVars

\* "Three consecutive cycles trip a hold.  Release is MANUAL ONLY"
\* (bid-guard.ts:16-18): a streak that long is under a churn hold, whatever
\* else happened in the tick that completed it.
BreakerTrips ==
    guard.streak >= ChurnStreakThreshold => guard.hold.kind = "churn"

\* A blacklist hold ends by itself (bid-guard.ts:111-126).
BlacklistReleased ==
    guard.hold.kind = "blacklist" ~> guard.hold.kind # "blacklist"

\* "Our own cancels are neutral - never churn" (bid-guard.test.ts:75): the
\* streak counts only orders that are gone.
OwnCancelsNeutral ==
    guard.streak <= Cardinality({o \in Ended : orders[o].status = "GONE"})
=============================================================================
