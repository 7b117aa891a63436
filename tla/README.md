# Hashrate Autopilot: a verification development

Hashrate Autopilot is a daemon that rents hashrate on the Braiins spot
marketplace.  Once a minute it reads the market and its own orders, decides
whether to place, re-price, re-size or cancel an order, and does so.  Real
money is spent by code that runs unattended against an API that lags, fails and
refuses.  Around that loop it
watches deposits, payouts and blocks, tells the operator over Telegram, and
keeps a DNS name up to date.  This directory models that code in TLA+, checks the models with TLC,
and proves the central results with TLAPS.

Paths below are relative to `src/packages/daemon/src/` unless they start with
`packages/` or `docs/`.

## 1. Inventory

| Component | State | Operations | What makes it correct |
|---|---|---|---|
| Decision rules: `controller/decide.ts`, `gate.ts`, `packages/shared/src/decision.ts` | none (pure) | `decide`, `gate`, `canMutate` | prices under the caps; one order kept; proposals of consecutive ticks converge; protections win over everything else |
| Control loop: `controller/observe.ts`, `execute.ts`, `tick.ts`, `loop.ts` | local state of a tick, last result, timers | a tick: read the database, fetch, reconcile, prune, probe, decide, dispatch, record | never two orders at once; an order the daemon does not know stops it; a run mode change takes effect |
| Owned-bids ledger: `state/repos/owned_bids.ts`, `state/stale-bid-prune.ts` | SQLite rows: status, creation time, last price decrease | insert, reconcile, prune, mark cancelled, note a decrease | a live order of the daemon has an active row; a ghost row goes away |
| Orderbook pricing: `controller/orderbook.ts` | none (a loop) | `cheapestAskForDepth` | cheapest price that reaches the depth |
| Bid guard: `services/bid-guard.ts` | hold, churn streak, tracked orders, own cancels | `observeBids`, `observeExecuted`, `getHold`, `clearHold`, `hydrate` | trips on real churn and only on it; manual release; survives restarts |
| Pool health: `services/pool-health.ts` | failures in a row | `probe` | three failures end the spending |
| Chain-tip poller: `services/chain-tip-poller.ts` | last successful call, tip | poll | stale node noticed, slow block not mistaken for one |
| Run mode and boot: `http/routes/run-mode.ts`, `main.ts`, `state/repos/runtime_state.ts` | `run_mode`, persisted hold | set, patch, boot mode | never boots into more than configured |
| Operator actions: `http/routes/actions.ts`, `stale-urls.ts` | none of their own | tick-now, cancel a stale-URL order, clear the hold | safe beside a running tick |
| Braiins client and service: `packages/braiins-client`, `services/braiins-service.ts` | TTL caches | requests with retries | a mutation of unknown outcome is never repeated |
| Alert evaluator: `services/alert-evaluator.ts`, floor timer in `controller/observe.ts` | per class: since when bad, the alert open; streak of failed calls; floor timer | evaluate after every tick, hydrate | one alert per outage, a recovery only when earned, restarts included |
| Block and payout followers: `services/alert-evaluator.ts`, `pool-blocks-backfill.ts`, `state/repos/pool_blocks.ts` | watermark, queue of blocks, last balance | queue, announce, baseline | each block once, none forgotten, none from before the install |
| Alert delivery: `services/alert-manager.ts`, `notifier.ts`, `telegram-receiver.ts`, `state/repos/alerts.ts` | alert rows, mute, Telegram offset | record, deliver, retry, acknowledge, prune | a bounded number of attempts, never two at once, nothing after the alert is closed |
| Deposit watcher: `services/braiins-deposit-watcher.ts`, `state/repos/braiins_deposits.ts` | deposit rows with flags | poll, notify, flag | each event notified once, none lost |
| Ocean payouts: `services/ocean-payouts-service.ts`, `deduced-payouts.ts`, `state/repos/ocean_payouts.ts`, `event_notes.ts` | payout rows, notes | refresh, backfill, reset, deduce, confirm | nothing counted twice, confirmed once, notes keep their payout, the table heals |
| On-chain payout observer: `services/payout-observer.ts` | reward events | scan, backfill | rows match the chain |
| Lifetime spend: `services/account-spend.ts`, `state/repos/closed_bids_cache.ts` | ended bids with what they cost, last result | walk the pages, rebuild | every ended bid counted, once |
| DDNS and public IP: `services/ddns-updater.ts`, `public-ip.ts` | last push, last address | poll, push, test | the name follows the address |
| Caches: `hashprice-cache.ts`, `btc-price.ts`, `ocean.ts`, `block-version.ts` and refreshers | cached value and time, request in flight | get, refresh | never older than the window |
| Retention, other backfills, recomputations | log tables | delete old rows, fill gaps | idempotent, nothing live deleted |
| Solo miners, Datum, Electrum, bitcoind clients | snapshots | poll, parse | display only |
| Setup mode, configuration, secrets | configuration row | validate, save | rows pass the schema |
| Read-only routes, dashboard, scripts | none | show | no effect on the daemon |

**How they interact.** Everything is one Node.js process: code between two
`await`s runs alone, and any `await` is where another tick, a route, a timer or
the marketplace can step in.  `TickLoop` starts a tick each minute unless one
is running; the tick-now route calls the same `Controller.tick()` directly.  A
tick reads ledger, run mode and configuration, then fetches the order list and
market, then writes the ledger, then probes the pool, decides, and sends its
calls one at a time, writing the ledger after each answer.  When a tick of the
loop is over, `onTick` feeds the bid guard and the alert evaluator.  The guard's
hold reaches `decide()` through `observe()`; its write to SQLite is not awaited.

The services beside the loop share the process and the database with it.
`onTick` hands the tick's state to the alert evaluator, which records alerts
through the alert manager; the alert manager sends them to Telegram and retries
every tick; the deposit watcher, the payout sync, the DDNS updater, the public-ip
poller and the retention have timers of their own; the dashboard's routes call
into all of them.  None waits for another's timer, so calls to one service
overlap wherever it does not guard itself.

**What is hard.**  A tick is a dozen awaits long, and its inputs are read at
different moments.  Braiins may not list an order for a while after accepting
it, and goes on listing a cancelled one until it is unwound.  A POST can take
effect and its answer be lost.  The process may die between any two steps.
Lists may be missing, or incomplete.  In the services, the same few shapes
return: a message and the record that it was sent are two steps; a timer does
not look whether its last run is over; memory (baselines, watermarks, queues)
is rebuilt from the database after a restart; a sweep of a remote list is
taken up again after it was interrupted.  PROJECT.json lists each such hazard at
its line with the properties that speak of it.  Five real ones have no
property, for want of a statement in the code or docs to hold them against:
tick-now does not feed the guard (`http/routes/actions.ts:50`); a crash in the
silent baseline of the deposits announces the rest of the backlog
(`braiins-deposit-watcher.ts:129`); a payout first seen by a full backfill is
never confirmed (`ocean-payouts-service.ts:225`); blocks queued at a crash are
never announced (`alert-evaluator.ts:237`); a pass that fails to record an alert
repeats those before it (`alert-evaluator.ts:1055`, counted in `BlockOnce`).

## 2. Modules

| Module | Models | Built on |
|---|---|---|
| `Decide` | `decide()`, `gate()`, the dispatch test of `execute()`: pure operators over a configuration row and a view | |
| `DecideTick` | consecutive ticks of those rules with every call succeeding | `Decide` |
| `Controller` | ticks, ledger, run mode, probe counter, routes, crashes, marketplace, clock | `Decide` |
| `BidSlot` | what the loop promises about its orders, abstractly | |
| `SingleOrder` | refinement mapping from `Controller` to `BidSlot`, the inductive invariant, the conditions (`Calm`) | `Controller`, `BidSlot` |
| `OneLoop` | what a single loop remembers: invariants for the promises that survive the stale-URL route, a partial list and, for one of them, crashes | `SingleOrder` |
| `ControllerProofs`, `OneLoopProofs` | theorems | `Controller`, `SingleOrder`, `OneLoop` |
| `DecideProofs` | theorems | `DecideTick` |
| `Orderbook` | `cheapestAskForDepth()`, one step per iteration | |
| `BidGuard` | `BidGuardService`: a record and one operator per method | |
| `GuardedController` | the controller with its guard as `main.ts` wires them, blacklisting, delivery, restarts | `Controller`, `BidGuard` |
| `GuardMemory` | what the guard's hold, streak and cancels say of the orders: invariants of the two together | `GuardedController`, `OneLoop` |
| `GuardProofs` | theorems | `GuardMemory` |
| `Daemon` | what the services share: the process that dies, ages and countdowns | |
| `AlertDelivery` | `AlertManager`, the alerts table, the chat, mute, retention | `Daemon` |
| `Courier` | what alert delivery promises, abstractly | |
| `AlertEvaluator` | twelve detectors with hydration, the floor timer | `Daemon` |
| `BlockCredits` | the detectors that follow blocks and the balance, the table of blocks with its backfill | `Daemon` |
| `DepositWatcher` | polls, walk, notify-then-flag, baseline | `Daemon` |
| `PayoutLedger` | sync, backfill, reset, deduction, notes, confirmation | `Daemon` |
| `AccountSpend` | the paged walk over the account's bids and its cache | `Daemon` |
| `Ddns` | address poll, timer, pushes | `Daemon` |
| `LedgerProofs` | theorems | `PayoutLedger`, `AccountSpend`, `Orderbook` |
| `EvaluatorProofs` | theorems | `AlertEvaluator` |
| `ServiceProofs` | theorems | `DepositWatcher`, `Ddns`, `BlockCredits`, `AlertDelivery` |
| `CompositionProofs` | theorems | `MCServices`: the seven services side by side |
| `MCController`, `MCDecide`, `MCOrderbook`, `MCGuarded`, `MCBreaker`, `MCMarket`, `MCServices` | instances | |

### Controller, state and actions

* `orders` is Braiins: for each id its status, whether it is ours, whether it
  is listed yet, price, speed, how long it has been unlisted, how long ago its
  price went down.
* `ledger` is `owned_bids`; `runMode` is `runtime_state.run_mode`; `poolFails`
  the probe counter up to its threshold, beyond which nothing changes.
* `tick[t]` is the local state of the tick that `t` (the loop, or tick-now) is
  running, and `pc` the await it is at:

| Action | Code | Ends at |
|---|---|---|
| `Begin` | `observe()` up to its four database reads | the bid-list request |
| `ReadList` | `getCurrentBids()` returns, fails, or returns a list that misses some orders | the ledger writes |
| `SyncLedger` | reconciliation and prune | the probe |
| `DecideNow` | probe, market, hold, staleness; `decide()`; `gate()` | the first call |
| `SendCreate`, `SendEditPrice`, `SendEditSpeed`, `SendCancel` | a call takes effect, or is refused, or its answer is lost | the ledger write |
| `ExecutePause` | the PAUSE proposal | the next call |
| `Record` | insert, note of a decrease, mark cancelled | the next call |
| `Finish` | end of the tick | |

`SetRunMode`, `CancelStaleUrl`/`RecordStaleUrl` are the routes, `Crash` a
restart with the boot mode applied, `Surface`, `Leave`, `PauseOrResume`,
`PlaceByHand` the marketplace, `Minute` the clock.

Abstractions: timestamps are ages that stop growing at the value where nothing
depends on them any more; `SyncLedger` joins the reconciliation and the prune,
which touch disjoint rows and read only the list and the rows; requests other
than the bid list are readings (`Quotes`) made at the moment of the decision; the
sustained cheap-mode window is one such reading.  Prices, amounts and consumed
counters in the ledger are copies that no decision reads.  Order ids are
numbers, so that "first by `localeCompare`" has a meaning; ids are given out in
any order.

`Faults` are bounded by `MaxFaults`; what belongs to normal life (the
operator, the market) is listed in `Events` and is not bounded.

### BidGuard and GuardedController

The guard is a record with `hold`, `streak`, `tracked` (a sequence, because the
streak depends on the order of the code's Map when several orders vanish at
once) and `cancels`.  `FeedGuard` is `onTick`: the list **as patched by the tick**,
then the executions.  `Walk`, a recursive function, is the loop over what it
tracks: each order in turn is still there, was cancelled by the daemon, had
not delivered, or counts.  `StoreHold` is the write nobody waits for, so a crash can
come before it.  `Blacklist` is Braiins refusing the pool for some minutes.

The only assumption about Braiins' speed is `Unwinding`: a cancelled order is
gone, and seen gone, before the guard forgets the cancel (15 minutes against an
observed 3, `bid-guard.ts:42-48`).

### The services

All of them keep one shape: what lives in SQLite survives `Crash...`, what lives
in memory is set back to what the constructor and `hydrate()` make of the tables.
Variables marked *history* exist for the properties only.

**AlertDelivery.**  `alertRows` is the table; `couriers` the calls of
`attemptDelivery()` under way, a first delivery (started by `RecordAlert`) or a
run of `processDueRetries()` (`StartRetries`), each at one of its awaits:

| Action | Code |
|---|---|
| `Read` | the row is read again: gone, muted, or sent |
| `Answered`, `Unanswered` | Telegram answers, or refuses, or the timeout passes |
| `Store` | `markDelivered`, `markFailed`, `markMuted`, with the next retry computed from the clock the call read when it began |
| `Count` | `incrementAttempts()`, a statement of its own |
| `Farewell` | the "giving up" message |
| `Acknowledge`, `AcknowledgeAll`, `ReceiveTap`, `ToggleMute`, `PruneAlerts` | routes, button, configuration, retention |

`Courier` is the promise: an alert is owed until closed, and sent only while owed.
The mapping takes as owed the rows on the retry schedule that are not yet seen,
and those a courier has in its hands (`Owed`).

**AlertEvaluator.**  A tick is `Observe` (the floor timer), `EndTick` (the timer is
persisted) and then one `Fire`, `Recover`, `FailToRecover` or `StaySilent` per
detector, in the declared order.  Each detector reduces what the tick found to a
reading: `bad`, `good`, `vetoed` (bad, but must not fire), `skip` (cannot tell), `off`.
`notices` is the alerts table, reduced to class and pairing, on which `hydrate()`
and the foreign key depend.  A pass is taken to be over before the next tick.

**BlockCredits.**  `BeginPass`, `AnnounceBlock`, `EndPass` are one evaluation of the two
detectors: what is above the watermark and the queue is queued, what is ready is
announced, then the balance is compared with that of the last tick.  `StoreNewest`
and `BackfillPage` fill the table.

**DepositWatcher.**  `walks[p]` is a poll: `StartPoll`, `Polled` or `PollFails`, then per
deposit `UpsertSeen` and per message `Announce` and `Flag`, `Absorb` (switched
off) or `AnnounceFails`.

**PayoutLedger.**  A sync is `StartSync`, `Fetched` or `FetchFails`, then `Wipe` (only
for a reset), `StoreRows`, `DeduceRows`, `RekeyNote`, `DropRows`, `Reattach`; after
the fetch only a crash can step in.  `RequestFull` and `HardReset` start a sync or
join the one that runs.  `BaselinePayouts`, `BeginConfirm`, `Confirm`,
`MarkConfirmed` are the detector.  A row is known by its dedup key: a payout, as
recorded or as deduced.

**AccountSpend.**  `GetLifetimeSpend` starts a walk; `PageListed` or `PageFails`,
`StoreTerminal` for each ended bid not yet known, then `NextPage` or `FinishSpend`.
`RebuildSpend` empties the cache, beside a running walk if need be.

**Ddns.**  `DdnsTimer`, `RefreshIp` (a rotation kicks a push) and `EditDdns` start a push,
unless `Skips` finds it recent; `Accept`, `PushAnswered` and `PushFails` are its
course; `RecordExternalPush` is the test button.

`MCServices` puts the seven side by side: a behaviour chooses a `service` and a
`story` at the start, runs that service in that story, and leaves the others at
rest.  They share no state but the process, so nothing is lost, and one run asks one question
of each.  `MCMarket` and `MCBreaker` do the same with instances of the controller.

## 3. Runs

| Run | Question | States | Result |
|---|---|---|---|
| `core` | Does a lone loop keep to one order, whatever the market and the operator do, with failed fetches and refused calls? Type invariant, `NoOverlap`, the inductive invariant, `PauseMeansUnknown`, refinement of `BidSlot` | 629 k | holds |
| `market` | Four stories. Partial lists and the stale-URL route: never two orders both still wanted. A moving market: the ledger's cooldown ends no earlier than Braiins'. Every combination of views and configurations: caps, bail-out, one order on target, convergence in two ticks. Every small book: the cheapest price for a depth | 1.6 M | holds |
| `live` | Do ghosts go, do unknown orders stop the daemon, does an outage end spending, does the daemon come back to an order, with the stale-URL route beside it? | 140 k | holds |
| `breaker` | Two stories. Orders that churn: the breaker trips exactly when it should, the hold stops CREATEs and ends only by hand, restarts included. An operator who resumes at will: every blacklist hold ends | 825 k | holds |
| `services` | Fourteen properties of the seven services, each in stories of one or two troubles | 939 k | holds |
| `services_live` | Is every alert settled, every deposit accounted for, every block announced, and does the payout table heal? | 38 k | holds |
| `two_ticks` | Two orders at once with tick-now beside the loop? | | violated |
| `stop` | Is PAUSED a hard stop? | | violated |
| `own_cancels` | Are own cancels never churn? | | violated |
| `masked` | Does a completed streak always end in a churn hold? | | violated |
| `silenced` | Is a condition that stays reported, whatever the other detectors do? | | violated |
| `truncated` | Is every older bid in the cache when a page has nothing new? | | violated |

The properties of the services:

| Property | Says |
|---|---|
| `AttemptBudget` | attempts per alert are bounded through mutes, retries and crashes, and only a crash can double a copy: a first delivery and the runs of several ticks never hold the same row |
| `CourierSpec` | what is delivered, given up, seen or deleted is not sent again |
| `Settles` | every alert is settled in the end |
| `OneOpenAlert` | a class never has two alerts open |
| `MutationRecoveryEarned`, `FloorRecoveryEarned` | a recovery is written only when the history of ticks, restarts included, earned it |
| `BlockOnce`, `BlockAnnounced`, `InitiatedOnce` | a new block is announced, once; an old one is not; no more payout alerts than payouts |
| `DepositOnce`, `NothingLost`, `DepositsSettle` | at most once but for crashes and overlaps; nothing flagged without a word or a reason; everything accounted for |
| `CountedOnce`, `ConfirmedOnce`, `NoteFollows`, `Healed` | no payout counted twice; confirmed once; the note keeps its payout; the table comes back |
| `SpendComplete` | the lifetime spend has every ended bid, once |
| `WrongForAnHour` | the name is wrong for at most one heartbeat |

### What the violations show

* `two_ticks`: `POST /api/actions/tick-now` calls `controller.tick()` without
  `TickLoop`'s in-flight check.  Two ticks see an empty account and each places an
  order ("two live bids must never overlap", `decide.ts:65`).
* `stop`: `execute()` tests the run mode read at the start of the tick, so calls
  go out after the operator has paused ("hard stop", `docs/spec.md:131`).
* `own_cancels`: the guard sees the list from which `tick()` has already removed
  the order cancelled in this tick, and only then hears of the cancel; it counts
  the order as a churn cycle ("our own cancels are neutral",
  `bid-guard.test.ts:75`).  Three outages can thus trip the breaker.
* `masked`: if a streak completes in a tick whose CREATE is refused with the
  blacklist message, the second hold replaces the first and releases by itself
  ("Release is MANUAL ONLY", `bid-guard.ts:18`).  It needs the row of the vanished
  order to be terminal already, as the stale-URL route leaves it.
* `silenced`: with `alerts_retention_days` set (the default keeps everything),
  retention can delete the row of an alert whose condition still lasts.  The
  recovery row then refers to a row that is gone, foreign keys are on
  (`state/db.ts:57`), the insert throws, and `evaluate()` ends at that detector on
  this and every later tick; those after it are silent until a restart.
* `truncated`: a walk stores ended bids page by page, newest first, and a page
  without a new one ends the next walk.  If a page fails or the process dies
  after a page was stored, the next walk finds its first page known and stops
  ("every older terminal is already cached", `account-spend.ts:26`): what older
  bids cost is missing from the lifetime spend until the operator rebuilds.

Every conjunct of `SingleOrder!Calm` is needed for `NoOverlap`: putting one back
into the `core` configuration gives a counterexample.  `"blip"`: a cancelled
order's row is terminal, so a list that misses the unwinding order passes for a
confirmed empty account.  `"lost"` and `"crash"`: an order without a row is invisible
until Braiins lists it.  `"staleUrl"`: the route makes the row terminal at once.
A second entry in `Ticks`: see `two_ticks`; the same configuration also violates
`PauseMeansUnknown` (a tick that read the ledger before the other's insert takes
the new order for a foreign one).  `AtMostOneFirm` is what remains true with
partial lists and the stale-URL route.

The exceptions written into the properties of the services are behaviour of the
code as well, each necessary:

* `ConfirmedOnce`, `joined`: a hard reset that joins a running refresh wipes the
  table but stores only the refresh's 60 days, as not confirmed, and each payout
  is confirmed again.  In the same way `requestFullBackfill()` during a refresh
  answers when the refresh is over; the backfill comes with the next sync.
* `NoteFollows`: the note on a deduced payout is lost when a hard reset is the
  first to see its record, and a crash between wipe and reattachment loses any.
* `BlockOnce`, `blankPass`: if the first pass of an install meets an empty table,
  the watermark is -1 and every old block is announced; `failures`: a pass that
  cannot record an alert repeats those before it.
* `BlockAnnounced`: a block that reaches the table below the watermark, or that is
  queued when the daemon dies, is never announced.
* `DepositOnce`, `overlaps`: the poll of the next minute does not wait for one
  that is still telling.
* `SpendComplete`, `torn`: see `truncated`; also, a rebuild does not stop a walk,
  whose result then counts as fresh for five minutes although
  `account-spend.ts:95-98` promises the very next call a new one.
* `WrongForAnHour`: a test push of another name is remembered as the last push
  and keeps the real one waiting for the heartbeat.

### Bounds

*Controller.*  Two order ids are enough for every property about pairs of orders and leave
one order to follow another; `breaker` takes three because two cycles must precede a
blocked CREATE, and its second story two.  When the ids run out a CREATE is
refused, which the properties that would notice say themselves.  `Grace`, `Lag` and
`Cooldown` are 1: one minute of lag is one tick of an invisible order, and the code
distinguishes only "within" and "past".  In `market` `Cooldown` is 2, so that it
spans two ticks; the three are 0 in the guard's runs, which are not about them.  In
`live`, whose graph is the largest that is checked for liveness, `Grace` and `Lag` are
0: an accepted order is then listed before the minute ends, still after any
number of steps of a tick.  The breaker's threshold is 2 instead of 3, the own-cancel
memory 1 minute instead of 15, the blacklist margin and fallback 1.  Unbounded:
ticks, minutes, run-mode switches.  `MaxTicks` in `DecideTick` is 3
because the property is about the third.  No symmetry is used: ids are compared.

*Services.*  One crash each (`MaxCrashes`), anywhere; unbounded ticks, polls and syncs.
Delivery: two alerts, so that a run has a queue, two runs at once, two attempts
instead of five (three under `Settles`), an interval of one tick.  Evaluator: three
rows (`MaxRows`), which is an alert, its recovery and the next alert, thresholds of 2
for each debounce and patience, three families of views that between them make
every detector fire and recover.  Deposits: two, one overlap.  Payouts: two, one of
which never gets a record; ages are 0 (inside the scan window of a refresh), 1
(inside its 60 days) and 2.  Blocks: two old, two new, a failsafe of 2 ticks, one
payout, one failure.  Spend: five bids on pages of three, so that there is a
second page; a page is longer than the bids on it that do not count as new plus
those placed during one walk (`Uncounted`), which 200 per page makes sure of for
an account that runs one bid at a time.  DDNS: two addresses, two names, two
pushes, a heartbeat of two periods.  `AttemptBudget` and `CourierSpec` need the
sends of one run to fit between two ticks, which `RunsFit` says of `SendMax` and
`TickPeriod`.

### Fairness

`Fairness` in `Controller`: a tick that runs continues (every request ends in an
answer or an error; Node runs its callbacks), the loop's timer starts the next
one, a started database write completes, Braiins lists what it accepted and
drops what was cancelled, the clock advances.  Nothing obliges the operator, the
tick-now route, a fault, a crash or the end of an order to happen.  `MCBreaker`
adds the completion of the hold's write.  These are weak: each step stays
enabled until taken.

In the services, timers, the clock and steps of a walk are weakly fair.  Strong
fairness is asked of three things that may fail any number of times but not for
ever: Braiins answers a poll (`Polled`) and an alert can be recorded (`Tells`), Ocean
answers a sync (`Fetched`); and of the day that makes the next full backfill due
(`ADayLater`), which the step of a sync may disable for a moment.  `Settles` needs
no such thing: attempts are bounded.  `MCServices!LiveSpec` restates the fairness
of each module for the service that runs.

## 4. Proofs

`ControllerProofs`:

* `TypeCorrect`: `Spec => []TypeOK`, for any constants that satisfy the
  assumptions (finite set of numeric ids, natural bounds, `Lag <= Grace`, a
  configuration and readings of the right type).  One lemma per action;
  `DispatchType` shows what `decide()` and `gate()` may propose.

Its second part, all for `Calm` (one tick at a time, no lost answer, no partial
list, no crash, no stale-URL cancel) and any number of orders, failed fetches,
refused calls, foreign orders and run-mode changes:

* `SlotInvariantHolds`: `Spec => []SlotInvariant`.
* `NeverTwoOrders`: `Spec => []NoOverlap`.
* `ImplementsSlot`: `Spec => SlotSpec`, the refinement of `BidSlot`.

`NoOverlap` is far from inductive.  A CREATE is decided in one step and takes
effect several steps later, on the strength of things read several steps
before.  `SlotInvariant` therefore says, stage by stage (`EmptySlot`), what an
apparently empty account means: no active row when the tick begins means that
each live order of ours is listed and known; hence a list that arrived without one of
ours means that there is none; hence there is none while a CREATE is planned.
The first of these needs that an order not listed yet has an active row
(`HiddenRowActive`), which needs that the prune, by its grace period, spares it
(`HiddenRowYoung`: the row is no older than the order, and `Lag <= Grace`), and that
what a tick remembers of a list stays true (`SnapshotListed`).  `Tracked`,
`RowsAreOwn` and `PlanShape` tie rows, orders and pending calls together.  Each
`Slot...` lemma is one action.  The refinement then only has to look at the
actions that touch `orders`.

`Lag <= Grace` is the one assumption about Braiins, and it is the code's own
(`stale-bid-prune.ts:22-23`).

`OneLoopProofs`, for what stays true of the loop when not all is calm.  All three
have one tick at a time (`OneTickAtATime`: no tick-now), and allow foreign orders, the
stale-URL route, refusals, failed fetches and run-mode changes:

* `PauseHasReason`: `Spec => []PauseMeansUnknown`, with lost answers, partial lists and
  crashes as well.  By `RowsAsRead`: the rows of the ledger are those the tick read until
  it inserts one, and it inserts one only if it does not pause.
* `CooldownKeptByLedger`: `Spec => []CooldownHonoured`, if no answer is lost and
  nothing crashes (`Answered`; either leaves a decrease that no row knows of).
  `CooldownInvariant` says that a row knows of the last decrease unless its write is pending
  (`DecreaseRecorded`) and that the prices and cooldowns a tick has read hold until its one
  price edit is sent (`PricesAsRead`).
* `NeverTwoFirm`: `Spec => []AtMostOneFirm`, under the same conditions, if at most one list
  misses orders (`MissesOnce`).  The first such list ends the row of an order that is still there, a second
  hides that order, and an empty account is then confirmed.  `FirmInvariant` is
  `SlotInvariant` for orders that are not being unwound, with a list that may yet miss one
  (`Unmissed`) as part of each stage.

`DecideProofs`, for any number of orders, every configuration the schema lets through
and every view whose price grid is positive:

* `DecideInvariantHolds`: `DecideSpec => []DecideInvariant`.  A plan is made at once and sent
  call by call in any order, so the invariant follows what is left of it: the
  rest still covers all there is to cancel and place (`Covers`), each call is aimed at the
  price and speed of the moment (`WellAimed`), once the first plan is through the account is
  tidy (`Tidied`), and from then on only edits of the one order are left (`LastEdits`).
* `CapRespectedHolds`, `BailsOutHolds`, `KeepsOneOnTargetHolds`, `TwoTicksSettleHolds`: the four
  properties, each from that invariant.

`GuardProofs`, for the controller and its guard, with any number of orders and any
thresholds; its invariants are in `GuardMemory`:

* `GuardTypeHolds`: `GuardedSpec => []GuardType`.
* `HoldStopsCreateHolds`: `HoldStopsCreate`, with one tick at a time.  A CREATE is planned only
  without a hold, and only the end of the loop's own tick sets one (`CreatesUnheld`).
  With tick-now the loop can set a hold while the other tick has a CREATE planned.
* `ChurnHoldManualHolds`: `ChurnHoldManual`, with any ticks side by side and any faults.
* `EvidenceBehindHoldHolds`: `GuardedSpec => []EvidenceBehindHold`, whoever runs ticks, if no list
  misses an order.  The streak is a number and the property is about orders, so
  the invariant counts orders: the streak is at most the size of `Spent`, the orders that ended and
  that no departure to come can count again, because the guard remembers their
  cancel or has seen them go.  That a cancel is remembered for as long as the order can
  be seen (`CancelsKept`) is where `Unwinding` is used.
* `BreakerTripsHolds`: `GuardedSpec => []BreakerTrips` where only the loop runs ticks, no list
  misses an order, the stale-URL route is unused and the threshold is more than 1 (`Alone`; the
  code's is 3).  A blacklist hold could mask a streak only if the tick whose CREATE is
  refused also completes the streak.  `CreatesAlone` rules that out: when a CREATE is
  decided, no order is in the market, in the list or in the guard that could
  still count (`Busy`), which follows from the rows (`RowsRead`, `RowsActive`) much as in
  `SlotInvariant`.  The run `masked` shows the property false once the stale-URL route is used.

The loop of the guard over what it tracks is a recursive function over prefixes of a
sequence; lemmas about it are by induction on the length, as the set of lengths at
which the statement holds (`SetInduction`, which names a set and so needs no operator parameter).

`LedgerProofs`, for any set of payouts, any number of crashes and of joined resets:

* `CountedOnceHolds`: `LedgerSpec => []CountedOnce`.  A record and a deduced row of one payout
  stand side by side only inside a sync or after one that died; the inductive
  invariant `CountInvariant` says in which stages they may, that the scan that follows removes
  them, and that a first sync since boot is full and so reaches all of them.
* `ConfirmedOnceHolds`: `LedgerSpec => []ConfirmedOnce`.  Neither the count of confirmations nor
  the flags of the table bound each other at every moment: a payout may be
  confirmed and its row not yet marked, or wiped and stored again.
  `ConfirmInvariant` bounds their sum, `Weight`: confirmations made, plus one for a
  confirmation in hand, plus one for an unconfirmed row that no pass holds, is at most
  1 and one more per joined reset.
* `NoteFollowsHolds`: `LedgerSpec => []NoteFollows`.  `NoteInvariant`: a reset that was joined to
  nothing is full (`ResetIsFull`), and a full sync stores a record of all that has surfaced and
  deduces the rest (`FullStores`), so the row of a wiped note comes back unless the record
  took its place (`Outrun`); no note is on a row that is about to be dropped (`NoteSafe`).

Its second half is about order books and accounts of any size.  The sum over a set, `Total`, is what the
fold of the community modules computes (`TotalAdds`); that the order does not matter, that
one element more adds its share (`TotalLaws`), and that a larger set sums to no less
(`TotalAtMost`), is shown by induction on the number of elements.

* `CheapestDeepEnoughHolds`: `BookSpec => []CheapestDeepEnough`.  The loop has always added up the
  asks it has seen and stays below the depth until it returns (`BookInvariant`); since the
  order is ascending, the asks up to a cheaper price are among those seen before the
  last.  Asks of equal price may come in any order, which includes that of the code's stable sort.
* `SpendCompleteHolds`: `SpendSpec => []SpendComplete`.  The premise of the walk, that all below a page with
  nothing new is cached, holds of a cache that has every bid older than one it has
  (`ClosedBelow`), which is broken while a walk stores its pages, newest first.
  `SpendInvariant` keeps how far down the walk knows all bids that count
  (`KnownDownTo`), and that below that line the old cache is still closed.  A page that
  is full and brings nothing new then has a bid from below the line, unless all of it
  was seen before or does not count; `Uncounted < PageSize`, which the model assumes of an account
  with one running bid and the code's pages of 200, excludes that by counting (`PageListedKeeps`).

`EvaluatorProofs`, for any views, thresholds, restarts, switches and retention:

* `OneOpenAlertHolds`: `EvaluatorSpec => []OneOpenAlert`, from `OpenInvariant`: the alert a class has open
  in memory is the latest unpaired one in the table, and every other unpaired
  one was let go of on purpose.  The `CHOOSE` of `Latest`, which restores it at boot, is
  the reason for the lemma on greatest elements.
* `OneRecoveryHolds`: no alert has two recoveries.
* `MutationRecoveryEarnedHolds`: by `StreakInvariant`, an open alert means that the streak is at
  its threshold or was ended by a call that worked.
* `FloorRecoveryEarnedHolds`: by `FloorInvariant`, which follows the debounce through
  the window between the end of a tick and the write of the timer, where a crash
  restores an older value.

`ServiceProofs`, for any number of deposits, polls side by side, pushes, blocks,
payouts, alerts, attempts, failures and crashes:

* `DepositOnceHolds`, `NothingLostHolds`.  How often a message was sent does not bound itself, since
  several walks may have read a row before one flags it.  `DepositBudget` bounds what
  was sent plus the walks that may yet send (`Open`) by one and one more per crash and overlap.
  `Excuses` keeps, for each flag, the message or the reason there was none.
* `WrongForAnHourHolds`.  As long as the name is wrong, an hour is running since the last push, or
  the one push under way is of the right address, or the name is corrected already
  (`DdnsInvariant`).
* `BlockOnceHolds`, `InitiatedOnceHolds`.  A block that waits has an announcement left, one that was
  announced is below the watermark and in the table a restart reads (`CreditInvariant`); a
  fall of the balance that is not announced yet has a payout of its own, two falls
  around a reading have two (`PayoutInvariant`).
* `AttemptBudgetHolds`, `KeepsCouriersPromise`: `DeliverySpec => []AttemptBudget` and
  `DeliverySpec => CourierSpec`, the refinement, under `RunsFit`.  `DeliveryInvariant`: no two workers
  have the same alert in their hands (`Exclusive`), what a worker may rely on at each of its
  awaits (`Hand`), and that it is on time (`OnTime`): a run has a send and a farewell left for
  each alert in its queue before the next tick (`Room`), a first delivery is over before its row
  falls due.  Once a worker has its alert for itself, the refinement only has to look at
  the answer of Telegram and at the closing of an alert.
  `RunsFit` counts every alert as due in one run.  With the code's ten seconds per request
  (`services/notifier.ts:100`) and sixty per tick it covers three alerts that time out
  together; a longer queue, as after an outage of Telegram, may let the runs of two ticks
  send the same alert.

`CompositionProofs`, for the services as `MCServices` composes them:

* `ServicesTypeHolds`: `RunsFit => (ServicesSpec => []ServicesType)`.  None of the seven types is
  inductive, so each module above ends in a section that proves its own: `DeliveryTypeHolds`,
  `WatcherTypeHolds`, `CreditTypeHolds`, `DdnsTypeHolds`, `EvaluatorTypeHolds`, `LedgerTypeHolds`,
  `SpendTypeHolds`.  `ServicesInvariant` says that the service that runs is in its inductive
  invariant and that the others, whose variables no step of it touches, keep their types.
  The count of crashes is all they share; a step leaves it alone or is the one step that
  dies within the bound (`Mortal`).
  * That a row of the alerts table never counts more attempts than `MaxAttempts`
    needs `DeliveryInvariant`: the counter is read before the send and bumped after
    the outcome is stored, so it stays in range only because no other worker has the row in
    between (`Exclusive`), hence `RunsFit`.  `CountsBelow` carries the
    bound from the read to the bump.
  * Rows of alerts and notices are numbered, and a pass of the evaluator may write one per
    detector it has left: `RowsBound` bounds their sum, not the number alone.
  * The queue of blocks keeps its age within the failsafe and the balance its bound
    (`PendingAges`, `BalanceBound`).

**Only model-checked.**  Liveness under fairness (`UnknownPauses`, `OutageStopsSpending`, `BidRestored`,
`BlacklistEnds`, `Settles`, `DepositsSettle`, `BlockAnnounced`, `Healed`) and ENABLED are out of the prover's reach.
Every invariant and every action property that a passing run checks is proved, under the
conditions named above.
No module uses a RECURSIVE operator.

## 5. Not modelled

Left out of modelled components, because nothing that is modelled reads it: the
pause/resume audit rows, metrics, decision and bid-event rows, amounts and rails
of payouts, wording of messages, the audit row of an address change.  Left out
because its effect is already there in another form: the retry loop and the TTL
caches of the Braiins client (a reading that is late or missing, a call whose
answer is lost), the chain-tip poller (`NodeStale`), the socket code of the pool
probe, the age of the hashprice (a missing reading), the sustained cheap-mode
window (`engaged`).  The alert detectors of solo miners repeat the transition of the
twelve per device.

Not modelled at all: the on-chain payout observer, whose scans each replace the
snapshot before; price and hashprice caches, which fetch or join a fetch; chart
repairs at boot; clients of node, Datum and Electrum, which are I/O and parsing;
setup mode, configuration and secrets, which validate one row; the read-only
routes; the dashboard, which is more than half of the lines under `packages/` and
holds no state the daemon depends on; scripts.
