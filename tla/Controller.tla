----------------------------- MODULE Controller -----------------------------
(***************************************************************************)
(* The control loop against the Braiins marketplace: ticks (observe,       *)
(* decide, gate, execute, persist), the owned_bids ledger and the run mode *)
(* in SQLite, the operator's routes that write them, and crashes.          *)
(*                                                                         *)
(* The daemon is one Node.js process, so code between two awaits is one    *)
(* action and an await is where another tick, a route or the marketplace   *)
(* steps in.  A tick is split at its database read, its bid-list request,  *)
(* its ledger writes, and the send and the record of each mutation.        *)
(*                                                                         *)
(* Time is the action Minute.  What the code computes from timestamps is   *)
(* kept as an age in minutes that stops growing where it stops mattering.  *)
(***************************************************************************)
EXTENDS Decide

CONSTANTS
    Orders,      \* the ids Braiins can give to an order (bound)
    Ticks,       \* who runs ticks: "loop" (TickLoop), "now" (the tick-now route)
    Config,      \* the configuration row
    Quotes,      \* market and account readings a tick can make
    Probes,      \* outcomes of the pool's TCP probe
    NodeStale,   \* readings of the node staleness
    Holds,       \* readings of the CREATE hold
    BootMode,    \* config.boot_mode
    Grace,       \* age up to which a ledger row is not pruned
    Lag,         \* how long Braiins may leave an order out of its list
    Cooldown,    \* Braiins' price-decrease period
    Events,      \* what else may happen: see Next
    Faults,      \* what may go wrong: "fetch", "blip", "reject", "lost", "crash"
    MaxFaults    \* how often (bound)

\* Braiins can lag a tick between POST and listing, which is what the grace
\* window of the prune is for (stale-bid-prune.ts:22-23).
ASSUME ListingAssumption ==
    /\ Orders \subseteq Nat /\ IsFiniteSet(Orders)
    /\ Grace \in Nat /\ Lag \in Nat /\ Cooldown \in Nat /\ MaxFaults \in Nat
    /\ Lag <= Grace

\* A reading of the market is a number or missing.
QuoteType ==
    [market : BOOLEAN, hashprice : Int \cup {Null}, fillable : Int \cup {Null},
     engaged : BOOLEAN, minSpeed : Int \cup {Null}, tickSize : Int \cup {Null},
     balance : Int \cup {Null}, feePct : Int \cup {Null}]

ASSUME ReadingAssumption ==
    /\ Config \in ConfigType
    /\ Quotes \subseteq QuoteType
    /\ BootMode \in {"ALWAYS_LIVE", "LAST_MODE", "ALWAYS_DRY_RUN"}

VARIABLES
    orders,      \* Braiins: what became of each order id
    ledger,      \* SQLite owned_bids
    runMode,     \* SQLite runtime_state.run_mode
    poolFails,   \* PoolHealthTracker.consecutiveFailures, up to the threshold
    tick,        \* the tick each of Ticks is running
    cancelled,   \* orders the stale-URL route has cancelled and not recorded
    faults       \* how many faults have happened

vars == <<orders, ledger, runMode, poolFails, tick, cancelled, faults>>

-----------------------------------------------------------------------------
(* The marketplace *)

Firm == {"ACTIVE", "PAUSED"}
Live == Firm \cup {"PENDING_CANCEL"}

\* lag: minutes an order has been out of the list; drop: minutes since its
\* price last went down.
NoOrder == [status |-> "NONE", mine |-> FALSE, listed |-> FALSE,
            price |-> 0, speed |-> 0, lag |-> 0, drop |-> 0]
Gone(o) == [NoOrder EXCEPT !.status = "GONE", !.mine = orders[o].mine]

IsLive(o) == orders[o].status \in Live
OwnLive == {o \in Orders : IsLive(o) /\ orders[o].mine}
OwnFirm == {o \in OwnLive : orders[o].status \in Firm}
Hidden == {o \in Orders : IsLive(o) /\ ~orders[o].listed}
Listing == {o \in Orders : IsLive(o) /\ orders[o].listed}

NotListed == [status |-> "NONE", price |-> 0, speed |-> 0]
Entry(o) == [status |-> orders[o].status, price |-> orders[o].price,
             speed |-> orders[o].speed]

-----------------------------------------------------------------------------
(* The ledger.  A row that Braiins never listed has the status the insert   *)
(* gave it; age counts from created_at, cool from last_price_decrease_at.   *)

Terminal == {"CANCELED", "FULFILLED"}

NoRow == [status |-> "NOROW", age |-> 0, cool |-> 0]
\* Mutation of NewRow: a row as Braiins would have it.
NewRowAsListed == [status |-> "BID_STATUS_CREATED", age |-> 0, cool |-> Cooldown]

NewRow == [status |-> "CREATED", age |-> 0, cool |-> Cooldown]

HasRow(o) == ledger[o].status # "NOROW"
RowActive(o) == HasRow(o) /\ ledger[o].status \notin Terminal

\* Mutation of KnownIds: a terminal row does not make an order ours.
ActiveIds == {o \in Orders : RowActive(o)}

\* getIds(), the ids that are not foreign.
KnownIds == {o \in Orders : HasRow(o)}

\* Mutation of OldRows: no grace for what Braiins has yet to list.
AnyRows == KnownIds

\* The rows that listActiveForPrune() may return later in the tick.
OldRows == {o \in Orders : HasRow(o) /\ ledger[o].age > Grace}

-----------------------------------------------------------------------------
(* A tick.  pc: "idle", "begun" (database read), "read" (bid list in),     *)
(* "synced" (ledger written), "acting" (dispatching todo; sent holds the   *)
(* accepted call whose record is still to be written).                     *)

IdleTick == [pc |-> "idle", mode |-> "DRY_RUN", ids |-> {}, active |-> 0,
             old |-> {}, cooling |-> {}, bidsOk |-> FALSE,
             list |-> [o \in Orders |-> NotListed],
             todo |-> {}, sent |-> {}, cancels |-> {}, createFailed |-> FALSE]

Seen(t) == {o \in Orders : tick[t].list[o].status # "NONE"}
OwnedIn(t) == Seen(t) \cap tick[t].ids

\* The view decide() gets: what the tick read at its start and from the
\* list, and what it reads last: market, probe, staleness, hold.
View(t, quote, fails, stale, held) ==
    [unknown |-> Seen(t) \ tick[t].ids,
     owned |-> [o \in OwnedIn(t) |-> [status |-> tick[t].list[o].status,
                                      price |-> tick[t].list[o].price,
                                      speed |-> tick[t].list[o].speed,
                                      feePct |-> quote.feePct]],
     bidsOk |-> tick[t].bidsOk,
     activeRows |-> tick[t].active,
     runMode |-> tick[t].mode,
     cooling |-> tick[t].cooling \cap OwnedIn(t),
     poolFails |-> fails,
     nodeStale |-> stale,
     held |-> held,
     market |-> quote.market,
     hashprice |-> quote.hashprice,
     fillable |-> quote.fillable,
     engaged |-> quote.engaged,
     minSpeed |-> quote.minSpeed,
     tickSize |-> quote.tickSize,
     balance |-> quote.balance]

\* The list after this tick's own cancels (tick.ts, patchedOwnedBids).
PatchedOwned(t) == OwnedIn(t) \ tick[t].cancels

-----------------------------------------------------------------------------

Init ==
    /\ orders = [o \in Orders |-> NoOrder]
    /\ ledger = [o \in Orders |-> NoRow]
    /\ runMode = "LIVE"
    /\ poolFails = 0
    /\ tick = [t \in Ticks |-> IdleTick]
    /\ cancelled = {}
    /\ faults = 0

Fault(kind) ==
    /\ kind \in Faults
    /\ faults < MaxFaults
    /\ faults' = faults + 1

Becomes(t, state) == tick' = [tick EXCEPT ![t] = state]

\* observe() up to its first await: tick_at and the four database reads.
Begin(t) ==
    /\ tick[t].pc = "idle"
    /\ Becomes(t, [IdleTick EXCEPT
         !.pc = "begun",
         !.mode = runMode,
         !.ids = KnownIds,
         !.active = Cardinality({o \in Orders : RowActive(o)}),
         !.old = OldRows,
         !.cooling = {o \in Orders : HasRow(o) /\ ledger[o].cool < Cooldown}])
    /\ UNCHANGED <<orders, ledger, runMode, poolFails, cancelled, faults>>

Receive(t, ok, ids) ==
    Becomes(t, [tick[t] EXCEPT
      !.pc = "read", !.bidsOk = ok,
      !.list = [o \in Orders |-> IF o \in ids THEN Entry(o) ELSE NotListed]])

\* getCurrentBids(): the list, no answer, or a list that misses some orders.
ReadList(t) ==
    /\ tick[t].pc = "begun"
    /\ \/ Receive(t, TRUE, Listing) /\ UNCHANGED faults
       \/ Receive(t, FALSE, {}) /\ Fault("fetch")
       \/ /\ \E ids \in SUBSET Listing : ids # Listing /\ Receive(t, TRUE, ids)
          /\ Fault("blip")
    /\ UNCHANGED <<orders, ledger, runMode, poolFails, cancelled>>

\* Reconciliation of the rows that are listed, then, after a fetch that
\* succeeded, the prune of the active rows that are not.  NothingVanished is
\* a mutation: no prune.
NothingVanished(t) == {}

Vanished(t) ==
    {o \in tick[t].old : tick[t].bidsOk /\ RowActive(o) /\ o \notin Seen(t)}

SyncLedger(t) ==
    /\ tick[t].pc = "read"
    /\ ledger' = [o \in Orders |->
         [ledger[o] EXCEPT
            !.status = IF o \in OwnedIn(t) THEN tick[t].list[o].status
                       ELSE IF o \in Vanished(t) THEN "CANCELED"
                       ELSE @]]
    /\ Becomes(t, [tick[t] EXCEPT !.pc = "synced"])
    /\ UNCHANGED <<orders, runMode, poolFails, cancelled, faults>>

\* The probe, the end of observe(), decide() and gate().
DecideNow(t, quote, reachable, stale, held) ==
    /\ tick[t].pc = "synced"
    /\ poolFails' = IF reachable \/ ~Config.poolUrl THEN 0
                    ELSE LesserOf(poolFails + 1, StratumDownCancelThreshold)
    /\ Becomes(t, [tick[t] EXCEPT
         !.pc = "acting",
         !.todo = Dispatched(Config, View(t, quote, poolFails', stale, held))])
    /\ UNCHANGED <<orders, ledger, runMode, cancelled, faults>>

-----------------------------------------------------------------------------
(* executeLive(): one call at a time, in order.  A call that is accepted    *)
(* changes the marketplace now and the ledger when its answer arrives; one  *)
(* that is refused does neither; an answer that is lost (a network error    *)
(* after the POST took effect) leaves the ledger as it was.                 *)

MaySend(t, p) ==
    /\ tick[t].pc = "acting"
    /\ tick[t].sent = {}
    /\ IsNext(p, tick[t].todo)

Accepted(t, p, o) ==
    /\ Becomes(t, [tick[t] EXCEPT
         !.todo = @ \ {p}, !.sent = {[proposal |-> p, order |-> o]}])
    /\ UNCHANGED faults

Failed(t, p) ==
    Becomes(t, [tick[t] EXCEPT
      !.todo = @ \ {p}, !.createFailed = @ \/ p.kind = "CREATE_BID"])

\* The answer to a call that took effect is received, or is lost.
AnsweredOrLost(t, p, o) ==
    Accepted(t, p, o) \/ (Failed(t, p) /\ Fault("lost"))

SendCreate(t, p) ==
    /\ MaySend(t, p)
    /\ p.kind = "CREATE_BID"
    /\ \/ \E o \in Orders :
            /\ orders[o].status = "NONE"
            /\ orders' = [orders EXCEPT ![o] =
                 [status |-> "ACTIVE", mine |-> TRUE, listed |-> FALSE,
                  price |-> p.price, speed |-> p.speed,
                  lag |-> 0, drop |-> Cooldown]]
            /\ AnsweredOrLost(t, p, o)
       \/ /\ \A o \in Orders : orders[o].status # "NONE"  \* ids exhausted (bound)
          /\ Failed(t, p)
          /\ UNCHANGED <<orders, faults>>
       \/ /\ Failed(t, p)
          /\ Fault("reject")
          /\ UNCHANGED orders
    /\ UNCHANGED <<ledger, runMode, poolFails, cancelled>>

\* Braiins refuses to lower a price again within its period.
PriceAcceptable(o, price) ==
    orders[o].status \in Firm
        /\ (price < orders[o].price => orders[o].drop >= Cooldown)

SendEditPrice(t, p) ==
    /\ MaySend(t, p)
    /\ p.kind = "EDIT_PRICE"
    /\ \/ /\ PriceAcceptable(p.order, p.price)
          /\ orders' = [orders EXCEPT
               ![p.order].price = p.price,
               ![p.order].drop = IF p.price < orders[p.order].price THEN 0 ELSE @]
          /\ AnsweredOrLost(t, p, p.order)
       \/ /\ ~PriceAcceptable(p.order, p.price)
          /\ Failed(t, p)
          /\ UNCHANGED <<orders, faults>>
       \/ /\ Failed(t, p)
          /\ Fault("reject")
          /\ UNCHANGED orders
    /\ UNCHANGED <<ledger, runMode, poolFails, cancelled>>

SendEditSpeed(t, p) ==
    /\ MaySend(t, p)
    /\ p.kind = "EDIT_SPEED"
    /\ \/ /\ orders[p.order].status \in Firm
          /\ orders' = [orders EXCEPT ![p.order].speed = p.speed]
          /\ AnsweredOrLost(t, p, p.order)
       \/ /\ orders[p.order].status \notin Firm
          /\ Failed(t, p)
          /\ UNCHANGED <<orders, faults>>
       \/ /\ Failed(t, p)
          /\ Fault("reject")
          /\ UNCHANGED orders
    /\ UNCHANGED <<ledger, runMode, poolFails, cancelled>>

\* DELETE is accepted at once and unwound later; it is idempotent until then.
Unwind(o) == orders' = [orders EXCEPT ![o].status = "PENDING_CANCEL"]

SendCancel(t, p) ==
    /\ MaySend(t, p)
    /\ p.kind = "CANCEL_BID"
    /\ \/ /\ IsLive(p.order)
          /\ Unwind(p.order)
          /\ AnsweredOrLost(t, p, p.order)
       \/ /\ ~IsLive(p.order)
          /\ Failed(t, p)
          /\ UNCHANGED <<orders, faults>>
       \/ /\ Failed(t, p)
          /\ Fault("reject")
          /\ UNCHANGED orders
    /\ UNCHANGED <<ledger, runMode, poolFails, cancelled>>

\* PAUSE is no call: it writes the run mode.
ExecutePause(t, p) ==
    /\ MaySend(t, p)
    /\ p.kind = "PAUSE"
    /\ runMode' = "PAUSED"
    /\ Becomes(t, [tick[t] EXCEPT !.todo = @ \ {p}])
    /\ UNCHANGED <<orders, ledger, poolFails, cancelled, faults>>

\* The write that follows an answer: insert (which does nothing when the row
\* exists), setLastPriceDecrease, markCancelled, or none.
Lowers(p) == p.kind = "EDIT_PRICE" /\ p.price < p.old

\* Mutation of Recorded: setLastPriceDecrease is forgotten.
RecordedWithoutTime(row, p) ==
    IF p.kind = "CREATE_BID"
    THEN IF row.status = "NOROW" THEN NewRow ELSE row
    ELSE [row EXCEPT !.status = IF p.kind = "CANCEL_BID" THEN "CANCELED" ELSE @]

Recorded(row, p) ==
    IF p.kind = "CREATE_BID"
    THEN IF row.status = "NOROW" THEN NewRow ELSE row
    ELSE [row EXCEPT
            !.status = IF p.kind = "CANCEL_BID" THEN "CANCELED" ELSE @,
            !.cool = IF Lowers(p) THEN 0 ELSE @]

Record(t) ==
    \E c \in tick[t].sent :
        /\ ledger' = [ledger EXCEPT ![c.order] = Recorded(@, c.proposal)]
        /\ Becomes(t, [tick[t] EXCEPT
             !.sent = {},
             !.cancels = IF c.proposal.kind = "CANCEL_BID"
                         THEN @ \cup {c.order} ELSE @])
        /\ UNCHANGED <<orders, runMode, poolFails, cancelled, faults>>

\* The end of the tick: decisions, bid events, runtime and metrics rows.
Finish(t) ==
    /\ tick[t].pc = "acting"
    /\ tick[t].todo = {}
    /\ tick[t].sent = {}
    /\ Becomes(t, IdleTick)
    /\ UNCHANGED <<orders, ledger, runMode, poolFails, cancelled, faults>>

Execute(t) ==
    \E p \in tick[t].todo :
        \/ SendCreate(t, p) \/ SendEditPrice(t, p) \/ SendEditSpeed(t, p)
        \/ SendCancel(t, p) \/ ExecutePause(t, p)

Observe(t) ==
    \/ Begin(t)
    \/ ReadList(t)
    \/ SyncLedger(t)
    \/ \E quote \in Quotes, reachable \in Probes,
          stale \in NodeStale, held \in Holds :
             DecideNow(t, quote, reachable, stale, held)

TickStep(t) == Observe(t) \/ Execute(t) \/ Record(t) \/ Finish(t)

-----------------------------------------------------------------------------
(* The operator and the process *)

\* POST /api/run-mode
SetRunMode(mode) ==
    /\ "runMode" \in Events
    /\ mode # runMode
    /\ runMode' = mode
    /\ UNCHANGED <<orders, ledger, poolFails, tick, cancelled, faults>>

\* POST /api/stale-urls/cancel: an order that Braiins no longer has counts
\* as cancelled too.
CancelStaleUrl(o) ==
    /\ "staleUrl" \in Events
    /\ ledger[o].status \in {"CREATED", "ACTIVE"}
    /\ o \notin cancelled
    /\ IF IsLive(o) THEN Unwind(o) ELSE UNCHANGED orders
    /\ cancelled' = cancelled \cup {o}
    /\ UNCHANGED <<ledger, runMode, poolFails, tick, faults>>

RecordStaleUrl(o) ==
    /\ o \in cancelled
    /\ ledger' = [ledger EXCEPT ![o].status = "CANCELED"]
    /\ cancelled' = cancelled \ {o}
    /\ UNCHANGED <<orders, runMode, poolFails, tick, faults>>

\* main.ts at boot
BootRunMode ==
    IF BootMode = "ALWAYS_LIVE" THEN "LIVE"
    ELSE IF BootMode = "LAST_MODE" /\ runMode # "PAUSED" THEN runMode
    ELSE "DRY_RUN"

\* The process dies between any two steps and starts again.
Crash ==
    /\ Fault("crash")
    /\ runMode' = BootRunMode
    /\ poolFails' = 0
    /\ tick' = [t \in Ticks |-> IdleTick]
    /\ cancelled' = {}
    /\ UNCHANGED <<orders, ledger>>

-----------------------------------------------------------------------------
(* Braiins and the clock *)

Market(change) ==
    /\ orders' = change
    /\ UNCHANGED <<ledger, runMode, poolFails, tick, cancelled, faults>>

Surface(o) ==
    /\ o \in Hidden
    /\ Market([orders EXCEPT ![o].listed = TRUE, ![o].lag = 0])

\* An unwinding order leaves; a firm one is fulfilled, expires or is
\* cancelled by Braiins or by the operator in the Braiins UI.
Leave(o) ==
    /\ \/ orders[o].status = "PENDING_CANCEL"
       \/ orders[o].status \in Firm /\ "ends" \in Events
    /\ Market([orders EXCEPT ![o] = Gone(o)])

\* Braiins pauses an order it cannot deliver to, and resumes it.
PauseOrResume(o) ==
    /\ "pauses" \in Events
    /\ orders[o].status \in Firm
    /\ Market([orders EXCEPT
         ![o].status = IF @ = "ACTIVE" THEN "PAUSED" ELSE "ACTIVE"])

\* An order the daemon did not place.
PlaceByHand(o) ==
    /\ "manual" \in Events
    /\ orders[o].status = "NONE"
    /\ Market([orders EXCEPT ![o] =
         [NoOrder EXCEPT !.status = "ACTIVE", !.listed = TRUE,
                         !.drop = Cooldown]])

Older(age, top) == LesserOf(age + 1, top)

Minute ==
    /\ \A o \in Hidden : orders[o].lag < Lag
    /\ orders' = [o \in Orders |->
         IF ~IsLive(o) THEN orders[o]
         ELSE [orders[o] EXCEPT
                 !.lag = IF orders[o].listed THEN 0 ELSE @ + 1,
                 !.drop = Older(@, Cooldown)]]
    /\ ledger' = [o \in Orders |->
         IF ~HasRow(o) THEN ledger[o]
         ELSE [ledger[o] EXCEPT !.age = Older(@, Grace + 1),
                                !.cool = Older(@, Cooldown)]]
    /\ UNCHANGED <<runMode, poolFails, tick, cancelled, faults>>

Next ==
    \/ \E t \in Ticks : TickStep(t)
    \/ \E mode \in RunModes : SetRunMode(mode)
    \/ \E o \in Orders :
          \/ CancelStaleUrl(o) \/ RecordStaleUrl(o)
          \/ Surface(o) \/ Leave(o) \/ PauseOrResume(o) \/ PlaceByHand(o)
    \/ Crash
    \/ Minute

Spec == Init /\ [][Next]_vars

\* TickLoop's timer fires every minute and every await of a tick settles
\* (a request ends in an answer or an error); a database write completes;
\* Braiins lists what it accepted and unwinds what was cancelled.  Nothing
\* forces an operator, a crash or the tick-now route to do anything.
Proceed(t) == tick[t].pc # "idle" /\ TickStep(t)

Fairness ==
    /\ \A t \in Ticks : WF_vars(Proceed(t))
    /\ \A t \in Ticks \cap {"loop"} : WF_vars(Begin(t))
    /\ \A o \in Orders :
          /\ WF_vars(RecordStaleUrl(o))
          /\ WF_vars(Surface(o))
          /\ WF_vars(orders[o].status = "PENDING_CANCEL" /\ Leave(o))
    /\ WF_vars(Minute)

FairSpec == Spec /\ Fairness

-----------------------------------------------------------------------------
(* Properties *)

ListEntry == [status : {"NONE"} \cup Live, price : Int, speed : Int]

ProposalType ==
    {Pause}
      \cup [kind : {"CREATE_BID"}, price : Int, speed : Int, amount : Int]
      \cup [kind : {"EDIT_PRICE"}, order : Orders, price : Int, old : Int]
      \cup [kind : {"EDIT_SPEED"}, order : Orders, speed : Int]
      \cup [kind : {"CANCEL_BID"}, order : Orders]

OrderType ==
    [status : {"NONE", "GONE"} \cup Live, mine : BOOLEAN, listed : BOOLEAN,
     price : Int, speed : Int, lag : 0..Lag, drop : 0..Cooldown]

RowType ==
    [status : {"NOROW", "CREATED"} \cup Live \cup Terminal,
     age : 0..(Grace + 1), cool : 0..Cooldown]

TickType ==
    [pc : {"idle", "begun", "read", "synced", "acting"}, mode : RunModes,
     ids : SUBSET Orders, active : Nat, old : SUBSET Orders,
     cooling : SUBSET Orders, bidsOk : BOOLEAN,
     list : [Orders -> ListEntry],
     todo : SUBSET ProposalType,
     sent : SUBSET [proposal : ProposalType, order : Orders],
     cancels : SUBSET Orders, createFailed : BOOLEAN]

TypeOK ==
    /\ orders \in [Orders -> OrderType]
    /\ ledger \in [Orders -> RowType]
    /\ runMode \in RunModes
    /\ poolFails \in 0..StratumDownCancelThreshold
    /\ tick \in [Ticks -> TickType]
    /\ cancelled \subseteq Orders
    /\ faults \in 0..MaxFaults

\* "Two live bids must never overlap" (decide.ts:65): no two orders of the
\* daemon, the ones Braiins is still unwinding included, exist at once.
NoOverlap == \A a, b \in OwnLive : a = b

\* The weaker promise that survives a list that once misses an order: the
\* daemon never has two orders that are not being unwound.
AtMostOneFirm == \A a, b \in OwnFirm : a = b

\* PAUSE is for "bids in the account whose IDs are not in its local ownership
\* ledger" (docs/spec.md:433): a tick that is about to pause has seen an order
\* that the ledger does not know (decide.ts:47-55).
PauseMeansUnknown ==
    \A t \in Ticks :
        Pause \in tick[t].todo => \E o \in Seen(t) : ~HasRow(o)

\* The cooldown the gate computes from the ledger ends no earlier than the
\* one Braiins enforces: no decrease is dispatched that Braiins would refuse
\* for coming too soon (gate.ts:43-48, execute.ts:205-210).
CooldownHonoured ==
    \A t \in Ticks : \A p \in tick[t].todo :
        /\ p.kind = "EDIT_PRICE"
        /\ p.price < p.old
        /\ orders[p.order].status \in Firm
        => orders[p.order].drop >= Cooldown

\* PAUSED is a "hard stop.  No creates, edits, or cancels" (docs/spec.md:131):
\* no call reaches Braiins while the run mode is PAUSED.
HardStop ==
    [][\A t \in Ticks :
          tick[t].sent = {} /\ tick'[t].sent # {} => runMode # "PAUSED"]_vars

\* An order of unknown origin stops the daemon (decide.ts:47-55), also when
\* it is the daemon's own, placed by a POST whose answer never arrived.
UnknownPauses ==
    \A o \in Orders :
        o \in Listing /\ ~HasRow(o) /\ runMode = "LIVE"
            ~> runMode # "LIVE" \/ ~IsLive(o) \/ HasRow(o)

\* A pool that stays down ends all spending: in LIVE every order the daemon
\* knows of is eventually being unwound, and none is added (decide.ts:69-86).
OutageStopsSpending ==
    <>[](runMode = "LIVE" /\ poolFails = StratumDownCancelThreshold)
        => <>[](OwnFirm = {})

\* As long as the daemon stays in LIVE and its pool answers often enough, it
\* always comes back to an order of its own, whatever became of the last one
\* (until the ids run out; with a node that is not stale).
BidRestored ==
    <>[](runMode = "LIVE" /\ poolFails < StratumDownCancelThreshold)
        => []<>(OwnLive # {} \/ \A o \in Orders : orders[o].status # "NONE")
=============================================================================
