------------------------------- MODULE Decide -------------------------------
(***************************************************************************)
(* The pure half of a control-loop tick: decide() proposes marketplace      *)
(* mutations from what observe() saw, gate() removes the ones that the run  *)
(* mode, the fee ceiling or the price-decrease cooldown forbids, and the    *)
(* first test of execute() dispatches what is left only in LIVE.            *)
(*                                                                         *)
(* cfg is the configuration row, v the view (the State record of the code) *)
(* of one tick.  Prices are in sat/EH/day, hashprice in sat/PH/day, speeds  *)
(* in PH/s, all integers.  An order id is a number: localeCompare is its    *)
(* order, and says nothing of which order was placed first.                 *)
(*                                                                         *)
(*   v.owned    [order id -> [status, price, speed, feePct]], the listed    *)
(*              orders whose id the ledger has                              *)
(*   v.unknown  the listed ids that it has not                              *)
(*   v.activeRows  how many ledger rows were not terminal                   *)
(*   v.cooling  the owned ids whose last price decrease is too recent       *)
(*   v.engaged  the sustained cheap-mode check of observe()                 *)
(***************************************************************************)
EXTENDS Values, FiniteSets

StratumDownCancelThreshold == 3
BraiinsMaxAmountSat == 100000000

LesserOf(a, b) == IF a < b THEN a ELSE b
GreaterOf(a, b) == IF a > b THEN a ELSE b
Distance(a, b) == IF a < b THEN b - a ELSE a - b
OrElse(value, default) == IF value = Null THEN default ELSE value

-----------------------------------------------------------------------------
(* What decide() is given: a configuration row that passed its schema, and a *)
(* view whose readings are numbers or missing.  The step of Braiins' price   *)
(* grid is positive.                                                         *)

ConfigType ==
    [poolUrl : BOOLEAN, maxBid : Int, maxOverpay : Int \cup {Null},
     bip110 : BOOLEAN, overpay : Int, deadbandPct : Int, targetPh : Int,
     cheapTargetPh : Int, cheapPct : Int, cheapWindow : Int, budget : Int,
     maxFeePct : Int]

RunModes == {"DRY_RUN", "LIVE", "PAUSED"}

BidStatuses ==
    {"UNSPECIFIED", "CREATED", "ACTIVE", "PAUSED", "FROZEN",
     "PENDING_CANCEL", "CANCELED", "FULFILLED"}

BidType ==
    [status : BidStatuses, price : Int, speed : Int \cup {Null},
     feePct : Int \cup {Null}]

ViewType(ids) ==
    [unknown : SUBSET Nat, owned : [ids -> BidType], bidsOk : BOOLEAN,
     activeRows : Nat, held : BOOLEAN, runMode : RunModes,
     cooling : SUBSET Nat, poolFails : Nat, nodeStale : BOOLEAN,
     market : BOOLEAN, hashprice : Int \cup {Null},
     fillable : Int \cup {Null}, engaged : BOOLEAN,
     minSpeed : Int \cup {Null}, tickSize : (Nat \ {0}) \cup {Null},
     balance : Int \cup {Null}]

-----------------------------------------------------------------------------
(* Proposals *)

Pause == [kind |-> "PAUSE"]

Create(price, speed, amount) ==
    [kind |-> "CREATE_BID", price |-> price, speed |-> speed, amount |-> amount]

EditPrice(order, price, old) ==
    [kind |-> "EDIT_PRICE", order |-> order, price |-> price, old |-> old]

EditSpeed(order, speed) ==
    [kind |-> "EDIT_SPEED", order |-> order, speed |-> speed]

Cancel(order) == [kind |-> "CANCEL_BID", order |-> order]

-----------------------------------------------------------------------------
(* Pricing *)

DynamicCapConfigured(cfg) == cfg.maxOverpay # Null /\ ~cfg.bip110

HashpriceEh(v) == v.hashprice * 1000

EffectiveCap(cfg, v) ==
    IF DynamicCapConfigured(cfg)
    THEN LesserOf(cfg.maxBid, HashpriceEh(v) + cfg.maxOverpay)
    ELSE cfg.maxBid

DesiredBid(cfg, v) == v.fillable + cfg.overpay

\* Mutation of TargetPrice: the caps are not applied.
TargetUncapped(cfg, v) == DesiredBid(cfg, v)

TargetPrice(cfg, v) == LesserOf(DesiredBid(cfg, v), EffectiveCap(cfg, v))

\* The early returns that leave a tick without a price to track.
Priceable(cfg, v) ==
    /\ cfg.poolUrl
    /\ v.market
    /\ DynamicCapConfigured(cfg) => v.hashprice # Null
    /\ v.fillable # Null

CheapEnabled(cfg) == cfg.cheapPct > 0 /\ cfg.cheapTargetPh > cfg.targetPh

SpotCheap(cfg, v) ==
    /\ v.hashprice # Null
    /\ v.hashprice > 0
    /\ DesiredBid(cfg, v) * 100 < HashpriceEh(v) * cfg.cheapPct

CheapModeActive(cfg, v) ==
    /\ CheapEnabled(cfg)
    /\ IF cfg.cheapWindow > 0 THEN v.engaged ELSE SpotCheap(cfg, v)

SpeedLimit(cfg, v) ==
    GreaterOf(GreaterOf(1, OrElse(v.minSpeed, 1)),
              IF CheapModeActive(cfg, v) THEN cfg.cheapTargetPh ELSE cfg.targetPh)

EditDeadband(cfg, v) ==
    GreaterOf(OrElse(v.tickSize, 1000),
              (cfg.overpay * cfg.deadbandPct) \div 100)

\* 0 stands for the whole wallet; Null: no budget, so no bid.
EffectiveBudget(cfg, v) ==
    IF cfg.budget # 0 THEN cfg.budget
    ELSE IF v.balance = Null \/ v.balance <= 0 THEN Null
    ELSE LesserOf(v.balance, BraiinsMaxAmountSat)

-----------------------------------------------------------------------------
(* decide() *)

Listed(v) == DOMAIN v.owned

\* The orders Braiins is not already unwinding.
Actionable(v) == {o \in Listed(v) : v.owned[o].status # "PENDING_CANCEL"}

IsPrimary(o, v) ==
    /\ o \in Actionable(v)
    /\ \A other \in Actionable(v) : o <= other

\* Mutation of MayCreate: any empty list will do.
MayCreateOnEmptyList(cfg, v) ==
    Listed(v) = {} /\ EffectiveBudget(cfg, v) # Null

\* An empty list is acted upon only when it is confirmed.
MayCreate(cfg, v) ==
    /\ Listed(v) = {}
    /\ v.bidsOk
    /\ v.activeRows = 0
    /\ ~v.held
    /\ EffectiveBudget(cfg, v) # Null

Creation(cfg, v) ==
    {p \in {Create(TargetPrice(cfg, v), SpeedLimit(cfg, v), EffectiveBudget(cfg, v))} :
        MayCreate(cfg, v)}

Extras(v) ==
    {Cancel(o) : o \in {x \in Actionable(v) : ~IsPrimary(x, v)}}

\* Mutation of Repricing: the difference loses its sign.
RepricingDownwards(cfg, v) ==
    {EditPrice(o, TargetPrice(cfg, v), v.owned[o].price) :
        o \in {x \in Actionable(v) :
                 /\ IsPrimary(x, v)
                 /\ v.owned[x].price - TargetPrice(cfg, v)
                      >= EditDeadband(cfg, v)}}

Repricing(cfg, v) ==
    {EditPrice(o, TargetPrice(cfg, v), v.owned[o].price) :
        o \in {x \in Actionable(v) :
                 /\ IsPrimary(x, v)
                 /\ Distance(v.owned[x].price, TargetPrice(cfg, v))
                      >= EditDeadband(cfg, v)}}

\* Mutation of Respeeding: sends the speed without its lower bound.
RespeedingUnclamped(cfg, v) ==
    {EditSpeed(o, cfg.targetPh) :
        o \in {x \in Actionable(v) :
                 /\ IsPrimary(x, v)
                 /\ v.owned[x].speed # Null
                 /\ v.owned[x].speed # SpeedLimit(cfg, v)}}

Respeeding(cfg, v) ==
    {EditSpeed(o, SpeedLimit(cfg, v)) :
        o \in {x \in Actionable(v) :
                 /\ IsPrimary(x, v)
                 /\ v.owned[x].speed # Null
                 /\ v.owned[x].speed # SpeedLimit(cfg, v)}}

\* Mutation of PoolUnusable: the probe of the pool is not asked.
NodeUnusable(v) == v.nodeStale

PoolUnusable(v) ==
    v.poolFails >= StratumDownCancelThreshold \/ v.nodeStale

\* Mutation of Proposals: unknown orders are left alone.
ProposalsDespiteUnknown(cfg, v) ==
    IF PoolUnusable(v) THEN {Cancel(o) : o \in Actionable(v)}
    ELSE IF Priceable(cfg, v)
    THEN Creation(cfg, v) \cup Extras(v)
           \cup Repricing(cfg, v) \cup Respeeding(cfg, v)
    ELSE {}

Proposals(cfg, v) ==
    IF v.unknown # {} THEN {Pause}
    ELSE IF PoolUnusable(v) THEN {Cancel(o) : o \in Actionable(v)}
    ELSE IF Priceable(cfg, v)
    THEN Creation(cfg, v) \cup Extras(v)
           \cup Repricing(cfg, v) \cup Respeeding(cfg, v)
    ELSE {}

-----------------------------------------------------------------------------
(* gate() and the run-mode test of execute() *)

CanMutate(runMode) == runMode = "LIVE"

IsFeeThresholdExceeded(cfg, v) ==
    \E o \in Listed(v) :
        /\ v.owned[o].status = "ACTIVE"
        /\ v.owned[o].feePct # Null
        /\ v.owned[o].feePct > cfg.maxFeePct

InsidePriceDecreaseCooldown(p, v) ==
    p.kind = "EDIT_PRICE" /\ p.price < p.old /\ p.order \in v.cooling

\* Mutation of Allowed: a fee halt stops cancels too.
AllowedWithoutFees(cfg, v, p) ==
    \/ p.kind = "PAUSE"
    \/ /\ CanMutate(v.runMode)
       /\ ~IsFeeThresholdExceeded(cfg, v)
       /\ ~InsidePriceDecreaseCooldown(p, v)

Allowed(cfg, v, p) ==
    \/ p.kind = "PAUSE"
    \/ /\ CanMutate(v.runMode)
       /\ p.kind = "CANCEL_BID" \/ ~IsFeeThresholdExceeded(cfg, v)
       /\ ~InsidePriceDecreaseCooldown(p, v)

\* What a tick sends.  Outside LIVE an allowed proposal is only written down.
Dispatched(cfg, v) ==
    {p \in Proposals(cfg, v) : v.runMode = "LIVE" /\ Allowed(cfg, v, p)}

\* executeLive() takes the proposals in the order decide() made them: the
\* cancels of the extras, the price edit, the speed edit.
Rank(p) == IF p.kind = "EDIT_SPEED" THEN 2
           ELSE IF p.kind = "EDIT_PRICE" THEN 1 ELSE 0

IsNext(p, todo) == p \in todo /\ \A q \in todo : Rank(p) <= Rank(q)
=============================================================================
