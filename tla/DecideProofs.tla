---------------------------- MODULE DecideProofs ----------------------------
(* The decision rules settle, for every configuration that passed its       *)
(* schema, every typed view and every number of orders: the four properties *)
(* of DecideTick from one inductive invariant.                              *)
EXTENDS DecideTick, TLAPS

-----------------------------------------------------------------------------
(* The invariant *)

DataType ==
    /\ cfg \in ConfigType
    /\ view \in ViewType(Listed(view))
    /\ Listed(view) \subseteq Nat
    /\ ticks \in 0..MaxTicks
    /\ phase \in {"observed", "acting"}
    /\ phase = "observed" => plan = {}
    /\ phase = "acting" => ticks > 0

IsEdit(p) == p.kind \in {"EDIT_PRICE", "EDIT_SPEED"}

IsCall(p) == IsEdit(p) \/ p.kind = "CANCEL_BID"

\* A call is at the price and the speed of the moment.
Aimed(c, v, p) ==
    /\ p.kind \in {"PAUSE", "CREATE_BID"} \/ IsCall(p)
    /\ p.kind \in {"CREATE_BID", "EDIT_PRICE"} =>
          Priceable(c, v) /\ p.price = TargetPrice(c, v)
    /\ p.kind \in {"CREATE_BID", "EDIT_SPEED"} => p.speed = SpeedLimit(c, v)
    /\ IsCall(p) => p.order \in Nat

\* Only LIVE has a plan, and a PAUSE is all there is in it.
WellAimed ==
    /\ plan # {} => view.runMode = "LIVE"
    /\ \A p \in plan : p.kind = "PAUSE" => plan = {p}
    /\ \A p \in plan : Aimed(cfg, view, p)

\* These calls, all made, leave nothing to cancel and nothing to place.
Covers(c, v, calls) ==
    /\ v.unknown # {} => Pause \in calls
    /\ v.unknown = {} /\ PoolUnusable(v) =>
          /\ \A p \in calls : p.kind = "CANCEL_BID"
          /\ \A o \in Actionable(v) : Cancel(o) \in calls
    /\ v.unknown = {} /\ ~PoolUnusable(v) /\ Priceable(c, v) =>
          /\ MayCreate(c, v) => \E p \in calls : p.kind = "CREATE_BID"
          /\ \A o \in Actionable(v) : IsPrimary(o, v) \/ Cancel(o) \in calls

\* What is left of the first plan still covers all there is to do.
FirstPlan ==
    ticks = 1 /\ phase = "acting" /\ view.runMode = "LIVE" =>
        Covers(cfg, view, plan)

\* Nothing unknown, nothing alive without a pool, one order at most and none
\* to place.
Tidied(c, v) ==
    v.runMode = "LIVE" =>
        /\ v.unknown = {}
        /\ PoolUnusable(v) => Actionable(v) = {}
        /\ ~PoolUnusable(v) /\ Priceable(c, v) =>
              /\ \A o \in Actionable(v) : Actionable(v) = {o}
              /\ ~MayCreate(c, v)

Tidy == ticks > 1 \/ (ticks = 1 /\ phase = "observed") => Tidied(cfg, view)

\* From the second tick on there are only edits of that one order to send,
\* and what is left of the plan has them all; the third has none.
LastEdits ==
    /\ ticks > 1 =>
          /\ \A p \in plan : IsEdit(p) /\ p.order \in Actionable(view)
          /\ Dispatched(cfg, view) \subseteq plan
    /\ ticks = MaxTicks => plan = {}

DecideInvariant ==
    DataType /\ WellAimed /\ FirstPlan /\ Tidy /\ LastEdits

-----------------------------------------------------------------------------
(* Readings *)

\* What decide() reads of the world, and no call of the plan changes.
SameReadings(v, w) ==
    /\ w.unknown = v.unknown /\ w.bidsOk = v.bidsOk /\ w.held = v.held
    /\ w.poolFails = v.poolFails /\ w.nodeStale = v.nodeStale
    /\ w.market = v.market /\ w.hashprice = v.hashprice
    /\ w.fillable = v.fillable /\ w.engaged = v.engaged
    /\ w.minSpeed = v.minSpeed /\ w.tickSize = v.tickSize
    /\ w.balance = v.balance

\* Targets are numbers whenever there is a price to track, and the deadband
\* is never zero.
LEMMA TargetTypes ==
    ASSUME NEW c \in ConfigType, NEW ids, NEW v \in ViewType(ids)
    PROVE  /\ Priceable(c, v) => TargetPrice(c, v) \in Int
           /\ SpeedLimit(c, v) \in Int
           /\ EditDeadband(c, v) \in Int /\ EditDeadband(c, v) > 0
<1>1. Priceable(c, v) => TargetPrice(c, v) \in Int
  <2> SUFFICES ASSUME Priceable(c, v)
               PROVE  TargetPrice(c, v) \in Int
    OBVIOUS
  <2>1. v.fillable \in Int
    BY DEF Priceable, ViewType
  <2>2. EffectiveCap(c, v) \in Int
    BY DEF Priceable, ViewType, ConfigType, EffectiveCap, LesserOf,
       DynamicCapConfigured, HashpriceEh
  <2> QED
    BY <2>1, <2>2 DEF TargetPrice, DesiredBid, LesserOf, ConfigType
<1>2. SpeedLimit(c, v) \in Int
  BY DEF SpeedLimit, GreaterOf, OrElse, ConfigType, ViewType
<1>3. EditDeadband(c, v) \in Int /\ EditDeadband(c, v) > 0
  <2>1. OrElse(v.tickSize, 1000) \in Nat \ {0}
    BY DEF OrElse, ViewType
  <2>2. (c.overpay * c.deadbandPct) \div 100 \in Int
    <3> DEFINE product == c.overpay * c.deadbandPct
    <3>1. product \in Int
      BY DEF ConfigType
    <3> HIDE DEF product
    <3>2. product \div 100 \in Int
      BY <3>1
    <3> QED
      BY <3>2 DEF product
  <2> QED
    BY <2>1, <2>2 DEF EditDeadband, GreaterOf
<1> QED
  BY <1>1, <1>2, <1>3

\* Both ceilings bound the target.
LEMMA TargetCapped ==
    ASSUME NEW c \in ConfigType, NEW ids, NEW v \in ViewType(ids),
           Priceable(c, v)
    PROVE  /\ TargetPrice(c, v) <= c.maxBid
           /\ DynamicCapConfigured(c) =>
                 /\ v.hashprice # Null
                 /\ TargetPrice(c, v) <= v.hashprice * 1000 + c.maxOverpay
<1>1. v.fillable \in Int
  BY DEF Priceable, ViewType
<1>2. DesiredBid(c, v) \in Int
  BY <1>1 DEF DesiredBid, ConfigType
<1>3. CASE DynamicCapConfigured(c)
  <2>1. v.hashprice \in Int
    BY <1>3 DEF Priceable, ViewType
  <2>2. c.maxBid \in Int /\ c.maxOverpay \in Int
    BY <1>3 DEF ConfigType, DynamicCapConfigured
  <2>3. EffectiveCap(c, v) = LesserOf(c.maxBid, v.hashprice * 1000 + c.maxOverpay)
    BY <1>3 DEF EffectiveCap, HashpriceEh
  <2> QED
    BY <1>2, <2>1, <2>2, <2>3, NullAssumption DEF TargetPrice, LesserOf
<1>4. CASE ~DynamicCapConfigured(c)
  <2>1. EffectiveCap(c, v) = c.maxBid /\ c.maxBid \in Int
    BY <1>4 DEF EffectiveCap, ConfigType
  <2> QED
    BY <1>2, <1>4, <2>1 DEF TargetPrice, LesserOf
<1> QED
  BY <1>3, <1>4

\* Views that read the same have the same targets.
LEMMA SameTargets ==
    ASSUME NEW c, NEW v, NEW w, SameReadings(v, w)
    PROVE  /\ Priceable(c, w) <=> Priceable(c, v)
           /\ PoolUnusable(w) <=> PoolUnusable(v)
           /\ TargetPrice(c, w) = TargetPrice(c, v)
           /\ SpeedLimit(c, w) = SpeedLimit(c, v)
           /\ EditDeadband(c, w) = EditDeadband(c, v)
           /\ EffectiveBudget(c, w) = EffectiveBudget(c, v)
<1>1. Priceable(c, w) <=> Priceable(c, v)
  BY DEF SameReadings, Priceable
<1>2. PoolUnusable(w) <=> PoolUnusable(v)
  BY DEF SameReadings, PoolUnusable
<1>3. TargetPrice(c, w) = TargetPrice(c, v)
  BY DEF SameReadings, TargetPrice, DesiredBid, EffectiveCap, HashpriceEh
<1>4. CheapModeActive(c, w) <=> CheapModeActive(c, v)
  BY DEF SameReadings, CheapModeActive, SpotCheap, DesiredBid, HashpriceEh
<1>5. SpeedLimit(c, w) = SpeedLimit(c, v)
  BY <1>4 DEF SameReadings, SpeedLimit
<1>6. EditDeadband(c, w) = EditDeadband(c, v)
  BY DEF SameReadings, EditDeadband
<1>7. EffectiveBudget(c, w) = EffectiveBudget(c, v)
  BY DEF SameReadings, EffectiveBudget
<1> QED
  BY <1>1, <1>2, <1>3, <1>5, <1>6, <1>7

-----------------------------------------------------------------------------
(* What the calls do to the view *)

LEMMA EffectReadings ==
    ASSUME NEW v, v \in ViewType(Listed(v)), NEW p
    PROVE  SameReadings(v, Effect(v, p))
<1>1. CASE p.kind = "PAUSE"
  <2>1. Effect(v, p) = [v EXCEPT !.runMode = "PAUSED"]
    BY <1>1 DEF Effect
  <2> QED
    BY <2>1 DEF SameReadings, ViewType
<1>2. CASE p.kind = "CREATE_BID"
  <2>1. Effect(v, p) = [v EXCEPT !.owned = [o \in {NewOrder} |-> Placed(p)],
                                 !.activeRows = @ + 1]
    BY <1>2 DEF Effect
  <2> QED
    BY <2>1 DEF SameReadings, ViewType
<1>3. CASE p.kind # "PAUSE" /\ p.kind # "CREATE_BID"
  <2>1. Effect(v, p) =
            [v EXCEPT !.owned = [o \in Listed(v) |-> Edited(o, v.owned[o], p)],
                      !.cooling = IF p.kind = "EDIT_PRICE" /\ p.price < p.old
                                  THEN @ \cup {p.order} ELSE @]
    BY <1>3 DEF Effect
  <2> QED
    BY <2>1 DEF SameReadings, ViewType
<1> QED
  BY <1>1, <1>2, <1>3

LEMMA EffectPause ==
    ASSUME NEW v, v \in ViewType(Listed(v)), NEW p, p.kind = "PAUSE"
    PROVE  /\ Effect(v, p).runMode = "PAUSED"
           /\ Listed(Effect(v, p)) = Listed(v)
           /\ Effect(v, p) \in ViewType(Listed(v))
<1>1. Effect(v, p) = [v EXCEPT !.runMode = "PAUSED"]
  BY DEF Effect
<1> QED
  BY <1>1 DEF ViewType, Listed, RunModes

LEMMA EffectCreate ==
    ASSUME NEW v, v \in ViewType(Listed(v)),
           NEW p, p.kind = "CREATE_BID", p.price \in Int, p.speed \in Int
    PROVE  /\ Effect(v, p).runMode = v.runMode
           /\ Listed(Effect(v, p)) = {NewOrder}
           /\ Effect(v, p) \in ViewType({NewOrder})
           /\ Actionable(Effect(v, p)) = {NewOrder}
<1> DEFINE book == [o \in {NewOrder} |-> Placed(p)]
<1>1. Effect(v, p) = [v EXCEPT !.owned = book, !.activeRows = v.activeRows + 1]
  BY DEF Effect, ViewType
<1>2. Placed(p) \in BidType /\ Placed(p).status = "ACTIVE"
  BY DEF Placed, BidType, BidStatuses
<1>3. book \in [{NewOrder} -> BidType] /\ book[NewOrder].status = "ACTIVE"
  BY <1>2
<1>4. DOMAIN book = {NewOrder}
  OBVIOUS
<1> HIDE DEF book
<1>5. Effect(v, p).owned = book /\ Effect(v, p).runMode = v.runMode
  BY <1>1 DEF ViewType
<1>6. v.activeRows + 1 \in Nat
  BY DEF ViewType
<1>7. Effect(v, p) \in ViewType({NewOrder})
  BY <1>1, <1>3, <1>6 DEF ViewType
<1> QED
  BY <1>3, <1>4, <1>5, <1>7 DEF Listed, Actionable

LEMMA EffectCall ==
    ASSUME NEW v, v \in ViewType(Listed(v)), Listed(v) \subseteq Nat,
           NEW p, IsCall(p), p.order \in Nat,
           p.kind = "EDIT_PRICE" => p.price \in Int,
           p.kind = "EDIT_SPEED" => p.speed \in Int
    PROVE  /\ Effect(v, p).runMode = v.runMode
           /\ Effect(v, p).activeRows = v.activeRows
           /\ Listed(Effect(v, p)) = Listed(v)
           /\ Effect(v, p) \in ViewType(Listed(v))
           /\ \A o \in Listed(v) :
                 Effect(v, p).owned[o] = Edited(o, v.owned[o], p)
           /\ p.kind # "EDIT_PRICE" => Effect(v, p).cooling = v.cooling
<1> DEFINE book == [o \in Listed(v) |-> Edited(o, v.owned[o], p)]
           cool == IF p.kind = "EDIT_PRICE" /\ p.price < p.old
                   THEN v.cooling \cup {p.order} ELSE v.cooling
<1>1. Effect(v, p) = [v EXCEPT !.owned = book, !.cooling = cool]
  BY DEF Effect, IsCall, IsEdit, ViewType
<1>2. \A o \in Listed(v) : Edited(o, v.owned[o], p) \in BidType
  <2> SUFFICES ASSUME NEW o \in Listed(v)
               PROVE  Edited(o, v.owned[o], p) \in BidType
    OBVIOUS
  <2>1. v.owned[o] \in BidType
    BY DEF ViewType
  <2> QED
    BY <2>1 DEF Edited, IsCall, IsEdit, BidType, BidStatuses
<1>3. book \in [Listed(v) -> BidType]
  BY <1>2
<1>4. cool \in SUBSET Nat
  BY DEF ViewType
<1>5. DOMAIN book = Listed(v)
  OBVIOUS
<1>6. \A o \in Listed(v) : book[o] = Edited(o, v.owned[o], p)
  OBVIOUS
<1>7. p.kind # "EDIT_PRICE" => cool = v.cooling
  OBVIOUS
<1> HIDE DEF book, cool
<1>8. /\ Effect(v, p).owned = book /\ Effect(v, p).cooling = cool
      /\ Effect(v, p).runMode = v.runMode
      /\ Effect(v, p).activeRows = v.activeRows
  BY <1>1 DEF ViewType
<1>9. Effect(v, p) \in ViewType(Listed(v))
  BY <1>1, <1>3, <1>4 DEF ViewType
<1> QED
  BY <1>5, <1>6, <1>7, <1>8, <1>9 DEF Listed

-----------------------------------------------------------------------------
(* What a tick dispatches *)

LEMMA DispatchedAimed ==
    ASSUME NEW c, NEW v, Listed(v) \subseteq Nat, NEW p \in Dispatched(c, v)
    PROVE  /\ v.runMode = "LIVE"
           /\ Aimed(c, v, p)
           /\ v.unknown = {} /\ PoolUnusable(v) => p.kind = "CANCEL_BID"
<1>1. v.runMode = "LIVE" /\ p \in Proposals(c, v)
  BY DEF Dispatched
<1>2. Actionable(v) \subseteq Nat
  BY DEF Actionable
<1>3. CASE v.unknown # {}
  <2>1. p = Pause
    BY <1>1, <1>3 DEF Proposals
  <2> QED
    BY <1>1, <1>3, <2>1 DEF Pause, Aimed, IsCall, IsEdit
<1>4. CASE v.unknown = {} /\ PoolUnusable(v)
  <2>1. PICK o \in Actionable(v) : p = Cancel(o)
    BY <1>1, <1>4 DEF Proposals
  <2> QED
    BY <1>1, <1>2, <2>1 DEF Cancel, Aimed, IsCall, IsEdit
<1>5. CASE v.unknown = {} /\ ~PoolUnusable(v)
  <2>1. /\ Priceable(c, v)
        /\ p \in Creation(c, v) \cup Extras(v)
                \cup Repricing(c, v) \cup Respeeding(c, v)
    BY <1>1, <1>5 DEF Proposals
  <2>2. CASE p \in Creation(c, v)
    BY <1>1, <1>5, <2>1, <2>2 DEF Creation, Create, Aimed, IsCall, IsEdit
  <2>3. CASE p \in Extras(v)
    BY <1>1, <1>2, <1>5, <2>3 DEF Extras, Cancel, Aimed, IsCall, IsEdit
  <2>4. CASE p \in Repricing(c, v)
    BY <1>1, <1>2, <1>5, <2>1, <2>4
       DEF Repricing, EditPrice, Aimed, IsCall, IsEdit
  <2>5. CASE p \in Respeeding(c, v)
    BY <1>1, <1>2, <1>5, <2>5 DEF Respeeding, EditSpeed, Aimed, IsCall, IsEdit
  <2> QED
    BY <2>1, <2>2, <2>3, <2>4, <2>5
<1> QED
  BY <1>3, <1>4, <1>5

LEMMA PauseAlone ==
    ASSUME NEW c, NEW v, Listed(v) \subseteq Nat,
           NEW p \in Dispatched(c, v), p.kind = "PAUSE"
    PROVE  Dispatched(c, v) = {p}
<1>1. CASE v.unknown # {}
  <2>1. Proposals(c, v) = {Pause}
    BY <1>1 DEF Proposals
  <2> QED
    BY <2>1 DEF Dispatched
<1>2. CASE v.unknown = {}
  <2>1. ~PoolUnusable(v)
    BY <1>2, DispatchedAimed
  <2>2. p \in Creation(c, v) \cup Extras(v)
                \cup Repricing(c, v) \cup Respeeding(c, v)
    BY <1>2, <2>1 DEF Dispatched, Proposals
  <2> QED
    BY <2>2 DEF Creation, Extras, Repricing, Respeeding,
       Create, Cancel, EditPrice, EditSpeed
<1> QED
  BY <1>1, <1>2

\* gate() lets every cancel and every CREATE of a LIVE tick through: a CREATE
\* is made on an empty list, where no order carries a fee.
LEMMA DispatchCovers ==
    ASSUME NEW c, NEW v, Listed(v) \subseteq Nat, v.runMode = "LIVE"
    PROVE  Covers(c, v, Dispatched(c, v))
<1>1. v.unknown # {} => Pause \in Dispatched(c, v)
  BY DEF Dispatched, Proposals, Allowed, Pause
<1>2. \A o : Cancel(o) \in Proposals(c, v) => Cancel(o) \in Dispatched(c, v)
  BY DEF Dispatched, Allowed, Cancel, CanMutate, InsidePriceDecreaseCooldown
<1>3. ASSUME v.unknown = {}, PoolUnusable(v)
      PROVE  /\ \A p \in Dispatched(c, v) : p.kind = "CANCEL_BID"
             /\ \A o \in Actionable(v) : Cancel(o) \in Dispatched(c, v)
  <2>1. \A o \in Actionable(v) : Cancel(o) \in Proposals(c, v)
    BY <1>3 DEF Proposals
  <2> QED
    BY <1>2, <1>3, <2>1, DispatchedAimed
<1>4. ASSUME v.unknown = {}, ~PoolUnusable(v), Priceable(c, v)
      PROVE  /\ MayCreate(c, v) =>
                   \E p \in Dispatched(c, v) : p.kind = "CREATE_BID"
             /\ \A o \in Actionable(v) :
                   IsPrimary(o, v) \/ Cancel(o) \in Dispatched(c, v)
  <2>1. Proposals(c, v) = Creation(c, v) \cup Extras(v)
                            \cup Repricing(c, v) \cup Respeeding(c, v)
    BY <1>4 DEF Proposals
  <2>2. ASSUME MayCreate(c, v)
        PROVE  \E p \in Dispatched(c, v) : p.kind = "CREATE_BID"
    <3> DEFINE p == Create(TargetPrice(c, v), SpeedLimit(c, v),
                           EffectiveBudget(c, v))
    <3>1. p \in Proposals(c, v)
      BY <2>1, <2>2 DEF Creation
    <3>2. p.kind = "CREATE_BID"
      BY DEF Create
    <3> HIDE DEF p
    <3>3. ~IsFeeThresholdExceeded(c, v)
      BY <2>2 DEF MayCreate, IsFeeThresholdExceeded
    <3>4. ~InsidePriceDecreaseCooldown(p, v)
      BY <3>2 DEF InsidePriceDecreaseCooldown
    <3>5. Allowed(c, v, p)
      BY <3>3, <3>4 DEF Allowed, CanMutate
    <3> QED
      BY <3>1, <3>2, <3>5 DEF Dispatched
  <2>3. \A o \in Actionable(v) :
           IsPrimary(o, v) \/ Cancel(o) \in Proposals(c, v)
    BY <2>1 DEF Extras
  <2> QED
    BY <1>2, <2>2, <2>3
<1> QED
  BY <1>1, <1>3, <1>4 DEF Covers

\* In a tidy view there are only edits of the one order left.
LEMMA TidyDispatch ==
    ASSUME NEW c, NEW v, Listed(v) \subseteq Nat, Tidied(c, v),
           NEW p \in Dispatched(c, v)
    PROVE  /\ ~PoolUnusable(v) /\ Priceable(c, v)
           /\ p \in Repricing(c, v) \cup Respeeding(c, v)
           /\ IsEdit(p) /\ p.order \in Actionable(v)
           /\ Actionable(v) = {p.order}
<1>1. v.runMode = "LIVE" /\ p \in Proposals(c, v)
  BY DEF Dispatched
<1>2. v.unknown = {} /\ (PoolUnusable(v) => Actionable(v) = {})
  BY <1>1 DEF Tidied
<1>3. ~PoolUnusable(v)
  BY <1>1, <1>2 DEF Proposals
<1>4. Priceable(c, v) /\ p \in Creation(c, v) \cup Extras(v)
                               \cup Repricing(c, v) \cup Respeeding(c, v)
  BY <1>1, <1>2, <1>3 DEF Proposals
<1>5. /\ \A o \in Actionable(v) : Actionable(v) = {o}
      /\ ~MayCreate(c, v)
  BY <1>1, <1>3, <1>4 DEF Tidied
<1>6. Creation(c, v) = {}
  BY <1>5 DEF Creation
<1>7. Extras(v) = {}
  <2>1. \A o \in Actionable(v) : o \in Nat
    BY DEF Actionable
  <2>2. \A o \in Actionable(v) : IsPrimary(o, v)
    <3> SUFFICES ASSUME NEW o \in Actionable(v) PROVE IsPrimary(o, v)
      OBVIOUS
    <3>1. \A other \in Actionable(v) : other = o
      BY <1>5
    <3> QED
      BY <2>1, <3>1 DEF IsPrimary
  <2> QED
    BY <2>2 DEF Extras
<1>8. p \in Repricing(c, v) \cup Respeeding(c, v)
  BY <1>4, <1>6, <1>7
<1>9. IsEdit(p) /\ p.order \in Actionable(v)
  BY <1>8 DEF Repricing, Respeeding, EditPrice, EditSpeed, IsEdit
<1> QED
  BY <1>3, <1>4, <1>5, <1>8, <1>9

-----------------------------------------------------------------------------
(* What a call leaves to do *)

\* An edit touches no status; a cancel takes its order, and no other, out of
\* what can still be acted upon.  Neither touches the list itself.
LEMMA CallActionable ==
    ASSUME NEW c \in ConfigType, NEW v, v \in ViewType(Listed(v)),
           Listed(v) \subseteq Nat,
           NEW p, IsCall(p), Aimed(c, v, p)
    PROVE  /\ p.kind = "CANCEL_BID" =>
                 Actionable(Effect(v, p)) = Actionable(v) \ {p.order}
           /\ IsEdit(p) => Actionable(Effect(v, p)) = Actionable(v)
           /\ MayCreate(c, Effect(v, p)) <=> MayCreate(c, v)
           /\ Listed(Effect(v, p)) = Listed(v)
           /\ Effect(v, p).runMode = v.runMode
           /\ Effect(v, p) \in ViewType(Listed(v))
           /\ \A o \in Listed(v) :
                 Effect(v, p).owned[o] = Edited(o, v.owned[o], p)
           /\ p.kind # "EDIT_PRICE" => Effect(v, p).cooling = v.cooling
<1> DEFINE w == Effect(v, p)
<1>1. /\ p.order \in Nat
      /\ p.kind = "EDIT_PRICE" => p.price \in Int
      /\ p.kind = "EDIT_SPEED" => p.speed \in Int
  BY TargetTypes DEF Aimed
<1>2. /\ w.runMode = v.runMode /\ w.activeRows = v.activeRows
      /\ Listed(w) = Listed(v) /\ w \in ViewType(Listed(v))
      /\ \A o \in Listed(v) : w.owned[o] = Edited(o, v.owned[o], p)
      /\ p.kind # "EDIT_PRICE" => w.cooling = v.cooling
  BY <1>1, EffectCall
<1>3. SameReadings(v, w)
  BY EffectReadings
<1> HIDE DEF w
<1>4. MayCreate(c, w) <=> MayCreate(c, v)
  <2>1. EffectiveBudget(c, w) = EffectiveBudget(c, v)
    BY <1>3, SameTargets
  <2> QED
    BY <1>2, <1>3, <2>1 DEF MayCreate, SameReadings
<1>5. \A o \in Listed(v) : v.owned[o] \in BidType
  BY DEF ViewType
<1>6. \A o \in Listed(v) :
         IsEdit(p) \/ p.order # o => w.owned[o].status = v.owned[o].status
  BY <1>2, <1>5 DEF Edited, IsCall, IsEdit, BidType
<1>7. \A o \in Listed(v) :
         p.kind = "CANCEL_BID" /\ p.order = o =>
            w.owned[o].status = "PENDING_CANCEL"
  BY <1>2, <1>5 DEF Edited, BidType
<1>8. IsEdit(p) => Actionable(w) = Actionable(v)
  BY <1>2, <1>6 DEF Actionable
<1>9. p.kind = "CANCEL_BID" => Actionable(w) = Actionable(v) \ {p.order}
  BY <1>2, <1>6, <1>7 DEF Actionable
<1> QED
  BY <1>2, <1>4, <1>8, <1>9 DEF w

LEMMA ApplyCovers ==
    ASSUME NEW c \in ConfigType, NEW v, v \in ViewType(Listed(v)),
           Listed(v) \subseteq Nat,
           NEW calls, NEW p \in calls, Aimed(c, v, p), Covers(c, v, calls),
           v.runMode = "LIVE", Effect(v, p).runMode = "LIVE"
    PROVE  Covers(c, Effect(v, p), calls \ {p})
<1> DEFINE w == Effect(v, p)
<1>1. p.kind # "PAUSE"
  BY EffectPause
<1>2. SameReadings(v, w)
  BY EffectReadings
<1>3. /\ Priceable(c, w) <=> Priceable(c, v)
      /\ PoolUnusable(w) <=> PoolUnusable(v)
      /\ w.unknown = v.unknown
  BY <1>2, SameTargets DEF SameReadings
<1>4. v.unknown # {} => Pause \in calls \ {p}
  BY <1>1 DEF Covers, Pause
<1>5. CASE p.kind = "CREATE_BID"
  <2>1. p.price \in Int /\ p.speed \in Int
    BY <1>5, TargetTypes DEF Aimed
  <2>2. Listed(w) = {NewOrder} /\ Actionable(w) = {NewOrder}
    BY <1>5, <2>1, EffectCreate
  <2> HIDE DEF w
  <2>3. ~MayCreate(c, w)
    BY <2>2 DEF MayCreate
  <2>4. IsPrimary(NewOrder, w)
    BY <2>2, TryAssumption DEF IsPrimary
  <2>5. v.unknown = {} => ~PoolUnusable(v)
    BY <1>5 DEF Covers
  <2> QED
    BY <1>3, <1>4, <2>2, <2>3, <2>4, <2>5 DEF Covers, w
<1>6. CASE IsCall(p)
  <2>1. /\ p.kind = "CANCEL_BID" => Actionable(w) = Actionable(v) \ {p.order}
        /\ IsEdit(p) => Actionable(w) = Actionable(v)
        /\ MayCreate(c, w) <=> MayCreate(c, v)
    BY <1>6, CallActionable
  <2> HIDE DEF w
  <2>2. Actionable(w) \subseteq Actionable(v)
    BY <1>6, <2>1 DEF IsCall
  <2>3. \A o \in Actionable(w) : Cancel(o) \in calls => Cancel(o) \in calls \ {p}
    BY <1>6, <2>1 DEF Cancel
  <2>4. \A o \in Actionable(w) : IsPrimary(o, v) => IsPrimary(o, w)
    BY <2>2 DEF IsPrimary
  <2>5. ASSUME v.unknown = {}, PoolUnusable(v)
        PROVE  /\ \A q \in calls \ {p} : q.kind = "CANCEL_BID"
               /\ \A o \in Actionable(w) : Cancel(o) \in calls \ {p}
    <3>1. /\ \A q \in calls : q.kind = "CANCEL_BID"
          /\ \A o \in Actionable(v) : Cancel(o) \in calls
      BY <2>5 DEF Covers
    <3> QED
      BY <2>2, <2>3, <3>1
  <2>6. ASSUME v.unknown = {}, ~PoolUnusable(v), Priceable(c, v)
        PROVE  /\ MayCreate(c, w) => \E q \in calls \ {p} : q.kind = "CREATE_BID"
               /\ \A o \in Actionable(w) :
                     IsPrimary(o, w) \/ Cancel(o) \in calls \ {p}
    <3>1. /\ MayCreate(c, v) => \E q \in calls : q.kind = "CREATE_BID"
          /\ \A o \in Actionable(v) : IsPrimary(o, v) \/ Cancel(o) \in calls
      BY <2>6 DEF Covers
    <3>2. p.kind # "CREATE_BID"
      BY <1>6 DEF IsCall, IsEdit
    <3> QED
      BY <2>1, <2>2, <2>3, <2>4, <3>1, <3>2
  <2>7. Covers(c, w, calls \ {p})
    BY <1>3, <1>4, <2>5, <2>6 DEF Covers
  <2> QED
    BY <2>7 DEF w
<1> QED
  BY <1>1, <1>5, <1>6 DEF Aimed

LEMMA CoveredIsTidy ==
    ASSUME NEW c, NEW v, Listed(v) \subseteq Nat,
           v.runMode = "LIVE" => Covers(c, v, {})
    PROVE  Tidied(c, v)
<1> SUFFICES ASSUME v.runMode = "LIVE"
             PROVE  /\ v.unknown = {}
                    /\ PoolUnusable(v) => Actionable(v) = {}
                    /\ ~PoolUnusable(v) /\ Priceable(c, v) =>
                          /\ \A o \in Actionable(v) : Actionable(v) = {o}
                          /\ ~MayCreate(c, v)
  BY DEF Tidied
<1>1. v.unknown = {}
  BY DEF Covers
<1>2. PoolUnusable(v) => Actionable(v) = {}
  BY <1>1 DEF Covers
<1>3. ASSUME ~PoolUnusable(v), Priceable(c, v)
      PROVE  /\ \A o \in Actionable(v) : Actionable(v) = {o}
             /\ ~MayCreate(c, v)
  <2>1. ~MayCreate(c, v) /\ (\A o \in Actionable(v) : IsPrimary(o, v))
    BY <1>1, <1>3 DEF Covers
  <2>2. \A a, b \in Actionable(v) : a = b
    <3> SUFFICES ASSUME NEW a \in Actionable(v), NEW b \in Actionable(v)
                 PROVE  a = b
      OBVIOUS
    <3>1. a \in Nat /\ b \in Nat
      BY DEF Actionable
    <3>2. a <= b /\ b <= a
      BY <2>1 DEF IsPrimary
    <3> QED
      BY <3>1, <3>2
  <2> QED
    BY <2>1, <2>2
<1> QED
  BY <1>1, <1>2, <1>3

\* An edit of a tidy view leaves it tidy, and all that another tick would
\* send was to be sent anyway, without that edit.
LEMMA ApplyEdit ==
    ASSUME NEW c \in ConfigType, NEW v, v \in ViewType(Listed(v)),
           Listed(v) \subseteq Nat, Tidied(c, v),
           NEW p, IsEdit(p), Aimed(c, v, p), p.order \in Actionable(v)
    PROVE  /\ Tidied(c, Effect(v, p))
           /\ Dispatched(c, Effect(v, p)) \subseteq Dispatched(c, v) \ {p}
<1> DEFINE w == Effect(v, p)
<1>1. SameReadings(v, w)
  BY EffectReadings
<1>2. /\ Actionable(w) = Actionable(v)
      /\ MayCreate(c, w) <=> MayCreate(c, v)
      /\ Listed(w) = Listed(v)
      /\ w.runMode = v.runMode
      /\ w \in ViewType(Listed(v))
      /\ \A o \in Listed(v) : w.owned[o] = Edited(o, v.owned[o], p)
      /\ p.kind # "EDIT_PRICE" => w.cooling = v.cooling
  BY CallActionable DEF IsCall
<1>3. /\ Priceable(c, w) <=> Priceable(c, v)
      /\ PoolUnusable(w) <=> PoolUnusable(v)
      /\ TargetPrice(c, w) = TargetPrice(c, v)
      /\ SpeedLimit(c, w) = SpeedLimit(c, v)
      /\ EditDeadband(c, w) = EditDeadband(c, v)
      /\ w.unknown = v.unknown
  BY <1>1, SameTargets DEF SameReadings
<1> HIDE DEF w
<1>4. Tidied(c, w)
  BY <1>2, <1>3 DEF Tidied
<1>5. \A o \in Listed(v) : v.owned[o] \in BidType
  BY DEF ViewType
<1>6. \A o \in Listed(v) :
         /\ w.owned[o].status = v.owned[o].status
         /\ w.owned[o].feePct = v.owned[o].feePct
         /\ p.kind = "EDIT_PRICE" => w.owned[o].speed = v.owned[o].speed
         /\ p.kind = "EDIT_SPEED" => w.owned[o].price = v.owned[o].price
  BY <1>2, <1>5 DEF Edited, IsEdit, BidType
<1>7. /\ p.kind = "EDIT_PRICE" => w.owned[p.order].price = p.price
      /\ p.kind = "EDIT_SPEED" => w.owned[p.order].speed = p.speed
  BY <1>2, <1>5 DEF Edited, IsEdit, BidType, Actionable
<1>8. IsFeeThresholdExceeded(c, w) <=> IsFeeThresholdExceeded(c, v)
  BY <1>2, <1>6 DEF IsFeeThresholdExceeded
<1>9. SUFFICES ASSUME NEW q \in Dispatched(c, w)
               PROVE  q \in Dispatched(c, v) \ {p}
  BY <1>4 DEF w
<1>10. /\ w.runMode = "LIVE" /\ q \in Proposals(c, w) /\ Allowed(c, w, q)
  BY DEF Dispatched
<1>11. /\ ~PoolUnusable(v) /\ Priceable(c, v) /\ v.unknown = {}
       /\ q \in Repricing(c, w) \cup Respeeding(c, w)
       /\ IsEdit(q)
       /\ Actionable(v) = {q.order}
  BY <1>2, <1>3, <1>4, <1>10, TidyDispatch DEF Tidied
<1>12. q.order = p.order /\ q.order \in Listed(v)
  BY <1>11 DEF Actionable
<1>13. \A x : IsPrimary(x, w) <=> IsPrimary(x, v)
  BY <1>2 DEF IsPrimary
<1>14. Repricing(c, v) \cup Respeeding(c, v) \subseteq Proposals(c, v)
  BY <1>11 DEF Proposals
<1>15. TargetPrice(c, v) \in Int /\ EditDeadband(c, v) \in Int
       /\ EditDeadband(c, v) > 0
  BY <1>11, TargetTypes
<1>16. CASE q \in Repricing(c, w)
  <2>1. PICK x \in Actionable(w) :
           /\ q = EditPrice(x, TargetPrice(c, v), w.owned[x].price)
           /\ IsPrimary(x, v)
           /\ Distance(w.owned[x].price, TargetPrice(c, v)) >= EditDeadband(c, v)
    BY <1>3, <1>13, <1>16 DEF Repricing
  <2>2. q.order = x /\ q.kind = "EDIT_PRICE" /\ x = p.order
    BY <1>12, <2>1 DEF EditPrice
  <2>3. p.kind # "EDIT_PRICE"
    <3> SUFFICES ASSUME p.kind = "EDIT_PRICE" PROVE FALSE
      OBVIOUS
    <3>1. w.owned[x].price = TargetPrice(c, v)
      BY <1>7, <2>2 DEF Aimed
    <3>2. Distance(TargetPrice(c, v), TargetPrice(c, v)) = 0
      BY <1>15 DEF Distance
    <3> QED
      BY <1>15, <2>1, <3>1, <3>2
  <2>4. p.kind = "EDIT_SPEED" /\ w.cooling = v.cooling
    BY <1>2, <2>3 DEF IsEdit
  <2>5. w.owned[x].price = v.owned[x].price
    BY <1>6, <1>12, <2>2, <2>4
  <2>6. q \in Repricing(c, v)
    BY <1>2, <2>1, <2>5 DEF Repricing
  <2>7. Allowed(c, v, q)
    BY <1>2, <1>8, <1>10, <2>4 DEF Allowed, InsidePriceDecreaseCooldown
  <2> QED
    BY <1>2, <1>10, <1>14, <2>2, <2>4, <2>6, <2>7 DEF Dispatched
<1>17. CASE q \in Respeeding(c, w)
  <2>1. PICK x \in Actionable(w) :
           /\ q = EditSpeed(x, SpeedLimit(c, v))
           /\ IsPrimary(x, v)
           /\ w.owned[x].speed # Null
           /\ w.owned[x].speed # SpeedLimit(c, v)
    BY <1>3, <1>13, <1>17 DEF Respeeding
  <2>2. q.order = x /\ q.kind = "EDIT_SPEED" /\ x = p.order
    BY <1>12, <2>1 DEF EditSpeed
  <2>3. p.kind = "EDIT_PRICE"
    BY <1>7, <2>1, <2>2 DEF Aimed, IsEdit
  <2>4. w.owned[x].speed = v.owned[x].speed
    BY <1>6, <1>12, <2>2, <2>3
  <2>5. q \in Respeeding(c, v)
    BY <1>2, <2>1, <2>4 DEF Respeeding
  <2>6. Allowed(c, v, q)
    BY <1>2, <1>8, <1>10, <2>2 DEF Allowed, InsidePriceDecreaseCooldown
  <2> QED
    BY <1>2, <1>10, <1>14, <2>2, <2>3, <2>5, <2>6 DEF Dispatched
<1> QED
  BY <1>11, <1>16, <1>17

-----------------------------------------------------------------------------
(* The invariant holds *)

LEMMA StillAimed ==
    ASSUME NEW c, NEW v, NEW w, SameReadings(v, w), NEW q, Aimed(c, v, q)
    PROVE  Aimed(c, w, q)
BY SameTargets DEF Aimed

LEMMA DecideInvariantInit == DecideInit => DecideInvariant
<1> SUFFICES ASSUME DecideInit PROVE DecideInvariant
  OBVIOUS
<1>1. DataType
  BY TryAssumption DEF DecideInit, DataType, MaxTicks
<1> QED
  BY <1>1 DEF DecideInit, DecideInvariant, WellAimed, FirstPlan, Tidy,
     LastEdits, MaxTicks

LEMMA DecideAgainKeeps == DecideInvariant /\ DecideAgain => DecideInvariant'
<1> SUFFICES ASSUME DecideInvariant, DecideAgain PROVE DecideInvariant'
  OBVIOUS
<1>1. /\ cfg' = cfg /\ view' = view
      /\ phase = "observed" /\ phase' = "acting"
      /\ ticks \in 0..2 /\ ticks' = ticks + 1
      /\ plan = {} /\ plan' = Dispatched(cfg, view)
  BY DEF DecideInvariant, DecideAgain, DataType, MaxTicks
<1>2. Listed(view) \subseteq Nat /\ cfg \in ConfigType
  BY DEF DecideInvariant, DataType
<1>3. DataType'
  BY <1>1 DEF DecideInvariant, DataType, MaxTicks
<1>4. WellAimed'
  BY <1>1, <1>2, DispatchedAimed, PauseAlone DEF WellAimed
<1>5. FirstPlan'
  BY <1>1, <1>2, DispatchCovers DEF FirstPlan
<1>6. ticks > 0 => Tidied(cfg, view)
  BY <1>1 DEF DecideInvariant, Tidy
<1>7. Tidy'
  BY <1>1, <1>6 DEF Tidy
<1>8. ticks > 0 =>
        \A p \in Dispatched(cfg, view) : IsEdit(p) /\ p.order \in Actionable(view)
  BY <1>2, <1>6, TidyDispatch
<1>9. ticks = 2 => Dispatched(cfg, view) = {}
  BY <1>1 DEF DecideInvariant, LastEdits
<1>10. LastEdits'
  BY <1>1, <1>8, <1>9 DEF LastEdits, MaxTicks
<1> QED
  BY <1>3, <1>4, <1>5, <1>7, <1>10 DEF DecideInvariant

LEMMA ApplyKeeps == DecideInvariant /\ Apply => DecideInvariant'
<1> SUFFICES ASSUME DecideInvariant, Apply PROVE DecideInvariant'
  OBVIOUS
<1>1. PICK p \in plan : view' = Effect(view, p) /\ plan' = plan \ {p}
  BY DEF Apply
<1>2. /\ cfg' = cfg /\ phase' = phase /\ ticks' = ticks
      /\ phase = "acting" /\ ticks \in 1..3
  BY DEF Apply, DecideInvariant, DataType, MaxTicks
<1>3. /\ cfg \in ConfigType /\ view \in ViewType(Listed(view))
      /\ Listed(view) \subseteq Nat
  BY DEF DecideInvariant, DataType
<1>4. view.runMode = "LIVE" /\ (\A q \in plan : Aimed(cfg, view, q))
  BY <1>1 DEF DecideInvariant, WellAimed
<1>5. SameReadings(view, view')
  BY <1>1, <1>3, EffectReadings
<1>6. \A q \in plan' : Aimed(cfg, view', q)
  BY <1>1, <1>4, <1>5, StillAimed
<1>7. p.kind # "PAUSE" => \A q \in plan' : q.kind # "PAUSE"
  <2> SUFFICES ASSUME p.kind # "PAUSE", NEW q \in plan', q.kind = "PAUSE"
               PROVE  FALSE
    OBVIOUS
  <2>1. q \in plan /\ q # p
    BY <1>1
  <2>2. plan = {q}
    BY <2>1 DEF DecideInvariant, WellAimed
  <2> QED
    BY <1>1, <2>1, <2>2
<1>8. CASE p.kind = "PAUSE"
  <2>1. /\ view'.runMode = "PAUSED" /\ Listed(view') = Listed(view)
        /\ view' \in ViewType(Listed(view))
    BY <1>1, <1>3, <1>8, EffectPause
  <2>2. plan' = {}
    BY <1>1, <1>8 DEF DecideInvariant, WellAimed
  <2>3. ticks = 1
    BY <1>1, <1>2, <1>8 DEF DecideInvariant, LastEdits, IsEdit
  <2>4. DataType'
    BY <1>2, <1>3, <2>1 DEF DecideInvariant, DataType
  <2>5. WellAimed' /\ FirstPlan' /\ Tidy' /\ LastEdits'
    BY <1>2, <2>1, <2>2, <2>3
       DEF WellAimed, FirstPlan, Tidy, LastEdits, MaxTicks
  <2> QED
    BY <2>4, <2>5 DEF DecideInvariant
<1>9. CASE p.kind = "CREATE_BID"
  <2>1. p.price \in Int /\ p.speed \in Int
    BY <1>3, <1>4, <1>9, TargetTypes DEF Aimed
  <2>2. /\ view'.runMode = view.runMode
        /\ Listed(view') = {NewOrder} /\ view' \in ViewType({NewOrder})
    BY <1>1, <1>3, <1>9, <2>1, EffectCreate
  <2>3. ticks = 1
    BY <1>1, <1>2, <1>9 DEF DecideInvariant, LastEdits, IsEdit
  <2>4. DataType'
    BY <1>2, <1>3, <2>2, TryAssumption DEF DecideInvariant, DataType
  <2>5. WellAimed'
    BY <1>2, <1>4, <1>6, <1>7, <1>9, <2>2 DEF WellAimed
  <2>6. Covers(cfg, view, plan)
    BY <1>2, <1>4, <2>3 DEF DecideInvariant, FirstPlan
  <2>7. Covers(cfg, view', plan')
    BY <1>1, <1>3, <1>4, <2>2, <2>6, ApplyCovers
  <2>8. FirstPlan' /\ Tidy' /\ LastEdits'
    BY <1>2, <2>3, <2>7 DEF FirstPlan, Tidy, LastEdits, MaxTicks
  <2> QED
    BY <2>4, <2>5, <2>8 DEF DecideInvariant
<1>10. CASE IsCall(p)
  <2>1. /\ IsEdit(p) => Actionable(view') = Actionable(view)
        /\ Listed(view') = Listed(view)
        /\ view'.runMode = view.runMode
        /\ view' \in ViewType(Listed(view))
    BY <1>1, <1>3, <1>4, <1>10, CallActionable
  <2>2. DataType'
    BY <1>2, <1>3, <2>1 DEF DecideInvariant, DataType
  <2>3. WellAimed'
    BY <1>2, <1>4, <1>6, <1>7, <1>10, <2>1 DEF WellAimed, IsCall, IsEdit
  <2>4. CASE ticks = 1
    <3>1. Covers(cfg, view, plan)
      BY <1>2, <1>4, <2>4 DEF DecideInvariant, FirstPlan
    <3>2. Covers(cfg, view', plan')
      BY <1>1, <1>3, <1>4, <2>1, <3>1, ApplyCovers
    <3>3. FirstPlan' /\ Tidy' /\ LastEdits'
      BY <1>2, <2>4, <3>2 DEF FirstPlan, Tidy, LastEdits, MaxTicks
    <3> QED
      BY <2>2, <2>3, <3>3 DEF DecideInvariant
  <2>5. CASE ticks > 1
    <3>1. ticks # MaxTicks
      BY <1>1 DEF DecideInvariant, LastEdits
    <3>2. /\ Tidied(cfg, view)
          /\ \A q \in plan : IsEdit(q) /\ q.order \in Actionable(view)
          /\ Dispatched(cfg, view) \subseteq plan
      BY <2>5 DEF DecideInvariant, Tidy, LastEdits
    <3>3. /\ Tidied(cfg, view')
          /\ Dispatched(cfg, view') \subseteq Dispatched(cfg, view) \ {p}
      BY <1>1, <1>3, <1>4, <3>2, ApplyEdit
    <3>4. Actionable(view') = Actionable(view)
      BY <2>1, <3>2
    <3>5. LastEdits'
      BY <1>1, <1>2, <3>1, <3>2, <3>3, <3>4 DEF LastEdits, MaxTicks
    <3>6. FirstPlan' /\ Tidy'
      BY <1>2, <2>5, <3>3 DEF FirstPlan, Tidy
    <3> QED
      BY <2>2, <2>3, <3>5, <3>6 DEF DecideInvariant
  <2> QED
    BY <1>2, <2>4, <2>5
<1> QED
  BY <1>1, <1>4, <1>8, <1>9, <1>10 DEF Aimed

LEMMA EndDecisionKeeps == DecideInvariant /\ EndDecision => DecideInvariant'
<1> SUFFICES ASSUME DecideInvariant, EndDecision PROVE DecideInvariant'
  OBVIOUS
<1>1. /\ cfg' = cfg /\ view' = view /\ plan' = plan /\ ticks' = ticks
      /\ phase = "acting" /\ phase' = "observed" /\ plan = {}
      /\ ticks \in 1..3
  BY DEF EndDecision, DecideInvariant, DataType, MaxTicks
<1>2. DataType'
  BY <1>1 DEF DecideInvariant, DataType
<1>3. Tidy'
  <2>1. CASE ticks = 1
    <3>1. Listed(view) \subseteq Nat
      BY DEF DecideInvariant, DataType
    <3>2. view.runMode = "LIVE" => Covers(cfg, view, {})
      BY <1>1, <2>1 DEF DecideInvariant, FirstPlan
    <3>3. Tidied(cfg, view)
      BY <3>1, <3>2, CoveredIsTidy
    <3> QED
      BY <1>1, <3>3 DEF Tidy
  <2>2. CASE ticks > 1
    BY <1>1, <2>2 DEF DecideInvariant, Tidy
  <2> QED
    BY <1>1, <2>1, <2>2
<1> QED
  BY <1>1, <1>2, <1>3
     DEF DecideInvariant, WellAimed, FirstPlan, LastEdits

\* The invariant holds of the decision rules.
THEOREM DecideInvariantHolds == DecideSpec => []DecideInvariant
<1>1. DecideInvariant /\ [DecideNext]_decideVars => DecideInvariant'
  <2> SUFFICES ASSUME DecideInvariant, [DecideNext]_decideVars
               PROVE  DecideInvariant'
    OBVIOUS
  <2>1. CASE DecideAgain
    BY <2>1, DecideAgainKeeps
  <2>2. CASE Apply
    BY <2>2, ApplyKeeps
  <2>3. CASE EndDecision
    BY <2>3, EndDecisionKeeps
  <2>4. CASE UNCHANGED decideVars
    BY <2>4 DEF decideVars, DecideInvariant, DataType, WellAimed, FirstPlan,
       Tidy, LastEdits
  <2> QED
    BY <2>1, <2>2, <2>3, <2>4 DEF DecideNext
<1> QED
  BY <1>1, DecideInvariantInit, PTL DEF DecideSpec

-----------------------------------------------------------------------------
(* What it implies *)

\* No price above the operator's maximum, nor, where a hashprice counts, above
\* hashprice plus the allowance (decide.ts:113-138).
THEOREM CapRespectedHolds == DecideSpec => []CapRespected
<1>1. DecideInvariant => CapRespected
  <2> SUFFICES ASSUME DecideInvariant, NEW p \in plan,
                      p.kind \in {"CREATE_BID", "EDIT_PRICE"}
               PROVE  /\ p.price <= cfg.maxBid
                      /\ cfg.maxOverpay = Null \/ cfg.bip110
                         \/ (/\ view.hashprice # Null
                             /\ p.price <= view.hashprice * 1000 + cfg.maxOverpay)
    BY DEF CapRespected
  <2>1. cfg \in ConfigType /\ view \in ViewType(Listed(view))
    BY DEF DecideInvariant, DataType
  <2>2. Priceable(cfg, view) /\ p.price = TargetPrice(cfg, view)
    BY DEF DecideInvariant, WellAimed, Aimed
  <2> QED
    BY <2>1, <2>2, TargetCapped DEF DynamicCapConfigured
<1> QED
  BY <1>1, DecideInvariantHolds, PTL

\* With nothing else moving, the third tick sends nothing (decide.ts:57-65,
\* 195-211, gate.ts:32-41).
THEOREM TwoTicksSettleHolds == DecideSpec => []TwoTicksSettle
<1>1. DecideInvariant => TwoTicksSettle
  BY DEF DecideInvariant, LastEdits, TwoTicksSettle
<1> QED
  BY <1>1, DecideInvariantHolds, PTL

\* One LIVE tick without a usable pool or node takes every order out of
\* service (decide.ts:69-103, gate.ts:32-41).
THEOREM BailsOutHolds == DecideSpec => []BailsOut
<1>1. DecideInvariant => BailsOut
  <2> SUFFICES ASSUME DecideInvariant, phase = "observed", ticks > 0,
                      view.runMode = "LIVE", PoolUnusable(view)
               PROVE  Actionable(view) = {}
    BY DEF BailsOut
  <2>1. Tidied(cfg, view)
    BY DEF DecideInvariant, Tidy, DataType, MaxTicks
  <2> QED
    BY <2>1 DEF Tidied
<1> QED
  BY <1>1, DecideInvariantHolds, PTL

\* Two LIVE ticks that can price leave one order, the lowest-numbered, on
\* target or held where it is (decide.ts:271-305, gate.ts:32-48).
THEOREM KeepsOneOnTargetHolds == DecideSpec => []KeepsOneOnTarget
<1>1. DecideInvariant => KeepsOneOnTarget
  <2> SUFFICES ASSUME DecideInvariant, phase = "observed", ticks = 2,
                      view.runMode = "LIVE", view.unknown = {},
                      ~PoolUnusable(view), Priceable(cfg, view),
                      NEW o \in Actionable(view)
               PROVE  /\ Actionable(view) = {o}
                      /\ \A other \in Listed(view) :
                            view.owned[other].status = "PENDING_CANCEL"
                              \/ o <= other
                      /\ \/ Distance(view.owned[o].price, TargetPrice(cfg, view))
                              < EditDeadband(cfg, view)
                         \/ IsFeeThresholdExceeded(cfg, view)
                         \/ (o \in view.cooling
                               /\ view.owned[o].price > TargetPrice(cfg, view))
    BY DEF KeepsOneOnTarget
  <2>1. /\ Tidied(cfg, view) /\ Dispatched(cfg, view) = {}
        /\ cfg \in ConfigType /\ view \in ViewType(Listed(view))
        /\ o \in Nat /\ o \in Listed(view)
    BY DEF DecideInvariant, Tidy, LastEdits, DataType, Actionable
  <2>2. Actionable(view) = {o}
    BY <2>1 DEF Tidied
  <2>3. \A other \in Listed(view) :
           view.owned[other].status = "PENDING_CANCEL" \/ o <= other
    BY <2>1, <2>2 DEF Actionable
  <2>4. /\ view.owned[o].price \in Int /\ TargetPrice(cfg, view) \in Int
        /\ EditDeadband(cfg, view) \in Int
    <3>1. view.owned[o] \in BidType
      BY <2>1 DEF ViewType
    <3> QED
      BY <2>1, <3>1, TargetTypes DEF BidType
  <2>5. ASSUME ~(Distance(view.owned[o].price, TargetPrice(cfg, view))
                   < EditDeadband(cfg, view)),
               ~IsFeeThresholdExceeded(cfg, view)
        PROVE  o \in view.cooling /\ view.owned[o].price > TargetPrice(cfg, view)
    <3> DEFINE p == EditPrice(o, TargetPrice(cfg, view), view.owned[o].price)
    <3>1. Distance(view.owned[o].price, TargetPrice(cfg, view))
            >= EditDeadband(cfg, view)
      BY <2>4, <2>5 DEF Distance
    <3>2. IsPrimary(o, view)
      BY <2>1, <2>2 DEF IsPrimary
    <3>3. p \in Repricing(cfg, view)
      BY <3>1, <3>2 DEF Repricing
    <3>4. p \in Proposals(cfg, view)
      BY <3>3 DEF Proposals
    <3>5. ~Allowed(cfg, view, p)
      BY <2>1, <3>4 DEF Dispatched
    <3>6. InsidePriceDecreaseCooldown(p, view)
      BY <2>5, <3>5 DEF Allowed, CanMutate
    <3> QED
      BY <2>4, <3>6 DEF InsidePriceDecreaseCooldown, EditPrice
  <2> QED
    BY <2>2, <2>3, <2>5
<1> QED
  BY <1>1, DecideInvariantHolds, PTL
=============================================================================
