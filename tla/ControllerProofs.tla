-------------------------- MODULE ControllerProofs --------------------------
(* Type correctness and the single-order invariant of Controller, for every *)
(* set of order ids, every configuration and every bound.                  *)
EXTENDS SingleOrder, FiniteSetTheorems, TLAPS

-----------------------------------------------------------------------------
(* What decide() and gate() can produce *)

LEMMA PricedType ==
    ASSUME NEW q \in QuoteType, NEW v,
           v.market = q.market, v.hashprice = q.hashprice,
           v.fillable = q.fillable, v.minSpeed = q.minSpeed,
           v.balance = q.balance,
           Priceable(Config, v)
    PROVE  /\ TargetPrice(Config, v) \in Int
           /\ SpeedLimit(Config, v) \in Int
           /\ EffectiveBudget(Config, v) # Null
                => EffectiveBudget(Config, v) \in Int
<1>1. Config \in ConfigType
  BY ReadingAssumption
<1>2. v.fillable \in Int
  BY DEF Priceable, QuoteType
<1>3. EffectiveCap(Config, v) \in Int
  BY <1>1 DEF Priceable, QuoteType, ConfigType, EffectiveCap, LesserOf,
     DynamicCapConfigured, HashpriceEh
<1>4. TargetPrice(Config, v) \in Int
  BY <1>1, <1>2, <1>3 DEF TargetPrice, DesiredBid, LesserOf, ConfigType
<1>5. SpeedLimit(Config, v) \in Int
  BY <1>1 DEF SpeedLimit, GreaterOf, OrElse, ConfigType, QuoteType
<1>6. EffectiveBudget(Config, v) # Null => EffectiveBudget(Config, v) \in Int
  BY <1>1 DEF EffectiveBudget, LesserOf, BraiinsMaxAmountSat, ConfigType,
     QuoteType
<1> QED
  BY <1>4, <1>5, <1>6

\* A plan that contains a CREATE contains nothing else and was made on a
\* confirmed empty list; every other call is about a listed order of ours;
\* a PAUSE comes from an unknown order.
LEMMA DispatchShape ==
    ASSUME NEW cfg, NEW v, NEW p \in Dispatched(cfg, v)
    PROVE  /\ p.kind \in {"PAUSE", "CREATE_BID", "EDIT_PRICE", "EDIT_SPEED",
                          "CANCEL_BID"}
           /\ p.kind = "CREATE_BID" =>
                /\ MayCreate(cfg, v)
                /\ Dispatched(cfg, v) = {p}
           /\ p.kind \in {"EDIT_PRICE", "EDIT_SPEED", "CANCEL_BID"} =>
                p.order \in Listed(v)
           /\ p.kind = "PAUSE" => p = Pause /\ v.unknown # {}
           /\ v.runMode = "LIVE"
<1>1. v.runMode = "LIVE" /\ p \in Proposals(cfg, v)
  BY DEF Dispatched
<1>2. Actionable(v) \subseteq Listed(v)
  BY DEF Actionable
<1>3. CASE v.unknown # {}
  <2>1. p = Pause
    BY <1>1, <1>3 DEF Proposals
  <2> QED
    BY <1>1, <1>3, <2>1 DEF Pause
<1>4. CASE v.unknown = {} /\ PoolUnusable(v)
  <2>1. PICK o \in Actionable(v) : p = Cancel(o)
    BY <1>1, <1>4 DEF Proposals
  <2> QED
    BY <1>1, <1>2, <2>1 DEF Cancel
<1>5. CASE v.unknown = {} /\ ~PoolUnusable(v)
  <2>1. p \in Creation(cfg, v) \cup Extras(v)
                \cup Repricing(cfg, v) \cup Respeeding(cfg, v)
    BY <1>1, <1>5 DEF Proposals
  <2>2. CASE p \in Creation(cfg, v)
    <3>1. MayCreate(cfg, v) /\ p.kind = "CREATE_BID"
      BY <2>2 DEF Creation, Create
    <3>2. Actionable(v) = {}
      BY <3>1, <1>2 DEF MayCreate
    <3>3. Extras(v) = {} /\ Repricing(cfg, v) = {} /\ Respeeding(cfg, v) = {}
      BY <3>2 DEF Extras, Repricing, Respeeding
    <3>4. \A q \in Creation(cfg, v) : q = p
      BY <2>2 DEF Creation
    <3>5. \A q \in Proposals(cfg, v) : q = p
      BY <1>5, <3>3, <3>4 DEF Proposals
    <3>6. \A q \in Dispatched(cfg, v) : q = p
      BY <3>5 DEF Dispatched
    <3> QED
      BY <1>1, <3>1, <3>6
  <2>3. CASE p \in Extras(v)
    BY <1>1, <1>2, <2>3 DEF Extras, Cancel
  <2>4. CASE p \in Repricing(cfg, v)
    BY <1>1, <1>2, <2>4 DEF Repricing, EditPrice
  <2>5. CASE p \in Respeeding(cfg, v)
    BY <1>1, <1>2, <2>5 DEF Respeeding, EditSpeed
  <2> QED
    BY <2>1, <2>2, <2>3, <2>4, <2>5
<1> QED
  BY <1>3, <1>4, <1>5

-----------------------------------------------------------------------------
(* Type correctness *)

\* What a tick dispatches is well-formed, in any reading of the market.
LEMMA DispatchType ==
    ASSUME TypeOK, NEW t \in Ticks, NEW quote \in Quotes,
           NEW fails, NEW stale, NEW held
    PROVE  Dispatched(Config, View(t, quote, fails, stale, held))
              \subseteq ProposalType
<1> DEFINE v == View(t, quote, fails, stale, held)
<1>1. SUFFICES ASSUME NEW p \in Proposals(Config, v)
               PROVE  p \in ProposalType
  BY DEF Dispatched
<1>2. /\ v.market = quote.market /\ v.hashprice = quote.hashprice
      /\ v.fillable = quote.fillable /\ v.minSpeed = quote.minSpeed
      /\ v.balance = quote.balance
  BY DEF View
<1>3. Listed(v) = OwnedIn(t) /\ Actionable(v) \subseteq Orders
  BY DEF Listed, Actionable, View, OwnedIn, Seen
<1>4. \A o \in Actionable(v) : v.owned[o].price \in Int
  <2> SUFFICES ASSUME NEW o \in Actionable(v)
               PROVE  v.owned[o].price \in Int
    OBVIOUS
  <2>1. o \in OwnedIn(t) /\ o \in Orders
    BY <1>3 DEF Actionable
  <2>2. v.owned[o].price = tick[t].list[o].price
    BY <2>1 DEF View
  <2>3. tick[t].list[o] \in ListEntry
    BY <2>1 DEF TypeOK, TickType
  <2> QED
    BY <2>2, <2>3 DEF ListEntry
<1>5. quote \in QuoteType
  BY ReadingAssumption
<1>6. Priceable(Config, v) =>
        /\ TargetPrice(Config, v) \in Int
        /\ SpeedLimit(Config, v) \in Int
        /\ EffectiveBudget(Config, v) # Null
             => EffectiveBudget(Config, v) \in Int
  BY <1>2, <1>5, PricedType
<1> HIDE DEF v
<1>7. CASE p = Pause
  BY <1>7 DEF ProposalType
<1>8. CASE \E o \in Actionable(v) : p = Cancel(o)
  BY <1>3, <1>8 DEF Cancel, ProposalType
<1>9. CASE Priceable(Config, v) /\ p \in Creation(Config, v)
  BY <1>6, <1>9 DEF Creation, MayCreate, Create, ProposalType
<1>10. CASE Priceable(Config, v) /\ p \in Repricing(Config, v)
  BY <1>3, <1>4, <1>6, <1>10 DEF Repricing, EditPrice, ProposalType
<1>11. CASE Priceable(Config, v) /\ p \in Respeeding(Config, v)
  BY <1>3, <1>6, <1>11 DEF Respeeding, EditSpeed, ProposalType
<1>12. \/ p = Pause
       \/ \E o \in Actionable(v) : p = Cancel(o)
       \/ Priceable(Config, v) /\ p \in Creation(Config, v)
       \/ Priceable(Config, v) /\ p \in Repricing(Config, v)
       \/ Priceable(Config, v) /\ p \in Respeeding(Config, v)
  BY <1>1 DEF Proposals, Extras
<1> QED
  BY <1>7, <1>8, <1>9, <1>10, <1>11, <1>12

LEMMA IdleTickType == IdleTick \in TickType
  BY DEF IdleTick, TickType, ListEntry, NotListed, RunModes

LEMMA BecomesType ==
    ASSUME TypeOK, NEW t \in Ticks, NEW state \in TickType, Becomes(t, state)
    PROVE  tick' \in [Ticks -> TickType]
  BY DEF TypeOK, Becomes

\* The row an answer leaves behind.
LEMMA RecordedType ==
    ASSUME NEW row \in RowType, NEW p
    PROVE  Recorded(row, p) \in RowType
<1>1. NewRow \in RowType
  BY ListingAssumption DEF NewRow, RowType
<1> DEFINE status == IF p.kind = "CANCEL_BID" THEN "CANCELED" ELSE row.status
           cool == IF Lowers(p) THEN 0 ELSE row.cool
<1>2. /\ status \in {"NOROW", "CREATED"} \cup Live \cup Terminal
      /\ cool \in 0..Cooldown
  BY ListingAssumption DEF RowType, Terminal
<1>3. p.kind # "CREATE_BID" =>
        Recorded(row, p) = [row EXCEPT !.status = status, !.cool = cool]
  BY DEF Recorded
<1> HIDE DEF status, cool
<1>4. [row EXCEPT !.status = status, !.cool = cool] \in RowType
  BY <1>2 DEF RowType
<1> QED
  BY <1>1, <1>3, <1>4 DEF Recorded

LEMMA FaultType ==
    ASSUME NEW kind, faults \in 0..MaxFaults, Fault(kind)
    PROVE  faults' \in 0..MaxFaults
  BY ListingAssumption DEF Fault

\* The decision, whatever the hold and the staleness are read as.
LEMMA DecideType ==
    ASSUME TypeOK, NEW t \in Ticks, NEW quote \in Quotes, NEW reachable,
           NEW stale, NEW held, DecideNow(t, quote, reachable, stale, held)
    PROVE  TypeOK'
<1>0. tick[t] \in TickType
  BY DEF TypeOK
<1> DEFINE plan ==
        Dispatched(Config, View(t, quote, poolFails', stale, held))
<1>1. plan \in SUBSET ProposalType
  BY DispatchType
<1>2. poolFails' \in 0..StratumDownCancelThreshold
  BY DEF DecideNow, LesserOf, StratumDownCancelThreshold, TypeOK
<1>3. Becomes(t, [tick[t] EXCEPT !.pc = "acting", !.todo = plan])
  BY DEF DecideNow
<1> HIDE DEF plan
<1>4. [tick[t] EXCEPT !.pc = "acting", !.todo = plan] \in TickType
  BY <1>0, <1>1 DEF TickType
<1>5. tick' \in [Ticks -> TickType]
  BY <1>3, <1>4, BecomesType
<1> QED
  BY <1>2, <1>5 DEF DecideNow, TypeOK

\* observe(), by its four stages.
LEMMA ObserveType ==
    ASSUME TypeOK, NEW t \in Ticks, Observe(t)
    PROVE  TypeOK'
<1>0. tick[t] \in TickType
  BY DEF TypeOK
<1>1. CASE Begin(t)
  <2> DEFINE active == {o \in Orders : RowActive(o)}
  <2>1. IsFiniteSet(active)
    BY ListingAssumption, FS_Subset
  <2>2. Cardinality(active) \in Nat
    BY <2>1, FS_CardinalityType
  <2>3. tick' \in [Ticks -> TickType]
    BY <1>1, <2>2, IdleTickType DEF Begin, Becomes, TypeOK, TickType, KnownIds,
       OldRows
  <2> QED
    BY <1>1, <2>3 DEF Begin, TypeOK
<1>2. CASE ReadList(t)
  <2>1. ASSUME NEW ok \in BOOLEAN, NEW ids \in SUBSET Listing,
               Receive(t, ok, ids)
        PROVE  tick' \in [Ticks -> TickType]
    <3> DEFINE list == [o \in Orders |->
                          IF o \in ids THEN Entry(o) ELSE NotListed]
    <3>1. \A o \in Listing : Entry(o) \in ListEntry
      BY DEF Listing, Entry, ListEntry, IsLive, OrderType, TypeOK
    <3>2. list \in [Orders -> ListEntry]
      BY <3>1 DEF NotListed, ListEntry
    <3>3. Becomes(t, [tick[t] EXCEPT !.pc = "read", !.bidsOk = ok,
                                     !.list = list])
      BY <2>1 DEF Receive
    <3> HIDE DEF list
    <3>4. [tick[t] EXCEPT !.pc = "read", !.bidsOk = ok, !.list = list]
             \in TickType
      BY <1>0, <3>2 DEF TickType
    <3> QED
      BY <3>3, <3>4, BecomesType
  <2>2. tick' \in [Ticks -> TickType]
    <3>1. \E ok \in BOOLEAN, ids \in SUBSET Listing : Receive(t, ok, ids)
      BY <1>2 DEF ReadList
    <3> QED
      BY <2>1, <3>1
  <2>3. faults' \in 0..MaxFaults
    <3>1. UNCHANGED faults \/ Fault("fetch") \/ Fault("blip")
      BY <1>2 DEF ReadList
    <3> QED
      BY <3>1, FaultType DEF TypeOK
  <2> QED
    BY <1>2, <2>2, <2>3 DEF ReadList, TypeOK
<1>3. CASE SyncLedger(t)
  <2> DEFINE status(o) == IF o \in OwnedIn(t) THEN tick[t].list[o].status
                          ELSE IF o \in Vanished(t) THEN "CANCELED"
                          ELSE ledger[o].status
  <2>1. \A o \in Orders : tick[t].list[o] \in ListEntry
    BY <1>0 DEF TickType
  <2>2. \A o \in Orders : ledger[o] \in RowType
    BY DEF TypeOK
  <2>3. \A o \in Orders :
          status(o) \in {"NOROW", "CREATED"} \cup Live \cup Terminal
    BY <2>1, <2>2 DEF OwnedIn, Seen, ListEntry, RowType, Terminal
  <2>4. ledger' = [o \in Orders |-> [ledger[o] EXCEPT !.status = status(o)]]
    BY <1>3 DEF SyncLedger
  <2> HIDE DEF status
  <2>5. ledger' \in [Orders -> RowType]
    BY <2>2, <2>3, <2>4 DEF RowType
  <2>6. [tick[t] EXCEPT !.pc = "synced"] \in TickType
    BY <1>0 DEF TickType
  <2>7. tick' \in [Ticks -> TickType]
    BY <1>3, <2>6, BecomesType DEF SyncLedger
  <2> QED
    BY <1>3, <2>5, <2>7 DEF SyncLedger, TypeOK
<1>4. ASSUME NEW quote \in Quotes, NEW reachable \in Probes,
             NEW stale \in NodeStale, NEW held \in Holds,
             DecideNow(t, quote, reachable, stale, held)
      PROVE  TypeOK'
  BY <1>4, DecideType
<1> QED
  BY <1>1, <1>2, <1>3, <1>4 DEF Observe

-----------------------------------------------------------------------------
(* The calls of executeLive() and what they record *)

LEMMA FailedType ==
    ASSUME TypeOK, NEW t \in Ticks, NEW p \in tick[t].todo, Failed(t, p)
    PROVE  tick' \in [Ticks -> TickType]
<1> DEFINE todo == tick[t].todo \ {p}
           failed == tick[t].createFailed \/ p.kind = "CREATE_BID"
<1>1. tick[t] \in TickType
  BY DEF TypeOK
<1>2. todo \in SUBSET ProposalType /\ failed \in BOOLEAN
  BY <1>1 DEF TickType
<1>3. Becomes(t, [tick[t] EXCEPT !.todo = todo, !.createFailed = failed])
  BY DEF Failed
<1> HIDE DEF todo, failed
<1>4. [tick[t] EXCEPT !.todo = todo, !.createFailed = failed] \in TickType
  BY <1>1, <1>2 DEF TickType
<1> QED
  BY <1>3, <1>4, BecomesType

LEMMA AcceptedType ==
    ASSUME TypeOK, NEW t \in Ticks, NEW p \in tick[t].todo,
           NEW o \in Orders, Accepted(t, p, o)
    PROVE  tick' \in [Ticks -> TickType] /\ faults' = faults
<1> DEFINE todo == tick[t].todo \ {p}
           sent == {[proposal |-> p, order |-> o]}
<1>1. tick[t] \in TickType
  BY DEF TypeOK
<1>2. /\ todo \in SUBSET ProposalType
      /\ sent \in SUBSET [proposal : ProposalType, order : Orders]
  BY <1>1 DEF TickType
<1>3. Becomes(t, [tick[t] EXCEPT !.todo = todo, !.sent = sent])
  BY DEF Accepted
<1> HIDE DEF todo, sent
<1>4. [tick[t] EXCEPT !.todo = todo, !.sent = sent] \in TickType
  BY <1>1, <1>2 DEF TickType
<1> QED
  BY <1>3, <1>4, BecomesType DEF Accepted

\* Whatever the answer, the tick and the fault count stay well-formed.
LEMMA OutcomeType ==
    ASSUME TypeOK, NEW t \in Ticks, NEW p \in tick[t].todo,
           \/ \E o \in Orders : AnsweredOrLost(t, p, o)
           \/ Failed(t, p) /\ UNCHANGED faults
           \/ Failed(t, p) /\ Fault("reject")
    PROVE  tick' \in [Ticks -> TickType] /\ faults' \in 0..MaxFaults
<1>1. faults \in 0..MaxFaults
  BY DEF TypeOK
<1>2. CASE \E o \in Orders : Accepted(t, p, o)
  BY <1>1, <1>2, AcceptedType
<1>3. CASE Failed(t, p) /\ (UNCHANGED faults \/ Fault("lost") \/ Fault("reject"))
  BY <1>1, <1>3, FailedType, FaultType
<1> QED
  BY <1>2, <1>3 DEF AnsweredOrLost

LEMMA ExecuteType ==
    ASSUME TypeOK, NEW t \in Ticks, Execute(t)
    PROVE  TypeOK'
<1>1. PICK p \in tick[t].todo :
        \/ SendCreate(t, p) \/ SendEditPrice(t, p) \/ SendEditSpeed(t, p)
        \/ SendCancel(t, p) \/ ExecutePause(t, p)
  BY DEF Execute
<1>2. p \in ProposalType
  BY DEF TypeOK, TickType
<1>3. CASE SendCreate(t, p)
  <2>1. p.price \in Int /\ p.speed \in Int
    BY <1>2, <1>3 DEF SendCreate, ProposalType, Pause
  <2> DEFINE new == [status |-> "ACTIVE", mine |-> TRUE, listed |-> FALSE,
                     price |-> p.price, speed |-> p.speed,
                     lag |-> 0, drop |-> Cooldown]
  <2>2. new \in OrderType
    BY <2>1, ListingAssumption DEF OrderType, Live, Firm
  <2>3. \/ UNCHANGED orders
        \/ \E o \in Orders : orders' = [orders EXCEPT ![o] = new]
    BY <1>3 DEF SendCreate
  <2>4. orders' \in [Orders -> OrderType]
    BY <2>2, <2>3 DEF TypeOK
  <2>5. tick' \in [Ticks -> TickType] /\ faults' \in 0..MaxFaults
    BY <1>3, OutcomeType DEF SendCreate
  <2> QED
    BY <1>3, <2>4, <2>5 DEF SendCreate, TypeOK
<1>4. CASE SendEditPrice(t, p)
  <2>1. p.price \in Int /\ p.order \in Orders
    BY <1>2, <1>4 DEF SendEditPrice, ProposalType, Pause
  <2>2. orders' \in [Orders -> OrderType]
    BY <1>4, <2>1, ListingAssumption DEF SendEditPrice, TypeOK, OrderType
  <2>3. tick' \in [Ticks -> TickType] /\ faults' \in 0..MaxFaults
    BY <1>4, <2>1, OutcomeType DEF SendEditPrice
  <2> QED
    BY <1>4, <2>2, <2>3 DEF SendEditPrice, TypeOK
<1>5. CASE SendEditSpeed(t, p)
  <2>1. p.speed \in Int /\ p.order \in Orders
    BY <1>2, <1>5 DEF SendEditSpeed, ProposalType, Pause
  <2>2. orders' \in [Orders -> OrderType]
    BY <1>5, <2>1 DEF SendEditSpeed, TypeOK, OrderType
  <2>3. tick' \in [Ticks -> TickType] /\ faults' \in 0..MaxFaults
    BY <1>5, <2>1, OutcomeType DEF SendEditSpeed
  <2> QED
    BY <1>5, <2>2, <2>3 DEF SendEditSpeed, TypeOK
<1>6. CASE SendCancel(t, p)
  <2>1. p.order \in Orders
    BY <1>2, <1>6 DEF SendCancel, ProposalType, Pause
  <2>2. orders' \in [Orders -> OrderType]
    BY <1>6, <2>1 DEF SendCancel, Unwind, TypeOK, OrderType, Live
  <2>3. tick' \in [Ticks -> TickType] /\ faults' \in 0..MaxFaults
    BY <1>6, <2>1, OutcomeType DEF SendCancel
  <2> QED
    BY <1>6, <2>2, <2>3 DEF SendCancel, TypeOK
<1>7. CASE ExecutePause(t, p)
  <2> DEFINE todo == tick[t].todo \ {p}
  <2>1. tick[t] \in TickType
    BY DEF TypeOK
  <2>2. todo \in SUBSET ProposalType
    BY <2>1 DEF TickType
  <2>3. Becomes(t, [tick[t] EXCEPT !.todo = todo])
    BY <1>7 DEF ExecutePause
  <2> HIDE DEF todo
  <2>4. [tick[t] EXCEPT !.todo = todo] \in TickType
    BY <2>1, <2>2 DEF TickType
  <2>5. tick' \in [Ticks -> TickType]
    BY <2>3, <2>4, BecomesType
  <2> QED
    BY <1>7, <2>5 DEF ExecutePause, TypeOK, RunModes
<1> QED
  BY <1>1, <1>3, <1>4, <1>5, <1>6, <1>7

LEMMA RecordType ==
    ASSUME TypeOK, NEW t \in Ticks, Record(t) \/ Finish(t)
    PROVE  TypeOK'
<1>1. CASE Record(t)
  <2>1. PICK c \in tick[t].sent :
          /\ ledger' = [ledger EXCEPT ![c.order] = Recorded(@, c.proposal)]
          /\ Becomes(t, [tick[t] EXCEPT
               !.sent = {},
               !.cancels = IF c.proposal.kind = "CANCEL_BID"
                           THEN @ \cup {c.order} ELSE @])
          /\ UNCHANGED <<orders, runMode, poolFails, cancelled, faults>>
    BY <1>1 DEF Record
  <2> DEFINE cancels == IF c.proposal.kind = "CANCEL_BID"
                        THEN tick[t].cancels \cup {c.order}
                        ELSE tick[t].cancels
  <2>2. tick[t] \in TickType
    BY DEF TypeOK
  <2>3. c.order \in Orders /\ cancels \in SUBSET Orders
    BY <2>2 DEF TickType
  <2>4. ledger' \in [Orders -> RowType]
    BY <2>1, <2>3, RecordedType DEF TypeOK
  <2>5. Becomes(t, [tick[t] EXCEPT !.sent = {}, !.cancels = cancels])
    BY <2>1
  <2> HIDE DEF cancels
  <2>6. [tick[t] EXCEPT !.sent = {}, !.cancels = cancels] \in TickType
    BY <2>2, <2>3 DEF TickType
  <2>7. tick' \in [Ticks -> TickType]
    BY <2>5, <2>6, BecomesType
  <2> QED
    BY <2>1, <2>4, <2>7 DEF TypeOK
<1>2. CASE Finish(t)
  BY <1>2, IdleTickType, BecomesType DEF Finish, TypeOK
<1> QED
  BY <1>1, <1>2

-----------------------------------------------------------------------------
(* The operator, the process, Braiins and the clock *)

Surroundings ==
    \/ \E mode \in RunModes : SetRunMode(mode)
    \/ \E o \in Orders : CancelStaleUrl(o) \/ RecordStaleUrl(o)
    \/ \E o \in Orders :
          Surface(o) \/ Leave(o) \/ PauseOrResume(o) \/ PlaceByHand(o)
    \/ Crash
    \/ Minute

LEMMA GoneType ==
    ASSUME TypeOK, NEW o \in Orders
    PROVE  Gone(o) \in OrderType /\ NoOrder \in OrderType
<1>1. NoOrder \in OrderType
  BY ListingAssumption DEF NoOrder, OrderType
<1>2. orders[o].mine \in BOOLEAN
  BY DEF TypeOK, OrderType
<1>3. \A s \in {"GONE"}, m \in BOOLEAN :
        [NoOrder EXCEPT !.status = s, !.mine = m] \in OrderType
  BY <1>1 DEF OrderType
<1> QED
  BY <1>1, <1>2, <1>3 DEF Gone

LEMMA MarketType ==
    ASSUME TypeOK, NEW o \in Orders,
           Surface(o) \/ Leave(o) \/ PauseOrResume(o) \/ PlaceByHand(o)
    PROVE  TypeOK'
<1>1. orders[o] \in OrderType
  BY DEF TypeOK
<1> SUFFICES ASSUME NEW new \in OrderType,
                    Market([orders EXCEPT ![o] = new])
             PROVE  TypeOK'
  <2>1. CASE Surface(o)
    <3>1. \A l \in BOOLEAN, n \in 0..Lag :
            [orders[o] EXCEPT !.listed = l, !.lag = n] \in OrderType
      BY <1>1 DEF OrderType
    <3>2. 0 \in 0..Lag
      BY ListingAssumption
    <3>3. [orders[o] EXCEPT !.listed = TRUE, !.lag = 0] \in OrderType
      BY <3>1, <3>2
    <3> QED
      BY <2>1, <3>3 DEF Surface, Market, TypeOK
  <2>2. CASE Leave(o)
    BY <2>2, GoneType DEF Leave
  <2>3. CASE PauseOrResume(o)
    <3> DEFINE status ==
          IF orders[o].status = "ACTIVE" THEN "PAUSED" ELSE "ACTIVE"
    <3>1. status \in {"NONE", "GONE"} \cup Live
      BY DEF Live, Firm
    <3>2. Market([orders EXCEPT ![o].status = status])
      BY <2>3 DEF PauseOrResume
    <3> HIDE DEF status
    <3>3. [orders[o] EXCEPT !.status = status] \in OrderType
      BY <1>1, <3>1 DEF OrderType
    <3> QED
      BY <3>2, <3>3 DEF Market, TypeOK
  <2>4. CASE PlaceByHand(o)
    <3>1. \A s \in Live, l \in BOOLEAN, d \in 0..Cooldown :
            [NoOrder EXCEPT !.status = s, !.listed = l, !.drop = d]
               \in OrderType
      BY GoneType DEF OrderType
    <3>2. "ACTIVE" \in Live /\ Cooldown \in 0..Cooldown
      BY ListingAssumption DEF Live, Firm
    <3>3. [NoOrder EXCEPT !.status = "ACTIVE", !.listed = TRUE,
                          !.drop = Cooldown] \in OrderType
      BY <3>1, <3>2
    <3> QED
      BY <2>4, <3>3 DEF PlaceByHand
  <2> QED
    BY <2>1, <2>2, <2>3, <2>4
<1> QED
  BY DEF Market, TypeOK

LEMMA MinuteType ==
    ASSUME TypeOK, Minute
    PROVE  TypeOK'
<1>1. \A o \in Orders : orders[o] \in OrderType /\ ledger[o] \in RowType
  BY DEF TypeOK
<1>2. ASSUME NEW o \in Orders
      PROVE  orders'[o] \in OrderType
  <2> DEFINE lag == IF orders[o].listed THEN 0 ELSE orders[o].lag + 1
             drop == Older(orders[o].drop, Cooldown)
  <2>1. CASE IsLive(o)
    <3>1. lag \in 0..Lag
      <4>1. orders[o].lag \in 0..Lag
        BY <1>1 DEF OrderType
      <4>2. ~orders[o].listed => orders[o].lag < Lag
        BY <2>1 DEF Minute, Hidden
      <4> QED
        BY <4>1, <4>2, ListingAssumption
    <3>2. drop \in 0..Cooldown
      BY <1>1, ListingAssumption DEF Older, LesserOf, OrderType
    <3>3. orders'[o] = [orders[o] EXCEPT !.lag = lag, !.drop = drop]
      BY <2>1 DEF Minute
    <3> HIDE DEF lag, drop
    <3> QED
      BY <1>1, <3>1, <3>2, <3>3 DEF OrderType
  <2> QED
    BY <1>1, <2>1 DEF Minute
<1>3. ASSUME NEW o \in Orders
      PROVE  ledger'[o] \in RowType
  <2> DEFINE age == Older(ledger[o].age, Grace + 1)
             cool == Older(ledger[o].cool, Cooldown)
  <2>1. CASE HasRow(o)
    <3>1. age \in 0..(Grace + 1) /\ cool \in 0..Cooldown
      BY <1>1, ListingAssumption DEF Older, LesserOf, RowType
    <3>2. ledger'[o] = [ledger[o] EXCEPT !.age = age, !.cool = cool]
      BY <2>1 DEF Minute
    <3> HIDE DEF age, cool
    <3> QED
      BY <1>1, <3>1, <3>2 DEF RowType
  <2> QED
    BY <1>1, <2>1 DEF Minute
<1>4. orders' \in [Orders -> OrderType] /\ ledger' \in [Orders -> RowType]
  BY <1>2, <1>3 DEF Minute
<1> QED
  BY <1>4 DEF Minute, TypeOK

LEMMA SurroundingsType ==
    ASSUME TypeOK, Surroundings
    PROVE  TypeOK'
<1>1. CASE \E mode \in RunModes : SetRunMode(mode)
  BY <1>1 DEF SetRunMode, TypeOK
<1>2. ASSUME NEW o \in Orders, CancelStaleUrl(o)
      PROVE  TypeOK'
  <2>1. orders' \in [Orders -> OrderType]
    BY <1>2 DEF CancelStaleUrl, Unwind, TypeOK, OrderType, Live
  <2> QED
    BY <1>2, <2>1 DEF CancelStaleUrl, TypeOK
<1>3. ASSUME NEW o \in Orders, RecordStaleUrl(o)
      PROVE  TypeOK'
  <2>1. ledger' \in [Orders -> RowType]
    BY <1>3 DEF RecordStaleUrl, TypeOK, RowType, Terminal
  <2> QED
    BY <1>3, <2>1 DEF RecordStaleUrl, TypeOK
<1>4. CASE Crash
  <2>1. runMode' \in RunModes
    BY <1>4 DEF Crash, BootRunMode, RunModes, TypeOK
  <2>2. faults' \in 0..MaxFaults
    BY <1>4, FaultType DEF Crash, TypeOK
  <2> QED
    BY <1>4, <2>1, <2>2, IdleTickType
       DEF Crash, TypeOK, StratumDownCancelThreshold
<1> QED
  BY <1>1, <1>2, <1>3, <1>4, MarketType, MinuteType DEF Surroundings

LEMMA NextCases ==
    ASSUME [Next]_vars
    PROVE  \/ \E t \in Ticks :
                 Observe(t) \/ Execute(t) \/ Record(t) \/ Finish(t)
           \/ Surroundings
           \/ UNCHANGED vars
  BY DEF Next, TickStep, Surroundings

\* Every variable of the controller keeps its type, for every set of orders
\* and ticks, every configuration and every bound (loop.ts, tick.ts).
THEOREM TypeCorrect == Spec => []TypeOK
<1>1. Init => TypeOK
  BY ListingAssumption, IdleTickType
     DEF Init, TypeOK, OrderType, RowType, NoOrder, NoRow, RunModes,
         StratumDownCancelThreshold
<1>2. TypeOK /\ [Next]_vars => TypeOK'
  <2> SUFFICES ASSUME TypeOK, [Next]_vars
               PROVE  TypeOK'
    OBVIOUS
  <2>1. CASE UNCHANGED vars
    BY <2>1 DEF vars, TypeOK
  <2>2. ASSUME NEW t \in Ticks,
               Observe(t) \/ Execute(t) \/ Record(t) \/ Finish(t)
        PROVE  TypeOK'
    BY <2>2, ObserveType, ExecuteType, RecordType
  <2> QED
    BY <2>1, <2>2, NextCases, SurroundingsType
<1> QED
  BY <1>1, <1>2, PTL DEF Spec

-----------------------------------------------------------------------------
(* One order, under Calm: SlotInvariant is inductive *)

CalmInv == TypeOK /\ SlotInvariant

LEMMA SlotInit == Init => SlotInvariant
  BY DEF Init, SlotInvariant, RowsAreOwn, Tracked, HiddenRowActive,
     HiddenRowYoung, SnapshotListed, PlanShape, EmptySlot, NoOverlap,
     OwnLive, IsLive, Live, Firm, Hidden, HasRow, RowActive, NoOrder, NoRow,
     IdleTick, NotListed, Seen, OwnedIn, ConfirmedEmpty

\* The tick reads the ledger: an empty slot or an active row.
LEMMA SlotBegin ==
    ASSUME Calm, CalmInv, NEW t \in Ticks, Begin(t)
    PROVE  SlotInvariant'
<1>1. /\ tick'[t] = [IdleTick EXCEPT
            !.pc = "begun",
            !.mode = runMode,
            !.ids = KnownIds,
            !.active = Cardinality({o \in Orders : RowActive(o)}),
            !.old = OldRows,
            !.cooling = {o \in Orders : HasRow(o) /\ ledger[o].cool < Cooldown}]
      /\ \A u \in Ticks : u = t
      /\ UNCHANGED <<orders, ledger, cancelled>>
  BY DEF Begin, Becomes, CalmInv, TypeOK, Calm
<1>2. /\ tick'[t].pc = "begun"
      /\ tick'[t].ids = {o \in Orders : HasRow(o)}
      /\ tick'[t].active = Cardinality({o \in Orders : RowActive(o)})
      /\ tick'[t].old = {o \in Orders : HasRow(o) /\ ledger[o].age > Grace}
      /\ tick'[t].todo = {} /\ tick'[t].sent = {}
      /\ tick'[t].list = [o \in Orders |-> NotListed]
  BY <1>1 DEF IdleTick, KnownIds, OldRows
<1>3. tick[t].sent = {}
  BY DEF Begin, CalmInv, SlotInvariant, PlanShape
<1>4. \A o \in OwnLive : HasRow(o)
  BY <1>1, <1>3 DEF CalmInv, SlotInvariant, Tracked
<1>5. Seen(t)' = {}
  BY <1>2 DEF Seen, NotListed
<1>6. RowsAreOwn' /\ HiddenRowActive' /\ HiddenRowYoung' /\ NoOverlap'
      /\ cancelled' = {}
  BY <1>1 DEF CalmInv, SlotInvariant, RowsAreOwn, HiddenRowActive, HiddenRowYoung,
     NoOverlap, OwnLive, IsLive, Hidden, HasRow, RowActive
<1>7. Tracked'
  BY <1>1, <1>4 DEF Tracked, OwnLive, IsLive, HasRow
<1>8. SnapshotListed'
  <2> SUFFICES ASSUME NEW o \in Orders, HasRow(o), ledger[o].age > Grace
               PROVE  /\ orders[o].status # "NONE"
                      /\ IsLive(o) => orders[o].listed
    BY <1>1, <1>2, <1>5 DEF SnapshotListed, IsLive
  <2>1. orders[o].lag \in 0..Lag /\ ledger[o].age \in Int
    BY DEF CalmInv, TypeOK, OrderType, RowType
  <2>2. o \in Hidden => ledger[o].age <= orders[o].lag
    BY DEF CalmInv, SlotInvariant, HiddenRowYoung
  <2>3. o \notin Hidden
    BY <2>1, <2>2, ListingAssumption
  <2> QED
    BY <2>3 DEF Hidden, CalmInv, SlotInvariant, RowsAreOwn
<1>9. PlanShape'
  BY <1>1, <1>2 DEF PlanShape, CalmInv, SlotInvariant, RowsAreOwn
<1>10. EmptySlot'
  <2>1. ASSUME tick'[t].active = 0
        PROVE  \A o \in OwnLive : orders[o].listed /\ HasRow(o)
    <3>1. \A o \in Orders : ~RowActive(o)
      BY <1>2, <2>1, ListingAssumption, FS_Subset, FS_EmptySet
    <3> QED
      BY <1>4, <3>1 DEF CalmInv, SlotInvariant, HiddenRowActive, OwnLive
  <2> QED
    BY <1>1, <1>2, <2>1 DEF EmptySlot, OwnLive, IsLive
<1> QED
  BY <1>6, <1>7, <1>8, <1>9, <1>10 DEF SlotInvariant

\* The list arrives complete or not at all.
LEMMA SlotReadList ==
    ASSUME Calm, CalmInv, NEW t \in Ticks, ReadList(t)
    PROVE  SlotInvariant'
<1>1. PICK ok \in BOOLEAN, ids \in SUBSET Orders :
        /\ Receive(t, ok, ids)
        /\ ids \subseteq Listing
        /\ ok => ids = Listing
  BY DEF ReadList, Fault, Calm, Listing
<1>2. /\ \A u \in Ticks : u = t
      /\ UNCHANGED <<orders, ledger, cancelled>>
      /\ tick[t].pc = "begun"
      /\ tick[t].todo = {} /\ tick[t].sent = {}
  BY DEF ReadList, Calm, CalmInv, SlotInvariant, PlanShape
<1>3. /\ tick'[t].pc = "read"
      /\ tick'[t].bidsOk = ok
      /\ tick'[t].list = [o \in Orders |->
            IF o \in ids THEN Entry(o) ELSE NotListed]
      /\ tick'[t].ids = tick[t].ids /\ tick'[t].active = tick[t].active
      /\ tick'[t].old = tick[t].old
      /\ tick'[t].todo = {} /\ tick'[t].sent = {}
  BY <1>1, <1>2 DEF Receive, Becomes, CalmInv, TypeOK, TickType
<1>4. Seen(t)' = ids
  BY <1>1, <1>3 DEF Seen, NotListed, Entry, Listing, IsLive, Live, Firm
<1>5. RowsAreOwn' /\ HiddenRowActive' /\ HiddenRowYoung' /\ NoOverlap'
      /\ Tracked' /\ cancelled' = {}
  BY <1>2, <1>3 DEF CalmInv, SlotInvariant, RowsAreOwn, HiddenRowActive,
     HiddenRowYoung, Tracked, NoOverlap, OwnLive, IsLive, Hidden, HasRow, RowActive
<1>6. SnapshotListed'
  BY <1>1, <1>2, <1>3, <1>4 DEF CalmInv, SlotInvariant, SnapshotListed, IsLive,
     Listing, Live, Firm
<1>7. PlanShape'
  BY <1>2, <1>3 DEF CalmInv, SlotInvariant, PlanShape
<1>8. EmptySlot'
  <2>1. ASSUME ok, tick[t].active = 0, ids \cap tick[t].ids = {}
        PROVE  OwnLive = {}
    BY <1>1, <1>2, <2>1 DEF CalmInv, SlotInvariant, EmptySlot, Listing, OwnLive
  <2>2. ConfirmedEmpty(t)' => OwnLive' = {}
    BY <1>2, <1>3, <1>4, <2>1 DEF ConfirmedEmpty, OwnedIn, OwnLive, IsLive
  <2> QED
    BY <1>2, <1>3, <2>2 DEF EmptySlot
<1> QED
  BY <1>5, <1>6, <1>7, <1>8 DEF SlotInvariant

\* Reconciliation and prune: an active row goes only when its order is gone
\* or in the list.
LEMMA SlotSyncLedger ==
    ASSUME Calm, CalmInv, NEW t \in Ticks, SyncLedger(t)
    PROVE  SlotInvariant'
<1>1. /\ \A u \in Ticks : u = t
      /\ UNCHANGED <<orders, cancelled>>
      /\ tick[t].pc = "read"
      /\ tick[t].todo = {} /\ tick[t].sent = {}
  BY DEF SyncLedger, Calm, CalmInv, SlotInvariant, PlanShape
<1>2. /\ tick'[t].pc = "synced"
      /\ tick'[t].bidsOk = tick[t].bidsOk
      /\ tick'[t].list = tick[t].list
      /\ tick'[t].ids = tick[t].ids /\ tick'[t].active = tick[t].active
      /\ tick'[t].old = tick[t].old
      /\ tick'[t].todo = {} /\ tick'[t].sent = {}
  BY <1>1 DEF SyncLedger, Becomes, CalmInv, TypeOK, TickType
<1>3. Seen(t)' = Seen(t) /\ OwnedIn(t)' = OwnedIn(t)
  BY <1>2 DEF Seen, OwnedIn
<1>4. \A o \in Orders : ledger[o] \in RowType /\ tick[t].list[o] \in ListEntry
  BY DEF CalmInv, TypeOK, TickType
<1>5. \A o \in Orders :
        /\ ledger'[o].age = ledger[o].age
        /\ o \in OwnedIn(t) => ledger'[o].status = tick[t].list[o].status
        /\ o \notin OwnedIn(t) =>
             ledger'[o].status =
               IF o \in Vanished(t) THEN "CANCELED" ELSE ledger[o].status
  BY <1>4 DEF SyncLedger, RowType
<1>6. \A o \in OwnedIn(t) : RowActive(o)'
  BY <1>4, <1>5 DEF OwnedIn, Seen, ListEntry, RowActive, HasRow, Terminal,
     Live, Firm
<1>7. \A o \in Orders :
        /\ HasRow(o) => HasRow(o)'
        /\ HasRow(o)' => HasRow(o) \/ o \in OwnedIn(t)
  <2>1. \A o \in Vanished(t) : HasRow(o)
    BY DEF Vanished, RowActive
  <2> QED
    BY <1>5, <1>6, <2>1 DEF HasRow, RowActive
<1>8. RowsAreOwn' /\ NoOverlap' /\ cancelled' = {}
  <2>1. \A o \in OwnedIn(t) : orders[o].mine
    BY DEF CalmInv, SlotInvariant, PlanShape, OwnedIn
  <2> QED
    BY <1>1, <1>7, <2>1 DEF CalmInv, SlotInvariant, RowsAreOwn, NoOverlap, OwnLive,
       IsLive
<1>9. Tracked'
  BY <1>1, <1>7 DEF CalmInv, SlotInvariant, Tracked, OwnLive, IsLive
<1>10. SnapshotListed' /\ PlanShape'
  BY <1>1, <1>2, <1>3 DEF CalmInv, SlotInvariant, SnapshotListed, PlanShape, IsLive
<1>11. HiddenRowActive'
  <2> SUFFICES ASSUME NEW o \in OwnLive, HasRow(o)', ~orders[o].listed
               PROVE  RowActive(o)'
    BY <1>1 DEF HiddenRowActive, OwnLive, IsLive
  <2>1. o \in Orders /\ o \notin Vanished(t)
    BY DEF OwnLive, Vanished, CalmInv, SlotInvariant, SnapshotListed
  <2>2. CASE o \notin OwnedIn(t)
    <3>1. HasRow(o) /\ RowActive(o)
      BY <1>7, <2>1, <2>2 DEF CalmInv, SlotInvariant, HiddenRowActive
    <3> QED
      BY <1>5, <2>1, <2>2, <3>1 DEF RowActive, HasRow
  <2> QED
    BY <1>6, <2>2
<1>12. HiddenRowYoung'
  <2> SUFFICES ASSUME NEW o \in Hidden, HasRow(o)'
               PROVE  ledger'[o].age <= orders[o].lag
    BY <1>1 DEF HiddenRowYoung, Hidden, IsLive
  <2>1. o \notin OwnedIn(t)
    BY DEF Hidden, OwnedIn, CalmInv, SlotInvariant, SnapshotListed
  <2> QED
    BY <1>5, <1>7, <2>1 DEF Hidden, CalmInv, SlotInvariant, HiddenRowYoung
<1>13. EmptySlot'
  BY <1>1, <1>2, <1>3 DEF CalmInv, SlotInvariant, EmptySlot, ConfirmedEmpty,
     OwnLive, IsLive
<1> QED
  BY <1>8, <1>9, <1>10, <1>11, <1>12, <1>13 DEF SlotInvariant

\* A CREATE is planned only when the slot is empty.
LEMMA SlotDecideNow ==
    ASSUME Calm, CalmInv, NEW t \in Ticks, NEW quote, NEW reachable, NEW stale,
           NEW held, DecideNow(t, quote, reachable, stale, held)
    PROVE  SlotInvariant'
<1> DEFINE v == View(t, quote, poolFails', stale, held)
<1>1. /\ \A u \in Ticks : u = t
      /\ UNCHANGED <<orders, ledger, cancelled>>
      /\ tick[t].pc = "synced"
      /\ tick[t].sent = {}
  BY DEF DecideNow, Calm, CalmInv, SlotInvariant, PlanShape
<1>2. /\ tick'[t].pc = "acting"
      /\ tick'[t].list = tick[t].list
      /\ tick'[t].ids = tick[t].ids
      /\ tick'[t].old = tick[t].old
      /\ tick'[t].sent = {}
      /\ tick'[t].todo = Dispatched(Config, v)
  BY <1>1 DEF DecideNow, Becomes, CalmInv, TypeOK, TickType
<1>3. Seen(t)' = Seen(t) /\ OwnedIn(t)' = OwnedIn(t)
  BY <1>2 DEF Seen, OwnedIn
<1>4. /\ Listed(v) = OwnedIn(t)
      /\ v.bidsOk = tick[t].bidsOk
      /\ v.activeRows = tick[t].active
  BY DEF View, Listed
<1> HIDE DEF v
<1>5. \A p \in Dispatched(Config, v) :
        /\ p.kind = "CREATE_BID" =>
             MayCreate(Config, v) /\ Dispatched(Config, v) = {p}
        /\ p.kind \in {"EDIT_PRICE", "EDIT_SPEED", "CANCEL_BID"} =>
             p.order \in OwnedIn(t)
  BY <1>4, DispatchShape
<1>6. MayCreate(Config, v) => OwnLive = {}
  BY <1>1, <1>4 DEF MayCreate, CalmInv, SlotInvariant, EmptySlot, ConfirmedEmpty
<1>7. RowsAreOwn' /\ HiddenRowActive' /\ HiddenRowYoung' /\ NoOverlap'
      /\ Tracked' /\ SnapshotListed' /\ cancelled' = {}
  BY <1>1, <1>2, <1>3 DEF CalmInv, SlotInvariant, RowsAreOwn, HiddenRowActive,
     HiddenRowYoung, Tracked, NoOverlap, SnapshotListed, OwnLive, IsLive,
     Hidden, HasRow, RowActive
<1>8. PlanShape'
  BY <1>1, <1>2, <1>3, <1>5 DEF CalmInv, SlotInvariant, PlanShape
<1>9. EmptySlot'
  BY <1>1, <1>2, <1>5, <1>6 DEF EmptySlot, OwnLive, IsLive
<1> QED
  BY <1>7, <1>8, <1>9 DEF SlotInvariant

-----------------------------------------------------------------------------
(* executeLive() *)

\* Orders may change in price or speed or begin to unwind, nothing else.
SameSlot ==
    \A o \in Orders :
        /\ IsLive(o)' = IsLive(o)
        /\ orders'[o].mine = orders[o].mine
        /\ orders'[o].listed = orders[o].listed
        /\ orders'[o].lag = orders[o].lag
        /\ orders'[o].status = "NONE" <=> orders[o].status = "NONE"

\* A call that does not place an order leaves the slot as it was.
LEMMA SlotCall ==
    ASSUME Calm, CalmInv, NEW t \in Ticks, NEW p \in tick[t].todo,
           tick[t].pc = "acting", tick[t].sent = {},
           tick' \in [Ticks -> TickType],
           SameSlot, UNCHANGED <<ledger, cancelled>>,
           tick'[t].pc = "acting",
           tick'[t].list = tick[t].list,
           tick'[t].ids = tick[t].ids,
           tick'[t].old = tick[t].old,
           tick'[t].todo = tick[t].todo \ {p},
           \/ tick'[t].sent = {}
           \/ /\ p.kind \in {"EDIT_PRICE", "EDIT_SPEED", "CANCEL_BID"}
              /\ tick'[t].sent = {[proposal |-> p, order |-> p.order]}
    PROVE  SlotInvariant'
<1>1. \A u \in Ticks : u = t
  BY DEF Calm
<1>2. Seen(t)' = Seen(t) /\ OwnedIn(t)' = OwnedIn(t)
  BY DEF Seen, OwnedIn
<1>3. OwnLive' = OwnLive /\ Hidden' = Hidden
  BY DEF SameSlot, OwnLive, Hidden
<1>4. RowsAreOwn' /\ HiddenRowActive' /\ HiddenRowYoung' /\ NoOverlap'
      /\ cancelled' = {}
  BY <1>3 DEF SameSlot, CalmInv, SlotInvariant, RowsAreOwn, HiddenRowActive,
     HiddenRowYoung, NoOverlap, OwnLive, Hidden, HasRow, RowActive
<1>5. Tracked'
  BY <1>1, <1>3 DEF CalmInv, SlotInvariant, Tracked, HasRow
<1>6. SnapshotListed'
  BY <1>1, <1>2 DEF SameSlot, CalmInv, SlotInvariant, SnapshotListed, OwnedIn, Seen,
     TypeOK, TickType
<1>7. PlanShape'
  <2>1. p.kind \in {"EDIT_PRICE", "EDIT_SPEED", "CANCEL_BID"} =>
          /\ p.order \in OwnedIn(t)
          /\ \A q \in tick[t].todo : q.kind # "CREATE_BID"
    BY DEF CalmInv, SlotInvariant, PlanShape
  <2>2. \A o \in tick[t].ids : o \in Orders /\ orders[o].mine
    BY DEF CalmInv, SlotInvariant, PlanShape, TypeOK, TickType
  <2>3. \A o \in tick[t].ids : orders'[o].mine
    BY <2>2 DEF SameSlot
  <2>4. \A c \in tick'[t].sent :
          /\ tick'[t].sent = {c}
          /\ orders'[c.order].mine
          /\ c.proposal.kind = "CANCEL_BID" => c.order \in Seen(t)
    BY <2>1, <2>3 DEF OwnedIn
  <2>5. \A q \in tick'[t].todo :
          /\ q.kind = "CREATE_BID" => tick'[t].todo = {q} /\ tick'[t].sent = {}
          /\ q.kind \in {"EDIT_PRICE", "EDIT_SPEED", "CANCEL_BID"}
               => q.order \in OwnedIn(t)
    BY <2>1 DEF CalmInv, SlotInvariant, PlanShape
  <2> QED
    BY <1>1, <1>2, <2>3, <2>4, <2>5 DEF PlanShape
<1>8. EmptySlot'
  BY <1>1, <1>3 DEF CalmInv, SlotInvariant, EmptySlot
<1> QED
  BY <1>4, <1>5, <1>6, <1>7, <1>8 DEF SlotInvariant

\* The new order goes into an empty slot and its insert is pending.
LEMMA SlotPlaced ==
    ASSUME Calm, CalmInv, NEW t \in Ticks, NEW p \in tick[t].todo,
           tick[t].pc = "acting", tick[t].sent = {}, p.kind = "CREATE_BID",
           NEW o \in Orders, orders[o].status = "NONE",
           orders' = [orders EXCEPT ![o] =
             [status |-> "ACTIVE", mine |-> TRUE, listed |-> FALSE,
              price |-> p.price, speed |-> p.speed,
              lag |-> 0, drop |-> Cooldown]],
           Accepted(t, p, o), UNCHANGED <<ledger, cancelled>>
    PROVE  SlotInvariant'
<1>1. /\ \A u \in Ticks : u = t
      /\ OwnLive = {}
      /\ tick[t].todo = {p}
      /\ ~HasRow(o)
  BY DEF Calm, CalmInv, SlotInvariant, EmptySlot, PlanShape, RowsAreOwn
<1>2. /\ tick'[t].pc = "acting"
      /\ tick'[t].list = tick[t].list
      /\ tick'[t].ids = tick[t].ids
      /\ tick'[t].old = tick[t].old
      /\ tick'[t].todo = {}
      /\ tick'[t].sent = {[proposal |-> p, order |-> o]}
  BY <1>1 DEF Accepted, Becomes, CalmInv, TypeOK, TickType
<1>3. Seen(t)' = Seen(t) /\ OwnedIn(t)' = OwnedIn(t)
  BY <1>2 DEF Seen, OwnedIn
<1>4. /\ orders'[o].status = "ACTIVE" /\ orders'[o].mine
      /\ ~orders'[o].listed /\ orders'[o].lag = 0
      /\ \A x \in Orders : x # o => orders'[x] = orders[x]
  BY DEF CalmInv, TypeOK
<1>5. OwnLive' = {o}
  BY <1>1, <1>4 DEF OwnLive, IsLive, Live, Firm
<1>6. RowsAreOwn' /\ NoOverlap' /\ cancelled' = {}
  BY <1>1, <1>4, <1>5 DEF CalmInv, SlotInvariant, RowsAreOwn, NoOverlap, IsLive,
     HasRow
<1>7. HiddenRowActive' /\ HiddenRowYoung' /\ Tracked'
  <2>1. HiddenRowActive'
    BY <1>1, <1>5 DEF HiddenRowActive, HasRow
  <2>2. \A x \in Hidden' : HasRow(x)' => x \in Hidden /\ HasRow(x) /\ x # o
    BY <1>1, <1>4 DEF Hidden, IsLive, HasRow
  <2>3. HiddenRowYoung'
    BY <1>4, <2>2 DEF CalmInv, SlotInvariant, HiddenRowYoung, Hidden
  <2>4. Tracked'
    <3> DEFINE c == [proposal |-> p, order |-> o]
    <3>1. c \in tick'[t].sent /\ c.order = o /\ c.proposal.kind = "CREATE_BID"
      BY <1>2
    <3> QED
      BY <1>5, <3>1 DEF Tracked
  <2> QED
    BY <2>1, <2>3, <2>4
<1>8. SnapshotListed'
  <2>1. o \notin tick[t].old \cup Seen(t)
    BY DEF CalmInv, SlotInvariant, SnapshotListed
  <2>2. tick[t].old \cup Seen(t) \subseteq Orders
    BY DEF CalmInv, TypeOK, TickType, Seen
  <2> QED
    BY <1>1, <1>2, <1>3, <1>4, <2>1, <2>2 DEF CalmInv, SlotInvariant,
       SnapshotListed, IsLive
<1>9. PlanShape'
  <2>1. tick[t].ids \subseteq Orders
    BY DEF CalmInv, TypeOK, TickType
  <2>2. \A x \in tick[t].ids : orders'[x].mine
    BY <1>4, <2>1 DEF CalmInv, SlotInvariant, PlanShape
  <2> QED
    BY <1>1, <1>2, <1>4, <2>2 DEF PlanShape
<1>10. EmptySlot'
  BY <1>1, <1>2 DEF EmptySlot
<1> QED
  BY <1>6, <1>7, <1>8, <1>9, <1>10 DEF SlotInvariant

LEMMA SlotExecute ==
    ASSUME Calm, CalmInv, NEW t \in Ticks, Execute(t)
    PROVE  SlotInvariant'
<1>1. PICK p \in tick[t].todo :
        \/ SendCreate(t, p) \/ SendEditPrice(t, p) \/ SendEditSpeed(t, p)
        \/ SendCancel(t, p) \/ ExecutePause(t, p)
  BY DEF Execute
<1>2. tick' \in [Ticks -> TickType]
  BY ExecuteType DEF CalmInv, TypeOK
<1>3. /\ tick[t].pc = "acting" /\ tick[t].sent = {}
      /\ UNCHANGED <<ledger, cancelled>>
  BY <1>1 DEF SendCreate, SendEditPrice, SendEditSpeed, SendCancel,
     ExecutePause, MaySend
<1>4. \/ p.order \in Orders /\ p.order \in OwnedIn(t)
      \/ p.kind \notin {"EDIT_PRICE", "EDIT_SPEED", "CANCEL_BID"}
  BY DEF CalmInv, SlotInvariant, PlanShape, OwnedIn, Seen
<1>5. ASSUME Failed(t, p) \/ ExecutePause(t, p)
      PROVE  /\ tick'[t].pc = "acting"
             /\ tick'[t].list = tick[t].list
             /\ tick'[t].ids = tick[t].ids
             /\ tick'[t].old = tick[t].old
             /\ tick'[t].todo = tick[t].todo \ {p}
             /\ tick'[t].sent = {}
  <2>1. PICK state : /\ Becomes(t, state)
                     /\ state.pc = tick[t].pc
                     /\ state.list = tick[t].list
                     /\ state.ids = tick[t].ids
                     /\ state.old = tick[t].old
                     /\ state.todo = tick[t].todo \ {p}
                     /\ state.sent = tick[t].sent
    <3>1. CASE Failed(t, p)
      <4> DEFINE failed == tick[t].createFailed \/ p.kind = "CREATE_BID"
                 state == [tick[t] EXCEPT !.todo = @ \ {p},
                                          !.createFailed = failed]
      <4>1. Becomes(t, state)
        BY <3>1 DEF Failed
      <4> HIDE DEF failed
      <4>2. /\ state.pc = tick[t].pc
            /\ state.list = tick[t].list
            /\ state.ids = tick[t].ids
            /\ state.old = tick[t].old
            /\ state.todo = tick[t].todo \ {p}
            /\ state.sent = tick[t].sent
        BY DEF CalmInv, TypeOK, TickType
      <4> HIDE DEF state
      <4> QED
        BY <4>1, <4>2
    <3>2. CASE ExecutePause(t, p)
      BY <3>2 DEF ExecutePause, CalmInv, TypeOK, TickType
    <3> QED
      BY <1>5, <3>1, <3>2
  <2> QED
    BY <1>3, <2>1 DEF Becomes, CalmInv, TypeOK
<1>6. ASSUME Accepted(t, p, p.order)
      PROVE  /\ tick'[t].pc = "acting"
             /\ tick'[t].list = tick[t].list
             /\ tick'[t].ids = tick[t].ids
             /\ tick'[t].old = tick[t].old
             /\ tick'[t].todo = tick[t].todo \ {p}
             /\ tick'[t].sent = {[proposal |-> p, order |-> p.order]}
  BY <1>3, <1>6 DEF Accepted, Becomes, CalmInv, TypeOK, TickType
<1>7. \A o : AnsweredOrLost(t, p, o) => Accepted(t, p, o)
  BY DEF AnsweredOrLost, Fault, Calm
<1>8. UNCHANGED orders => SameSlot
  BY DEF SameSlot, IsLive
<1>9. CASE SendCreate(t, p)
  <2>1. CASE Failed(t, p) /\ UNCHANGED orders
    BY <1>2, <1>3, <1>5, <1>8, <2>1, SlotCall
  <2>2. CASE \E o \in Orders :
               /\ orders[o].status = "NONE"
               /\ orders' = [orders EXCEPT ![o] =
                    [status |-> "ACTIVE", mine |-> TRUE, listed |-> FALSE,
                     price |-> p.price, speed |-> p.speed,
                     lag |-> 0, drop |-> Cooldown]]
               /\ Accepted(t, p, o)
    BY <1>3, <1>9, <2>2, SlotPlaced DEF SendCreate
  <2> QED
    BY <1>7, <1>9, <2>1, <2>2 DEF SendCreate
<1>10. CASE SendEditPrice(t, p)
  <2>1. SameSlot
    BY <1>4, <1>10 DEF SendEditPrice, SameSlot, IsLive, CalmInv, TypeOK, OrderType
  <2>2. Accepted(t, p, p.order) \/ Failed(t, p)
    BY <1>7, <1>10 DEF SendEditPrice
  <2> QED
    BY <1>2, <1>3, <1>5, <1>6, <1>10, <2>1, <2>2, SlotCall DEF SendEditPrice
<1>11. CASE SendEditSpeed(t, p)
  <2>1. SameSlot
    BY <1>4, <1>11 DEF SendEditSpeed, SameSlot, IsLive, CalmInv, TypeOK, OrderType
  <2>2. Accepted(t, p, p.order) \/ Failed(t, p)
    BY <1>7, <1>11 DEF SendEditSpeed
  <2> QED
    BY <1>2, <1>3, <1>5, <1>6, <1>11, <2>1, <2>2, SlotCall DEF SendEditSpeed
<1>12. CASE SendCancel(t, p)
  <2>1. SameSlot
    BY <1>4, <1>12 DEF SendCancel, Unwind, SameSlot, IsLive, Live, Firm, CalmInv,
       TypeOK, OrderType
  <2>2. Accepted(t, p, p.order) \/ Failed(t, p)
    BY <1>7, <1>12 DEF SendCancel
  <2> QED
    BY <1>2, <1>3, <1>5, <1>6, <1>12, <2>1, <2>2, SlotCall DEF SendCancel
<1>13. CASE ExecutePause(t, p)
  BY <1>2, <1>3, <1>5, <1>8, <1>13, SlotCall DEF ExecutePause
<1> QED
  BY <1>1, <1>9, <1>10, <1>11, <1>12, <1>13

-----------------------------------------------------------------------------
(* The write after an answer *)

LEMMA SlotRecord ==
    ASSUME Calm, CalmInv, NEW t \in Ticks, Record(t)
    PROVE  SlotInvariant'
<1>1. PICK c \in tick[t].sent :
        /\ ledger' = [ledger EXCEPT ![c.order] = Recorded(@, c.proposal)]
        /\ Becomes(t, [tick[t] EXCEPT
             !.sent = {},
             !.cancels = IF c.proposal.kind = "CANCEL_BID"
                         THEN @ \cup {c.order} ELSE @])
        /\ UNCHANGED <<orders, runMode, poolFails, cancelled, faults>>
  BY DEF Record
<1>2. /\ \A u \in Ticks : u = t
      /\ tick[t].pc = "acting"
      /\ tick[t].sent = {c}
      /\ orders[c.order].mine
      /\ c.proposal.kind = "CANCEL_BID" => c.order \in Seen(t)
      /\ c.order \in Orders
  BY DEF Calm, CalmInv, SlotInvariant, PlanShape, TypeOK, TickType
<1>3. /\ tick'[t].pc = "acting"
      /\ tick'[t].list = tick[t].list
      /\ tick'[t].ids = tick[t].ids
      /\ tick'[t].old = tick[t].old
      /\ tick'[t].todo = tick[t].todo
      /\ tick'[t].sent = {}
  BY <1>1, <1>2 DEF Becomes, CalmInv, TypeOK, TickType
<1>4. Seen(t)' = Seen(t) /\ OwnedIn(t)' = OwnedIn(t)
      /\ OwnLive' = OwnLive /\ Hidden' = Hidden
  BY <1>1, <1>3 DEF Seen, OwnedIn, OwnLive, Hidden, IsLive
<1>5. \A o \in Orders : o # c.order => ledger'[o] = ledger[o]
  BY <1>1 DEF CalmInv, TypeOK
<1>6. /\ ledger[c.order] \in RowType
      /\ ledger'[c.order] = Recorded(ledger[c.order], c.proposal)
  BY <1>1, <1>2 DEF CalmInv, TypeOK
<1>7. /\ c.proposal.kind = "CREATE_BID" => HasRow(c.order)'
      /\ HasRow(c.order) => HasRow(c.order)'
      /\ HasRow(c.order)' /\ ~HasRow(c.order) =>
           \/ c.proposal.kind = "CREATE_BID" /\ ledger'[c.order].age = 0
           \/ c.proposal.kind = "CANCEL_BID"
      /\ HasRow(c.order) => ledger'[c.order].age = ledger[c.order].age
      /\ c.proposal.kind = "CREATE_BID" /\ ~HasRow(c.order) => RowActive(c.order)'
      /\ c.proposal.kind # "CANCEL_BID" /\ HasRow(c.order) =>
           ledger'[c.order].status = ledger[c.order].status
  BY <1>6 DEF Recorded, RowType, HasRow, RowActive, NewRow, Terminal
<1>8. RowsAreOwn' /\ NoOverlap' /\ cancelled' = {}
  BY <1>1, <1>2, <1>4, <1>5 DEF CalmInv, SlotInvariant, RowsAreOwn, NoOverlap,
     HasRow, IsLive
<1>9. Tracked'
  BY <1>2, <1>4, <1>5, <1>7 DEF CalmInv, SlotInvariant, Tracked, HasRow, OwnLive
<1>10. c.proposal.kind = "CANCEL_BID" => c.order \notin Hidden
  BY <1>2 DEF CalmInv, SlotInvariant, SnapshotListed, Hidden
<1>11. HiddenRowActive'
  <2> SUFFICES ASSUME NEW o \in OwnLive, HasRow(o)', ~orders[o].listed
               PROVE  RowActive(o)'
    BY <1>1, <1>4 DEF HiddenRowActive
  <2>1. o \in Hidden
    BY DEF OwnLive, Hidden
  <2>2. HasRow(o) => RowActive(o)
    BY DEF CalmInv, SlotInvariant, HiddenRowActive
  <2> QED
    BY <1>5, <1>7, <1>10, <2>1, <2>2 DEF RowActive, HasRow, Hidden
<1>12. HiddenRowYoung'
  <2> SUFFICES ASSUME NEW o \in Hidden, HasRow(o)'
               PROVE  ledger'[o].age <= orders[o].lag
    BY <1>1, <1>4 DEF HiddenRowYoung
  <2>1. orders[o].lag \in 0..Lag
    BY DEF Hidden, CalmInv, TypeOK, OrderType
  <2>2. HasRow(o) => ledger[o].age <= orders[o].lag
    BY DEF CalmInv, SlotInvariant, HiddenRowYoung
  <2> QED
    BY <1>5, <1>7, <1>10, <2>1, <2>2, ListingAssumption DEF HasRow, Hidden
<1>13. SnapshotListed' /\ PlanShape'
  BY <1>1, <1>2, <1>3, <1>4 DEF CalmInv, SlotInvariant, SnapshotListed, PlanShape,
     IsLive
<1>14. EmptySlot'
  BY <1>2, <1>3, <1>4 DEF CalmInv, SlotInvariant, EmptySlot
<1> QED
  BY <1>8, <1>9, <1>11, <1>12, <1>13, <1>14 DEF SlotInvariant

LEMMA SlotFinish ==
    ASSUME Calm, CalmInv, NEW t \in Ticks, Finish(t)
    PROVE  SlotInvariant'
<1>1. /\ \A u \in Ticks : u = t
      /\ tick'[t] = IdleTick
      /\ tick[t].sent = {}
      /\ UNCHANGED <<orders, ledger, cancelled>>
  BY DEF Finish, Becomes, Calm, CalmInv, TypeOK
<1>2. Seen(t)' = {}
  BY <1>1 DEF Seen, IdleTick, NotListed
<1>3. RowsAreOwn' /\ HiddenRowActive' /\ HiddenRowYoung' /\ NoOverlap'
      /\ Tracked' /\ cancelled' = {}
  BY <1>1 DEF CalmInv, SlotInvariant, RowsAreOwn, HiddenRowActive, HiddenRowYoung,
     Tracked, NoOverlap, OwnLive, IsLive, Hidden, HasRow, RowActive
<1>4. SnapshotListed' /\ PlanShape' /\ EmptySlot'
  BY <1>1, <1>2 DEF SnapshotListed, PlanShape, EmptySlot, IdleTick
<1> QED
  BY <1>3, <1>4 DEF SlotInvariant

-----------------------------------------------------------------------------
(* Everything that is not a tick *)

\* What happens to the market outside the daemon's calls never makes an
\* order the daemon's own, and hides none that was listed.
LEMMA SlotMarket ==
    ASSUME Calm, CalmInv, NEW x \in Orders,
           Surface(x) \/ Leave(x) \/ PauseOrResume(x) \/ PlaceByHand(x)
    PROVE  SlotInvariant'
<1>1. UNCHANGED <<ledger, tick, cancelled>>
  BY DEF Surface, Leave, PauseOrResume, PlaceByHand, Market
<1>2. \A t \in Ticks : Seen(t)' = Seen(t) /\ OwnedIn(t)' = OwnedIn(t)
  BY <1>1 DEF Seen, OwnedIn
<1>3. \A o \in Orders :
        /\ orders'[o].mine = orders[o].mine
        /\ orders[o].status # "NONE" => orders'[o].status # "NONE"
        /\ IsLive(o)' /\ orders[o].mine => IsLive(o)
        /\ IsLive(o)' /\ ~IsLive(o) =>
             ~orders[o].mine /\ orders[o].status = "NONE" /\ orders'[o].listed
        /\ IsLive(o)' /\ IsLive(o) =>
             \/ orders'[o].listed
             \/ /\ ~orders[o].listed
                /\ orders'[o].lag = orders[o].lag
        /\ IsLive(o)' /\ IsLive(o) /\ orders[o].listed => orders'[o].listed
  <2>1. \A o \in Orders : orders[o] \in OrderType
    BY DEF CalmInv, TypeOK
  <2>2. CASE Surface(x)
    BY <2>1, <2>2 DEF Surface, Market, IsLive, OrderType, CalmInv, TypeOK
  <2>3. CASE Leave(x)
    BY <2>1, <2>3 DEF Leave, Market, Gone, NoOrder, IsLive, OrderType, CalmInv,
       TypeOK, Live, Firm
  <2>4. CASE PauseOrResume(x)
    BY <2>1, <2>4 DEF PauseOrResume, Market, IsLive, OrderType, CalmInv, TypeOK,
       Live, Firm
  <2>5. CASE PlaceByHand(x)
    BY <2>1, <2>5 DEF PlaceByHand, Market, NoOrder, IsLive, OrderType, CalmInv,
       TypeOK, Live, Firm, SlotInvariant, RowsAreOwn
  <2> QED
    BY <2>2, <2>3, <2>4, <2>5
<1>4. OwnLive' \subseteq OwnLive
  BY <1>3 DEF OwnLive
<1>5. \A o \in OwnLive' : o \in OwnLive /\ (orders[o].listed => orders'[o].listed)
  BY <1>3 DEF OwnLive
<1>6. RowsAreOwn'
  BY <1>1, <1>3 DEF CalmInv, SlotInvariant, RowsAreOwn, HasRow
<1>7. Tracked' /\ NoOverlap' /\ HiddenRowActive' /\ cancelled' = {}
  BY <1>1, <1>4, <1>5 DEF CalmInv, SlotInvariant, Tracked, NoOverlap,
     HiddenRowActive, HasRow, RowActive
<1>8. HiddenRowYoung'
  BY <1>1, <1>3 DEF CalmInv, SlotInvariant, HiddenRowYoung, Hidden, HasRow
<1>9. SnapshotListed'
  <2>1. \A t \in Ticks : tick[t].old \cup Seen(t) \subseteq Orders
    BY DEF CalmInv, TypeOK, TickType, Seen
  <2> QED
    BY <1>1, <1>2, <1>3, <2>1 DEF CalmInv, SlotInvariant, SnapshotListed
<1>10. PlanShape'
  <2>1. \A t \in Ticks : /\ tick[t].ids \subseteq Orders
                         /\ \A c \in tick[t].sent : c.order \in Orders
    BY DEF CalmInv, TypeOK, TickType
  <2> QED
    BY <1>1, <1>2, <1>3, <2>1 DEF CalmInv, SlotInvariant, PlanShape
<1>11. EmptySlot'
  BY <1>1, <1>2, <1>4, <1>5 DEF CalmInv, SlotInvariant, EmptySlot, ConfirmedEmpty
<1> QED
  BY <1>6, <1>7, <1>8, <1>9, <1>10, <1>11 DEF SlotInvariant

LEMMA SlotMinute ==
    ASSUME Calm, CalmInv, Minute
    PROVE  SlotInvariant'
<1>1. UNCHANGED <<tick, cancelled>>
  BY DEF Minute
<1>2. \A o \in Orders : orders[o] \in OrderType /\ ledger[o] \in RowType
  BY DEF CalmInv, TypeOK
<1>3. \A o \in Orders :
        /\ orders'[o].status = orders[o].status
        /\ orders'[o].mine = orders[o].mine
        /\ orders'[o].listed = orders[o].listed
        /\ o \in Hidden => orders'[o].lag = orders[o].lag + 1
  BY <1>2 DEF Minute, OrderType, Hidden
<1>4. \A o \in Orders :
        /\ ledger'[o].status = ledger[o].status
        /\ HasRow(o) => ledger'[o].age = Older(ledger[o].age, Grace + 1)
  BY <1>2 DEF Minute, RowType
<1>5. \A o \in Orders :
        IsLive(o)' = IsLive(o) /\ HasRow(o)' = HasRow(o)
          /\ RowActive(o)' = RowActive(o)
  BY <1>3, <1>4 DEF IsLive, HasRow, RowActive
<1>6. OwnLive' = OwnLive /\ Hidden' = Hidden
  BY <1>3, <1>5 DEF OwnLive, Hidden
<1>7. \A t \in Ticks : Seen(t)' = Seen(t) /\ OwnedIn(t)' = OwnedIn(t)
  BY <1>1 DEF Seen, OwnedIn
<1>8. RowsAreOwn' /\ NoOverlap' /\ cancelled' = {}
  BY <1>1, <1>3, <1>5, <1>6 DEF CalmInv, SlotInvariant, RowsAreOwn, NoOverlap
<1>9. HiddenRowActive' /\ Tracked'
  BY <1>1, <1>3, <1>5, <1>6 DEF CalmInv, SlotInvariant, HiddenRowActive, Tracked,
     OwnLive
<1>10. HiddenRowYoung'
  <2> SUFFICES ASSUME NEW o \in Hidden, HasRow(o)
               PROVE  ledger'[o].age <= orders'[o].lag
    BY <1>5, <1>6 DEF HiddenRowYoung, Hidden
  <2>1. ledger[o].age <= orders[o].lag /\ o \in Orders
    BY DEF CalmInv, SlotInvariant, HiddenRowYoung, Hidden
  <2>2. ledger[o].age \in Nat /\ orders[o].lag \in Nat
    BY <1>2, <2>1, ListingAssumption DEF OrderType, RowType
  <2>3. ledger'[o].age <= ledger[o].age + 1
    BY <1>4, <2>1, <2>2, ListingAssumption DEF Older, LesserOf
  <2>4. ledger'[o].age \in Int
    BY <1>4, <2>1, <2>2, ListingAssumption DEF Older, LesserOf
  <2> QED
    BY <1>3, <2>1, <2>2, <2>3, <2>4
<1>11. SnapshotListed'
  <2>1. \A t \in Ticks : tick[t].old \cup Seen(t) \subseteq Orders
    BY DEF CalmInv, TypeOK, TickType, Seen
  <2> QED
    BY <1>1, <1>3, <1>5, <1>7, <2>1 DEF CalmInv, SlotInvariant, SnapshotListed
<1>12. PlanShape'
  <2>1. \A t \in Ticks : /\ tick[t].ids \subseteq Orders
                         /\ \A c \in tick[t].sent : c.order \in Orders
    BY DEF CalmInv, TypeOK, TickType
  <2> QED
    BY <1>1, <1>3, <1>7, <2>1 DEF CalmInv, SlotInvariant, PlanShape
<1>13. EmptySlot'
  BY <1>1, <1>3, <1>6, <1>7 DEF CalmInv, SlotInvariant, EmptySlot, ConfirmedEmpty,
     OwnLive
<1> QED
  BY <1>8, <1>9, <1>10, <1>11, <1>12, <1>13 DEF SlotInvariant

\* The routes and the run mode touch nothing of the slot; the stale-URL
\* route and the crash are what Calm excludes.
LEMMA SlotSurroundings ==
    ASSUME Calm, CalmInv, Surroundings
    PROVE  SlotInvariant'
<1>1. CASE \E mode \in RunModes : SetRunMode(mode)
  BY <1>1 DEF SetRunMode, CalmInv, SlotInvariant, RowsAreOwn, Tracked,
     HiddenRowActive, HiddenRowYoung, SnapshotListed, PlanShape, EmptySlot,
     NoOverlap, OwnLive, IsLive, Hidden, HasRow, RowActive, Seen, OwnedIn,
     ConfirmedEmpty
<1>2. \A o \in Orders : ~CancelStaleUrl(o) /\ ~RecordStaleUrl(o)
  BY DEF CancelStaleUrl, RecordStaleUrl, Calm, CalmInv, SlotInvariant
<1>3. ~Crash
  BY DEF Crash, Fault, Calm
<1> QED
  BY <1>1, <1>2, <1>3, SlotMarket, SlotMinute DEF Surroundings

-----------------------------------------------------------------------------

LEMMA SlotStutter ==
    ASSUME CalmInv, UNCHANGED vars
    PROVE  SlotInvariant'
  BY DEF vars, CalmInv, SlotInvariant, RowsAreOwn, Tracked,
     HiddenRowActive, HiddenRowYoung, SnapshotListed, PlanShape, EmptySlot,
     NoOverlap, OwnLive, IsLive, Hidden, HasRow, RowActive, Seen, OwnedIn,
     ConfirmedEmpty

\* When Calm, every reachable state satisfies the single-order invariant
\* (decide.ts:221-242, observe.ts:395-425, execute.ts:172-198).
THEOREM SlotInvariantHolds ==
    ASSUME Calm
    PROVE  Spec => []SlotInvariant
<1>1. Init => SlotInvariant
  BY SlotInit
<1>2. TypeOK /\ SlotInvariant /\ [Next]_vars => SlotInvariant'
  <2> SUFFICES ASSUME TypeOK, SlotInvariant, [Next]_vars
               PROVE  SlotInvariant'
    OBVIOUS
  <2>1. CalmInv
    BY DEF CalmInv
  <2>2. ASSUME NEW t \in Ticks,
               Observe(t) \/ Execute(t) \/ Record(t) \/ Finish(t)
        PROVE  SlotInvariant'
    BY <2>1, <2>2, Calm, SlotBegin, SlotReadList, SlotSyncLedger,
       SlotDecideNow, SlotExecute, SlotRecord, SlotFinish DEF Observe
  <2> QED
    BY <2>1, <2>2, Calm, NextCases, SlotSurroundings, SlotStutter
<1> QED
  BY <1>1, <1>2, TypeCorrect, PTL DEF Spec

\* "Two live bids must never overlap" (decide.ts:65) for a single loop whose
\* calls are all answered, however fetches fail and calls are refused.
THEOREM NeverTwoOrders ==
    ASSUME Calm
    PROVE  Spec => []NoOverlap
<1>1. SlotInvariant => NoOverlap
  BY DEF SlotInvariant
<1> QED
  BY <1>1, SlotInvariantHolds, PTL

-----------------------------------------------------------------------------
(* Refinement of BidSlot *)

\* The slot does not see what leaves status and origin of every order alone.
LEMMA UnseenBySlot ==
    ASSUME \A o \in Orders :
             /\ orders'[o].mine = orders[o].mine
             /\ orders[o].mine =>
                  /\ IsLive(o)' = IsLive(o)
                  /\ orders'[o].status \in Firm <=> orders[o].status \in Firm
    PROVE  UNCHANGED Slot!vars
  BY DEF Slot!vars, OwnLive, OwnFirm, OwnEver, IsLive, Live

LEMMA ExecuteImplements ==
    ASSUME Calm, CalmInv, NEW t \in Ticks, Execute(t)
    PROVE  [Slot!Next]_(Slot!vars)
<1>1. PICK p \in tick[t].todo :
        \/ SendCreate(t, p) \/ SendEditPrice(t, p) \/ SendEditSpeed(t, p)
        \/ SendCancel(t, p) \/ ExecutePause(t, p)
  BY DEF Execute
<1>2. \A o \in Orders : orders[o] \in OrderType
  BY DEF CalmInv, TypeOK
<1>3. p.kind \in {"EDIT_PRICE", "EDIT_SPEED", "CANCEL_BID"} =>
        p.order \in Orders /\ orders[p.order].mine
  BY DEF CalmInv, SlotInvariant, PlanShape, OwnedIn, Seen
<1>4. CASE UNCHANGED orders
  BY <1>4, UnseenBySlot DEF IsLive
<1>5. CASE SendCreate(t, p) /\ ~UNCHANGED orders
  <2>1. PICK o \in Orders :
          /\ orders[o].status = "NONE"
          /\ orders' = [orders EXCEPT ![o] =
               [status |-> "ACTIVE", mine |-> TRUE, listed |-> FALSE,
                price |-> p.price, speed |-> p.speed,
                lag |-> 0, drop |-> Cooldown]]
    BY <1>5 DEF SendCreate
  <2>2. OwnLive = {} /\ OwnFirm = {}
    BY <1>5 DEF SendCreate, CalmInv, SlotInvariant, EmptySlot, OwnFirm
  <2>3. o \notin OwnEver
    BY <2>1 DEF OwnEver, CalmInv, SlotInvariant, RowsAreOwn
  <2>4. /\ orders'[o].status = "ACTIVE" /\ orders'[o].mine
        /\ \A x \in Orders : x # o => orders'[x] = orders[x]
    BY <2>1 DEF CalmInv, TypeOK
  <2>5. OwnLive' = {o}
    BY <2>2, <2>4 DEF OwnLive, IsLive, Live, Firm
  <2>6. OwnFirm' = {o}
    BY <2>4, <2>5 DEF OwnFirm, Firm
  <2>7. OwnEver' = OwnEver \cup {o}
    BY <2>4 DEF OwnEver
  <2>8. Slot!Place(o)
    BY <2>2, <2>3, <2>5, <2>6, <2>7 DEF Slot!Place
  <2> QED
    BY <2>8 DEF Slot!Next
<1>6. CASE SendEditPrice(t, p) /\ ~UNCHANGED orders
  BY <1>2, <1>3, <1>6, UnseenBySlot DEF SendEditPrice, IsLive, CalmInv, TypeOK,
     OrderType
<1>7. CASE SendEditSpeed(t, p) /\ ~UNCHANGED orders
  BY <1>2, <1>3, <1>7, UnseenBySlot DEF SendEditSpeed, IsLive, CalmInv, TypeOK,
     OrderType
<1>8. CASE SendCancel(t, p) /\ ~UNCHANGED orders
  <2> DEFINE o == p.order
  <2>1. o \in Orders /\ orders[o].mine /\ IsLive(o) /\ Unwind(o)
    BY <1>3, <1>8 DEF SendCancel
  <2>2. /\ orders'[o].status = "PENDING_CANCEL" /\ orders'[o].mine
        /\ \A x \in Orders : x # o => orders'[x] = orders[x]
        /\ \A x \in Orders : orders'[x].mine = orders[x].mine
    BY <1>2, <2>1 DEF Unwind, CalmInv, TypeOK, OrderType
  <2> HIDE DEF o
  <2>3. OwnEver' = OwnEver
    BY <2>2 DEF OwnEver
  <2>4. OwnLive' = OwnLive
    BY <2>1, <2>2 DEF OwnLive, IsLive, Live
  <2>5. OwnFirm' = OwnFirm \ {o}
    BY <2>2, <2>4 DEF OwnFirm, OwnLive, IsLive, Firm
  <2>6. Slot!Cancel(o) \/ UNCHANGED Slot!vars
    BY <2>3, <2>4, <2>5 DEF Slot!Cancel, Slot!vars
  <2> QED
    BY <2>1, <2>6 DEF Slot!Next
<1> QED
  BY <1>1, <1>4, <1>5, <1>6, <1>7, <1>8 DEF ExecutePause

LEMMA MarketImplements ==
    ASSUME Calm, CalmInv, NEW x \in Orders,
           Surface(x) \/ Leave(x) \/ PauseOrResume(x) \/ PlaceByHand(x)
    PROVE  [Slot!Next]_(Slot!vars)
<1>1. \A o \in Orders : orders[o] \in OrderType
  BY DEF CalmInv, TypeOK
<1>2. CASE Surface(x)
  BY <1>1, <1>2, UnseenBySlot DEF Surface, Market, IsLive, OrderType, CalmInv,
     TypeOK
<1>3. CASE Leave(x)
  <2>1. /\ orders'[x].mine = orders[x].mine
        /\ orders'[x].status = "GONE" /\ IsLive(x)
        /\ \A o \in Orders : o # x => orders'[o] = orders[o]
    BY <1>1, <1>3 DEF Leave, Market, Gone, NoOrder, IsLive, Live, CalmInv, TypeOK
  <2>2. OwnEver' = OwnEver
    BY <2>1 DEF OwnEver
  <2>3. OwnLive' = OwnLive \ {x}
    BY <2>1 DEF OwnLive, IsLive, Live, Firm
  <2>4. OwnFirm' = OwnFirm \ {x}
    BY <2>1, <2>3 DEF OwnFirm, OwnLive
  <2>5. Slot!Leave(x) \/ UNCHANGED Slot!vars
    BY <2>2, <2>3, <2>4 DEF Slot!Leave, Slot!vars, OwnFirm
  <2> QED
    BY <2>5 DEF Slot!Next
<1>4. CASE PauseOrResume(x)
  BY <1>1, <1>4, UnseenBySlot DEF PauseOrResume, Market, IsLive, Live, Firm,
     OrderType, CalmInv, TypeOK
<1>5. CASE PlaceByHand(x)
  <2>1. orders[x].mine = FALSE
    BY <1>1, <1>5 DEF PlaceByHand, CalmInv, SlotInvariant, RowsAreOwn, OrderType
  <2>2. /\ orders'[x].mine = FALSE
        /\ \A o \in Orders : o # x => orders'[o] = orders[o]
    BY <1>5 DEF PlaceByHand, Market, NoOrder, CalmInv, TypeOK
  <2>3. \A o \in Orders :
          /\ orders'[o].mine = orders[o].mine
          /\ orders[o].mine => orders'[o] = orders[o]
    BY <2>1, <2>2
  <2> QED
    BY <2>3, UnseenBySlot DEF IsLive
<1> QED
  BY <1>2, <1>3, <1>4, <1>5

\* When Calm, every step of the controller is a step of the abstract slot or
\* invisible to it: an order is placed only into an empty slot, under an id
\* never used before (decide.ts:221-242).
THEOREM ImplementsSlot ==
    ASSUME Calm
    PROVE  Spec => SlotSpec
<1>1. Init => Slot!Init
  BY DEF Init, Slot!Init, OwnLive, OwnFirm, OwnEver, IsLive, NoOrder, Live, Firm
<1>2. TypeOK /\ SlotInvariant /\ [Next]_vars => [Slot!Next]_(Slot!vars)
  <2> SUFFICES ASSUME TypeOK, SlotInvariant, [Next]_vars
               PROVE  [Slot!Next]_(Slot!vars)
    OBVIOUS
  <2>1. CalmInv
    BY DEF CalmInv
  <2>2. CASE UNCHANGED orders
    BY <2>2, UnseenBySlot DEF IsLive
  <2>3. ASSUME NEW t \in Ticks,
               Observe(t) \/ Execute(t) \/ Record(t) \/ Finish(t)
        PROVE  [Slot!Next]_(Slot!vars)
    <3>1. CASE Execute(t)
      BY <2>1, <3>1, Calm, ExecuteImplements
    <3>2. CASE Observe(t) \/ Record(t) \/ Finish(t)
      <4>1. UNCHANGED orders
        BY <3>2 DEF Observe, Begin, ReadList, SyncLedger, DecideNow, Record,
           Finish
      <4> QED
        BY <2>2, <4>1
    <3> QED
      BY <2>3, <3>1, <3>2
  <2>4. CASE Surroundings
    <3>1. CASE Minute
      <4>1. \A o \in Orders : orders[o] \in OrderType
        BY DEF TypeOK
      <4>2. \A o \in Orders : /\ orders'[o].mine = orders[o].mine
                              /\ orders'[o].status = orders[o].status
        BY <3>1, <4>1 DEF Minute, OrderType
      <4> QED
        BY <4>2, UnseenBySlot DEF IsLive
    <3>2. \A o \in Orders : ~CancelStaleUrl(o) /\ ~RecordStaleUrl(o)
      BY Calm, <2>1 DEF CancelStaleUrl, RecordStaleUrl, Calm, CalmInv, SlotInvariant
    <3>3. CASE (\E mode \in RunModes : SetRunMode(mode)) \/ Crash
      BY <2>2, <3>3 DEF SetRunMode, Crash
    <3> QED
      BY <2>1, <2>4, <3>1, <3>2, <3>3, Calm, MarketImplements DEF Surroundings
  <2>5. CASE UNCHANGED vars
    BY <2>2, <2>5 DEF vars
  <2> QED
    BY <2>3, <2>4, <2>5, NextCases
<1> QED
  BY <1>1, <1>2, TypeCorrect, SlotInvariantHolds, Calm, PTL
     DEF Spec, SlotSpec, Slot!Spec
=============================================================================
