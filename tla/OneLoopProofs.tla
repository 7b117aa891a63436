--------------------------- MODULE OneLoopProofs ----------------------------
(* The invariants of OneLoop, for every set of order ids, every              *)
(* configuration and every bound.                                            *)
EXTENDS OneLoop, ControllerProofs

-----------------------------------------------------------------------------
(* What each step of the one tick does *)

LEMMA AfterBegin ==
    ASSUME TypeOK, OneTickAtATime, NEW t \in Ticks, Begin(t)
    PROVE  /\ \A u \in Ticks : u = t
           /\ UNCHANGED <<orders, ledger, cancelled, faults>>
           /\ tick[t].pc = "idle"
           /\ tick'[t].pc = "begun"
           /\ tick'[t].ids = KnownIds
           /\ tick'[t].active = Cardinality({o \in Orders : RowActive(o)})
           /\ tick'[t].old = OldRows
           /\ tick'[t].cooling =
                {o \in Orders : HasRow(o) /\ ledger[o].cool < Cooldown}
           /\ tick'[t].todo = {} /\ tick'[t].sent = {}
           /\ Seen(t)' = {} /\ OwnedIn(t)' = {}
<1>1. tick'[t] = [IdleTick EXCEPT
          !.pc = "begun",
          !.mode = runMode,
          !.ids = KnownIds,
          !.active = Cardinality({o \in Orders : RowActive(o)}),
          !.old = OldRows,
          !.cooling = {o \in Orders : HasRow(o) /\ ledger[o].cool < Cooldown}]
  BY DEF Begin, Becomes, TypeOK
<1>2. /\ tick'[t].pc = "begun"
      /\ tick'[t].ids = KnownIds
      /\ tick'[t].active = Cardinality({o \in Orders : RowActive(o)})
      /\ tick'[t].old = OldRows
      /\ tick'[t].cooling =
           {o \in Orders : HasRow(o) /\ ledger[o].cool < Cooldown}
      /\ tick'[t].todo = {} /\ tick'[t].sent = {}
      /\ tick'[t].list = [o \in Orders |-> NotListed]
  BY <1>1 DEF IdleTick
<1>3. Seen(t)' = {} /\ OwnedIn(t)' = {}
  BY <1>2 DEF Seen, OwnedIn, NotListed
<1> QED
  BY <1>2, <1>3 DEF Begin, OneTickAtATime

\* The list arrives complete, or misses orders by a fault, or not at all.
LEMMA AfterReadList ==
    ASSUME TypeOK, OneTickAtATime, NEW t \in Ticks, ReadList(t)
    PROVE  /\ \A u \in Ticks : u = t
           /\ UNCHANGED <<orders, ledger, cancelled>>
           /\ faults' = faults \/ faults' = faults + 1
           /\ tick[t].pc = "begun"
           /\ tick'[t].pc = "read"
           /\ tick'[t].ids = tick[t].ids /\ tick'[t].old = tick[t].old
           /\ tick'[t].active = tick[t].active
           /\ tick'[t].cooling = tick[t].cooling
           /\ tick'[t].todo = tick[t].todo /\ tick'[t].sent = tick[t].sent
           /\ Seen(t)' \subseteq Listing
           /\ OwnedIn(t)' = Seen(t)' \cap tick[t].ids
           /\ \A o \in Seen(t)' : tick'[t].list[o] = Entry(o)
           /\ tick'[t].bidsOk /\ Seen(t)' # Listing =>
                "blip" \in Faults /\ faults < MaxFaults /\ faults' = faults + 1
<1>1. PICK ok \in BOOLEAN, ids \in SUBSET Listing :
        /\ Receive(t, ok, ids)
        /\ ok /\ ids # Listing => Fault("blip")
  BY DEF ReadList
<1>2. /\ tick'[t].pc = "read"
      /\ tick'[t].bidsOk = ok
      /\ tick'[t].list = [o \in Orders |->
            IF o \in ids THEN Entry(o) ELSE NotListed]
      /\ tick'[t].ids = tick[t].ids /\ tick'[t].active = tick[t].active
      /\ tick'[t].old = tick[t].old /\ tick'[t].cooling = tick[t].cooling
      /\ tick'[t].todo = tick[t].todo /\ tick'[t].sent = tick[t].sent
  BY <1>1 DEF Receive, Becomes, TypeOK, TickType
<1>3. Seen(t)' = ids
  BY <1>1, <1>2 DEF Seen, NotListed, Entry, Listing, IsLive, Live, Firm
<1>4. OwnedIn(t)' = Seen(t)' \cap tick[t].ids
  BY <1>2 DEF OwnedIn
<1>5. faults' = faults \/ faults' = faults + 1
  BY DEF ReadList, Fault
<1>6. UNCHANGED <<orders, ledger, cancelled>> /\ tick[t].pc = "begun"
  BY DEF ReadList
<1>7. \A o \in Seen(t)' : tick'[t].list[o] = Entry(o)
  BY <1>1, <1>2, <1>3 DEF Listing
<1>8. \A u \in Ticks : u = t
  BY DEF OneTickAtATime
<1> QED
  BY <1>1, <1>2, <1>3, <1>4, <1>5, <1>6, <1>7, <1>8 DEF Fault

\* No row appears that the tick did not know, and none is lost.
LEMMA AfterSyncLedger ==
    ASSUME TypeOK, OneTickAtATime, NEW t \in Ticks, SyncLedger(t)
    PROVE  /\ \A u \in Ticks : u = t
           /\ UNCHANGED <<orders, cancelled, faults>>
           /\ tick[t].pc = "read"
           /\ tick'[t].pc = "synced"
           /\ tick'[t].bidsOk = tick[t].bidsOk
           /\ tick'[t].ids = tick[t].ids /\ tick'[t].old = tick[t].old
           /\ tick'[t].active = tick[t].active
           /\ tick'[t].cooling = tick[t].cooling
           /\ tick'[t].list = tick[t].list
           /\ tick'[t].todo = tick[t].todo /\ tick'[t].sent = tick[t].sent
           /\ Seen(t)' = Seen(t) /\ OwnedIn(t)' = OwnedIn(t)
           /\ \A o \in OwnedIn(t) : RowActive(o)'
           /\ \A o \in Orders :
                 /\ ledger'[o].age = ledger[o].age
                 /\ ledger'[o].cool = ledger[o].cool
                 /\ HasRow(o) => HasRow(o)'
                 /\ HasRow(o)' => HasRow(o) \/ o \in OwnedIn(t)
                 /\ o \notin OwnedIn(t) \cup Vanished(t) =>
                      ledger'[o].status = ledger[o].status
<1>1. /\ tick'[t].pc = "synced"
      /\ tick'[t].bidsOk = tick[t].bidsOk
      /\ tick'[t].list = tick[t].list
      /\ tick'[t].ids = tick[t].ids /\ tick'[t].active = tick[t].active
      /\ tick'[t].old = tick[t].old /\ tick'[t].cooling = tick[t].cooling
      /\ tick'[t].todo = tick[t].todo /\ tick'[t].sent = tick[t].sent
  BY DEF SyncLedger, Becomes, TypeOK, TickType
<1>2. Seen(t)' = Seen(t) /\ OwnedIn(t)' = OwnedIn(t)
  BY <1>1 DEF Seen, OwnedIn
<1>3. \A o \in Orders : ledger[o] \in RowType /\ tick[t].list[o] \in ListEntry
  BY DEF TypeOK, TickType
<1>4. \A o \in Orders :
        /\ ledger'[o].age = ledger[o].age
        /\ ledger'[o].cool = ledger[o].cool
        /\ o \in OwnedIn(t) => ledger'[o].status = tick[t].list[o].status
        /\ o \notin OwnedIn(t) =>
             ledger'[o].status =
               IF o \in Vanished(t) THEN "CANCELED" ELSE ledger[o].status
  BY <1>3 DEF SyncLedger, RowType
<1>5. \A o \in OwnedIn(t) : RowActive(o)'
  BY <1>3, <1>4 DEF OwnedIn, Seen, ListEntry, RowActive, HasRow, Terminal,
     Live, Firm
<1>6. \A o \in Orders :
        /\ HasRow(o) => HasRow(o)'
        /\ HasRow(o)' => HasRow(o) \/ o \in OwnedIn(t)
  <2>1. \A o \in Vanished(t) : HasRow(o)
    BY DEF Vanished, RowActive
  <2> QED
    BY <1>4, <1>5, <2>1 DEF HasRow, RowActive
<1> QED
  BY <1>1, <1>2, <1>4, <1>5, <1>6 DEF SyncLedger, OneTickAtATime

LEMMA AfterDecideNow ==
    ASSUME TypeOK, OneTickAtATime, NEW t \in Ticks, NEW quote, NEW reachable,
           NEW stale, NEW held, DecideNow(t, quote, reachable, stale, held)
    PROVE  /\ \A u \in Ticks : u = t
           /\ UNCHANGED <<orders, ledger, cancelled, faults>>
           /\ tick[t].pc = "synced"
           /\ tick'[t].pc = "acting"
           /\ tick'[t].ids = tick[t].ids /\ tick'[t].old = tick[t].old
           /\ tick'[t].cooling = tick[t].cooling
           /\ tick'[t].list = tick[t].list
           /\ tick'[t].sent = tick[t].sent
           /\ tick'[t].todo =
                Dispatched(Config, View(t, quote, poolFails', stale, held))
           /\ Seen(t)' = Seen(t) /\ OwnedIn(t)' = OwnedIn(t)
<1>1. /\ tick'[t].pc = "acting"
      /\ tick'[t].ids = tick[t].ids /\ tick'[t].old = tick[t].old
      /\ tick'[t].cooling = tick[t].cooling
      /\ tick'[t].list = tick[t].list
      /\ tick'[t].sent = tick[t].sent
      /\ tick'[t].todo =
           Dispatched(Config, View(t, quote, poolFails', stale, held))
  BY DEF DecideNow, Becomes, TypeOK, TickType
<1>2. Seen(t)' = Seen(t) /\ OwnedIn(t)' = OwnedIn(t)
  BY <1>1 DEF Seen, OwnedIn
<1> QED
  BY <1>1, <1>2 DEF DecideNow, OneTickAtATime

-----------------------------------------------------------------------------
(* executeLive() *)

\* What a call that takes effect does to the market.
TookEffect(p, o) ==
    /\ \A x \in Orders : x # o => orders'[x] = orders[x]
    /\ \/ /\ p.kind = "CREATE_BID"
          /\ orders[o].status = "NONE"
          /\ orders'[o] = [status |-> "ACTIVE", mine |-> TRUE, listed |-> FALSE,
                           price |-> p.price, speed |-> p.speed,
                           lag |-> 0, drop |-> Cooldown]
       \/ /\ p.kind = "EDIT_PRICE" /\ o = p.order
          /\ PriceAcceptable(o, p.price)
          /\ orders'[o] = [orders[o] EXCEPT
               !.price = p.price,
               !.drop = IF p.price < orders[o].price THEN 0 ELSE @]
       \/ /\ p.kind = "EDIT_SPEED" /\ o = p.order
          /\ orders[o].status \in Firm
          /\ orders'[o] = [orders[o] EXCEPT !.speed = p.speed]
       \/ /\ p.kind = "CANCEL_BID" /\ o = p.order
          /\ IsLive(o)
          /\ orders'[o] = [orders[o] EXCEPT !.status = "PENDING_CANCEL"]

\* What is the same after any call.
CallFrame(t, p) ==
    /\ UNCHANGED <<ledger, cancelled>>
    /\ tick[t].pc = "acting" /\ tick'[t].pc = "acting"
    /\ tick[t].sent = {}
    /\ tick'[t].todo = tick[t].todo \ {p}
    /\ tick'[t].ids = tick[t].ids /\ tick'[t].old = tick[t].old
    /\ tick'[t].cooling = tick[t].cooling
    /\ tick'[t].list = tick[t].list
    /\ Seen(t)' = Seen(t) /\ OwnedIn(t)' = OwnedIn(t)

LEMMA FailedFrame ==
    ASSUME TypeOK, NEW t \in Ticks, NEW p, Failed(t, p)
    PROVE  /\ tick'[t].pc = tick[t].pc
           /\ tick'[t].todo = tick[t].todo \ {p}
           /\ tick'[t].sent = tick[t].sent
           /\ tick'[t].ids = tick[t].ids /\ tick'[t].old = tick[t].old
           /\ tick'[t].cooling = tick[t].cooling
           /\ tick'[t].list = tick[t].list
<1> DEFINE failed == tick[t].createFailed \/ p.kind = "CREATE_BID"
           state == [tick[t] EXCEPT !.todo = @ \ {p}, !.createFailed = failed]
<1>1. tick'[t] = state
  BY DEF Failed, Becomes, TypeOK
<1> HIDE DEF failed
<1>2. /\ state.pc = tick[t].pc
      /\ state.todo = tick[t].todo \ {p}
      /\ state.sent = tick[t].sent
      /\ state.ids = tick[t].ids /\ state.old = tick[t].old
      /\ state.cooling = tick[t].cooling
      /\ state.list = tick[t].list
  BY DEF TypeOK, TickType
<1> HIDE DEF state
<1> QED
  BY <1>1, <1>2

LEMMA AcceptedFrame ==
    ASSUME TypeOK, NEW t \in Ticks, NEW p, NEW o, Accepted(t, p, o)
    PROVE  /\ tick'[t].pc = tick[t].pc
           /\ tick'[t].todo = tick[t].todo \ {p}
           /\ tick'[t].sent = {[proposal |-> p, order |-> o]}
           /\ tick'[t].ids = tick[t].ids /\ tick'[t].old = tick[t].old
           /\ tick'[t].cooling = tick[t].cooling
           /\ tick'[t].list = tick[t].list
           /\ faults' = faults
  BY DEF Accepted, Becomes, TypeOK, TickType

LEMMA PauseFrame ==
    ASSUME TypeOK, NEW t \in Ticks, NEW p, ExecutePause(t, p)
    PROVE  /\ tick'[t].pc = tick[t].pc
           /\ tick'[t].todo = tick[t].todo \ {p}
           /\ tick'[t].sent = tick[t].sent
           /\ tick'[t].ids = tick[t].ids /\ tick'[t].old = tick[t].old
           /\ tick'[t].cooling = tick[t].cooling
           /\ tick'[t].list = tick[t].list
  BY DEF ExecutePause, Becomes, TypeOK, TickType

\* A call fails and nothing happens, or it takes effect and its record is
\* pending, unless its answer is lost.
LEMMA AfterCall ==
    ASSUME TypeOK, OneTickAtATime, NEW t \in Ticks, Execute(t)
    PROVE  /\ \A u \in Ticks : u = t
           /\ faults' = faults \/ faults' = faults + 1
           /\ \E p \in tick[t].todo :
                 /\ CallFrame(t, p)
                 /\ \/ tick'[t].sent = {}
                    \/ \E o : tick'[t].sent = {[proposal |-> p, order |-> o]}
                 /\ Answered /\ (p.kind \in {"EDIT_PRICE", "EDIT_SPEED",
                                             "CANCEL_BID"}
                                    => p.order \in Orders) =>
                      \/ UNCHANGED orders /\ tick'[t].sent = {}
                      \/ \E o \in Orders :
                            /\ TookEffect(p, o)
                            /\ tick'[t].sent = {[proposal |-> p, order |-> o]}
<1>1. PICK p \in tick[t].todo :
        \/ SendCreate(t, p) \/ SendEditPrice(t, p) \/ SendEditSpeed(t, p)
        \/ SendCancel(t, p) \/ ExecutePause(t, p)
  BY DEF Execute
<1>2. /\ tick[t].pc = "acting" /\ tick[t].sent = {}
      /\ UNCHANGED <<ledger, cancelled>>
  BY <1>1 DEF SendCreate, SendEditPrice, SendEditSpeed, SendCancel,
     ExecutePause, MaySend
<1>3. \/ Failed(t, p) \/ ExecutePause(t, p)
      \/ \E o : Accepted(t, p, o)
  BY <1>1 DEF SendCreate, SendEditPrice, SendEditSpeed, SendCancel,
     AnsweredOrLost
<1>4. faults' = faults \/ faults' = faults + 1
  BY <1>1 DEF SendCreate, SendEditPrice, SendEditSpeed, SendCancel,
     ExecutePause, AnsweredOrLost, Accepted, Fault
<1>5. /\ tick'[t].pc = tick[t].pc
      /\ tick'[t].todo = tick[t].todo \ {p}
      /\ tick'[t].ids = tick[t].ids /\ tick'[t].old = tick[t].old
      /\ tick'[t].cooling = tick[t].cooling
      /\ tick'[t].list = tick[t].list
      /\ \/ tick'[t].sent = {}
         \/ \E o : tick'[t].sent = {[proposal |-> p, order |-> o]}
  <2>1. CASE Failed(t, p)
    BY <1>2, <2>1, FailedFrame
  <2>2. CASE ExecutePause(t, p)
    BY <1>2, <2>2, PauseFrame
  <2>3. ASSUME NEW o, Accepted(t, p, o)
        PROVE  /\ tick'[t].pc = tick[t].pc
               /\ tick'[t].todo = tick[t].todo \ {p}
               /\ tick'[t].ids = tick[t].ids /\ tick'[t].old = tick[t].old
               /\ tick'[t].cooling = tick[t].cooling
               /\ tick'[t].list = tick[t].list
               /\ tick'[t].sent = {[proposal |-> p, order |-> o]}
    BY <2>3, AcceptedFrame
  <2> QED
    BY <1>3, <2>1, <2>2, <2>3
<1>6. CallFrame(t, p)
  BY <1>2, <1>5 DEF CallFrame, Seen, OwnedIn
<1>7. ASSUME Answered,
             p.kind \in {"EDIT_PRICE", "EDIT_SPEED", "CANCEL_BID"}
                => p.order \in Orders
      PROVE  \/ UNCHANGED orders /\ tick'[t].sent = {}
             \/ \E o \in Orders :
                   /\ TookEffect(p, o)
                   /\ tick'[t].sent = {[proposal |-> p, order |-> o]}
  <2>1. \A o : AnsweredOrLost(t, p, o) => Accepted(t, p, o)
    BY <1>7 DEF AnsweredOrLost, Fault, Answered
  <2>2. Failed(t, p) \/ ExecutePause(t, p) => tick'[t].sent = {}
    BY <1>2, FailedFrame, PauseFrame
  <2>3. SUFFICES ASSUME NEW o \in Orders, Accepted(t, p, o), TookEffect(p, o)
                 PROVE  tick'[t].sent = {[proposal |-> p, order |-> o]}
    <3>1. CASE SendCreate(t, p)
      <4>1. SUFFICES ASSUME NEW o \in Orders,
                            orders[o].status = "NONE",
                            orders' = [orders EXCEPT ![o] =
                              [status |-> "ACTIVE", mine |-> TRUE,
                               listed |-> FALSE, price |-> p.price,
                               speed |-> p.speed, lag |-> 0,
                               drop |-> Cooldown]]
                     PROVE  TookEffect(p, o)
        BY <2>1, <2>2, <2>3, <3>1 DEF SendCreate
      <4> QED
        BY <3>1, <4>1 DEF SendCreate, TookEffect, TypeOK
    <3>2. CASE SendEditPrice(t, p)
      <4>1. SUFFICES ASSUME PriceAcceptable(p.order, p.price),
                            orders' = [orders EXCEPT
                              ![p.order].price = p.price,
                              ![p.order].drop =
                                 IF p.price < orders[p.order].price
                                 THEN 0 ELSE @]
                     PROVE  TookEffect(p, p.order)
        BY <1>7, <2>1, <2>2, <2>3, <3>2 DEF SendEditPrice
      <4> QED
        BY <1>7, <3>2, <4>1 DEF SendEditPrice, TookEffect, TypeOK, OrderType
    <3>3. CASE SendEditSpeed(t, p)
      <4>1. SUFFICES ASSUME orders[p.order].status \in Firm,
                            orders' = [orders EXCEPT ![p.order].speed = p.speed]
                     PROVE  TookEffect(p, p.order)
        BY <1>7, <2>1, <2>2, <2>3, <3>3 DEF SendEditSpeed
      <4> QED
        BY <1>7, <3>3, <4>1 DEF SendEditSpeed, TookEffect, TypeOK, OrderType
    <3>4. CASE SendCancel(t, p)
      <4>1. SUFFICES ASSUME IsLive(p.order), Unwind(p.order)
                     PROVE  TookEffect(p, p.order)
        BY <1>7, <2>1, <2>2, <2>3, <3>4 DEF SendCancel
      <4> QED
        BY <1>7, <3>4, <4>1 DEF SendCancel, Unwind, TookEffect, TypeOK,
           OrderType
    <3> QED
      BY <1>1, <2>2, <3>1, <3>2, <3>3, <3>4 DEF ExecutePause
  <2> QED
    BY <2>3, AcceptedFrame
<1> QED
  BY <1>4, <1>5, <1>6, <1>7 DEF OneTickAtATime

\* The write after an answer: one row changes.
LEMMA AfterRecord ==
    ASSUME TypeOK, OneTickAtATime, NEW t \in Ticks, Record(t)
    PROVE  /\ \A u \in Ticks : u = t
           /\ UNCHANGED <<orders, cancelled, faults>>
           /\ tick'[t].pc = tick[t].pc
           /\ tick'[t].todo = tick[t].todo
           /\ tick'[t].sent = {}
           /\ tick'[t].ids = tick[t].ids /\ tick'[t].old = tick[t].old
           /\ tick'[t].cooling = tick[t].cooling
           /\ tick'[t].active = tick[t].active
           /\ tick'[t].bidsOk = tick[t].bidsOk
           /\ tick'[t].list = tick[t].list
           /\ Seen(t)' = Seen(t) /\ OwnedIn(t)' = OwnedIn(t)
           /\ \E c \in tick[t].sent :
                 /\ c.order \in Orders
                 /\ \A o \in Orders : o # c.order => ledger'[o] = ledger[o]
                 /\ ledger'[c.order] = Recorded(ledger[c.order], c.proposal)
<1>1. PICK c \in tick[t].sent :
        /\ ledger' = [ledger EXCEPT ![c.order] = Recorded(@, c.proposal)]
        /\ Becomes(t, [tick[t] EXCEPT
             !.sent = {},
             !.cancels = IF c.proposal.kind = "CANCEL_BID"
                         THEN @ \cup {c.order} ELSE @])
        /\ UNCHANGED <<orders, runMode, poolFails, cancelled, faults>>
  BY DEF Record
<1>2. c.order \in Orders
  BY DEF TypeOK, TickType
<1>3. /\ tick'[t].pc = tick[t].pc
      /\ tick'[t].todo = tick[t].todo
      /\ tick'[t].sent = {}
      /\ tick'[t].ids = tick[t].ids /\ tick'[t].old = tick[t].old
      /\ tick'[t].cooling = tick[t].cooling
      /\ tick'[t].active = tick[t].active
      /\ tick'[t].bidsOk = tick[t].bidsOk
      /\ tick'[t].list = tick[t].list
  BY <1>1 DEF Becomes, TypeOK, TickType
<1>4. Seen(t)' = Seen(t) /\ OwnedIn(t)' = OwnedIn(t)
  BY <1>3 DEF Seen, OwnedIn
<1>5. /\ \A o \in Orders : o # c.order => ledger'[o] = ledger[o]
      /\ ledger'[c.order] = Recorded(ledger[c.order], c.proposal)
  BY <1>1, <1>2 DEF TypeOK
<1> QED
  BY <1>1, <1>2, <1>3, <1>4, <1>5 DEF OneTickAtATime

\* What the write makes of the row.
LEMMA RowAfterRecord ==
    ASSUME NEW row \in RowType, NEW p, NEW new, new = Recorded(row, p)
    PROVE  /\ p.kind = "CREATE_BID" \/ row.status # "NOROW"
                => new.status # "NOROW"
           /\ p.kind = "CREATE_BID" =>
                new = IF row.status = "NOROW" THEN NewRow ELSE row
           /\ p.kind # "CREATE_BID" =>
                /\ new.age = row.age
                /\ new.cool = IF Lowers(p) THEN 0 ELSE row.cool
                /\ new.status =
                     IF p.kind = "CANCEL_BID" THEN "CANCELED" ELSE row.status
  BY DEF Recorded, RowType, NewRow

LEMMA AfterFinish ==
    ASSUME TypeOK, OneTickAtATime, NEW t \in Ticks, Finish(t)
    PROVE  /\ \A u \in Ticks : u = t
           /\ UNCHANGED <<orders, ledger, cancelled, faults>>
           /\ tick'[t] = IdleTick
           /\ Seen(t)' = {} /\ OwnedIn(t)' = {}
<1>1. tick'[t] = IdleTick
  BY DEF Finish, Becomes, TypeOK
<1>2. Seen(t)' = {} /\ OwnedIn(t)' = {}
  BY <1>1 DEF Seen, OwnedIn, IdleTick, NotListed
<1> QED
  BY <1>1, <1>2 DEF Finish, OneTickAtATime

-----------------------------------------------------------------------------
(* What everything else does *)

\* What becomes of an order outside the daemon's calls: it stays as it was but
\* for its place in the list, it leaves, or it is a stranger's new order.
LEMMA AfterMarket ==
    ASSUME TypeOK, NEW x \in Orders,
           Surface(x) \/ Leave(x) \/ PauseOrResume(x) \/ PlaceByHand(x)
    PROVE  /\ UNCHANGED <<ledger, tick, cancelled, faults>>
           /\ \A o \in Orders : o # x => orders'[o] = orders[o]
           /\ \/ /\ IsLive(x) /\ orders[x].status = orders'[x].status
                 /\ orders'[x].listed
                 /\ orders'[x].mine = orders[x].mine
                 /\ orders'[x].price = orders[x].price
                 /\ orders'[x].drop = orders[x].drop
              \/ /\ IsLive(x) /\ orders'[x].status = "GONE"
                 /\ orders'[x].mine = orders[x].mine
              \/ /\ orders[x].status \in Firm /\ orders'[x].status \in Firm
                 /\ orders'[x].listed = orders[x].listed
                 /\ orders'[x].lag = orders[x].lag
                 /\ orders'[x].mine = orders[x].mine
                 /\ orders'[x].price = orders[x].price
                 /\ orders'[x].drop = orders[x].drop
              \/ /\ orders[x].status = "NONE" /\ orders'[x].status = "ACTIVE"
                 /\ orders'[x].listed /\ ~orders'[x].mine
                 /\ orders'[x].drop = Cooldown
<1>1. UNCHANGED <<ledger, tick, cancelled, faults>>
  BY DEF Surface, Leave, PauseOrResume, PlaceByHand, Market
<1>2. \A o \in Orders : orders[o] \in OrderType
  BY DEF TypeOK
<1>3. CASE Surface(x)
  BY <1>1, <1>2, <1>3 DEF Surface, Hidden, Market, OrderType, TypeOK
<1>4. CASE Leave(x)
  BY <1>1, <1>2, <1>4 DEF Leave, Market, Gone, NoOrder, IsLive, TypeOK, Live
<1>5. CASE PauseOrResume(x)
  BY <1>1, <1>2, <1>5 DEF PauseOrResume, Market, OrderType, TypeOK, Firm
<1>6. CASE PlaceByHand(x)
  BY <1>1, <1>2, <1>6 DEF PlaceByHand, Market, NoOrder, TypeOK
<1> QED
  BY <1>3, <1>4, <1>5, <1>6

LEMMA AfterMinute ==
    ASSUME TypeOK, Minute
    PROVE  /\ UNCHANGED <<tick, cancelled, faults>>
           /\ \A o \in Orders :
                 /\ orders'[o].status = orders[o].status
                 /\ orders'[o].mine = orders[o].mine
                 /\ orders'[o].listed = orders[o].listed
                 /\ orders'[o].price = orders[o].price
                 /\ IsLive(o) => orders'[o].drop = Older(orders[o].drop, Cooldown)
                 /\ o \in Hidden => orders'[o].lag = orders[o].lag + 1
                 /\ ledger'[o].status = ledger[o].status
                 /\ HasRow(o) =>
                      /\ ledger'[o].cool = Older(ledger[o].cool, Cooldown)
                      /\ ledger'[o].age = Older(ledger[o].age, Grace + 1)
<1>1. \A o \in Orders : orders[o] \in OrderType /\ ledger[o] \in RowType
  BY DEF TypeOK
<1>2. ASSUME NEW o \in Orders
      PROVE  /\ orders'[o].status = orders[o].status
             /\ orders'[o].mine = orders[o].mine
             /\ orders'[o].listed = orders[o].listed
             /\ orders'[o].price = orders[o].price
             /\ IsLive(o) => orders'[o].drop = Older(orders[o].drop, Cooldown)
             /\ o \in Hidden => orders'[o].lag = orders[o].lag + 1
  BY <1>1 DEF Minute, OrderType, Hidden
<1>3. ASSUME NEW o \in Orders
      PROVE  /\ ledger'[o].status = ledger[o].status
             /\ HasRow(o) =>
                  /\ ledger'[o].cool = Older(ledger[o].cool, Cooldown)
                  /\ ledger'[o].age = Older(ledger[o].age, Grace + 1)
  BY <1>1 DEF Minute, RowType
<1> QED
  BY <1>2, <1>3 DEF Minute

\* The stale-URL route begins to unwind an order, or records that it has.
LEMMA AfterStaleUrl ==
    ASSUME TypeOK, NEW x \in Orders, CancelStaleUrl(x) \/ RecordStaleUrl(x)
    PROVE  /\ UNCHANGED <<tick, faults>>
           /\ \A o \in Orders : o # x =>
                 orders'[o] = orders[o] /\ ledger'[o] = ledger[o]
           /\ cancelled' \subseteq cancelled \cup {x}
           /\ \/ /\ UNCHANGED ledger
                 /\ HasRow(x)
                 /\ \/ ~IsLive(x) /\ UNCHANGED orders
                    \/ /\ IsLive(x)
                       /\ orders'[x] =
                            [orders[x] EXCEPT !.status = "PENDING_CANCEL"]
              \/ /\ UNCHANGED orders
                 /\ x \in cancelled
                 /\ ledger'[x] = [ledger[x] EXCEPT !.status = "CANCELED"]
<1>1. CASE CancelStaleUrl(x)
  BY <1>1 DEF CancelStaleUrl, Unwind, HasRow, TypeOK
<1>2. CASE RecordStaleUrl(x)
  BY <1>2 DEF RecordStaleUrl, TypeOK
<1> QED
  BY <1>1, <1>2

-----------------------------------------------------------------------------
(* A PAUSE has a reason *)

\* A plan with a PAUSE is that PAUSE alone, for an order the tick does not
\* know.
LEMMA PauseShape ==
    ASSUME NEW v, Pause \in Dispatched(Config, v)
    PROVE  Dispatched(Config, v) = {Pause} /\ v.unknown # {}
<1>1. v.unknown # {}
  BY DispatchShape DEF Pause
<1>2. Dispatched(Config, v) \subseteq {Pause}
  BY <1>1 DEF Dispatched, Proposals
<1> QED
  BY <1>1, <1>2

LEMMA RowsReadInit == Init => RowsAsRead
  BY DEF Init, RowsAsRead, IdleTick

\* Rows come and go nowhere, and the tick is as it was.
LEMMA RowsReadKept ==
    ASSUME TypeOK, RowsAsRead, UNCHANGED tick,
           cancelled' \subseteq KnownIds,
           \A o \in Orders : HasRow(o)' = HasRow(o)
    PROVE  RowsAsRead'
<1>1. KnownIds' = KnownIds
  BY DEF KnownIds
<1>2. \A t \in Ticks : Seen(t)' = Seen(t)
  BY DEF Seen
<1> QED
  BY <1>1, <1>2 DEF RowsAsRead

LEMMA RowsReadTick ==
    ASSUME TypeOK, OneTickAtATime, RowsAsRead, NEW t \in Ticks,
           Observe(t) \/ Execute(t) \/ Record(t) \/ Finish(t)
    PROVE  RowsAsRead'
<1>1. CASE Begin(t)
  <2>1. KnownIds' = KnownIds
    BY <1>1, AfterBegin DEF KnownIds, HasRow
  <2> QED
    BY <1>1, <2>1, AfterBegin DEF RowsAsRead
<1>2. CASE ReadList(t)
  <2>1. KnownIds' = KnownIds
    BY <1>2, AfterReadList DEF KnownIds, HasRow
  <2>2. tick[t].todo = {} /\ tick[t].sent = {} /\ tick[t].ids = KnownIds
    BY <1>2, AfterReadList DEF RowsAsRead
  <2> QED
    BY <1>2, <2>1, <2>2, AfterReadList DEF RowsAsRead
<1>3. CASE SyncLedger(t)
  <2>1. tick[t].todo = {} /\ tick[t].sent = {} /\ tick[t].ids = KnownIds
    BY <1>3, AfterSyncLedger DEF RowsAsRead
  <2>2. KnownIds' = KnownIds
    BY <1>3, <2>1, AfterSyncLedger DEF KnownIds, OwnedIn
  <2> QED
    BY <1>3, <2>1, <2>2, AfterSyncLedger DEF RowsAsRead
<1>4. ASSUME NEW quote \in Quotes, NEW reachable \in Probes,
             NEW stale \in NodeStale, NEW held \in Holds,
             DecideNow(t, quote, reachable, stale, held)
      PROVE  RowsAsRead'
  <2> DEFINE v == View(t, quote, poolFails', stale, held)
  <2>1. tick[t].sent = {} /\ tick[t].ids = KnownIds
    BY <1>4, AfterDecideNow DEF RowsAsRead
  <2>2. KnownIds' = KnownIds
    BY <1>4, AfterDecideNow DEF KnownIds, HasRow
  <2>3. v.unknown = Seen(t) \ tick[t].ids
    BY DEF View
  <2> HIDE DEF v
  <2>4. Pause \in Dispatched(Config, v) =>
          Dispatched(Config, v) = {Pause} /\ ~(Seen(t) \subseteq tick[t].ids)
    BY <2>3, PauseShape
  <2>5. tick'[t].todo = Dispatched(Config, v)
    BY <1>4, AfterDecideNow DEF v
  <2> QED
    BY <1>4, <2>1, <2>2, <2>4, <2>5, AfterDecideNow DEF RowsAsRead
<1>5. CASE Execute(t)
  <2>1. PICK p \in tick[t].todo : CallFrame(t, p)
    BY <1>5, AfterCall
  <2>2. KnownIds' = KnownIds
    BY <2>1 DEF CallFrame, KnownIds, HasRow
  <2>3. Pause \notin tick'[t].todo
    BY <2>1 DEF CallFrame, RowsAsRead
  <2>4. \A u \in Ticks : u = t
    BY <1>5, AfterCall
  <2> QED
    BY <2>1, <2>2, <2>3, <2>4 DEF CallFrame, RowsAsRead
<1>6. CASE Record(t)
  <2>1. PICK c \in tick[t].sent :
          /\ c.order \in Orders
          /\ \A o \in Orders : o # c.order => ledger'[o] = ledger[o]
          /\ ledger'[c.order] = Recorded(ledger[c.order], c.proposal)
    BY <1>6, AfterRecord
  <2>2. tick[t].pc = "acting" /\ Pause \notin tick[t].todo
    BY <2>1 DEF RowsAsRead
  <2>3. ledger[c.order] \in RowType
    BY <2>1 DEF TypeOK
  <2>4. KnownIds \subseteq KnownIds'
    BY <2>1, <2>3, RowAfterRecord DEF KnownIds, HasRow
  <2> QED
    BY <1>6, <2>2, <2>4, AfterRecord DEF RowsAsRead
<1>7. CASE Finish(t)
  <2>1. KnownIds' = KnownIds
    BY <1>7, AfterFinish DEF KnownIds, HasRow
  <2> QED
    BY <1>7, <2>1, AfterFinish DEF RowsAsRead, IdleTick
<1> QED
  BY <1>1, <1>2, <1>3, <1>4, <1>5, <1>6, <1>7 DEF Observe

LEMMA RowsReadSurroundings ==
    ASSUME TypeOK, RowsAsRead, Surroundings
    PROVE  RowsAsRead'
<1>1. CASE \E mode \in RunModes : SetRunMode(mode)
  BY <1>1, RowsReadKept DEF SetRunMode, HasRow, RowsAsRead
<1>2. ASSUME NEW o \in Orders, CancelStaleUrl(o) \/ RecordStaleUrl(o)
      PROVE  RowsAsRead'
  <2>1. cancelled \subseteq KnownIds
    BY DEF RowsAsRead
  <2>2. cancelled' \subseteq KnownIds
    BY <1>2, <2>1, AfterStaleUrl DEF KnownIds
  <2>3. ledger[o] \in RowType
    BY DEF TypeOK
  <2>4. \A x \in Orders : HasRow(x)' = HasRow(x)
    BY <1>2, <2>1, <2>3, AfterStaleUrl DEF HasRow, KnownIds, RowType
  <2> QED
    BY <1>2, <2>2, <2>4, AfterStaleUrl, RowsReadKept
<1>3. ASSUME NEW o \in Orders,
             Surface(o) \/ Leave(o) \/ PauseOrResume(o) \/ PlaceByHand(o)
      PROVE  RowsAsRead'
  BY <1>3, AfterMarket, RowsReadKept DEF HasRow, RowsAsRead
<1>4. CASE Crash
  BY <1>4 DEF Crash, RowsAsRead, IdleTick
<1>5. CASE Minute
  BY <1>5, AfterMinute, RowsReadKept DEF HasRow, RowsAsRead
<1> QED
  BY <1>1, <1>2, <1>3, <1>4, <1>5 DEF Surroundings

\* What a single loop planned to pause for, the ledger does not know
\* (decide.ts:47-55): no insert of its own comes between.
THEOREM PauseHasReason ==
    ASSUME OneTickAtATime
    PROVE  Spec => []PauseMeansUnknown
<1>1. Init => RowsAsRead
  BY RowsReadInit
<1>2. TypeOK /\ RowsAsRead /\ [Next]_vars => RowsAsRead'
  <2> SUFFICES ASSUME TypeOK, RowsAsRead, [Next]_vars
               PROVE  RowsAsRead'
    OBVIOUS
  <2>1. CASE UNCHANGED vars
    BY <2>1, RowsReadKept DEF vars, HasRow, RowsAsRead
  <2> QED
    BY <2>1, OneTickAtATime, NextCases, RowsReadTick, RowsReadSurroundings
<1>3. RowsAsRead => PauseMeansUnknown
  BY DEF RowsAsRead, PauseMeansUnknown, Seen, KnownIds
<1> QED
  BY <1>1, <1>2, <1>3, TypeCorrect, PTL DEF Spec

-----------------------------------------------------------------------------
(* The cooldown *)

\* A plan has at most one price edit, of an order that is listed, and it
\* lowers no price that is cooling.
LEMMA PriceEditShape ==
    ASSUME NEW v, NEW p \in Dispatched(Config, v), p.kind = "EDIT_PRICE",
           Listed(v) \subseteq Nat
    PROVE  /\ p.order \in Listed(v)
           /\ p.old = v.owned[p.order].price
           /\ p.price < p.old => p.order \notin v.cooling
           /\ \A q \in Dispatched(Config, v) : q.kind = "EDIT_PRICE" => q = p
<1>1. ASSUME NEW q \in Dispatched(Config, v), q.kind = "EDIT_PRICE"
      PROVE  \E o \in Actionable(v) :
                /\ IsPrimary(o, v)
                /\ q = EditPrice(o, TargetPrice(Config, v), v.owned[o].price)
  <2>1. q \in Repricing(Config, v)
    BY <1>1 DEF Dispatched, Proposals, Creation, Extras, Respeeding, Pause,
       Create, Cancel, EditSpeed
  <2> QED
    BY <2>1 DEF Repricing
<1>2. ASSUME NEW a \in Actionable(v), NEW b \in Actionable(v),
             IsPrimary(a, v), IsPrimary(b, v)
      PROVE  a = b
  BY <1>2 DEF IsPrimary, Actionable
<1>3. PICK o \in Actionable(v) :
        /\ IsPrimary(o, v)
        /\ p = EditPrice(o, TargetPrice(Config, v), v.owned[o].price)
  BY <1>1
<1>4. p.order = o /\ p.old = v.owned[o].price
  BY <1>3 DEF EditPrice
<1>5. p.price < p.old => p.order \notin v.cooling
  BY DEF Dispatched, Allowed, InsidePriceDecreaseCooldown
<1>6. \A q \in Dispatched(Config, v) : q.kind = "EDIT_PRICE" => q = p
  BY <1>1, <1>2, <1>3
<1> QED
  BY <1>4, <1>5, <1>6 DEF Actionable

LEMMA CooldownInit == Init => CooldownInvariant
  BY DEF Init, CooldownInvariant, DecreaseRecorded, PricesAsRead, EditShape,
     IdleTick, NotListed, Seen, IsLive, NoOrder, NoRow, Live, Firm, HasRow,
     EditPlanned

\* Prices stay and decreases grow old; the rows' decreases no more than the
\* market's.  An order that appears may be lowered at once.
PricesKept ==
    \A o \in Orders :
        /\ orders[o].status # "NONE" => orders'[o].status # "NONE"
        /\ IsLive(o)' =>
             \/ /\ IsLive(o)
                /\ orders'[o].price = orders[o].price
                /\ orders[o].drop >= Cooldown => orders'[o].drop >= Cooldown
                /\ ledger[o].cool <= orders[o].drop
                     => ledger'[o].cool <= orders'[o].drop
             \/ orders[o].status = "NONE" /\ orders'[o].drop = Cooldown
        /\ HasRow(o)' = HasRow(o)

\* What the tick still plans, and what is pending.
CallPending(t) ==
    /\ tick'[t].pc = tick[t].pc
    /\ tick'[t].ids = tick[t].ids
    /\ tick'[t].cooling = tick[t].cooling
    /\ tick'[t].list = tick[t].list
    /\ tick'[t].todo \subseteq tick[t].todo
    /\ tick'[t].todo = {} \/ tick[t].pc = "acting"
    /\ \/ tick'[t].sent = tick[t].sent
       \/ /\ tick[t].sent = {}
          /\ tick[t].pc = "acting"
          /\ \A c \in tick'[t].sent :
                /\ tick'[t].sent = {c}
                /\ c.proposal.kind # "CREATE_BID" => HasRow(c.order)
                /\ c.proposal.kind = "CREATE_BID" =>
                     orders'[c.order].drop = Cooldown

LEMMA CooldownKept ==
    ASSUME TypeOK, TypeOK', CooldownInvariant, PricesKept,
           cancelled' \subseteq KnownIds,
           \A t \in Ticks : CallPending(t)
    PROVE  CooldownInvariant'
<1>1. KnownIds' = KnownIds
  BY DEF KnownIds, PricesKept
<1>2. \A t \in Ticks : Seen(t)' = Seen(t) /\ OwnedIn(t)' = OwnedIn(t)
  BY DEF Seen, OwnedIn, CallPending
<1>3. \A o \in Orders : /\ orders'[o].drop \in 0..Cooldown
                        /\ ledger'[o].cool \in 0..Cooldown
  BY DEF TypeOK, OrderType, RowType
<1>4. Cooldown \in Nat
  BY ListingAssumption
<1>5. DecreaseRecorded'
  <2> SUFFICES ASSUME NEW o \in Orders, HasRow(o)', IsLive(o)',
                      ~(ledger'[o].cool <= orders'[o].drop)
               PROVE  \E t \in Ticks : \E c \in tick'[t].sent :
                         c.order = o /\ Lowers(c.proposal)
    BY DEF DecreaseRecorded
  <2>0. orders'[o].drop # Cooldown
    BY <1>3, <1>4
  <2>1. HasRow(o) /\ IsLive(o) /\ ~(ledger[o].cool <= orders[o].drop)
    BY <2>0 DEF PricesKept
  <2>2. PICK t \in Ticks :
          \E c \in tick[t].sent : c.order = o /\ Lowers(c.proposal)
    BY <2>1 DEF CooldownInvariant, DecreaseRecorded
  <2>3. tick'[t].sent = tick[t].sent
    BY <2>2 DEF CallPending
  <2> QED
    BY <2>2, <2>3
<1>6. PricesAsRead'
  <2> SUFFICES ASSUME NEW t \in Ticks,
                      tick'[t].pc # "acting" \/ EditPlanned(t)'
               PROVE  /\ \A o \in Seen(t) : IsLive(o)' =>
                            orders'[o].price = tick[t].list[o].price
                      /\ \A o \in tick[t].ids \ tick[t].cooling :
                            IsLive(o)' => orders'[o].drop >= Cooldown
    BY <1>2 DEF PricesAsRead, CallPending
  <2>1. tick[t].pc # "acting" \/ EditPlanned(t)
    BY DEF CallPending, EditPlanned
  <2>2. Seen(t) \subseteq Orders /\ tick[t].ids \subseteq Orders
    BY DEF Seen, TypeOK, TickType
  <2>3. \A o \in Seen(t) : orders[o].status # "NONE"
    BY DEF CooldownInvariant, EditShape
  <2>4. /\ \A o \in Seen(t) :
             IsLive(o) => orders[o].price = tick[t].list[o].price
        /\ \A o \in tick[t].ids \ tick[t].cooling :
             IsLive(o) => orders[o].drop >= Cooldown
    BY <2>1 DEF CooldownInvariant, PricesAsRead
  <2> QED
    BY <1>4, <2>2, <2>3, <2>4 DEF PricesKept
<1>7. EditShape'
  <2>1. ASSUME NEW t \in Ticks
        PROVE  /\ tick'[t].pc # "acting" => tick'[t].todo = {} /\ tick'[t].sent = {}
               /\ \A c \in tick'[t].sent :
                     /\ tick'[t].sent = {c}
                     /\ c.proposal.kind # "CREATE_BID" => HasRow(c.order)'
                     /\ c.proposal.kind = "CREATE_BID" /\ IsLive(c.order)'
                           => orders'[c.order].drop = Cooldown
    <3>1. \A c \in tick'[t].sent : c.order \in Orders
      BY DEF TypeOK, TickType
    <3>2. CASE tick'[t].sent = tick[t].sent
      <4>1. \A c \in tick[t].sent :
              c.proposal.kind = "CREATE_BID" /\ IsLive(c.order)'
                => orders'[c.order].drop >= Cooldown
        BY <1>4, <3>1, <3>2 DEF CooldownInvariant, EditShape, PricesKept
      <4>2. \A c \in tick[t].sent :
              c.proposal.kind = "CREATE_BID" /\ IsLive(c.order)'
                => orders'[c.order].drop = Cooldown
        BY <1>3, <1>4, <3>1, <3>2, <4>1
      <4> QED
        BY <3>1, <3>2, <4>2 DEF CooldownInvariant, EditShape, PricesKept,
           CallPending
    <3>3. CASE tick'[t].sent # tick[t].sent
      BY <3>1, <3>3 DEF CooldownInvariant, EditShape, PricesKept, CallPending
    <3> QED
      BY <3>2, <3>3
  <2>2. ASSUME NEW t \in Ticks
        PROVE  /\ tick'[t].ids \subseteq KnownIds'
               /\ \A o \in Seen(t)' : orders'[o].status # "NONE"
    <3>1. Seen(t) \subseteq Orders
      BY DEF Seen
    <3> QED
      BY <1>1, <1>2, <3>1 DEF CooldownInvariant, EditShape, PricesKept,
         CallPending
  <2>3. ASSUME NEW t \in Ticks, NEW p \in tick'[t].todo
        PROVE  /\ p.kind \in {"EDIT_PRICE", "EDIT_SPEED", "CANCEL_BID"}
                     => p.order \in OwnedIn(t)'
               /\ p.kind = "EDIT_PRICE" =>
                     /\ p.old = tick'[t].list[p.order].price
                     /\ p.price < p.old => p.order \notin tick'[t].cooling
                     /\ \A q \in tick'[t].todo : q.kind = "EDIT_PRICE" => q = p
    BY <1>2, <2>3 DEF CooldownInvariant, EditShape, CallPending
  <2> QED
    BY <2>1, <2>2, <2>3 DEF EditShape
<1> QED
  BY <1>1, <1>5, <1>6, <1>7 DEF CooldownInvariant

\* The tick reads the rows while nothing is pending: it knows what is cooling.
LEMMA CooldownObserve ==
    ASSUME TypeOK, TypeOK', OneTickAtATime, CooldownInvariant,
           NEW t \in Ticks, Observe(t)
    PROVE  CooldownInvariant'
<1>1. CASE Begin(t)
  <2>1. /\ tick[t].sent = {} /\ \A u \in Ticks : u = t
        /\ KnownIds' = KnownIds
    BY <1>1, AfterBegin DEF CooldownInvariant, EditShape, KnownIds, HasRow
  <2>2. \A o \in Orders : HasRow(o) /\ IsLive(o) => ledger[o].cool <= orders[o].drop
    BY <2>1 DEF CooldownInvariant, DecreaseRecorded
  <2>3. \A o \in Orders : /\ orders[o].drop \in 0..Cooldown
                          /\ ledger[o].cool \in 0..Cooldown
    BY DEF TypeOK, OrderType, RowType
  <2>4. ASSUME NEW o \in KnownIds, ~(ledger[o].cool < Cooldown), IsLive(o)
        PROVE  orders[o].drop >= Cooldown
    BY <2>2, <2>3, <2>4, ListingAssumption DEF KnownIds
  <2>5. DecreaseRecorded'
    BY <1>1, <2>2, AfterBegin DEF DecreaseRecorded, HasRow, IsLive
  <2>6. PricesAsRead'
    BY <1>1, <2>1, <2>4, AfterBegin DEF PricesAsRead, IsLive, KnownIds
  <2>7. EditShape'
    BY <1>1, <2>1, AfterBegin DEF EditShape
  <2> QED
    BY <1>1, <2>1, <2>5, <2>6, <2>7, AfterBegin DEF CooldownInvariant
<1>2. CASE ReadList(t)
  <2>1. /\ tick[t].sent = {} /\ tick[t].todo = {} /\ \A u \in Ticks : u = t
        /\ KnownIds' = KnownIds
    BY <1>2, AfterReadList DEF CooldownInvariant, EditShape, KnownIds, HasRow
  <2>2. DecreaseRecorded'
    BY <1>2, <2>1, AfterReadList DEF CooldownInvariant, DecreaseRecorded,
       HasRow, IsLive
  <2>3. \A o \in Seen(t)' : /\ tick'[t].list[o].price = orders[o].price
                            /\ orders[o].status # "NONE"
    <3>1. \A o \in Listing : orders[o].status # "NONE"
      BY DEF Listing, IsLive, Live, Firm
    <3>2. \A o \in Listing : Entry(o).price = orders[o].price
      BY DEF Entry
    <3> QED
      BY <1>2, <3>1, <3>2, AfterReadList
  <2>4. PricesAsRead'
    BY <1>2, <2>1, <2>3, AfterReadList DEF CooldownInvariant, PricesAsRead,
       IsLive
  <2>5. EditShape'
    BY <1>2, <2>1, <2>3, AfterReadList DEF CooldownInvariant, EditShape
  <2> QED
    BY <1>2, <2>1, <2>2, <2>4, <2>5, AfterReadList DEF CooldownInvariant
<1>3. CASE SyncLedger(t)
  <2>1. OwnedIn(t) \subseteq KnownIds
    BY DEF OwnedIn, CooldownInvariant, EditShape
  <2>2. \A o \in Orders : HasRow(o)' = HasRow(o)
    BY <1>3, <2>1, AfterSyncLedger DEF KnownIds, HasRow
  <2>3. KnownIds' = KnownIds
    BY <2>2 DEF KnownIds
  <2>4. tick[t].sent = {} /\ tick[t].todo = {} /\ \A u \in Ticks : u = t
    BY <1>3, AfterSyncLedger DEF CooldownInvariant, EditShape
  <2>5. DecreaseRecorded'
    BY <1>3, <2>2, <2>4, AfterSyncLedger DEF CooldownInvariant,
       DecreaseRecorded, IsLive
  <2>6. PricesAsRead'
    BY <1>3, <2>4, AfterSyncLedger DEF CooldownInvariant, PricesAsRead, IsLive
  <2>7. EditShape'
    BY <1>3, <2>3, <2>4, AfterSyncLedger DEF CooldownInvariant, EditShape
  <2> QED
    BY <1>3, <2>3, <2>5, <2>6, <2>7, AfterSyncLedger DEF CooldownInvariant
<1>4. ASSUME NEW quote \in Quotes, NEW reachable \in Probes,
             NEW stale \in NodeStale, NEW held \in Holds,
             DecideNow(t, quote, reachable, stale, held)
      PROVE  CooldownInvariant'
  <2> DEFINE v == View(t, quote, poolFails', stale, held)
  <2>1. /\ Listed(v) = OwnedIn(t) /\ OwnedIn(t) \subseteq Nat
        /\ \A o \in OwnedIn(t) : v.owned[o].price = tick[t].list[o].price
        /\ v.cooling = tick[t].cooling \cap OwnedIn(t)
    BY ListingAssumption DEF View, Listed, OwnedIn, Seen
  <2>2. tick[t].sent = {} /\ \A u \in Ticks : u = t
    BY <1>4, AfterDecideNow DEF CooldownInvariant, EditShape
  <2>3. KnownIds' = KnownIds
    BY <1>4, AfterDecideNow DEF KnownIds, HasRow
  <2>4. tick'[t].todo = Dispatched(Config, v)
    BY <1>4, AfterDecideNow
  <2> HIDE DEF v
  <2>5. \A p \in Dispatched(Config, v) :
          /\ p.kind \in {"EDIT_PRICE", "EDIT_SPEED", "CANCEL_BID"}
                => p.order \in OwnedIn(t)
          /\ p.kind = "EDIT_PRICE" =>
                /\ p.old = tick[t].list[p.order].price
                /\ p.price < p.old => p.order \notin tick[t].cooling
                /\ \A q \in Dispatched(Config, v) :
                      q.kind = "EDIT_PRICE" => q = p
    BY <2>1, PriceEditShape, DispatchShape
  <2>6. DecreaseRecorded'
    BY <1>4, <2>2, AfterDecideNow DEF CooldownInvariant, DecreaseRecorded,
       HasRow, IsLive
  <2>7. PricesAsRead'
    BY <1>4, <2>2, AfterDecideNow DEF CooldownInvariant, PricesAsRead, IsLive
  <2>8. EditShape'
    BY <1>4, <2>2, <2>3, <2>4, <2>5, AfterDecideNow DEF CooldownInvariant,
       EditShape
  <2> QED
    BY <1>4, <2>3, <2>6, <2>7, <2>8, AfterDecideNow DEF CooldownInvariant
<1> QED
  BY <1>1, <1>2, <1>3, <1>4 DEF Observe

LEMMA CooldownExecute ==
    ASSUME TypeOK, TypeOK', OneTickAtATime, Answered, CooldownInvariant,
           NEW t \in Ticks, Execute(t)
    PROVE  CooldownInvariant'
<1>1. PICK p \in tick[t].todo :
        /\ CallFrame(t, p)
        /\ (p.kind \in {"EDIT_PRICE", "EDIT_SPEED", "CANCEL_BID"}
              => p.order \in Orders) =>
             \/ UNCHANGED orders /\ tick'[t].sent = {}
             \/ \E o \in Orders :
                   /\ TookEffect(p, o)
                   /\ tick'[t].sent = {[proposal |-> p, order |-> o]}
  BY AfterCall
<1>2. p.kind \in {"EDIT_PRICE", "EDIT_SPEED", "CANCEL_BID"} =>
        p.order \in OwnedIn(t) /\ p.order \in Orders
  BY DEF CooldownInvariant, EditShape, OwnedIn, Seen
<1>3. \A u \in Ticks : u = t
  BY DEF OneTickAtATime
<1>4. \A o \in OwnedIn(t) : HasRow(o)
  BY DEF CooldownInvariant, EditShape, OwnedIn, KnownIds
<1>5. /\ cancelled' \subseteq KnownIds
      /\ \A o \in Orders : HasRow(o)' = HasRow(o)
      /\ \A o \in Orders : ledger'[o].cool = ledger[o].cool
  BY <1>1 DEF CallFrame, HasRow, CooldownInvariant
<1>6. CASE UNCHANGED orders /\ tick'[t].sent = {}
  <2>1. PricesKept
    BY <1>5, <1>6 DEF PricesKept, IsLive, Live, Firm
  <2>2. \A u \in Ticks : CallPending(u)
    BY <1>1, <1>3, <1>6 DEF CallFrame, CallPending
  <2> QED
    BY <1>5, <2>1, <2>2, CooldownKept
<1>7. ASSUME NEW o \in Orders, TookEffect(p, o), p.kind # "EDIT_PRICE",
             tick'[t].sent = {[proposal |-> p, order |-> o]}
      PROVE  CooldownInvariant'
  <2>1. \A x \in Orders : orders[x] \in OrderType
    BY DEF TypeOK
  <2>2. PricesKept
    BY <1>5, <1>7, <2>1 DEF PricesKept, TookEffect, IsLive, Live, Firm, OrderType
  <2>3. /\ p.kind # "CREATE_BID" => HasRow(o)
        /\ p.kind = "CREATE_BID" => orders'[o].drop = Cooldown
    BY <1>2, <1>4, <1>7 DEF TookEffect
  <2>4. \A u \in Ticks : CallPending(u)
    BY <1>1, <1>3, <1>7, <2>3 DEF CallFrame, CallPending
  <2> QED
    BY <1>5, <2>2, <2>4, CooldownKept
<1>8. ASSUME NEW o \in Orders, TookEffect(p, o), p.kind = "EDIT_PRICE",
             tick'[t].sent = {[proposal |-> p, order |-> o]}
      PROVE  CooldownInvariant'
  <2>1. /\ o = p.order /\ PriceAcceptable(o, p.price)
        /\ orders'[o] = [orders[o] EXCEPT
             !.price = p.price,
             !.drop = IF p.price < orders[o].price THEN 0 ELSE @]
        /\ \A x \in Orders : x # o => orders'[x] = orders[x]
    BY <1>8 DEF TookEffect
  <2>2. orders[o] \in OrderType
    BY DEF TypeOK
  <2>3. /\ orders'[o].status = orders[o].status
        /\ ~(p.price < orders[o].price) => orders'[o].drop = orders[o].drop
    BY <2>1, <2>2 DEF OrderType
  <2>4. p.old = orders[o].price
    BY <1>1, <1>2, <1>8, <2>1 DEF CooldownInvariant, PricesAsRead, EditShape,
       EditPlanned, PriceAcceptable, IsLive, Live, OwnedIn
  <2>5. ~EditPlanned(t)'
    BY <1>1, <1>8 DEF CallFrame, CooldownInvariant, EditShape, EditPlanned
  <2>6. PricesAsRead'
    BY <1>1, <1>3, <2>5 DEF CallFrame, PricesAsRead
  <2>7. DecreaseRecorded'
    <3> SUFFICES ASSUME NEW x \in Orders, HasRow(x), IsLive(x)'
                 PROVE  \/ ledger[x].cool <= orders'[x].drop
                        \/ x = o /\ Lowers(p)
      <4>1. UNCHANGED ledger
        BY <1>1 DEF CallFrame
      <4>2. ASSUME Lowers(p)
            PROVE  \E c \in tick'[t].sent : c.order = o /\ Lowers(c.proposal)
        BY <1>8, <4>2
      <4> QED
        BY <4>1, <4>2 DEF DecreaseRecorded, HasRow
    <3>1. tick[t].sent = {} /\ IsLive(x)
      BY <1>1, <2>1, <2>3 DEF CallFrame, IsLive
    <3>2. ledger[x].cool <= orders[x].drop
      BY <1>3, <3>1 DEF CooldownInvariant, DecreaseRecorded
    <3> QED
      BY <1>8, <2>1, <2>3, <2>4, <3>2 DEF Lowers
  <2>8. EditShape'
    <3>1. KnownIds' = KnownIds /\ Seen(t) \subseteq Orders
      BY <1>5 DEF KnownIds, Seen
    <3>2. ASSUME NEW x \in Seen(t)
          PROVE  orders'[x].status # "NONE"
      <4>1. orders[x].status # "NONE"
        BY DEF CooldownInvariant, EditShape
      <4> QED
        BY <2>1, <2>3, <3>1, <4>1
    <3>3. HasRow(o)'
      BY <1>2, <1>4, <1>5, <1>8, <2>1
    <3> QED
      BY <1>1, <1>3, <1>8, <3>1, <3>2, <3>3 DEF CallFrame, CooldownInvariant,
         EditShape
  <2>9. KnownIds' = KnownIds
    BY <1>5 DEF KnownIds
  <2> QED
    BY <1>5, <2>6, <2>7, <2>8, <2>9 DEF CooldownInvariant
<1> QED
  BY <1>1, <1>2, <1>6, <1>7, <1>8

LEMMA CooldownRecord ==
    ASSUME TypeOK, TypeOK', OneTickAtATime, CooldownInvariant,
           NEW t \in Ticks, Record(t)
    PROVE  CooldownInvariant'
<1>1. PICK c \in tick[t].sent :
        /\ c.order \in Orders
        /\ \A o \in Orders : o # c.order => ledger'[o] = ledger[o]
        /\ ledger'[c.order] = Recorded(ledger[c.order], c.proposal)
  BY AfterRecord
<1>2. /\ tick[t].sent = {c}
      /\ c.proposal.kind # "CREATE_BID" => HasRow(c.order)
      /\ c.proposal.kind = "CREATE_BID" /\ IsLive(c.order)
            => orders[c.order].drop = Cooldown
  BY <1>1 DEF CooldownInvariant, EditShape
<1>3. \A o \in Orders : /\ ledger[o] \in RowType
                        /\ ledger'[o].cool \in 0..Cooldown
                        /\ orders[o].drop \in 0..Cooldown
  BY DEF TypeOK, RowType, OrderType
<1>4. /\ \A u \in Ticks : u = t
      /\ UNCHANGED <<orders, cancelled>>
      /\ tick'[t].sent = {}
  BY AfterRecord
<1>5. DecreaseRecorded'
  <2> SUFFICES ASSUME NEW o \in Orders, HasRow(o)', IsLive(o)
               PROVE  ledger'[o].cool <= orders[o].drop
    BY <1>4 DEF DecreaseRecorded, IsLive
  <2>1. CASE o # c.order
    <3>1. HasRow(o)
      BY <1>1, <2>1 DEF HasRow
    <3> QED
      BY <1>1, <1>2, <1>4, <2>1, <3>1 DEF CooldownInvariant, DecreaseRecorded
  <2>2. CASE o = c.order /\ c.proposal.kind = "CREATE_BID"
    BY <1>2, <1>3, <2>2, ListingAssumption
  <2>3. CASE o = c.order /\ c.proposal.kind # "CREATE_BID"
    <3>1. HasRow(o)
      BY <1>2, <2>3
    <3>2. ledger[o].cool <= orders[o].drop \/ Lowers(c.proposal)
      BY <1>2, <1>4, <2>3, <3>1 DEF CooldownInvariant, DecreaseRecorded
    <3>3. ledger'[o].cool = IF Lowers(c.proposal) THEN 0 ELSE ledger[o].cool
      BY <1>1, <1>3, <2>3, RowAfterRecord
    <3> QED
      BY <1>3, <3>2, <3>3, ListingAssumption
  <2> QED
    BY <2>1, <2>2, <2>3
<1>6. PricesAsRead'
  BY <1>4, AfterRecord DEF CooldownInvariant, PricesAsRead, EditPlanned, IsLive
<1>7. KnownIds \subseteq KnownIds'
  <2>1. HasRow(c.order) => HasRow(c.order)'
    BY <1>1, <1>3, RowAfterRecord DEF HasRow
  <2>2. \A o \in Orders : o # c.order => HasRow(o)' = HasRow(o)
    BY <1>1 DEF HasRow
  <2> QED
    BY <1>1, <2>1, <2>2 DEF KnownIds, HasRow
<1>8. EditShape'
  BY <1>1, <1>4, <1>7, AfterRecord DEF CooldownInvariant, EditShape
<1> QED
  BY <1>4, <1>5, <1>6, <1>7, <1>8 DEF CooldownInvariant

LEMMA CooldownFinish ==
    ASSUME TypeOK, OneTickAtATime, CooldownInvariant, NEW t \in Ticks, Finish(t)
    PROVE  CooldownInvariant'
<1>1. /\ tick[t].sent = {} /\ \A u \in Ticks : u = t
      /\ KnownIds' = KnownIds
  BY AfterFinish DEF Finish, KnownIds, HasRow
<1>2. DecreaseRecorded'
  BY <1>1, AfterFinish DEF CooldownInvariant, DecreaseRecorded, HasRow, IsLive
<1>3. PricesAsRead' /\ EditShape'
  BY <1>1, AfterFinish DEF PricesAsRead, EditShape, IdleTick
<1> QED
  BY <1>1, <1>2, <1>3, AfterFinish DEF CooldownInvariant

\* With no tick step in between, plans and pending calls are what they were.
LEMMA SameTicks ==
    ASSUME CooldownInvariant, UNCHANGED tick
    PROVE  \A t \in Ticks : CallPending(t)
  BY DEF CallPending, CooldownInvariant, EditShape

LEMMA CooldownSurroundings ==
    ASSUME TypeOK, TypeOK', Answered, CooldownInvariant, Surroundings
    PROVE  CooldownInvariant'
<1>1. \A o \in Orders : orders[o] \in OrderType /\ ledger[o] \in RowType
  BY DEF TypeOK
<1>2. cancelled \subseteq KnownIds
  BY DEF CooldownInvariant
<1>3. Cooldown \in Nat
  BY ListingAssumption
<1>4. CASE \E mode \in RunModes : SetRunMode(mode)
  <2>1. PricesKept
    BY <1>4 DEF SetRunMode, PricesKept, IsLive, Live, Firm, HasRow
  <2> QED
    BY <1>2, <1>4, <2>1, CooldownKept, SameTicks DEF SetRunMode
<1>5. ASSUME NEW x \in Orders, CancelStaleUrl(x) \/ RecordStaleUrl(x)
      PROVE  CooldownInvariant'
  <2>1. \A o \in Orders :
          /\ orders[o].status # "NONE" => orders'[o].status # "NONE"
          /\ IsLive(o)' = IsLive(o)
          /\ orders'[o].price = orders[o].price
          /\ orders'[o].drop = orders[o].drop
    <3>1. \/ UNCHANGED orders
          \/ /\ IsLive(x)
             /\ orders'[x] = [orders[x] EXCEPT !.status = "PENDING_CANCEL"]
             /\ \A o \in Orders : o # x => orders'[o] = orders[o]
      BY <1>5, AfterStaleUrl
    <3>2. CASE UNCHANGED orders
      BY <3>2 DEF IsLive
    <3> QED
      BY <1>1, <3>1, <3>2 DEF IsLive, Live, Firm, OrderType
  <2>2. \A o \in Orders : /\ HasRow(o)' = HasRow(o)
                          /\ ledger'[o].cool = ledger[o].cool
    BY <1>1, <1>2, <1>5, AfterStaleUrl DEF HasRow, KnownIds, RowType
  <2>3. PricesKept
    BY <2>1, <2>2 DEF PricesKept
  <2>4. cancelled' \subseteq KnownIds /\ UNCHANGED tick
    BY <1>2, <1>5, AfterStaleUrl DEF KnownIds
  <2> QED
    BY <2>3, <2>4, CooldownKept, SameTicks
<1>6. ASSUME NEW x \in Orders,
             Surface(x) \/ Leave(x) \/ PauseOrResume(x) \/ PlaceByHand(x)
      PROVE  CooldownInvariant'
  <2>1. PricesKept
    BY <1>1, <1>6, AfterMarket DEF PricesKept, IsLive, Live, Firm, HasRow
  <2> QED
    BY <1>2, <1>6, <2>1, AfterMarket, CooldownKept, SameTicks
<1>7. ~Crash
  BY DEF Crash, Fault, Answered
<1>8. CASE Minute
  <2>1. ASSUME NEW o \in Orders
        PROVE  /\ orders[o].status # "NONE" => orders'[o].status # "NONE"
               /\ IsLive(o)' = IsLive(o)
               /\ orders'[o].price = orders[o].price
               /\ HasRow(o)' = HasRow(o)
    BY <1>8, AfterMinute DEF IsLive, HasRow
  <2>2. ASSUME NEW o \in Orders, IsLive(o)
        PROVE  orders[o].drop >= Cooldown => orders'[o].drop >= Cooldown
    <3>1. orders[o].drop \in 0..Cooldown
      BY <1>1 DEF OrderType
    <3> QED
      BY <1>3, <1>8, <2>2, <3>1, AfterMinute DEF Older, LesserOf
  <2>3. ASSUME NEW o \in Orders, IsLive(o), ledger[o].cool <= orders[o].drop
        PROVE  ledger'[o].cool <= orders'[o].drop
    <3>1. orders[o].drop \in 0..Cooldown /\ ledger[o].cool \in 0..Cooldown
      BY <1>1 DEF OrderType, RowType
    <3>2. orders'[o].drop = Older(orders[o].drop, Cooldown)
      BY <1>8, <2>3, AfterMinute
    <3>3. \/ ledger'[o].cool = Older(ledger[o].cool, Cooldown)
          \/ ledger'[o].cool = ledger[o].cool
      BY <1>1, <1>8 DEF Minute, RowType
    <3> QED
      BY <1>3, <2>3, <3>1, <3>2, <3>3 DEF Older, LesserOf
  <2>4. PricesKept
    BY <2>1, <2>2, <2>3 DEF PricesKept
  <2> QED
    BY <1>2, <1>8, <2>4, AfterMinute, CooldownKept, SameTicks
<1> QED
  BY <1>4, <1>5, <1>6, <1>7, <1>8 DEF Surroundings

\* No decrease of a single loop comes too soon for Braiins (gate.ts:43-48,
\* execute.ts:205-210), when no answer is lost and the process does not die
\* before it has recorded one; the stale-URL route may run at any moment.
THEOREM CooldownKeptByLedger ==
    ASSUME OneTickAtATime, Answered
    PROVE  Spec => []CooldownHonoured
<1>1. Init => CooldownInvariant
  BY CooldownInit
<1>2. TypeOK /\ TypeOK' /\ CooldownInvariant /\ [Next]_vars => CooldownInvariant'
  <2> SUFFICES ASSUME TypeOK, TypeOK', CooldownInvariant, [Next]_vars
               PROVE  CooldownInvariant'
    OBVIOUS
  <2>1. CASE UNCHANGED vars
    <3>1. PricesKept
      BY <2>1 DEF vars, PricesKept, IsLive, Live, Firm, HasRow
    <3> QED
      BY <2>1, <3>1, CooldownKept, SameTicks DEF vars, CooldownInvariant
  <2>2. ASSUME NEW t \in Ticks,
               Observe(t) \/ Execute(t) \/ Record(t) \/ Finish(t)
        PROVE  CooldownInvariant'
    BY <2>2, OneTickAtATime, Answered, CooldownObserve, CooldownExecute,
       CooldownRecord, CooldownFinish
  <2> QED
    BY <2>1, <2>2, Answered, NextCases, CooldownSurroundings
<1>3. CooldownInvariant => CooldownHonoured
  <2> SUFFICES ASSUME CooldownInvariant, NEW t \in Ticks,
                      NEW p \in tick[t].todo, p.kind = "EDIT_PRICE",
                      p.price < p.old, orders[p.order].status \in Firm
               PROVE  orders[p.order].drop >= Cooldown
    BY DEF CooldownHonoured
  <2>1. p.order \in tick[t].ids \ tick[t].cooling /\ IsLive(p.order)
    BY DEF CooldownInvariant, EditShape, OwnedIn, IsLive, Live
  <2>2. EditPlanned(t)
    BY DEF EditPlanned
  <2> QED
    BY <2>1, <2>2 DEF CooldownInvariant, PricesAsRead
<1> QED
  BY <1>1, <1>2, <1>3, TypeCorrect, PTL DEF Spec

-----------------------------------------------------------------------------
(* One firm order *)

LEMMA FirmInit == Init => FirmInvariant
  BY DEF Init, FirmInvariant, RowsAreOwn, CancelledUnwinds, FirmTracked,
     FirmRowActive, HiddenRowYoung, SnapshotListed, SnapshotComplete,
     PlanShape, CancelSent, NoFirmOrder, AtMostOneFirm, OwnFirm, OwnLive,
     IsLive, Live, Firm, Hidden, HasRow, RowActive, NoOrder, NoRow, IdleTick,
     NotListed, Seen, OwnedIn, ConfirmedEmpty

\* A step that adds no order to those of the daemon, and no row.
OrdersKept ==
    \A o \in Orders :
        /\ orders'[o].mine = orders[o].mine
        /\ orders[o].status # "NONE" => orders'[o].status # "NONE"
        /\ orders[o].mine /\ orders'[o].status \in Firm => orders[o].status \in Firm
        /\ IsLive(o)' /\ ~orders[o].mine => orders'[o].listed
        /\ IsLive(o)' /\ orders[o].status # "NONE" =>
             IsLive(o) /\ (orders[o].listed => orders'[o].listed)

RowsKept ==
    \A o \in Orders :
        /\ HasRow(o)' = HasRow(o)
        /\ orders[o].status \in Firm => RowActive(o)' = RowActive(o)

\* What the tick has read is as it was; it may have less to do, and a call
\* about an order of its list may be pending.
PlanKept(t) ==
    /\ tick'[t].pc = tick[t].pc
    /\ tick'[t].ids = tick[t].ids
    /\ tick'[t].old = tick[t].old
    /\ tick'[t].list = tick[t].list
    /\ \/ tick[t].pc = "acting"
       \/ /\ tick'[t].active = tick[t].active
          /\ tick'[t].bidsOk = tick[t].bidsOk
    /\ tick'[t].todo \subseteq tick[t].todo
    /\ \/ tick'[t].sent = tick[t].sent
       \/ /\ tick[t].sent = {} /\ tick[t].pc = "acting"
          /\ \A c \in tick'[t].sent :
                /\ tick'[t].sent = {c}
                /\ c.order \in OwnedIn(t)
                /\ c.proposal.kind \in {"EDIT_PRICE", "EDIT_SPEED", "CANCEL_BID"}
                /\ c.proposal \in tick[t].todo
                /\ c.proposal.kind = "CANCEL_BID" =>
                     orders'[c.order].status \notin Firm

LEMMA FirmKept ==
    ASSUME TypeOK, TypeOK', FirmInvariant, OrdersKept, RowsKept,
           HiddenRowYoung', CancelledUnwinds',
           faults' = faults \/ faults' = faults + 1,
           \A t \in Ticks : PlanKept(t)
    PROVE  FirmInvariant'
<1>1. OwnFirm' \subseteq OwnFirm
  BY DEF OrdersKept, OwnFirm, OwnLive, IsLive, Live
<1>2. \A t \in Ticks : Seen(t)' = Seen(t) /\ OwnedIn(t)' = OwnedIn(t)
  BY DEF Seen, OwnedIn, PlanKept
<1>3. Unmissed' => Unmissed
  BY DEF Unmissed, TypeOK
<1>4. /\ \A t \in Ticks : /\ tick[t].ids \subseteq Orders
                          /\ tick[t].old \cup Seen(t) \subseteq Orders
                          /\ \A c \in tick'[t].sent : c.order \in Orders
      /\ OwnFirm \subseteq Orders
  BY DEF TypeOK, TickType, Seen, OwnFirm, OwnLive
<1>5. RowsAreOwn'
  BY DEF FirmInvariant, RowsAreOwn, OrdersKept, RowsKept
<1>6. FirmTracked'
  <2> SUFFICES ASSUME NEW o \in OwnFirm', ~HasRow(o)'
               PROVE  \E t \in Ticks : \E c \in tick'[t].sent :
                         c.order = o /\ c.proposal.kind = "CREATE_BID"
    BY DEF FirmTracked
  <2>1. o \in OwnFirm /\ ~HasRow(o)
    BY <1>1, <1>4 DEF RowsKept
  <2>2. PICK t \in Ticks :
          \E c \in tick[t].sent : c.order = o /\ c.proposal.kind = "CREATE_BID"
    BY <2>1 DEF FirmInvariant, FirmTracked
  <2>3. tick'[t].sent = tick[t].sent
    BY <2>2 DEF PlanKept
  <2> QED
    BY <2>2, <2>3
<1>7. FirmRowActive'
  <2> SUFFICES ASSUME NEW o \in OwnFirm', HasRow(o)'
               PROVE  RowActive(o)' \/ (orders'[o].listed /\ ~Unmissed')
    BY DEF FirmRowActive
  <2>1. /\ o \in OwnFirm /\ o \in Orders /\ HasRow(o)
        /\ orders[o].status \in Firm /\ orders[o].status # "NONE" /\ IsLive(o)'
    BY <1>1, <1>4 DEF RowsKept, OwnFirm, OwnLive, Firm
  <2>2. RowActive(o) \/ (orders[o].listed /\ ~Unmissed)
    BY <2>1 DEF FirmInvariant, FirmRowActive
  <2> QED
    BY <1>3, <2>1, <2>2 DEF OrdersKept, RowsKept
<1>8. SnapshotListed' /\ SnapshotComplete'
  BY <1>2, <1>3, <1>4 DEF FirmInvariant, SnapshotListed, SnapshotComplete,
     OrdersKept, PlanKept
<1>9. PlanShape'
  <2>1. ASSUME NEW t \in Ticks
        PROVE  /\ tick'[t].pc # "acting" => tick'[t].todo = {} /\ tick'[t].sent = {}
               /\ \A o \in tick'[t].ids : orders'[o].mine
    BY <1>4 DEF FirmInvariant, PlanShape, OrdersKept, PlanKept
  <2>2. ASSUME NEW t \in Ticks, NEW c \in tick'[t].sent
        PROVE  /\ tick'[t].sent = {c}
               /\ orders'[c.order].mine
               /\ c.proposal.kind = "CANCEL_BID" => c.order \in Seen(t)'
    <3>1. CASE tick'[t].sent = tick[t].sent
      BY <1>2, <1>4, <3>1 DEF FirmInvariant, PlanShape, OrdersKept
    <3>2. CASE tick'[t].sent # tick[t].sent
      <4>1. tick'[t].sent = {c} /\ c.order \in OwnedIn(t)
        BY <2>2, <3>2 DEF PlanKept
      <4>2. orders[c.order].mine
        BY <4>1 DEF OwnedIn, FirmInvariant, PlanShape
      <4> QED
        BY <1>2, <1>4, <4>1, <4>2 DEF OwnedIn, OrdersKept
    <3> QED
      BY <3>1, <3>2
  <2>3. ASSUME NEW t \in Ticks, NEW p \in tick'[t].todo
        PROVE  /\ p.kind = "CREATE_BID" => tick'[t].todo = {p} /\ tick'[t].sent = {}
               /\ p.kind \in {"EDIT_PRICE", "EDIT_SPEED", "CANCEL_BID"}
                     => p.order \in OwnedIn(t)'
    <3>1. p \in tick[t].todo
      BY <2>3 DEF PlanKept
    <3>2. ASSUME p.kind = "CREATE_BID"
          PROVE  tick'[t].todo = {p} /\ tick'[t].sent = {}
      <4>1. tick[t].todo = {p} /\ tick[t].sent = {}
        BY <3>1, <3>2 DEF FirmInvariant, PlanShape
      <4>2. \A c \in tick'[t].sent : FALSE
        BY <3>2, <4>1 DEF PlanKept
      <4> QED
        BY <2>3, <4>1, <4>2 DEF PlanKept
    <3> QED
      BY <1>2, <3>1, <3>2 DEF FirmInvariant, PlanShape
  <2> QED
    BY <2>1, <2>2, <2>3 DEF PlanShape
<1>10. CancelSent'
  <2> SUFFICES ASSUME NEW t \in Ticks, NEW c \in tick'[t].sent,
                      c.proposal.kind = "CANCEL_BID"
               PROVE  orders'[c.order].status \notin Firm
    BY DEF CancelSent
  <2>1. CASE tick'[t].sent = tick[t].sent
    BY <1>4, <2>1 DEF FirmInvariant, CancelSent, PlanShape, OrdersKept
  <2> QED
    BY <2>1 DEF PlanKept
<1>11. NoFirmOrder'
  <2> SUFFICES ASSUME NEW t \in Ticks
               PROVE  /\ tick'[t].pc = "begun" /\ tick'[t].active = 0 =>
                           /\ \A o \in OwnFirm' :
                                 orders'[o].listed /\ o \in tick'[t].ids
                           /\ Unmissed' => OwnFirm' = {}
                      /\ tick'[t].pc \in {"read", "synced"} /\ ConfirmedEmpty(t)'
                           => OwnFirm' = {}
                      /\ (\E p \in tick'[t].todo : p.kind = "CREATE_BID")
                           => OwnFirm' = {}
    BY DEF NoFirmOrder
  <2>1. \A o \in OwnFirm' : orders[o].listed => orders'[o].listed
    BY <1>1, <1>4 DEF OrdersKept, OwnFirm, OwnLive, IsLive, Live, Firm
  <2>2. tick[t].pc # "acting" => ConfirmedEmpty(t)' = ConfirmedEmpty(t)
    BY <1>2 DEF ConfirmedEmpty, PlanKept
  <2> QED
    BY <1>1, <1>3, <2>1, <2>2 DEF FirmInvariant, NoFirmOrder, PlanKept
<1>12. AtMostOneFirm'
  BY <1>1 DEF FirmInvariant, AtMostOneFirm
<1> QED
  BY <1>5, <1>6, <1>7, <1>8, <1>9, <1>10, <1>11, <1>12 DEF FirmInvariant

\* The parts that speak of orders and rows alone.
LEMMA FirmOrdersSame ==
    ASSUME FirmInvariant, UNCHANGED <<orders, ledger, cancelled>>
    PROVE  /\ RowsAreOwn' /\ CancelledUnwinds' /\ HiddenRowYoung'
           /\ AtMostOneFirm' /\ OwnFirm' = OwnFirm
  BY DEF FirmInvariant, RowsAreOwn, CancelledUnwinds, HiddenRowYoung,
     AtMostOneFirm, OwnFirm, OwnLive, IsLive, Hidden, HasRow

LEMMA FirmBegin ==
    ASSUME TypeOK, OneTickAtATime, FirmInvariant, NEW t \in Ticks, Begin(t)
    PROVE  FirmInvariant'
<1>1. /\ tick[t].sent = {} /\ \A u \in Ticks : u = t
      /\ UNCHANGED <<orders, ledger, cancelled, faults>>
  BY AfterBegin DEF FirmInvariant, PlanShape
<1>2. \A o \in OwnFirm : HasRow(o)
  BY <1>1 DEF FirmInvariant, FirmTracked
<1>3. FirmTracked' /\ FirmRowActive'
  BY <1>1, <1>2, FirmOrdersSame DEF FirmInvariant, FirmTracked, FirmRowActive,
     HasRow, RowActive, Unmissed
<1>4. SnapshotListed'
  <2> SUFFICES ASSUME NEW o \in Orders, HasRow(o), ledger[o].age > Grace
               PROVE  /\ orders[o].status # "NONE"
                      /\ IsLive(o) => orders[o].listed
    BY <1>1, AfterBegin DEF SnapshotListed, IsLive, OldRows
  <2>1. orders[o].lag \in 0..Lag /\ ledger[o].age \in Int
    BY DEF TypeOK, OrderType, RowType
  <2>2. o \in Hidden => ledger[o].age <= orders[o].lag
    BY DEF FirmInvariant, HiddenRowYoung
  <2>3. o \notin Hidden
    BY <2>1, <2>2, ListingAssumption
  <2> QED
    BY <2>3 DEF Hidden, FirmInvariant, RowsAreOwn
<1>5. SnapshotComplete' /\ CancelSent'
  BY <1>1, AfterBegin DEF SnapshotComplete, CancelSent
<1>6. PlanShape'
  BY <1>1, AfterBegin DEF PlanShape, KnownIds, FirmInvariant, RowsAreOwn
<1>7. NoFirmOrder'
  <2>1. ASSUME tick'[t].active = 0
        PROVE  \A o \in OwnFirm : orders[o].listed /\ HasRow(o) /\ ~Unmissed
    <3>1. \A o \in Orders : ~RowActive(o)
      BY <2>1, AfterBegin, ListingAssumption, FS_Subset, FS_EmptySet
    <3> QED
      BY <1>2, <3>1 DEF FirmInvariant, FirmRowActive, OwnFirm, OwnLive
  <2>2. Unmissed' = Unmissed /\ OwnFirm \subseteq Orders
    BY <1>1 DEF Unmissed, OwnFirm, OwnLive
  <2>3. tick'[t].active = 0 => \A o \in OwnFirm : o \in tick'[t].ids
    BY <1>2, <2>2, AfterBegin DEF KnownIds
  <2> QED
    BY <1>1, <2>1, <2>2, <2>3, AfterBegin, FirmOrdersSame DEF NoFirmOrder
<1> QED
  BY <1>1, <1>3, <1>4, <1>5, <1>6, <1>7, FirmOrdersSame DEF FirmInvariant

\* The list that misses an order is the first to do so.
LEMMA FirmReadList ==
    ASSUME TypeOK, OneTickAtATime, MissesOnce, FirmInvariant,
           NEW t \in Ticks, ReadList(t)
    PROVE  FirmInvariant'
<1>1. /\ tick[t].pc = "begun" /\ tick[t].sent = {} /\ tick[t].todo = {}
      /\ \A u \in Ticks : u = t
      /\ UNCHANGED <<orders, ledger, cancelled>>
  BY AfterReadList DEF FirmInvariant, PlanShape
<1>2. /\ Unmissed' => Unmissed
      /\ tick'[t].bidsOk /\ Seen(t)' # Listing => Unmissed /\ ~Unmissed'
  BY AfterReadList, ListingAssumption DEF Unmissed, TypeOK, MissesOnce
<1>3. FirmTracked' /\ FirmRowActive'
  BY <1>1, <1>2, AfterReadList, FirmOrdersSame DEF FirmInvariant, FirmTracked,
     FirmRowActive, HasRow, RowActive
<1>4. SnapshotListed'
  <2>1. \A o \in Listing : orders[o].status # "NONE" /\ orders[o].listed
    BY DEF Listing, IsLive, Live, Firm
  <2> QED
    BY <1>1, <2>1, AfterReadList DEF FirmInvariant, SnapshotListed, IsLive
<1>5. SnapshotComplete'
  <2>1. tick[t].old \subseteq Orders
    BY DEF TypeOK, TickType
  <2>2. \A o \in tick[t].old : IsLive(o) => o \in Listing
    BY <2>1 DEF FirmInvariant, SnapshotListed, Listing
  <2> QED
    BY <1>1, <1>2, <2>2, AfterReadList DEF SnapshotComplete, IsLive
<1>6. PlanShape' /\ CancelSent'
  BY <1>1, AfterReadList DEF FirmInvariant, PlanShape, CancelSent
<1>7. NoFirmOrder'
  <2>1. ASSUME tick'[t].bidsOk, tick[t].active = 0, OwnedIn(t)' = {}
        PROVE  OwnFirm = {}
    <3>1. CASE Seen(t)' = Listing
      <4>1. OwnFirm \subseteq Listing \cap tick[t].ids
        BY <1>1, <2>1 DEF FirmInvariant, NoFirmOrder, Listing, OwnFirm, OwnLive
      <4> QED
        BY <2>1, <3>1, <4>1, AfterReadList
    <3>2. CASE Seen(t)' # Listing
      BY <1>1, <1>2, <2>1, <3>2 DEF FirmInvariant, NoFirmOrder
    <3> QED
      BY <3>1, <3>2
  <2> QED
    BY <1>1, <2>1, AfterReadList, FirmOrdersSame DEF NoFirmOrder, ConfirmedEmpty
<1> QED
  BY <1>1, <1>3, <1>4, <1>5, <1>6, <1>7, FirmOrdersSame DEF FirmInvariant

LEMMA FirmSyncLedger ==
    ASSUME TypeOK, OneTickAtATime, FirmInvariant, NEW t \in Ticks, SyncLedger(t)
    PROVE  FirmInvariant'
<1>1. /\ tick[t].pc = "read" /\ tick[t].sent = {} /\ tick[t].todo = {}
      /\ \A u \in Ticks : u = t
      /\ UNCHANGED <<orders, cancelled, faults>>
  BY AfterSyncLedger DEF FirmInvariant, PlanShape
<1>2. OwnFirm' = OwnFirm /\ Unmissed' = Unmissed /\ OwnFirm \subseteq Orders
  BY <1>1 DEF OwnFirm, OwnLive, IsLive, Unmissed
<1>3. RowsAreOwn' /\ CancelledUnwinds'
  <2>1. \A o \in OwnedIn(t) : orders[o].mine
    BY DEF FirmInvariant, PlanShape, OwnedIn
  <2>2. cancelled \subseteq Orders
    BY DEF TypeOK
  <2> QED
    BY <1>1, <2>1, <2>2, AfterSyncLedger DEF FirmInvariant, RowsAreOwn,
       CancelledUnwinds, IsLive
<1>4. FirmTracked'
  BY <1>1, <1>2, AfterSyncLedger DEF FirmInvariant, FirmTracked
<1>5. FirmRowActive'
  <2> SUFFICES ASSUME NEW o \in OwnFirm, HasRow(o)', ~RowActive(o)'
               PROVE  orders[o].listed /\ ~Unmissed
    BY <1>1, <1>2 DEF FirmRowActive
  <2>1. o \in Orders /\ IsLive(o) /\ o \notin OwnedIn(t) /\ HasRow(o)
    BY <1>2, AfterSyncLedger DEF OwnFirm, OwnLive
  <2>2. CASE o \in Vanished(t)
    BY <1>1, <2>1, <2>2 DEF Vanished, FirmInvariant, SnapshotListed,
       SnapshotComplete
  <2>3. CASE o \notin Vanished(t)
    <3>1. ledger'[o].status = ledger[o].status
      BY <2>1, <2>3, AfterSyncLedger
    <3>2. ~RowActive(o)
      BY <3>1 DEF RowActive, HasRow
    <3> QED
      BY <2>1, <3>2 DEF FirmInvariant, FirmRowActive
  <2> QED
    BY <2>2, <2>3
<1>6. HiddenRowYoung'
  <2> SUFFICES ASSUME NEW o \in Hidden, HasRow(o)'
               PROVE  ledger'[o].age <= orders[o].lag
    BY <1>1 DEF HiddenRowYoung, Hidden, IsLive
  <2>1. o \notin OwnedIn(t) /\ o \in Orders
    BY DEF Hidden, OwnedIn, FirmInvariant, SnapshotListed
  <2> QED
    BY <2>1, AfterSyncLedger DEF FirmInvariant, HiddenRowYoung
<1>7. SnapshotListed' /\ SnapshotComplete' /\ PlanShape' /\ CancelSent'
  BY <1>1, AfterSyncLedger DEF FirmInvariant, SnapshotListed, SnapshotComplete,
     PlanShape, CancelSent, IsLive
<1>8. NoFirmOrder'
  BY <1>1, <1>2, AfterSyncLedger DEF FirmInvariant, NoFirmOrder, ConfirmedEmpty
<1>9. AtMostOneFirm'
  BY <1>2 DEF FirmInvariant, AtMostOneFirm
<1> QED
  BY <1>3, <1>4, <1>5, <1>6, <1>7, <1>8, <1>9 DEF FirmInvariant

LEMMA FirmDecideNow ==
    ASSUME TypeOK, OneTickAtATime, FirmInvariant, NEW t \in Ticks, NEW quote,
           NEW reachable, NEW stale, NEW held,
           DecideNow(t, quote, reachable, stale, held)
    PROVE  FirmInvariant'
<1> DEFINE v == View(t, quote, poolFails', stale, held)
<1>1. /\ tick[t].pc = "synced" /\ tick[t].sent = {}
      /\ \A u \in Ticks : u = t
      /\ UNCHANGED <<orders, ledger, cancelled, faults>>
  BY AfterDecideNow DEF FirmInvariant, PlanShape
<1>2. /\ Listed(v) = OwnedIn(t)
      /\ v.bidsOk = tick[t].bidsOk
      /\ v.activeRows = tick[t].active
  BY DEF View, Listed
<1>3. tick'[t].todo = Dispatched(Config, v)
  BY AfterDecideNow
<1> HIDE DEF v
<1>4. \A p \in Dispatched(Config, v) :
        /\ p.kind = "CREATE_BID" =>
             MayCreate(Config, v) /\ Dispatched(Config, v) = {p}
        /\ p.kind \in {"EDIT_PRICE", "EDIT_SPEED", "CANCEL_BID"} =>
             p.order \in OwnedIn(t)
  BY <1>2, DispatchShape
<1>5. MayCreate(Config, v) => OwnFirm = {}
  BY <1>1, <1>2 DEF MayCreate, FirmInvariant, NoFirmOrder, ConfirmedEmpty
<1>6. FirmTracked' /\ FirmRowActive'
  BY <1>1, AfterDecideNow, FirmOrdersSame DEF FirmInvariant, FirmTracked,
     FirmRowActive, HasRow, RowActive, Unmissed
<1>7. SnapshotListed' /\ SnapshotComplete' /\ CancelSent'
  BY <1>1, AfterDecideNow DEF FirmInvariant, SnapshotListed, SnapshotComplete,
     CancelSent, IsLive
<1>8. PlanShape'
  BY <1>1, <1>3, <1>4, AfterDecideNow DEF FirmInvariant, PlanShape
<1>9. NoFirmOrder'
  BY <1>1, <1>3, <1>4, <1>5, AfterDecideNow, FirmOrdersSame DEF NoFirmOrder
<1> QED
  BY <1>1, <1>6, <1>7, <1>8, <1>9, FirmOrdersSame DEF FirmInvariant

\* The new order is the only firm one, and its insert is pending.
LEMMA FirmPlaced ==
    ASSUME TypeOK, OneTickAtATime, FirmInvariant, NEW t \in Ticks,
           NEW p \in tick[t].todo, CallFrame(t, p), p.kind = "CREATE_BID",
           NEW o \in Orders, TookEffect(p, o),
           tick'[t].sent = {[proposal |-> p, order |-> o]},
           faults' = faults \/ faults' = faults + 1
    PROVE  FirmInvariant'
<1>1. /\ \A u \in Ticks : u = t
      /\ tick[t].todo = {p} /\ tick[t].sent = {}
      /\ OwnFirm = {}
      /\ ~HasRow(o) /\ o \notin cancelled
  BY DEF OneTickAtATime, FirmInvariant, PlanShape, NoFirmOrder, RowsAreOwn,
     CancelledUnwinds, TookEffect
<1>2. /\ orders[o].status = "NONE"
      /\ orders'[o].status = "ACTIVE" /\ orders'[o].mine
      /\ ~orders'[o].listed /\ orders'[o].lag = 0
      /\ \A x \in Orders : x # o => orders'[x] = orders[x]
  BY DEF TookEffect
<1>3. /\ UNCHANGED <<ledger, cancelled>>
      /\ tick'[t].pc = "acting" /\ tick'[t].todo = {}
      /\ tick'[t].ids = tick[t].ids /\ tick'[t].old = tick[t].old
      /\ Seen(t)' = Seen(t)
  BY <1>1 DEF CallFrame
<1>4. OwnFirm' = {o}
  BY <1>1, <1>2 DEF OwnFirm, OwnLive, IsLive, Live, Firm
<1>5. RowsAreOwn' /\ CancelledUnwinds' /\ AtMostOneFirm'
  <2>1. cancelled \subseteq Orders
    BY DEF TypeOK
  <2> QED
    BY <1>1, <1>2, <1>3, <1>4, <2>1 DEF FirmInvariant, RowsAreOwn,
       CancelledUnwinds, AtMostOneFirm, IsLive, HasRow
<1>6. FirmTracked' /\ FirmRowActive'
  <2>1. [proposal |-> p, order |-> o] \in tick'[t].sent
    OBVIOUS
  <2>2. FirmTracked'
    BY <1>4, <2>1 DEF FirmTracked
  <2> QED
    BY <1>1, <1>3, <1>4, <2>2 DEF FirmRowActive, HasRow
<1>7. HiddenRowYoung'
  <2>1. \A x \in Hidden' : HasRow(x)' => x \in Hidden /\ HasRow(x) /\ x # o
    BY <1>1, <1>2, <1>3 DEF Hidden, IsLive, HasRow
  <2> QED
    BY <1>2, <1>3, <2>1 DEF FirmInvariant, HiddenRowYoung, Hidden
<1>8. SnapshotListed' /\ SnapshotComplete'
  <2>1. o \notin tick[t].old \cup Seen(t)
    BY <1>2 DEF FirmInvariant, SnapshotListed
  <2>2. tick[t].old \cup Seen(t) \subseteq Orders
    BY DEF TypeOK, TickType, Seen
  <2> QED
    BY <1>1, <1>2, <1>3, <2>1, <2>2 DEF FirmInvariant, SnapshotListed,
       SnapshotComplete, IsLive
<1>9. PlanShape' /\ CancelSent'
  <2>1. tick[t].ids \subseteq Orders
    BY DEF TypeOK, TickType
  <2>2. \A x \in tick[t].ids : orders'[x].mine
    BY <1>2, <2>1 DEF FirmInvariant, PlanShape
  <2> QED
    BY <1>1, <1>2, <1>3, <2>2 DEF PlanShape, CancelSent
<1>10. NoFirmOrder'
  BY <1>1, <1>3 DEF NoFirmOrder
<1> QED
  BY <1>5, <1>6, <1>7, <1>8, <1>9, <1>10 DEF FirmInvariant

LEMMA FirmExecute ==
    ASSUME TypeOK, TypeOK', OneTickAtATime, Answered, FirmInvariant,
           NEW t \in Ticks, Execute(t)
    PROVE  FirmInvariant'
<1>1. faults' = faults \/ faults' = faults + 1
  BY AfterCall
<1>2. PICK p \in tick[t].todo :
        /\ CallFrame(t, p)
        /\ (p.kind \in {"EDIT_PRICE", "EDIT_SPEED", "CANCEL_BID"}
              => p.order \in Orders) =>
             \/ UNCHANGED orders /\ tick'[t].sent = {}
             \/ \E o \in Orders :
                   /\ TookEffect(p, o)
                   /\ tick'[t].sent = {[proposal |-> p, order |-> o]}
  BY AfterCall
<1>3. p.kind \in {"EDIT_PRICE", "EDIT_SPEED", "CANCEL_BID"} =>
        p.order \in OwnedIn(t) /\ p.order \in Orders
  BY DEF FirmInvariant, PlanShape, OwnedIn, Seen
<1>4. \A u \in Ticks : u = t
  BY DEF OneTickAtATime
<1>5. RowsKept /\ UNCHANGED <<ledger, cancelled>>
  BY <1>2 DEF CallFrame, RowsKept, HasRow, RowActive
<1>6. CASE UNCHANGED orders /\ tick'[t].sent = {}
  <2>1. OrdersKept
    BY <1>6 DEF OrdersKept, FirmInvariant, RowsAreOwn, IsLive
  <2>2. PlanKept(t)
    <3>1. CallFrame(t, p)
      BY <1>2
    <3> QED
      BY <1>6, <3>1 DEF CallFrame, PlanKept
  <2>3. \A u \in Ticks : PlanKept(u)
    BY <1>4, <2>2 DEF PlanKept
  <2> QED
    BY <1>1, <1>5, <1>6, <2>1, <2>3, FirmKept, FirmOrdersSame
<1>7. ASSUME NEW o \in Orders, TookEffect(p, o), p.kind # "CREATE_BID",
             tick'[t].sent = {[proposal |-> p, order |-> o]}
      PROVE  FirmInvariant'
  <2>1. /\ o = p.order
        /\ p.kind \in {"EDIT_PRICE", "EDIT_SPEED", "CANCEL_BID"}
        /\ IsLive(o) /\ o \in OwnedIn(t)
    BY <1>3, <1>7 DEF TookEffect, PriceAcceptable, IsLive, Live
  <2>2. \A x \in Orders : orders[x] \in OrderType
    BY DEF TypeOK
  <2>3. /\ \A x \in Orders :
             /\ orders'[x].mine = orders[x].mine
             /\ orders'[x].listed = orders[x].listed
             /\ orders'[x].lag = orders[x].lag
             /\ IsLive(x)' = IsLive(x)
             /\ \/ orders'[x].status = orders[x].status
                \/ IsLive(x) /\ orders'[x].status = "PENDING_CANCEL"
        /\ p.kind = "CANCEL_BID" => orders'[o].status = "PENDING_CANCEL"
    <3>1. \A x \in Orders : x # o => orders'[x] = orders[x]
      BY <1>7 DEF TookEffect
    <3>2. /\ orders'[o].mine = orders[o].mine
          /\ orders'[o].listed = orders[o].listed
          /\ orders'[o].lag = orders[o].lag
          /\ orders'[o].status = IF p.kind = "CANCEL_BID" THEN "PENDING_CANCEL"
                                ELSE orders[o].status
      BY <1>7, <2>2 DEF TookEffect, OrderType
    <3>3. IsLive(o)' = IsLive(o)
      BY <2>1, <3>2 DEF IsLive, Live
    <3>4. \A x \in Orders : x # o => IsLive(x)' = IsLive(x)
      BY <3>1 DEF IsLive
    <3> QED
      BY <2>1, <3>1, <3>2, <3>3, <3>4
  <2>4. OrdersKept
    BY <2>3 DEF OrdersKept, FirmInvariant, RowsAreOwn, Firm
  <2>5. HiddenRowYoung' /\ CancelledUnwinds'
    <3>1. cancelled \subseteq Orders
      BY DEF TypeOK
    <3> QED
      BY <1>5, <2>3, <3>1 DEF FirmInvariant, HiddenRowYoung, CancelledUnwinds,
         Hidden, HasRow, Firm
  <2>6. PlanKept(t)
    <3>1. "PENDING_CANCEL" \notin Firm
      BY DEF Firm
    <3>2. CallFrame(t, p)
      BY <1>2
    <3>3. ASSUME NEW c \in tick'[t].sent
          PROVE  /\ tick'[t].sent = {c}
                 /\ c.order \in OwnedIn(t)
                 /\ c.proposal.kind \in {"EDIT_PRICE", "EDIT_SPEED", "CANCEL_BID"}
                 /\ c.proposal \in tick[t].todo
                 /\ c.proposal.kind = "CANCEL_BID" =>
                      orders'[c.order].status \notin Firm
      <4>1. c = [proposal |-> p, order |-> o]
        BY <1>7, <3>3
      <4>2. c.proposal = p /\ c.order = o
        BY <4>1
      <4> QED
        BY <1>7, <2>1, <2>3, <3>1, <4>1, <4>2
    <3> QED
      BY <3>2, <3>3 DEF CallFrame, PlanKept
  <2>7. \A u \in Ticks : PlanKept(u)
    BY <1>4, <2>6 DEF PlanKept
  <2> QED
    BY <1>1, <1>5, <2>4, <2>5, <2>7, FirmKept
<1>8. ASSUME NEW o \in Orders, TookEffect(p, o), p.kind = "CREATE_BID",
             tick'[t].sent = {[proposal |-> p, order |-> o]}
      PROVE  FirmInvariant'
  BY <1>1, <1>2, <1>8, FirmPlaced
<1> QED
  BY <1>2, <1>3, <1>6, <1>7, <1>8

LEMMA FirmRecord ==
    ASSUME TypeOK, OneTickAtATime, FirmInvariant, NEW t \in Ticks, Record(t)
    PROVE  FirmInvariant'
<1>1. PICK c \in tick[t].sent :
        /\ c.order \in Orders
        /\ \A o \in Orders : o # c.order => ledger'[o] = ledger[o]
        /\ ledger'[c.order] = Recorded(ledger[c.order], c.proposal)
  BY AfterRecord
<1>2. /\ tick[t].sent = {c} /\ tick[t].pc = "acting"
      /\ orders[c.order].mine
      /\ c.proposal.kind = "CANCEL_BID" =>
           c.order \in Seen(t) /\ orders[c.order].status \notin Firm
  BY <1>1 DEF FirmInvariant, PlanShape, CancelSent
<1>3. /\ \A u \in Ticks : u = t
      /\ UNCHANGED <<orders, cancelled, faults>>
      /\ tick'[t].sent = {}
  BY AfterRecord
<1>4. /\ OwnFirm' = OwnFirm /\ OwnFirm \subseteq Orders
      /\ Hidden' = Hidden /\ Unmissed' = Unmissed
  BY <1>3 DEF OwnFirm, OwnLive, IsLive, Hidden, Unmissed
<1>5. ledger[c.order] \in RowType
  BY <1>1 DEF TypeOK
<1>6. /\ HasRow(c.order) => HasRow(c.order)'
      /\ c.proposal.kind = "CREATE_BID" => HasRow(c.order)'
      /\ c.proposal.kind = "CREATE_BID" /\ ~HasRow(c.order) =>
           RowActive(c.order)' /\ ledger'[c.order].age = 0
      /\ c.proposal.kind # "CANCEL_BID" /\ HasRow(c.order) =>
           ledger'[c.order].status = ledger[c.order].status
      /\ HasRow(c.order) => ledger'[c.order].age = ledger[c.order].age
      /\ HasRow(c.order)' =>
           HasRow(c.order) \/ c.proposal.kind \in {"CREATE_BID", "CANCEL_BID"}
  BY <1>1, <1>5, RowAfterRecord DEF HasRow, RowActive, NewRow, Terminal
<1>7. \A o \in Orders : HasRow(o) => HasRow(o)'
  BY <1>1, <1>6 DEF HasRow
<1>8. RowsAreOwn' /\ CancelledUnwinds' /\ AtMostOneFirm'
  <2>1. cancelled \subseteq Orders
    BY DEF TypeOK
  <2> QED
    BY <1>1, <1>2, <1>3, <1>4, <1>7, <2>1 DEF FirmInvariant, RowsAreOwn,
       CancelledUnwinds, AtMostOneFirm, HasRow, IsLive
<1>9. FirmTracked'
  <2> SUFFICES ASSUME NEW o \in OwnFirm
               PROVE  HasRow(o)'
    BY <1>4 DEF FirmTracked
  <2> QED
    BY <1>2, <1>3, <1>4, <1>6, <1>7 DEF FirmInvariant, FirmTracked
<1>10. FirmRowActive'
  <2> SUFFICES ASSUME NEW o \in OwnFirm, HasRow(o)'
               PROVE  RowActive(o)' \/ (orders[o].listed /\ ~Unmissed)
    BY <1>3, <1>4 DEF FirmRowActive
  <2>1. orders[o].status \in Firm
    BY DEF OwnFirm
  <2>2. CASE o # c.order
    BY <1>1, <1>4, <2>2 DEF FirmInvariant, FirmRowActive, HasRow, RowActive
  <2>3. CASE o = c.order /\ HasRow(o)
    BY <1>2, <1>6, <2>1, <2>3 DEF FirmInvariant, FirmRowActive, HasRow, RowActive
  <2>4. CASE o = c.order /\ ~HasRow(o)
    BY <1>2, <1>6, <2>1, <2>4
  <2> QED
    BY <2>2, <2>3, <2>4
<1>11. HiddenRowYoung'
  <2> SUFFICES ASSUME NEW o \in Hidden, HasRow(o)'
               PROVE  ledger'[o].age <= orders[o].lag
    BY <1>3, <1>4 DEF HiddenRowYoung
  <2>1. orders[o].lag \in 0..Lag /\ o \in Orders
    BY DEF Hidden, TypeOK, OrderType
  <2>2. HasRow(o) => ledger[o].age <= orders[o].lag
    BY DEF FirmInvariant, HiddenRowYoung
  <2>3. c.proposal.kind = "CANCEL_BID" => o # c.order
    BY <1>2 DEF FirmInvariant, SnapshotListed, Hidden
  <2>4. CASE o # c.order
    BY <1>1, <2>1, <2>2, <2>4 DEF HasRow
  <2>5. CASE o = c.order
    BY <1>6, <2>1, <2>2, <2>3, <2>5, ListingAssumption
  <2> QED
    BY <2>4, <2>5
<1>12. SnapshotListed' /\ SnapshotComplete' /\ CancelSent'
  BY <1>2, <1>3, AfterRecord DEF FirmInvariant, SnapshotListed,
     SnapshotComplete, CancelSent, IsLive
<1>13. PlanShape'
  BY <1>2, <1>3, AfterRecord DEF FirmInvariant, PlanShape
<1>14. NoFirmOrder'
  BY <1>2, <1>3, <1>4, AfterRecord DEF FirmInvariant, NoFirmOrder
<1> QED
  BY <1>8, <1>9, <1>10, <1>11, <1>12, <1>13, <1>14 DEF FirmInvariant

LEMMA FirmFinish ==
    ASSUME TypeOK, OneTickAtATime, FirmInvariant, NEW t \in Ticks, Finish(t)
    PROVE  FirmInvariant'
<1>1. /\ tick[t].sent = {} /\ \A u \in Ticks : u = t
      /\ UNCHANGED <<orders, ledger, cancelled, faults>>
  BY AfterFinish DEF Finish
<1>2. FirmTracked' /\ FirmRowActive'
  BY <1>1, FirmOrdersSame DEF FirmInvariant, FirmTracked, FirmRowActive,
     HasRow, RowActive, Unmissed
<1>3. SnapshotListed' /\ SnapshotComplete' /\ PlanShape' /\ CancelSent'
      /\ NoFirmOrder'
  BY <1>1, AfterFinish DEF SnapshotListed, SnapshotComplete, PlanShape,
     CancelSent, NoFirmOrder, IdleTick
<1> QED
  BY <1>1, <1>2, <1>3, FirmOrdersSame DEF FirmInvariant

LEMMA SamePlans ==
    ASSUME UNCHANGED tick
    PROVE  \A t \in Ticks : PlanKept(t)
  BY DEF PlanKept

\* The route makes an order unwind before it writes the row; Braiins and the
\* clock make none of the daemon's firm.
LEMMA FirmSurroundings ==
    ASSUME TypeOK, TypeOK', Answered, FirmInvariant, Surroundings
    PROVE  FirmInvariant'
<1>1. \A o \in Orders : orders[o] \in OrderType /\ ledger[o] \in RowType
  BY DEF TypeOK
<1>2. cancelled \subseteq Orders
  BY DEF TypeOK
<1>3. RowsAreOwn /\ CancelledUnwinds /\ HiddenRowYoung
  BY DEF FirmInvariant
<1>4. CASE \E mode \in RunModes : SetRunMode(mode)
  <2>1. OrdersKept /\ RowsKept
    BY <1>3, <1>4 DEF SetRunMode, OrdersKept, RowsKept, RowsAreOwn, IsLive,
       HasRow, RowActive
  <2> QED
    BY <1>4, <2>1, FirmKept, FirmOrdersSame, SamePlans DEF SetRunMode
<1>5. ASSUME NEW x \in Orders, CancelStaleUrl(x)
      PROVE  FirmInvariant'
  <2>1. /\ UNCHANGED <<ledger, tick, faults>> /\ HasRow(x)
        /\ cancelled' = cancelled \cup {x}
    BY <1>5 DEF CancelStaleUrl, HasRow
  <2>2. \/ UNCHANGED orders /\ ~IsLive(x)
        \/ /\ IsLive(x)
           /\ orders'[x] = [orders[x] EXCEPT !.status = "PENDING_CANCEL"]
           /\ \A o \in Orders : o # x => orders'[o] = orders[o]
    BY <1>5 DEF CancelStaleUrl, Unwind, TypeOK
  <2>3. /\ \A o \in Orders :
             /\ orders'[o].mine = orders[o].mine
             /\ orders'[o].listed = orders[o].listed
             /\ orders'[o].lag = orders[o].lag
             /\ IsLive(o)' = IsLive(o)
             /\ \/ orders'[o].status = orders[o].status
                \/ IsLive(o) /\ orders'[o].status = "PENDING_CANCEL"
        /\ orders'[x].status \notin Firm
    <3>1. CASE UNCHANGED orders /\ ~IsLive(x)
      BY <3>1 DEF IsLive, Live
    <3>2. CASE IsLive(x) /\ orders'[x] =
                 [orders[x] EXCEPT !.status = "PENDING_CANCEL"]
      <4>1. /\ orders'[x].status = "PENDING_CANCEL"
            /\ orders'[x].mine = orders[x].mine
            /\ orders'[x].listed = orders[x].listed
            /\ orders'[x].lag = orders[x].lag
        BY <1>1, <3>2 DEF OrderType
      <4>2. IsLive(x)' = IsLive(x) /\ orders'[x].status \notin Firm
        BY <3>2, <4>1 DEF IsLive, Live, Firm
      <4>3. \A o \in Orders : o # x => orders'[o] = orders[o]
        BY <2>2, <3>2
      <4>4. \A o \in Orders : o # x => IsLive(o)' = IsLive(o)
        BY <4>3 DEF IsLive
      <4> QED
        BY <3>2, <4>1, <4>2, <4>3, <4>4
    <3> QED
      BY <2>2, <3>1, <3>2
  <2>4. OrdersKept /\ RowsKept
    BY <1>3, <2>1, <2>3 DEF OrdersKept, RowsKept, RowsAreOwn, HasRow,
       RowActive, Firm
  <2>5. HiddenRowYoung'
    BY <1>3, <2>1, <2>3 DEF HiddenRowYoung, Hidden, HasRow
  <2>6. CancelledUnwinds'
    BY <1>2, <1>3, <2>1, <2>3 DEF CancelledUnwinds, HasRow, Firm
  <2> QED
    BY <2>1, <2>4, <2>5, <2>6, FirmKept, SamePlans
<1>6. ASSUME NEW x \in Orders, RecordStaleUrl(x)
      PROVE  FirmInvariant'
  <2>1. /\ UNCHANGED <<orders, tick, faults>>
        /\ x \in cancelled /\ cancelled' = cancelled \ {x}
        /\ ledger'[x] = [ledger[x] EXCEPT !.status = "CANCELED"]
        /\ \A o \in Orders : o # x => ledger'[o] = ledger[o]
    BY <1>6 DEF RecordStaleUrl, TypeOK
  <2>2. HasRow(x) /\ orders[x].status \notin Firm
    BY <1>3, <2>1 DEF CancelledUnwinds
  <2>3. \A o \in Orders : /\ HasRow(o)' = HasRow(o)
                          /\ ledger'[o].age = ledger[o].age
    BY <1>1, <2>1, <2>2 DEF HasRow, RowType
  <2>4. \A o \in Orders : o # x => RowActive(o)' = RowActive(o)
    BY <2>1 DEF RowActive, HasRow
  <2>5. OrdersKept /\ RowsKept
    BY <1>3, <2>1, <2>2, <2>3, <2>4 DEF OrdersKept, RowsKept, RowsAreOwn, IsLive
  <2>6. HiddenRowYoung' /\ CancelledUnwinds'
    BY <1>2, <1>3, <2>1, <2>3 DEF HiddenRowYoung, CancelledUnwinds, Hidden,
       IsLive
  <2> QED
    BY <2>1, <2>5, <2>6, FirmKept, SamePlans
<1>7. ASSUME NEW x \in Orders,
             Surface(x) \/ Leave(x) \/ PauseOrResume(x) \/ PlaceByHand(x)
      PROVE  FirmInvariant'
  <2>1. UNCHANGED <<ledger, tick, cancelled, faults>>
    BY <1>7, AfterMarket
  <2>2. orders[x].status = "NONE" => ~orders[x].mine /\ ~HasRow(x)
    BY <1>3 DEF RowsAreOwn
  <2>3. orders[x].mine \in BOOLEAN
    BY <1>1 DEF OrderType
  <2>4. OrdersKept
    <3>1. /\ orders'[x].mine = orders[x].mine
          /\ orders[x].status # "NONE" => orders'[x].status # "NONE"
          /\ orders[x].mine /\ orders'[x].status \in Firm
                => orders[x].status \in Firm
          /\ IsLive(x)' /\ ~orders[x].mine => orders'[x].listed
          /\ IsLive(x)' /\ orders[x].status # "NONE" =>
               IsLive(x) /\ (orders[x].listed => orders'[x].listed)
      <4>1. TypeOK' /\ orders'[x].mine \in BOOLEAN
        BY DEF TypeOK, OrderType
      <4> QED
        BY <1>3, <1>7, <2>2, <2>3, <4>1, AfterMarket DEF RowsAreOwn, IsLive,
           Live, Firm
    <3>2. \A o \in Orders : o # x => orders'[o] = orders[o]
      BY <1>7, AfterMarket
    <3> QED
      BY <1>3, <3>1, <3>2 DEF OrdersKept, RowsAreOwn, IsLive
  <2>5. RowsKept
    BY <2>1 DEF RowsKept, HasRow, RowActive
  <2>6. HiddenRowYoung'
    <3> SUFFICES ASSUME NEW o \in Hidden', HasRow(o)
                 PROVE  ledger[o].age <= orders'[o].lag
      BY <2>1 DEF HiddenRowYoung, HasRow
    <3>1. o \in Hidden /\ orders'[o].lag = orders[o].lag
      BY <1>7, <2>2, AfterMarket DEF Hidden, IsLive, Live, Firm
    <3> QED
      BY <1>3, <3>1 DEF HiddenRowYoung
  <2>7. CancelledUnwinds'
    <3> SUFFICES ASSUME NEW o \in cancelled
                 PROVE  HasRow(o) /\ orders'[o].status \notin Firm
      BY <2>1 DEF CancelledUnwinds, HasRow
    <3>1. HasRow(o) /\ orders[o].status \notin Firm /\ o \in Orders
      BY <1>2, <1>3 DEF CancelledUnwinds
    <3>2. orders[o].mine
      BY <1>3, <3>1 DEF RowsAreOwn
    <3> QED
      BY <2>4, <3>1, <3>2 DEF OrdersKept
  <2> QED
    BY <2>1, <2>4, <2>5, <2>6, <2>7, FirmKept, SamePlans
<1>8. ~Crash
  BY DEF Crash, Fault, Answered
<1>9. CASE Minute
  <2>1. UNCHANGED <<tick, cancelled, faults>>
    BY <1>9, AfterMinute
  <2>2. \A o \in Orders : /\ IsLive(o)' = IsLive(o)
                          /\ HasRow(o)' = HasRow(o)
                          /\ RowActive(o)' = RowActive(o)
    BY <1>9, AfterMinute DEF IsLive, HasRow, RowActive
  <2>3. OrdersKept /\ RowsKept
    BY <1>3, <1>9, <2>2, AfterMinute DEF OrdersKept, RowsKept, RowsAreOwn
  <2>4. HiddenRowYoung'
    <3> SUFFICES ASSUME NEW o \in Hidden, HasRow(o)
                 PROVE  ledger'[o].age <= orders'[o].lag
      BY <1>9, <2>2, AfterMinute DEF HiddenRowYoung, Hidden
    <3>1. ledger[o].age <= orders[o].lag /\ o \in Orders
      BY <1>3 DEF HiddenRowYoung, Hidden
    <3>2. ledger[o].age \in Nat /\ orders[o].lag \in Nat
      BY <1>1, <3>1, ListingAssumption DEF OrderType, RowType
    <3>3. /\ ledger'[o].age = Older(ledger[o].age, Grace + 1)
          /\ orders'[o].lag = orders[o].lag + 1
      BY <1>9, <3>1, AfterMinute
    <3> QED
      BY <3>1, <3>2, <3>3, ListingAssumption DEF Older, LesserOf
  <2>5. CancelledUnwinds'
    BY <1>2, <1>3, <1>9, <2>1, <2>2, AfterMinute DEF CancelledUnwinds
  <2> QED
    BY <2>1, <2>3, <2>4, <2>5, FirmKept, SamePlans
<1> QED
  BY <1>4, <1>5, <1>6, <1>7, <1>8, <1>9 DEF Surroundings

\* A single loop never has two orders that are not being unwound
\* (decide.ts:65, 221-242), also when one list misses orders of the account
\* and the operator cancels orders with a stale URL at any moment.
THEOREM NeverTwoFirm ==
    ASSUME OneTickAtATime, Answered, MissesOnce
    PROVE  Spec => []AtMostOneFirm
<1>1. Init => FirmInvariant
  BY FirmInit
<1>2. TypeOK /\ TypeOK' /\ FirmInvariant /\ [Next]_vars => FirmInvariant'
  <2> SUFFICES ASSUME TypeOK, TypeOK', FirmInvariant, [Next]_vars
               PROVE  FirmInvariant'
    OBVIOUS
  <2>1. CASE UNCHANGED vars
    <3>1. OrdersKept /\ RowsKept
      BY <2>1 DEF vars, FirmInvariant, OrdersKept, RowsKept, RowsAreOwn, IsLive,
         HasRow, RowActive
    <3> QED
      BY <2>1, <3>1, FirmKept, FirmOrdersSame, SamePlans DEF vars
  <2>2. ASSUME NEW t \in Ticks,
               Observe(t) \/ Execute(t) \/ Record(t) \/ Finish(t)
        PROVE  FirmInvariant'
    BY <2>2, OneTickAtATime, Answered, MissesOnce, FirmBegin, FirmReadList,
       FirmSyncLedger, FirmDecideNow, FirmExecute, FirmRecord, FirmFinish
       DEF Observe
  <2> QED
    BY <2>1, <2>2, Answered, NextCases, FirmSurroundings
<1>3. FirmInvariant => AtMostOneFirm
  BY DEF FirmInvariant
<1> QED
  BY <1>1, <1>2, <1>3, TypeCorrect, PTL DEF Spec
=============================================================================
