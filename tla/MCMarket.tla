------------------------------ MODULE MCMarket ------------------------------
(* Four instances in one, each run by itself while the others rest: an      *)
(* account with two order ids in a steady market, where lists, calls and    *)
(* routes misbehave; an account with a single one in a market that moves,   *)
(* where the operator switches the run mode; the decision rules alone; the  *)
(* walk over the order book.                                                *)
EXTENDS MCController, MCDecide, MCOrderbook

VARIABLE story    \* chosen once

marketVars == <<vars, decideVars, bookVars, story>>

\* What the loop proposes in the steady market.
Unedited ==
    \A t \in Ticks : \A p \in tick'[t].todo :
        /\ p.kind \notin {"EDIT_PRICE", "EDIT_SPEED"}
        /\ p.kind = "CREATE_BID" => p.price = 41000 /\ p.speed = 1

Steadily == Unedited /\ (runMode' # runMode => tick' # tick)

Alone ==
    /\ poolFails' = 0
    /\ cancelled' = {}
    /\ \A o \in Orders \ {1} : orders'[o] = orders[o]

ControllerStory ==
    /\ story \in {"faults", "prices"}
    /\ Next
    /\ IF story = "faults" THEN Steadily ELSE Alone
    /\ UNCHANGED <<decideVars, bookVars>>

DecideStory ==
    /\ story = "rules"
    /\ DecideNext
    /\ UNCHANGED <<vars, bookVars>>

BookStory ==
    /\ story = "book"
    /\ BookNext
    /\ UNCHANGED <<vars, decideVars>>

\* The function has returned.
Over ==
    /\ \/ story = "rules" /\ ~ENABLED DecideNext
       \/ story = "book" /\ ~ENABLED BookNext
    /\ UNCHANGED <<vars, decideVars, bookVars>>

\* Those that rest do so in one state.
NoDecision ==
    /\ cfg = CHOOSE c \in Configs : TRUE
    /\ view = CHOOSE v \in Views : TRUE
    /\ plan = {}
    /\ phase = "observed"
    /\ ticks = 0

NoBook ==
    /\ asks = <<>>
    /\ needed = 0
    /\ rest = <<>>
    /\ cumulative = 0
    /\ lastNonZero = Null
    /\ result = {}

MarketInit ==
    /\ Init
    /\ \/ story \in {"faults", "prices"} /\ NoDecision /\ NoBook
       \/ story = "rules" /\ DecideInit /\ NoBook
       \/ story = "book" /\ NoDecision /\ BookInit

MarketNext ==
    /\ ControllerStory \/ DecideStory \/ BookStory \/ Over
    /\ UNCHANGED story

MarketSpec == MarketInit /\ [][MarketNext]_marketVars
=============================================================================
