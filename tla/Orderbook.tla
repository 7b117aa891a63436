----------------------------- MODULE Orderbook ------------------------------
(***************************************************************************)
(* cheapestAskForDepth(): where to bid so that enough of the asks at or     *)
(* below the price is still unmatched.  It is one loop over the asks in     *)
(* ascending price order; a step of this specification is an iteration.     *)
(***************************************************************************)
EXTENDS Values, SequencesExt

CONSTANTS
    Books,     \* order books to try: sequences of asks, in any order
    Needs      \* depths to try, in PH/s

\* Quantities may be missing from an ask, which counts as 0.
Ask == [price : Int, available : Int, matched : Int]

ASSUME BookAssumption ==
    /\ \A b \in Books : b \in Seq(Ask)
    /\ \A n \in Needs : n \in Int

VARIABLES
    asks,         \* the argument
    needed,       \* the argument
    rest,         \* sorted asks still to visit
    cumulative,   \* open supply visited so far
    lastNonZero,  \* price of the last ask with any
    result        \* {} until the function returns, then its one answer

bookVars == <<asks, needed, rest, cumulative, lastNonZero, result>>

Larger(a, b) == IF a > b THEN a ELSE b

UnmatchedPh(ask) ==
    Larger(0, Larger(0, ask.available) - Larger(0, ask.matched))

\* The indices of a book, cheapest ask first; equal asks in any order.
Ascending(book) ==
    {order \in Bijection(DOMAIN book, DOMAIN book) :
        \A i, j \in DOMAIN book : i < j => book[order[i]].price <= book[order[j]].price}

BookInit ==
    /\ asks \in Books
    /\ needed \in Needs
    /\ \E order \in Ascending(asks) : rest = [i \in DOMAIN asks |-> asks[order[i]]]
    /\ cumulative = 0
    /\ lastNonZero = Null
    /\ result = {}

SkipAsk ==
    /\ result = {}
    /\ rest # <<>>
    /\ UnmatchedPh(Head(rest)) = 0
    /\ rest' = Tail(rest)
    /\ UNCHANGED <<asks, needed, cumulative, lastNonZero, result>>

\* Mutation of DeepEnough: an exact fit does not count.
MoreThanEnough(total) == total > needed

DeepEnough(total) == total >= needed

TakeAsk ==
    /\ result = {}
    /\ rest # <<>>
    /\ UnmatchedPh(Head(rest)) > 0
    /\ rest' = Tail(rest)
    /\ cumulative' = cumulative + UnmatchedPh(Head(rest))
    /\ lastNonZero' = Head(rest).price
    /\ result' = IF DeepEnough(cumulative')
                 THEN {[price |-> lastNonZero', thin |-> FALSE]}
                 ELSE {}
    /\ UNCHANGED <<asks, needed>>

\* Out of supply, or no asks at all: the deepest price there is.
RunOut ==
    /\ result = {}
    /\ rest = <<>>
    /\ result' = {[price |-> lastNonZero, thin |-> TRUE]}
    /\ UNCHANGED <<asks, needed, rest, cumulative, lastNonZero>>

BookNext == SkipAsk \/ TakeAsk \/ RunOut

BookSpec == BookInit /\ [][BookNext]_bookVars

-----------------------------------------------------------------------------
(* Properties.  The reference counts the units of an ask that lie above    *)
(* what is matched.                                                        *)

Units(i) == Cardinality({n \in 1..asks[i].available : n > asks[i].matched})

Supply(indices) == MapThenSumSet(Units, indices)

UpTo(price) == {i \in DOMAIN asks : asks[i].price <= price}

Returned == result # {}
Answer == CHOOSE r \in result : TRUE

\* A bid at the answer reaches the depth asked for and a bid at any cheaper
\* level does not, however the book is ordered (orderbook.ts:75-83).
CheapestDeepEnough ==
    Returned /\ ~Answer.thin =>
        /\ Supply(UpTo(Answer.price)) >= needed
        /\ \A i \in DOMAIN asks :
              asks[i].price < Answer.price =>
                  Supply(UpTo(asks[i].price)) < Larger(needed, 1)
=============================================================================
