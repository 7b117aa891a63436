---------------------------- MODULE MCController ----------------------------
(* Instances of Controller. *)
EXTENDS SingleOrder

\* 1000 units of overpay over the fillable ask, a dynamic cap, an edit
\* deadband of 1000, cheap mode off unless observe() reports it engaged.
MCConfig ==
    [poolUrl |-> TRUE, maxBid |-> 50000, maxOverpay |-> 1000, bip110 |-> FALSE,
     overpay |-> 1000, deadbandPct |-> 20, targetPh |-> 1, cheapTargetPh |-> 2,
     cheapPct |-> 90, cheapWindow |-> 5, budget |-> 0, maxFeePct |-> 0]

\* One reading: market, hashprice, fillable ask, cheap mode, fee.
Quote(fillable, engaged, feePct) ==
    [market |-> TRUE, hashprice |-> 45, fillable |-> fillable,
     engaged |-> engaged, minSpeed |-> Null, tickSize |-> Null,
     balance |-> 7, feePct |-> feePct]

NoQuote == [Quote(Null, FALSE, 0) EXCEPT !.market = FALSE, !.hashprice = Null]

Steady == {Quote(40000, FALSE, 0)}
Moving == {Quote(40000, FALSE, 0), Quote(42000, FALSE, 0), NoQuote}
Varied == {Quote(40000, FALSE, 0), Quote(42000, TRUE, 0), Quote(40000, FALSE, 1)}
=============================================================================
