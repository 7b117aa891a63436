----------------------------- MODULE MCGuarded ------------------------------
(* Instances of GuardedController, one steady market. *)
EXTENDS GuardedController

MCConfig ==
    [poolUrl |-> TRUE, maxBid |-> 50000, maxOverpay |-> Null, bip110 |-> FALSE,
     overpay |-> 1000, deadbandPct |-> 20, targetPh |-> 1, cheapTargetPh |-> 1,
     cheapPct |-> 0, cheapWindow |-> 0, budget |-> 5, maxFeePct |-> 0]

Steady ==
    {[market |-> TRUE, hashprice |-> 45, fillable |-> 40000, engaged |-> FALSE,
      minSpeed |-> Null, tickSize |-> Null, balance |-> 7, feePct |-> 0]}
=============================================================================
