------------------------------ MODULE MCDecide ------------------------------
(* Instances of DecideTick: a few values on each side of every threshold.  *)
EXTENDS DecideTick


MCConfigs ==
    [poolUrl : BOOLEAN, maxBid : {50000}, maxOverpay : {Null, 3000},
     bip110 : BOOLEAN, overpay : {1000, 10000}, deadbandPct : {20},
     targetPh : {1}, cheapTargetPh : {3}, cheapPct : {90},
     cheapWindow : {0, 5}, budget : {0}, maxFeePct : {0}]

Bids ==
    [status : {"ACTIVE", "PENDING_CANCEL"}, price : {41000, 52000},
     speed : {1}, feePct : {Null}]
    \cup [status : {"ACTIVE", "PAUSED"}, price : {46000},
          speed : {Null}, feePct : {1}]

Book(ids) == [ids -> Bids]

\* A reachable market, one or two orders, in every run mode.
TradingViews ==
    [unknown : {{}}, owned : Book({1}) \cup Book({1, 2}), poolFails : {0, 3},
     nodeStale : {FALSE}, market : {TRUE}, minSpeed : {2},
     tickSize : {Null}, hashprice : {46}, fillable : {40000, 49500},
     engaged : {TRUE}, bidsOk : {TRUE}, activeRows : {1}, held : {FALSE},
     balance : {5}, runMode : {"LIVE"}, cooling : SUBSET {1}]

\* Partial observations, an empty list, unknown orders.
DegradedViews ==
    [unknown : {{}, {3}}, owned : Book({}) \cup Book({2}), poolFails : {2, 3},
     nodeStale : BOOLEAN, market : BOOLEAN, minSpeed : {Null},
     tickSize : {500}, hashprice : {Null, 46}, fillable : {Null, 40000},
     engaged : {FALSE}, bidsOk : BOOLEAN, activeRows : {0, 1}, held : BOOLEAN,
     balance : {0, 5}, runMode : {"LIVE"}, cooling : {{}}]

\* What a failed market fetch implies for the fields that come from it, and
\* an ordinary tick outside LIVE.
MCViews ==
    TradingViews
      \cup {v \in DegradedViews : ~v.market => v.fillable = Null}
      \cup {[v EXCEPT !.runMode = m] :
              v \in {w \in TradingViews : w.owned \in Book({1})},
              m \in RunModes}
=============================================================================
