---------------------------- MODULE MCOrderbook -----------------------------
(* Books of up to three asks: equal prices, matched, over-matched and       *)
(* missing quantities.                                                      *)
EXTENDS Orderbook

Asks == [price : 1..3, available : {0, 2, 3}, matched : {-1, 0, 1, 4}]

MCBooks ==
    {<<>>} \cup [1..1 -> Asks] \cup [1..2 -> Asks]
      \cup {b \in [1..3 -> [price : 1..3, available : 0..2, matched : {0, 1}]] :
              b[1].matched = 0}
MCNeeds == 0..4
=============================================================================
