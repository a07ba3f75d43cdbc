-------------------------- MODULE MCKlinePipeline --------------------------
(* Trades and messages for the TLC runs of KlinePipeline. *)
EXTENDS KlinePipeline, TLC

CONSTANTS t1, t2, t3, p1, p2, c1

Trade(at, price, maker, side) ==
  [candle |-> c1, at |-> at, price |-> price, maker |-> maker, side |-> side]

\* Two trades of one block, the second on its way to the high, and a later one.
ThreeTrades ==
  t1 :> Trade(1, 2, 1, "buy") @@ t2 :> Trade(1, 3, 2, "buy") @@ t3 :> Trade(2, 1, 1, "sell")

\* One maker buys at a high price and sells in the same block.
WashTrade ==
  t1 :> Trade(1, 3, 1, "buy") @@ t2 :> Trade(1, 2, 1, "sell") @@ t3 :> Trade(2, 1, 2, "buy")

\* The block with two trades, published again by the watcher for one of them.
TwoPartitions == p1 :> {<<t1, t2>>, <<t2>>} @@ p2 :> {<<t3>>}
TwoAndOne == p1 :> 2 @@ p2 :> 1

OnePartition == p1 :> {<<t1, t2>>, <<t3>>}
Two == p1 :> 2
Three == p1 :> 3
=============================================================================
