--------------------------- MODULE MCTradeOrders ---------------------------
(* Requests and symmetry for the TLC runs of TradeOrders. *)
EXTENDS TradeOrders, TLC
LOCAL INSTANCE SequencesExt

Request(kind, side, attach) == [kind |-> kind, side |-> side, attach |-> attach]

\* A buy with an attached trailing stop: the only chain of orders that swaps twice.
TrailingBuys == {Request("market", "buy", "trailing")}

\* Hand-placed trailing stops.
TrailingStops == {Request("trailing", "sell", "trailing")}

\* Two hand-placed stops, or a buy and the stop that follows it.
StopsAndTrailingBuys == TrailingStops \cup TrailingBuys

\* Hand-placed limit orders.
LimitOrders == {Request("limit", "sell", "none")}

\* Buys with double-out, plain sells and a hand-placed limit order.
DoubleOutBuys == {Request("market", "buy", "double"), Request("limit", "buy", "none")}

\* Both kinds of follow-up.
AttachedBuys == TrailingBuys \cup DoubleOutBuys

\* The ids in one order, as auto-increment hands them out.
AutoIncrement ==
  LET ids == SetToSeq(Orders) IN
  UNION {{<<ids[i], ids[j]>> : j \in (i + 1)..Len(ids)} : i \in DOMAIN ids}

Symmetry == Permutations(Orders) \cup Permutations(Matchers) \cup Permutations(Tickers)
=============================================================================
