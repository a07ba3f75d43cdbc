---------------------------- MODULE CandleLedger ----------------------------
(***************************************************************************)
(* What the candle pipeline promises: every trade is added to its candle   *)
(* at most once, a batch of trades in one step, and nothing is taken out   *)
(* again, for as long as no fault interferes.                              *)
(***************************************************************************)
CONSTANTS
  Trades,       \* the trades
  Candles,      \* the candles
  CandleOf      \* the candle of each trade

VARIABLES
  total,        \* the trades counted in each candle
  harmed        \* a fault has interfered: nothing is promised any more

Init ==
  /\ total = [c \in Candles |-> {}]
  /\ harmed = FALSE

\* A batch of trades that were not counted before is added to candle c.
Fold(c, batch) ==
  /\ \A t \in batch : CandleOf[t] = c
  /\ batch \cap total[c] = {}
  /\ total' = [total EXCEPT ![c] = @ \cup batch]
  /\ UNCHANGED harmed

Harm ==
  /\ harmed' = TRUE
  /\ total' \in [Candles -> SUBSET Trades]

Next == \/ \E c \in Candles, batch \in SUBSET Trades : Fold(c, batch)
        \/ Harm

Spec == Init /\ [][Next]_<<total, harmed>>
=============================================================================
