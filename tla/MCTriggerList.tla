--------------------------- MODULE MCTriggerList ---------------------------
(* Prices and symmetry for the TLC runs of TriggerList. *)
EXTENDS TriggerList, TLC

\* Half of 2 and of 4 are prices too: stops at 50% fire and ratchet.
FourPrices == 1..4
TwoPrices == 1..2
\* A stop at 6 fires at 3 and at 2, where one at 2 or 3 is kept, and moves to 3.
ThreePrices == {2, 3, 6}

Symmetry == Permutations(Orders) \cup Permutations(Matchers)
=============================================================================
