--------------------------- MODULE MCBondingCurve ---------------------------
(* Small instances of BondingCurve for TLC. *)
EXTENDS BondingCurve, TLC

NoFee == [platform |-> 0, secondary |-> 0, creator |-> 0]
SmallFee == [platform |-> 1, secondary |-> 0, creator |-> 2]

\* Fees on sells and on the migration; the curve's price rises to five times.
Steep ==
  [buyFee |-> NoFee, sellFee |-> SmallFee, migrationFee |-> SmallFee,
   supply |-> 12, virtualToken |-> 10, virtualSol |-> 3, realToken |-> 8,
   meteoraToken |-> 4, meteoraSol |-> 5, lastVirtualSol |-> 15]

\* Fees on buys; the price rises to three times.
Flat ==
  [buyFee |-> SmallFee, sellFee |-> NoFee, migrationFee |-> NoFee,
   supply |-> 8, virtualToken |-> 9, virtualSol |-> 4, realToken |-> 6,
   meteoraToken |-> 2, meteoraSol |-> 4, lastVirtualSol |-> 12]

\* More tokens promised than minted.
Overpromised == [Flat EXCEPT !.meteoraToken = 4]

\* Fees above the whole amount.
Overcharged == [Steep EXCEPT !.sellFee = [platform |-> 6, secondary |-> 6, creator |-> 0]]

MCConfigs == {Steep, Flat, Overpromised, Overcharged}
MCAmounts == {1, 2, 6}
MCLimits == {0, 100}
\* Mints are interchangeable.
MintSymmetry == Permutations(Mints)
=============================================================================
