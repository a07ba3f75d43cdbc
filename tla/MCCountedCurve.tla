--------------------------- MODULE MCCountedCurve ---------------------------
(* A small instance of CountedCurve for TLC. *)
EXTENDS MCBondingCurve, CountedCurve

\* The bound of the history: no step is taken after this many buys of a mint.
MaxBuys == 4
FewBuys == \A m \in Mints : buys[m] <= MaxBuys
=============================================================================
