------------------------- MODULE MCSwapSubmission --------------------------
(* The slippage tiers of the auto-slippage engine, for TLC. *)
EXTENDS SwapSubmission

MCTiers == <<0, 4500, 7000>>
=============================================================================
