--------------------------- MODULE MCSlotScanner ---------------------------
(* Workers for the TLC runs of SlotScanner. *)
EXTENDS SlotScanner, TLC

CONSTANTS w1, h1
=============================================================================
