---------------------------- MODULE MCFlipSheet ----------------------------
(* A week of four slots for TLC, of which Sunday is the first two; the clock stops
   after the Sunday that hides the first tab.                                     *)
EXTENDS FlipSheet

MCHorizon == At(5, 2)
=============================================================================
