---------------------------- MODULE MCTimeclock ----------------------------
(* A week of four slots for TLC: Sunday is the first two, Thursday the last.  The
   clock stops at the end of the week whose Sunday hides the first tab.            *)
EXTENDS Timeclock

MCHorizon == At(4, 3)

(* One week's allotted hours are typed with a fraction, another's training hours as
   a word.                                                                         *)
MCTyped ==
  [w \in 0..4 |-> [allotted |-> IF w = 1 THEN "fraction" ELSE "whole",
                   training |-> IF w = 2 THEN "text" ELSE "whole"]]

(* The allotted hours less a few, and far over them. *)
MCWorked == {36, 60}
=============================================================================
