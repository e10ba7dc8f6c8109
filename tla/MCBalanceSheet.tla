--------------------------- MODULE MCBalanceSheet ---------------------------
(* A week of six slots for TLC: RYO is due at slot 1, the job runs at slot 2, SAS
   is due at slot 3.  Week 0 stands for the week, about a month before week 1,
   whose names the pattern of week 1 also matches.                              *)
EXTENDS BalanceSheet

MCDeadline == [s \in SourceKeys |-> IF s = "ryo" THEN 1 ELSE 3]

MCLookalikes == {<<0, 1>>}

MCOldFiles == <<0>>

(* The end of the second week. *)
MCHorizon == At(3, 0)
=============================================================================
