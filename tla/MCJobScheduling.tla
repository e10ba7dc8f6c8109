--------------------------- MODULE MCJobScheduling ---------------------------
(* Small weeks of JobScheduling for TLC: four or five slots, of one retry delay
   each.  The weekly re-registration is at slot 0; every job has a slot between,
   and the retries of Timeclock, the last of the week, soon meet it.             *)
EXTENDS JobScheduling

CONSTANTS Timeclock, BalanceSheet, FlipSheet

MCOrig == [j \in Jobs |-> CASE j = BalanceSheet -> 2 [] j = Timeclock -> 3 [] OTHER -> 1]

(* The ways each main_job can end, from the exceptions its code raises. *)
MCMayEnd ==
  [j \in Jobs |->
     CASE j = Timeclock    -> {"ok", "resched", "error", "poolclosed", "crash"}
       [] j = BalanceSheet -> Outcomes
       [] OTHER            -> {"ok", "error", "crash"}]

(* From any slot of the first week, over the re-registration of the second, to
   the last weekly run after it.                                               *)
MCHorizon == At(1, 3)
=============================================================================
