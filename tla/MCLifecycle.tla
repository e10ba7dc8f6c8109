----------------------------- MODULE MCLifecycle -----------------------------
(* The small weeks of MCJobScheduling with the process around them. *)
EXTENDS Lifecycle

CONSTANTS Timeclock, FlipSheet

MCOrig == [j \in Jobs |-> IF j = Timeclock THEN 2 ELSE 3]

(* The ways each main_job can end, from the exceptions its code raises. *)
MCMayEnd ==
  [j \in Jobs |-> IF j = Timeclock THEN {"ok", "resched", "error", "poolclosed", "crash"}
                                   ELSE {"ok", "error", "crash"}]

(* From any slot of the first week to the re-registration of the second. *)
MCSunday == At(1, 0)
=============================================================================
