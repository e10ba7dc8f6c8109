------------------------------- MODULE JobLife -------------------------------
(***************************************************************************)
(* What JobBase and the scheduler promise of one job, whatever else runs:    *)
(* it has one run at a time, a run ends well, is retried or freezes the job, *)
(* a frozen job does no more work, and its next run moves only by being      *)
(* handed out, by a retry, or by the weekly re-registration in its time.     *)
(*                                                                         *)
(* There is no event loop here, no queue and no other job: JobScheduling     *)
(* implements this for each of its jobs, BalanceSheet and FlipSheet for the  *)
(* one job they follow through its body.                                     *)
(***************************************************************************)
EXTENDS CronSlots

CONSTANTS
  Main,       \* startup.jobs: the slot the job is registered with
  Threshold,  \* err_max_threshold
  Grace       \* misfire_grace_time of "reschedule_jobs", in slots

VARIABLES
  clock,     \* the current instant
  slot,      \* main_cron_args
  next,      \* the next run
  failures,  \* err_counter
  frozen,    \* errored
  run        \* "none", "waiting" for its first step, "working", "over" while it
             \* still has the job's only instance

vars == <<clock, slot, next, failures, frozen, run>>

Init ==
  /\ clock \in Instants
  /\ slot = Main
  /\ next = NextFire(Main, clock)
  /\ failures = 0
  /\ frozen = FALSE
  /\ run = "none"

(* A due run begins, or is dropped if the last one still has the instance. *)
HandedOut ==
  /\ NotAfter(next, clock)
  /\ next' = FollowingFire(slot, clock)
  /\ run' = IF run = "none" THEN "waiting" ELSE run
  /\ UNCHANGED <<clock, slot, failures, frozen>>

Works ==
  /\ run = "waiting" /\ run' = "working"
  /\ ~frozen
  /\ UNCHANGED <<clock, slot, next, failures, frozen>>

(* The end of a run, which may give its instance back at once. *)
RunEnds == run' \in {"over", "none"}

(* A run of a frozen job, one that is cancelled, or one whose pool is closed. *)
Abandoned ==
  /\ run \in {"waiting", "working"} /\ RunEnds
  /\ UNCHANGED <<clock, slot, next, failures, frozen>>

EndsClean ==
  /\ run = "working" /\ RunEnds
  /\ failures' = 0
  /\ UNCHANGED <<clock, slot, next, frozen>>

(* Below the threshold, once more and one delay behind its own slot. *)
RetriedLater(count) ==
  /\ run = "working" /\ RunEnds
  /\ count < Threshold
  /\ failures' = count
  /\ slot' = ShiftSlot(slot)
  /\ next' = NextFire(ShiftSlot(slot), clock)
  /\ UNCHANGED <<clock, frozen>>

(* At once, or by a count that has come to the threshold. *)
Freezes(count) ==
  /\ run = "working" /\ RunEnds
  /\ count \in {failures, Threshold}
  /\ failures' = count
  /\ frozen' = TRUE
  /\ UNCHANGED <<clock, slot, next>>

(* The failure is counted or not. *)
Fails == \E count \in {failures, failures + 1} : RetriedLater(count) \/ Freezes(count)

(* No thread takes the body any more: the run fails for good before it has begun. *)
Refused ==
  /\ run = "waiting" /\ RunEnds
  /\ ~frozen /\ frozen' = TRUE
  /\ UNCHANGED <<clock, slot, next, failures>>

GivesBack ==
  /\ run = "over" /\ run' = "none"
  /\ UNCHANGED <<clock, slot, next, failures, frozen>>

(* reschedule_jobs, at the begin of the week or not at all; a run of the job may
   be due, and handed out, together with it.                                     *)
Reregistered ==
  /\ clock.slot <= Grace
  /\ slot' = Main
  /\ next' = NextFire(Main, clock)
  /\ \/ run' = run
     \/ NotAfter(next, clock) /\ run = "none" /\ run' = "waiting"
  /\ UNCHANGED <<clock, failures, frozen>>

TimePasses ==
  /\ clock' = Later(clock, 1)
  /\ UNCHANGED <<slot, next, failures, frozen, run>>

Next ==
  \/ HandedOut \/ Works \/ Abandoned \/ EndsClean \/ Fails \/ Refused \/ GivesBack
  \/ Reregistered
  \/ TimePasses

Spec == Init /\ [][Next]_vars
=============================================================================
