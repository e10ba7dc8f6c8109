---------------------------- MODULE RetrySchedule ----------------------------
(***************************************************************************)
(* The schedule of one job, seen from the job: when its next run is handed  *)
(* out, what the end of a run makes of the schedule, and the weekly          *)
(* re-registration.  It is JobScheduling for one job, with the event loop    *)
(* free whenever something is due; BalanceSheet and FlipSheet add what the   *)
(* job's body does.                                                          *)
(***************************************************************************)
EXTENDS CronSlots

CONSTANTS
  Main,      \* startup.jobs: the slot the job is registered with
  Threshold, \* err_max_threshold
  Horizon    \* bound: the clock stops at this instant

ASSUME RetryScheduleAssumption ==
  /\ Main \in Slots
  /\ Threshold \in Nat \ {0}
  /\ Horizon \in Instants

VARIABLES
  clock,       \* the current instant
  args,        \* main_cron_args
  next,        \* the next run of the job
  reset,       \* the next run of "reschedule_jobs"
  errCounter,  \* err_counter
  errored      \* errored

slotVars == <<args, next, reset>>

scheduleVars == <<slotVars, errCounter, errored>>

(* The ways main_job ends, as run_job tells them apart: see JobScheduling. *)
Outcomes == {"ok", "resched", "error", "joberror", "crash"}

JobDue == NotAfter(next, clock)

ResetDue == NotAfter(reset, clock)

(* What is due is handed out together; reschedule_jobs runs after the job's
   submission, without an await.                                              *)
HandsOut ==
  /\ ~errored
  /\ JobDue \/ ResetDue
  /\ IF ResetDue
       THEN /\ args' = Main
            /\ next' = NextFire(Main, clock)
            /\ reset' = FollowingFire(0, clock)
       ELSE /\ next' = FollowingFire(args, clock)
            /\ UNCHANGED <<args, reset>>
  /\ UNCHANGED <<clock, errCounter, errored>>

(* reschedule_self and schedule_registered_jobs *)
RetriesLater(count) ==
  /\ errCounter' = count
  /\ args' = ShiftSlot(args)
  /\ next' = NextFire(ShiftSlot(args), clock)
  /\ UNCHANGED <<errored, reset>>

Freezes(count) ==
  /\ errCounter' = count
  /\ errored' = TRUE
  /\ UNCHANGED slotVars

(* Mutant: a clean run is followed by a retry too. *)
EndsInRetry == RetriesLater(0)

EndsClean ==
  /\ errCounter' = 0
  /\ UNCHANGED <<errored, slotVars>>

(* Mutant: the count is compared before it is raised. *)
ReachesThresholdLate == errCounter >= Threshold

ReachesThreshold == errCounter + 1 >= Threshold

(* run_job settles the end of the body on the event loop. *)
Settles(outcome) ==
  \/ outcome = "ok" /\ EndsClean
  \/ outcome = "resched" /\ RetriesLater(errCounter)
  \/ outcome = "error" /\ ~ReachesThreshold /\ RetriesLater(errCounter + 1)
  \/ outcome = "error" /\ ReachesThreshold /\ Freezes(errCounter + 1)
  \/ outcome \in {"joberror", "crash"} /\ Freezes(errCounter)

(* What is due is handed out before time passes.  Once errored the process goes
   down (Lifecycle's FreezeExitsOne).                                          *)
TimePasses ==
  /\ ~errored
  /\ ~JobDue /\ ~ResetDue
  /\ Before(clock, Horizon)
  /\ clock' = Later(clock, 1)
  /\ UNCHANGED scheduleVars

Boots ==
  /\ clock \in [week : {1}, slot : Slots]
  /\ args = Main
  /\ next = NextFire(Main, clock)
  /\ reset = NextFire(0, clock)
  /\ errCounter = 0
  /\ errored = FALSE

ScheduleTypeOK ==
  /\ clock \in Instants
  /\ args \in Slots
  /\ next \in Instants
  /\ reset \in Instants
  /\ errCounter \in 0..Threshold
  /\ errored \in BOOLEAN
=============================================================================
