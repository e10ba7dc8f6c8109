------------------------------ MODULE FlipSheet ------------------------------
(***************************************************************************)
(* FlipSheetJob over the weeks: at the end of every Sunday it makes the tab *)
(* of a week in the shared spreadsheet and hides the old ones, while people *)
(* enter hours in the tabs that are shown.  Which week it is depends on the *)
(* date the body reads, and the retry of a failed run is on Monday.         *)
(*                                                                         *)
(* A tab is the week its Sunday begins; "Base Sheet" is always there.  The  *)
(* spreadsheet is external: a batch of requests is applied as a whole, or   *)
(* refused when it names a tab that is gone.                                *)
(***************************************************************************)
EXTENDS RetrySchedule, Integers

CONSTANT RunLimit   \* bound: slots a run may last

(* Sunday is the slots up to Main: the job runs in its last second. *)
ASSUME FlipSheetAssumption ==
  /\ Main < WeekLen - 1
  /\ RunLimit \in 0..(WeekLen - 1)

VARIABLES
  boot,    \* when the process was started
  tabs,    \* the tabs of the spreadsheet
  shown,   \* those that are not hidden
  filled,  \* those with hours entered
  late,    \* those made by a run that read the date after Sunday (history)
  made,    \* the weeks a tab was ever made for (history)
  run      \* the run in progress

sheetVars == <<tabs, shown, filled, late, made>>

vars == <<boot, clock, scheduleVars, sheetVars, run>>

(* `target' is the week of the new tab, `known' the tabs in the metadata. *)
Runs ==
  [pc : {"idle", "submitted", "dated", "fetched", "ended"}, began : Instants,
   onTime : BOOLEAN, target : Nat, known : SUBSET Nat, outcome : Outcomes]

NewRun(pc) ==
  [pc |-> pc, began |-> clock, onTime |-> FALSE, target |-> 0, known |-> {},
   outcome |-> "ok"]

NoRun == [NewRun("idle") EXCEPT !.began = At(0, 0)]

Ended(r, outcome) == [r EXCEPT !.pc = "ended", !.outcome = outcome]

OnSunday == clock.slot <= Main

-----------------------------------------------------------------------------
Wakeup ==
  /\ HandsOut
  /\ run' = IF JobDue /\ run.pc = "idle" THEN NewRun("submitted") ELSE run
  /\ UNCHANGED <<boot, sheetVars>>

(* Mutant: the Sunday before is taken, not the one after. *)
TargetSnappedBack == clock.week - 1

(* this_week_anchor: of the date a week ago, the Sunday that ends its week. *)
Target == IF OnSunday THEN clock.week - 1 ELSE clock.week

(* The body reads the date when it begins, not when it was due. *)
ReadsDate ==
  /\ run.pc = "submitted"
  /\ run' = [run EXCEPT !.pc = "dated", !.target = Target, !.onTime = OnSunday]
  /\ UNCHANGED <<boot, clock, scheduleVars, sheetVars>>

Fetches ==
  /\ run.pc = "dated"
  /\ run' = [run EXCEPT !.pc = "fetched", !.known = tabs]
  /\ UNCHANGED <<boot, clock, scheduleVars, sheetVars>>

(* Mutant: a fourth week is kept. *)
KeepFour(target) == run.known \cap ((target - 3)..target)

(* Mutant: the new tab alone is kept. *)
KeepNewest(target) == run.known \cap {target}

(* keep_dates_str: the three weeks up to the new tab's. *)
Keep(target) == run.known \cap ((target - 2)..target)

HideSheets == run.known \ Keep(run.target)

(* The batch deletes the tab it is about to make, and hides the old ones: it is
   refused when one of them was deleted since.                                  *)
Refused == ~((HideSheets \cup (run.known \cap {run.target})) \subseteq tabs)

(* The batch is applied; its answer may be lost, which fails the run. *)
Updates ==
  /\ run.pc = "fetched"
  /\ ~Refused
  /\ tabs' = tabs \cup {run.target}
  /\ shown' = (shown \ HideSheets) \cup {run.target}
  /\ filled' = filled \ {run.target}
  /\ late' = IF run.onTime THEN late \ {run.target} ELSE late \cup {run.target}
  /\ made' = made \cup {run.target}
  /\ \E outcome \in {"ok", "error", "crash"} : run' = Ended(run, outcome)
  /\ UNCHANGED <<boot, clock, scheduleVars>>

UpdateRefused ==
  /\ run.pc = "fetched"
  /\ Refused
  /\ run' = Ended(run, "crash")
  /\ UNCHANGED <<boot, clock, scheduleVars, sheetVars>>

(* No connection, or no service, before anything is applied. *)
SheetFails ==
  /\ run.pc \in {"dated", "fetched"}
  /\ \E outcome \in {"error", "crash"} : run' = Ended(run, outcome)
  /\ UNCHANGED <<boot, clock, scheduleVars, sheetVars>>

(* run_job *)
Settle ==
  /\ run.pc = "ended"
  /\ run' = NoRun
  /\ Settles(run.outcome)
  /\ UNCHANGED <<boot, clock, sheetVars>>

-----------------------------------------------------------------------------
(* The world *)

EntersHours ==
  /\ \E w \in shown \ filled : filled' = filled \cup {w}
  /\ UNCHANGED <<boot, clock, scheduleVars, tabs, shown, late, made, run>>

(* People delete a tab that is hidden. *)
DeletesTab ==
  /\ \E w \in tabs \ shown :
       /\ tabs' = tabs \ {w}
       /\ filled' = filled \ {w}
  /\ UNCHANGED <<boot, clock, scheduleVars, shown, late, made, run>>

(* The loop may be held by another job between a run's submission and its body. *)
Tick ==
  /\ TimePasses
  /\ run.pc # "ended"
  /\ run.pc # "idle" => Before(clock, Later(run.began, RunLimit))
  /\ UNCHANGED <<boot, sheetVars, run>>

Init ==
  /\ Boots
  /\ boot = clock
  /\ tabs = IF OnSunday THEN {} ELSE {0}
  /\ shown = tabs
  /\ filled = {}
  /\ late = {}
  /\ made = tabs
  /\ run = NoRun

Next ==
  \/ Wakeup
  \/ ReadsDate
  \/ Fetches
  \/ Updates
  \/ UpdateRefused
  \/ SheetFails
  \/ Settle
  \/ EntersHours
  \/ DeletesTab
  \/ Tick

Spec == Init /\ [][Next]_vars
-----------------------------------------------------------------------------
TypeOK ==
  /\ ScheduleTypeOK
  /\ boot \in Instants
  /\ tabs \subseteq Nat
  /\ shown \subseteq tabs
  /\ filled \subseteq tabs
  /\ late \subseteq Nat
  /\ made \subseteq Nat
  /\ run \in Runs

(* Through failed and repeated runs, and whichever week each of them takes, the
   tabs people see are of three weeks in a row.                                 *)
ShowsThreeWeeks == \A w, k \in shown : w - k <= 2

(* A run that replaces a tab with hours in it replaces one that an earlier run had
   made ahead of its time, on a retry after Sunday: no flip takes away the hours of
   a tab made on its Sunday, even when its answer is lost and it is tried again.    *)
OnlyEarlyTabsLoseHours ==
  [][run' # run => filled \ filled' \subseteq late]_vars

(* What the docstring promises, "Duplicates the base sheet into per-week tabs": the
   Sunday run of every week leaves a tab for the week before, unless the process
   stops.                                                                          *)
EachWeekHasItsTab ==
  \A week \in 1..(clock.week - 1) :
    NotAfter(boot, At(week, Main)) => errored \/ week - 1 \in made

(* How far the run is, to someone who sees neither the sheet nor the steps. *)
Stage ==
  IF run.pc = "idle" THEN "none"
  ELSE IF run.pc = "submitted" THEN "waiting"
  ELSE "working"

Life ==
  INSTANCE JobLife WITH
    slot <- args, failures <- errCounter, frozen <- errored, run <- Stage, Grace <- 0

(* Through what the body does, late files, failures and retries, the job lives as
   JobBase promises of every job.                                                 *)
LivesAsPromised == Life!Spec
=============================================================================
