--------------------------- MODULE EmployeeDiscounts ---------------------------
(***************************************************************************)
(* EmployeeDiscountsJob, which mirrors the newest discounts report of SFT's  *)
(* server into a tab of the day, on the daily schedule that startup.jobs     *)
(* holds for it (commented out at present), with the retries of JobBase on   *)
(* CronShift's arguments.  The other schedules of CronShift stand for jobs   *)
(* that do nothing but fail.                                                 *)
(*                                                                         *)
(* Days are counted from 0; a run and its retries take place on one day.     *)
(***************************************************************************)
EXTENDS CronShift

CONSTANTS
  Discounts,  \* main_cron_args of the job
  Threshold,  \* err_max_threshold
  KeepDays,   \* how many days before today are left shown
  LastDay     \* bound

ASSUME DiscountsAssumption ==
  /\ Discounts \in Starts /\ Discounts.day_of_week = Unused
  /\ Threshold \in Nat \ {0}
  /\ KeepDays \in Nat /\ LastDay \in Nat

VARIABLES
  day,
  newest,    \* the day of the newest report on the server
  pc,        \* where the day's run is; "over": no further run today
  tally,     \* err_counter
  tabs,      \* what is in the tab of a title
  shown,     \* the tabs not hidden
  lapsed     \* the days the process stopped on, was down or missed its retry on (history)

sheetVars == <<tabs, shown>>

jobVars == <<day, newest, pc, tally, tabs, shown, lapsed>>

allVars == <<vars, jobVars>>

(* A tab the spreadsheet comes with: its title is no date. *)
Base == -(KeepDays + 1)

Titles == 0..LastDay \cup {Base}

Stages == {"absent", "empty", "values", "formatted"}

There == {title \in Titles : tabs[title] # "absent"}

-----------------------------------------------------------------------------
(* run_job and error_reschedule, as far as the job is concerned. *)

(* Mutant: the count is compared with one more. *)
StopsPast(count) == count > Threshold

StopsAt(count) == count >= Threshold

(* Whatever goes wrong in a step, main_job raises it as a counted failure: the last
   one stops the process, any other moves the schedule on by the delay, for good.  A
   run that outlasts the delay is tried again tomorrow.                             *)
FailsCounted ==
  /\ tally' = tally + 1
  /\ \/ /\ StopsAt(tally')
        /\ pc' = "down" /\ lapsed' = lapsed \cup {day}
        /\ UNCHANGED vars
     \/ /\ ~StopsAt(tally')
        /\ \/ pc' = "waiting" /\ UNCHANGED lapsed
           \/ pc' = "over" /\ lapsed' = lapsed \cup {day}
        /\ Fail /\ today' = today
  /\ UNCHANGED <<day, newest>>

(* The next step of the run. *)
Goes(from, to) ==
  /\ pc = from
  /\ pc' = to
  /\ UNCHANGED <<vars, day, newest, tally, lapsed>>

-----------------------------------------------------------------------------
(* main_job *)

(* The newest report is of today. *)
_download_files ==
  /\ newest = day
  /\ Goes("waiting", "downloaded")
  /\ UNCHANGED sheetVars

_process_report ==
  /\ Goes("downloaded", "processed")
  /\ UNCHANGED sheetVars

(* Mutant: every tab but today's is due to be hidden. *)
JustToday == {day}

(* Mutant: the first of the days is left out. *)
OneDayLess == (day - KeepDays + 1)..day

(* keep_dates_str *)
KeepDates == (day - KeepDays)..day

(* Sheets does not let the last tab shown be deleted (external). *)
NoneLeftShown == shown \ {day} = {}

(* The first batch deletes today's tab, if it is there, adds it anew and hides the
   outdated ones, all or nothing.                                                  *)
AddsTab ==
  /\ ~(tabs[day] # "absent" /\ NoneLeftShown)
  /\ Goes("processed", "added")
  /\ tabs' = [tabs EXCEPT ![day] = "empty"]
  /\ shown' = (shown \cap KeepDates) \cup {day}

WritesValues ==
  /\ Goes("added", "written")
  /\ tabs' = [tabs EXCEPT ![day] = "values"]
  /\ UNCHANGED shown

Formats ==
  /\ Goes("written", "uploaded")
  /\ tabs' = [tabs EXCEPT ![day] = "formatted"]
  /\ UNCHANGED shown

(* Each step may fail; a refused batch and a report not of today make it. *)
StepFails ==
  /\ pc \in {"waiting", "downloaded", "processed", "added", "written", "uploaded"}
  /\ FailsCounted
  /\ UNCHANGED sheetVars

(* _send_email, the end of a clean run: it clears the tally and leaves the schedule
   where it is.                                                                    *)
SendsEmail ==
  /\ pc = "uploaded"
  /\ pc' = "over"
  /\ tally' = 0
  /\ UNCHANGED <<vars, day, newest, sheetVars, lapsed>>

-----------------------------------------------------------------------------
(* The world *)

(* The day's report is put on the server. *)
Exports ==
  /\ newest' = day
  /\ UNCHANGED <<vars, day, pc, tally, sheetVars, lapsed>>

(* startup.reschedule_jobs, at boot and as Sunday begins. *)
Registers == args' = start /\ failures' = 0

NextDay ==
  /\ pc \in {"over", "down"}
  /\ day < LastDay
  /\ day' = day + 1
  /\ today' = (today + 1) % DaysPerWeek
  /\ IF today' = 0 THEN Registers ELSE UNCHANGED <<args, failures>>
  /\ \/ pc = "over" /\ pc' = "waiting" /\ UNCHANGED lapsed
     \/ pc = "down" /\ lapsed' = lapsed \cup {day'} /\ UNCHANGED pc
  /\ UNCHANGED <<start, newest, tally, sheetVars>>

(* People start the stopped process again: the next run is tomorrow's. *)
Restart ==
  /\ pc = "down"
  /\ pc' = "over"
  /\ tally' = 0
  /\ Registers
  /\ UNCHANGED <<start, today, day, newest, sheetVars, lapsed>>

-----------------------------------------------------------------------------
DiscountsInit ==
  /\ Init
  /\ day = 0
  /\ newest = -1
  /\ pc = "waiting"
  /\ tally = 0
  /\ tabs = [title \in Titles |-> IF title = Base THEN "formatted" ELSE "absent"]
  /\ shown = {Base}
  /\ lapsed = {}

JobStep ==
  \/ _download_files
  \/ _process_report
  \/ AddsTab
  \/ WritesValues
  \/ Formats
  \/ SendsEmail
  \/ StepFails
  \/ Exports
  \/ NextDay
  \/ Restart

DiscountsNext ==
  \/ start = Discounts /\ JobStep
  \/ start # Discounts /\ Fail /\ UNCHANGED jobVars

DiscountsSpec == DiscountsInit /\ [][DiscountsNext]_allVars
-----------------------------------------------------------------------------
DiscountsTypeOK ==
  /\ TypeOK
  /\ day \in 0..LastDay
  /\ newest \in -1..day
  /\ pc \in {"waiting", "downloaded", "processed", "added", "written", "uploaded", "over", "down"}
  /\ tally \in 0..Threshold
  /\ tabs \in [Titles -> Stages]
  /\ shown \subseteq There
  /\ lapsed \subseteq 0..day

(* No day goes by without its report, complete in its tab, unless the process was down
   or a run that failed had outlasted its retry.  The reports of the last days stay
   shown: the retries and the later days' uploads leave them alone.                   *)
NoDayIsSkipped ==
  \A d \in 0..(day - 1) :
    \/ d \in lapsed
    \/ /\ tabs[d] = "formatted"
       /\ day - d <= KeepDays => d \in shown

(* A retry of an upload that broke off is refused, as today's tab is the only one left
   shown, only if no other tab of the last days is there.                             *)
OnlyAGapBarsTheRetry ==
  pc = "processed" /\ tabs[day] # "absent" /\ NoneLeftShown
    => There \cap (day - KeepDays)..day = {day}
=============================================================================
