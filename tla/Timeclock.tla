------------------------------ MODULE Timeclock ------------------------------
(***************************************************************************)
(* TimeclockJob beside FlipSheetJob: the hours FlipSheet's tabs are for are  *)
(* read on Thursdays by TimeclockJob, which compares them with the hours of  *)
(* the schedule report and mails the stores that are off.  The two jobs and  *)
(* the people at the spreadsheet share nothing but the tabs and the process. *)
(*                                                                         *)
(* TimeclockJob's schedule is JobScheduling's matter: here a run may come    *)
(* at any slot from Thursday to the end of the week until one is clean.  One *)
(* store stands for all of them; hours are whole numbers.                    *)
(***************************************************************************)
EXTENDS FlipSheet, FiniteSetsExt

CONSTANTS
  Thursday,  \* startup.jobs: the slot of TimeclockJob
  Allotted,  \* the hours people allot to the store every week
  Training,  \* its training hours
  Worked,    \* the hours a week may turn out to have been worked
  Typed      \* the kinds of the cells people enter a week's hours in

(* What values_batch_get returns for a cell. *)
Cells == {"empty", "whole", "fraction", "text"}

ASSUME TimeclockAssumption ==
  /\ Thursday \in Slots /\ Main < Thursday
  /\ Allotted \in Nat \ {0}
  /\ Training \in Nat
  /\ Worked \subseteq Nat
  /\ \A week \in 0..Horizon.week :
       Typed[week] \in [allotted : Cells \ {"empty"}, training : Cells]

VARIABLES
  report,   \* the run of TimeclockJob
  tally,    \* its err_counter
  done      \* it had a clean run this week

reportVars == <<report, tally, done>>

allVars == <<vars, reportVars>>

(* `weeks' are the sheet weeks still to read, `read' what was read, `alerts' the
   mails to send, `entered' says whether the tab was filled in when it was read
   (history); "down": the run has taken the process down.                        *)
Reports ==
  [pc : {"idle", "processing", "reading", "mailing", "down"}, weeks : SUBSET Nat,
   read : SUBSET [week : Nat, allotted : Nat, training : Nat, entered : BOOLEAN],
   alerts : SUBSET [week : Nat, worked : Nat, entered : BOOLEAN]]

NoReport == [pc |-> "idle", weeks |-> {}, read |-> {}, alerts |-> {}]

Down == [NoReport EXCEPT !.pc = "down"]

-----------------------------------------------------------------------------
(* run_job, as far as the report is concerned. *)

(* Mutant: the count is compared before it is raised. *)
TalliesLate == tally >= Threshold

TalliesOut == tally + 1 >= Threshold

(* A counted failure, tried again later, or the end of the process. *)
FailsCounted ==
  /\ tally' = tally + 1
  /\ report' = IF TalliesOut THEN Down ELSE NoReport
  /\ UNCHANGED done

FailsForGood ==
  /\ report' = Down
  /\ UNCHANGED <<tally, done>>

(* main_job: the report is there.  While it is not, the run is tried again later,
   uncounted, which changes nothing here.                                         *)
Begins ==
  /\ report.pc = "idle"
  /\ Thursday <= clock.slot
  /\ ~done
  /\ report' = [report EXCEPT !.pc = "processing"]
  /\ UNCHANGED <<tally, done>>

(* The sheet weeks are all Sundays from the first to the last week in the manifest.
   The weeks the processor finds in the report are those the last two Sundays made
   tabs for.                                                                      *)
SheetWeeks == {weeks \in SUBSET (Nat \cap (clock.week - 2)..(clock.week - 1)) : weeks # {}}

(* run_processor and load_manifest *)
ProcessorEnds ==
  /\ report.pc = "processing"
  /\ \/ /\ \E weeks \in SheetWeeks : report' = [report EXCEPT !.pc = "reading", !.weeks = weeks]
        /\ UNCHANGED <<tally, done>>
     \/ FailsCounted   \* the download; no timeclock-entry-processor
     \/ FailsForGood   \* its exit code; no manifest

-----------------------------------------------------------------------------
(* get_allotted_hours *)

(* The row of a tab: the cells after the store's number. *)
Row(week) ==
  IF week \in filled THEN Typed[week] ELSE [allotted |-> "empty", training |-> "empty"]

(* zero_if_err *)
TrainingIn(row) == IF row.training \in {"whole", "fraction"} THEN Training ELSE 0

(* Mutant: malformed training hours make the row invalid, as the allotted do. *)
ValidStrictly(row) == row.allotted = "whole" /\ row.training = "whole"

(* AllottedHoursModel: allotted_hours is an int, training_hours coerced to zero. *)
Valid(row) == row.allotted = "whole"

(* A placeholder row, and a row that does not validate, is skipped: the store then
   has no hours in that week.                                                     *)
HoursOf(week) ==
  [week |-> week,
   allotted |-> IF Valid(Row(week)) THEN Allotted ELSE 0,
   training |-> IF Valid(Row(week)) THEN TrainingIn(Row(week)) ELSE 0,
   entered |-> week \in filled]

(* One call a week, in the order of the weeks. *)
ReadsTab ==
  /\ report.pc = "reading"
  /\ report.weeks # {}
  /\ LET week == Min(report.weeks) IN
       /\ week \in tabs
       /\ report' = [report EXCEPT !.weeks = @ \ {week}, !.read = @ \cup {HoursOf(week)}]
  /\ UNCHANGED <<tally, done>>

(* A range of a tab that is not there is refused, which nothing catches. *)
TabIsMissing ==
  /\ report.pc = "reading"
  /\ report.weeks # {}
  /\ Min(report.weeks) \notin tabs
  /\ FailsForGood

SheetUnreachable ==
  /\ report.pc = "reading"
  /\ FailsCounted \/ FailsForGood

-----------------------------------------------------------------------------
(* calculate_overunder_hours and send_results *)

OverUnder(hours, worked) == (worked - hours.training) - hours.allotted

(* MAX_ALLOWED_UNDER_HOURS and MAX_ALLOWED_OVER_HOURS *)
Within(hours, worked) == OverUnder(hours, worked) \in (-10)..1

Calculates ==
  /\ report.pc = "reading"
  /\ report.weeks = {}
  /\ \/ /\ \E worked \in [report.read -> Worked] :
             report' = [report EXCEPT
                          !.pc = "mailing",
                          !.read = {},
                          !.alerts = {[week |-> hours.week, worked |-> worked[hours],
                                        entered |-> hours.entered] :
                                        hours \in {h \in report.read : ~Within(h, worked[h])}}]
        /\ UNCHANGED <<tally, done>>
     \/ FailsCounted   \* no employee list
     \/ FailsForGood   \* a week's file does not parse

(* A batch that fails may have sent some of its mails; a run after it sends all of
   them again.                                                                    *)
Mails ==
  /\ report.pc = "mailing"
  /\ \/ /\ report' = NoReport
        /\ tally' = 0
        /\ done' = TRUE
     \/ report.alerts # {} /\ (FailsCounted \/ FailsForGood)

-----------------------------------------------------------------------------
ReportStep ==
  /\ ~errored
  /\ \/ Begins
     \/ ProcessorEnds
     \/ ReadsTab
     \/ TabIsMissing
     \/ SheetUnreachable
     \/ Calculates
     \/ Mails
  /\ UNCHANGED vars

(* Bound: a run of TimeclockJob ends in the week it began in. *)
OverWeekEnd == report.pc # "idle" /\ clock'.week # clock.week

SheetStep ==
  /\ report.pc # "down"
  /\ Next
  /\ ~OverWeekEnd
  /\ done' = (done /\ clock'.week = clock.week)
  /\ UNCHANGED <<report, tally>>

ReportsInit ==
  /\ Init
  /\ report = NoReport
  /\ tally = 0
  /\ done = FALSE

ReportsNext == ReportStep \/ SheetStep

ReportsSpec == ReportsInit /\ [][ReportsNext]_allVars
-----------------------------------------------------------------------------
ReportsTypeOK ==
  /\ TypeOK
  /\ report \in Reports
  /\ tally \in 0..Threshold
  /\ done \in BOOLEAN

(* A run of TimeclockJob that asks for a tab which was ever made finds it, whichever
   flips failed, were late or came twice, and whichever hidden tabs people delete: a
   missing tab, which takes the process down, is one no flip ever made.             *)
TabsOutlastTheirReport ==
  report.pc = "reading" => report.weeks \cap made \subseteq tabs

(* A store that keeps to the hours its tab had when it was read is not reported as
   off, unless their cell holds no whole number: then the row is skipped and the
   store has no hours.  Which hours a tab may have lost before is FlipSheet's
   OnlyEarlyTabsLoseHours.                                                          *)
NoFalseAlarm ==
  \A alert \in report.alerts :
    alert.entered /\ Typed[alert.week].allotted = "whole"
      => (alert.worked - TrainingIn(Typed[alert.week])) - Allotted \notin (-10)..1
=============================================================================
