--------------------------- MODULE TimeclockProofs ---------------------------
(***************************************************************************)
(* For every length of the week, schedule, threshold and run limit: first,   *)
(* FlipSheet is well-typed and the tabs that people see are of three weeks   *)
(* in a row; then, with the report beside it, the report finds the tabs that *)
(* were made, and reports nobody who keeps to the hours of a readable row.   *)
(*                                                                         *)
(* The week a flip makes a tab for never goes back, so every tab was made    *)
(* for a week no later than that one's: what a flip hides is then more than  *)
(* two weeks older, and only what is hidden can be deleted.                  *)
(*                                                                         *)
(* Last, tabs made on time keep the hours entered in them, wherever Sunday's  *)
(* run and its retries end within the week: a run that comes to a tab that   *)
(* is there was itself the week's only one, or the tab was made early.       *)
(* And FlipSheet implements JobLife (FlipSheetLives), with the report too.   *)
(***************************************************************************)
EXTENDS Timeclock, RetryScheduleProofs

-----------------------------------------------------------------------------
(* The inductive invariant of FlipSheet. *)

(* Weeks are counted from 1: the week before has a number too. *)
WeeksBegan == clock.week # 0

(* A frozen job has no run, and the threshold freezes it: a run that settles
   counts below the threshold.                                               *)
FrozenIsIdle == errored => run.pc = "idle"

ThresholdFreezes == errCounter = Threshold => errored

(* The metadata is stale when the batch is made of it, but every tab that is shown
   is still in it: nobody else shows a tab.                                      *)
KnowsWhatIsShown == run.pc = "fetched" => shown \subseteq run.known

IInv ==
  /\ TypeOK
  /\ WeeksBegan
  /\ FrozenIsIdle
  /\ ThresholdFreezes
  /\ KnowsWhatIsShown
  /\ ShowsThreeWeeks

-----------------------------------------------------------------------------
(* The runs a step makes are runs. *)
LEMMA RunTypes ==
  /\ NoRun \in Runs /\ NoRun.pc = "idle"
  /\ clock \in Instants =>
       NewRun("submitted") \in Runs /\ NewRun("submitted").pc = "submitted"
  /\ \A r \in Runs, outcome \in Outcomes :
       Ended(r, outcome) \in Runs /\ Ended(r, outcome).pc = "ended"
<1>1. At(0, 0) \in Instants
  BY CalendarTypes DEF At, Instants
<1>2. NoRun \in Runs /\ NoRun.pc = "idle"
  BY <1>1 DEF NoRun, NewRun, Runs, Outcomes
<1>3. ASSUME clock \in Instants
      PROVE  NewRun("submitted") \in Runs /\ NewRun("submitted").pc = "submitted"
  BY <1>3 DEF NewRun, Runs, Outcomes
<1>4. ASSUME NEW r \in Runs, NEW outcome \in Outcomes
      PROVE  Ended(r, outcome) \in Runs /\ Ended(r, outcome).pc = "ended"
  BY <1>4 DEF Ended, Runs
<1> QED
  BY <1>2, <1>3, <1>4

(* The clock does not go back to before the first week. *)
LEMMA ClockGoesOn ==
  ASSUME NEW i \in Instants, i.week # 0
  PROVE  Later(i, 1).week # 0
BY CronSlotsAssumption DEF Instants, Slots, Later, At

(* The week a run makes a tab for. *)
LEMMA TargetType == clock \in Instants /\ WeeksBegan => Target \in Nat
BY DEF Target, WeeksBegan, Instants

(* The batch of a run that knows every tab shown leaves those of its three weeks. *)
LEMMA BatchShowsThreeWeeks ==
  ASSUME run.target \in Nat, shown \subseteq run.known
  PROVE  \A w, k \in (shown \ HideSheets) \cup {run.target} : w - k <= 2
<1>1. (shown \ HideSheets) \cup {run.target} \subseteq (run.target - 2)..run.target
  BY DEF HideSheets, Keep
<1>2. \A w, k \in (run.target - 2)..run.target : w - k <= 2
  OBVIOUS
<1> QED
  BY <1>1, <1>2

-----------------------------------------------------------------------------
(* The invariant holds at boot. *)
LEMMA InitEstablishes == Init => IInv
<1> SUFFICES ASSUME Init PROVE IInv
  OBVIOUS
<1> USE DEF Init
<1>1. ScheduleTypeOK
  BY BootsType
<1>2. clock \in Instants /\ boot \in Instants /\ clock.week = 1
  BY DEF Boots, Instants
<1>3. tabs \subseteq {0} /\ shown = tabs /\ filled = {} /\ late = {} /\ made = tabs
  OBVIOUS
<1>4. run \in Runs /\ run.pc = "idle"
  BY RunTypes
<1>5. TypeOK
  BY <1>1, <1>2, <1>3, <1>4 DEF TypeOK
<1>6. WeeksBegan
  BY <1>2 DEF WeeksBegan
<1>7. FrozenIsIdle /\ KnowsWhatIsShown
  BY <1>4 DEF FrozenIsIdle, KnowsWhatIsShown
<1>8. ThresholdFreezes
  BY RetryScheduleAssumption DEF Boots, ThresholdFreezes
<1>9. ShowsThreeWeeks
  BY <1>3 DEF ShowsThreeWeeks
<1> QED
  BY <1>5, <1>6, <1>7, <1>8, <1>9 DEF IInv

(* A step that leaves the schedule, its clock and the sheet alone only has its run to
   answer for.                                                                      *)
LEMMA RunStep ==
  ASSUME IInv, UNCHANGED <<boot, clock, scheduleVars, sheetVars>>,
         ~errored, run' \in Runs, KnowsWhatIsShown'
  PROVE  IInv'
BY DEF IInv, TypeOK, ScheduleTypeOK, WeeksBegan, FrozenIsIdle, ThresholdFreezes,
       ShowsThreeWeeks, scheduleVars, slotVars, sheetVars

(* Every step keeps the invariant, action by action. *)
LEMMA NextPreserves == IInv /\ [Next]_vars => IInv'
<1> SUFFICES ASSUME IInv, [Next]_vars PROVE IInv'
  OBVIOUS
<1> USE DEF IInv
<1>1. CASE Wakeup
  <2>1. ScheduleTypeOK' /\ WeeksBegan' /\ ThresholdFreezes' /\ ~errored'
    BY <1>1, HandsOutType DEF Wakeup, HandsOut, TypeOK, WeeksBegan, ThresholdFreezes
  <2>2. run' \in Runs /\ run' \in {run, NewRun("submitted")}
    BY <1>1, RunTypes DEF Wakeup, TypeOK, ScheduleTypeOK
  <2>3. TypeOK'
    BY <1>1, <2>1, <2>2 DEF Wakeup, TypeOK, sheetVars
  <2>4. KnowsWhatIsShown'
    BY <1>1, <2>2, RunTypes DEF Wakeup, KnowsWhatIsShown, sheetVars, TypeOK, ScheduleTypeOK
  <2>5. FrozenIsIdle' /\ ShowsThreeWeeks'
    BY <1>1, <2>1 DEF Wakeup, FrozenIsIdle, ShowsThreeWeeks, sheetVars
  <2> QED
    BY <2>1, <2>3, <2>4, <2>5
<1>2. CASE ReadsDate
  <2>1. Target \in Nat /\ OnSunday \in BOOLEAN
    BY TargetType DEF TypeOK, ScheduleTypeOK, OnSunday
  <2>2. run' \in Runs /\ run'.pc = "dated"
    BY <1>2, <2>1 DEF ReadsDate, TypeOK, Runs
  <2>3. ~errored
    BY <1>2 DEF ReadsDate, FrozenIsIdle
  <2> QED
    BY <1>2, <2>2, <2>3, RunStep DEF ReadsDate, KnowsWhatIsShown
<1>3. CASE Fetches
  <2>1. run' \in Runs /\ run'.known = tabs
    BY <1>3 DEF Fetches, TypeOK, Runs
  <2>2. KnowsWhatIsShown'
    BY <1>3, <2>1 DEF Fetches, KnowsWhatIsShown, TypeOK, sheetVars
  <2>3. ~errored
    BY <1>3 DEF Fetches, FrozenIsIdle
  <2> QED
    BY <1>3, <2>1, <2>2, <2>3, RunStep DEF Fetches
<1>4. CASE Updates
  <2>1. run.target \in Nat /\ shown \subseteq run.known /\ ~errored
    BY <1>4 DEF Updates, TypeOK, Runs, KnowsWhatIsShown, FrozenIsIdle
  <2>2. run' \in Runs /\ run'.pc = "ended"
    BY <1>4, RunTypes DEF Updates, TypeOK, Outcomes
  <2>3. ShowsThreeWeeks'
    BY <1>4, <2>1, BatchShowsThreeWeeks DEF Updates, ShowsThreeWeeks
  <2>4. TypeOK'
    <3>1. ScheduleTypeOK' /\ boot' \in Instants
      BY <1>4 DEF Updates, TypeOK, ScheduleTypeOK, scheduleVars, slotVars
    <3>2. tabs' \subseteq Nat /\ shown' \subseteq tabs' /\ filled' \subseteq tabs'
      BY <1>4, <2>1 DEF Updates, TypeOK
    <3>3. late' \subseteq Nat /\ made' \subseteq Nat
      BY <1>4, <2>1 DEF Updates, TypeOK
    <3> QED
      BY <2>2, <3>1, <3>2, <3>3 DEF TypeOK
  <2>5. WeeksBegan' /\ FrozenIsIdle' /\ ThresholdFreezes'
    BY <1>4, <2>1
       DEF Updates, WeeksBegan, FrozenIsIdle, ThresholdFreezes, scheduleVars
  <2>6. KnowsWhatIsShown'
    BY <2>2 DEF KnowsWhatIsShown
  <2> QED
    BY <2>3, <2>4, <2>5, <2>6
<1>5. CASE UpdateRefused
  <2>1. run' \in Runs /\ run'.pc = "ended" /\ ~errored
    BY <1>5, RunTypes DEF UpdateRefused, TypeOK, Outcomes, FrozenIsIdle
  <2> QED
    BY <1>5, <2>1, RunStep DEF UpdateRefused, KnowsWhatIsShown
<1>6. CASE SheetFails
  <2>1. run' \in Runs /\ run'.pc = "ended" /\ ~errored
    BY <1>6, RunTypes DEF SheetFails, TypeOK, Outcomes, FrozenIsIdle
  <2> QED
    BY <1>6, <2>1, RunStep DEF SheetFails, KnowsWhatIsShown
<1>7. CASE Settle
  <2>1. errCounter < Threshold
    BY <1>7, RetryScheduleAssumption
       DEF Settle, TypeOK, ScheduleTypeOK, FrozenIsIdle, ThresholdFreezes
  <2>2. ScheduleTypeOK' /\ ThresholdFreezes'
    BY <1>7, <2>1, SettlesType DEF Settle, TypeOK, ThresholdFreezes
  <2>3. run' \in Runs /\ run'.pc = "idle"
    BY <1>7, RunTypes DEF Settle
  <2>4. TypeOK'
    BY <1>7, <2>2, <2>3 DEF Settle, TypeOK, sheetVars
  <2>5. WeeksBegan' /\ ShowsThreeWeeks'
    BY <1>7 DEF Settle, WeeksBegan, ShowsThreeWeeks, sheetVars
  <2>6. FrozenIsIdle' /\ KnowsWhatIsShown'
    BY <2>3 DEF FrozenIsIdle, KnowsWhatIsShown
  <2> QED
    BY <2>2, <2>4, <2>5, <2>6
<1>8. CASE EntersHours
  BY <1>8 DEF EntersHours, TypeOK, ScheduleTypeOK, WeeksBegan, FrozenIsIdle,
              ThresholdFreezes, KnowsWhatIsShown, ShowsThreeWeeks, scheduleVars, slotVars
<1>9. CASE DeletesTab
  BY <1>9 DEF DeletesTab, TypeOK, ScheduleTypeOK, WeeksBegan, FrozenIsIdle,
              ThresholdFreezes, KnowsWhatIsShown, ShowsThreeWeeks, scheduleVars, slotVars
<1>10. CASE Tick
  <2>1. ScheduleTypeOK'
    BY <1>10, TimePassesType DEF Tick, TypeOK
  <2>2. WeeksBegan'
    BY <1>10, ClockGoesOn DEF Tick, TimePasses, TypeOK, ScheduleTypeOK, WeeksBegan
  <2>3. TypeOK'
    BY <1>10, <2>1 DEF Tick, TypeOK, sheetVars
  <2>4. FrozenIsIdle' /\ ThresholdFreezes' /\ KnowsWhatIsShown' /\ ShowsThreeWeeks'
    BY <1>10 DEF Tick, TimePasses, FrozenIsIdle, ThresholdFreezes, KnowsWhatIsShown,
                 ShowsThreeWeeks, scheduleVars, sheetVars
  <2> QED
    BY <2>2, <2>3, <2>4
<1>11. CASE UNCHANGED vars
  BY <1>11 DEF vars, TypeOK, ScheduleTypeOK, WeeksBegan, FrozenIsIdle, ThresholdFreezes,
               KnowsWhatIsShown, ShowsThreeWeeks, scheduleVars, slotVars, sheetVars
<1> QED
  BY <1>1, <1>2, <1>3, <1>4, <1>5, <1>6, <1>7, <1>8, <1>9, <1>10, <1>11 DEF Next

-----------------------------------------------------------------------------
(* The inductive invariant holds throughout. *)
LEMMA IInvHolds == Spec => []IInv
<1> QED
  BY InitEstablishes, NextPreserves, PTL DEF Spec

(* FlipSheet is well-typed: a run is of an existing week, and only tabs that exist are
   shown or have hours in them.                                                      *)
THEOREM TypeCorrect == Spec => []TypeOK
<1>1. IInv => TypeOK
  BY DEF IInv
<1> QED
  BY <1>1, IInvHolds, PTL

(* The tabs that people see are of three weeks in a row, whatever the retries, the
   failed updates and the people's deletions between reading the metadata and
   sending the batch (FlipSheetJob's keep_dates_str and hide_sheets).             *)
THEOREM ThreeWeeksShown == Spec => []ShowsThreeWeeks
<1>1. IInv => ShowsThreeWeeks
  BY DEF IInv
<1> QED
  BY <1>1, IInvHolds, PTL

-----------------------------------------------------------------------------
(* The inductive invariant, over FlipSheet's. *)

TabsInTime == shown \subseteq made /\ tabs \subseteq made /\ \A w \in made : w <= Target

RunInTime ==
  run.pc \in {"dated", "fetched"} =>
    /\ run.target <= Target
    /\ \A w \in made : w <= run.target
    /\ run.pc = "fetched" => run.known \subseteq made

HiddenIsOld == \A w \in made \ shown : w + 2 < Target

TallyBelow == report.pc # "down" => tally < Threshold

ReadsLastWeeks ==
  report.pc = "reading" => report.weeks \subseteq (clock.week - 2)..(clock.week - 1)

(* The hours of a week with a readable row are those of its row. *)
ReadRight ==
  \A hours \in report.read :
    hours.entered /\ Typed[hours.week].allotted = "whole" =>
      /\ hours.allotted = Allotted
      /\ hours.training = TrainingIn(Typed[hours.week])

SheetInv == IInv /\ TabsInTime /\ RunInTime /\ HiddenIsOld

ReportInv ==
  /\ report \in Reports
  /\ tally \in 0..Threshold
  /\ done \in BOOLEAN
  /\ TallyBelow
  /\ ReadsLastWeeks
  /\ ReadRight
  /\ NoFalseAlarm

RInv == SheetInv /\ ReportInv

-----------------------------------------------------------------------------
(* The week a flip is for, as the date goes on. *)
LEMMA TargetGrows ==
  ASSUME clock \in Instants, clock' = Later(clock, 1)
  PROVE  Target \in Int /\ Target' \in Int /\ Target <= Target'
BY CronSlotsAssumption, RetryScheduleAssumption, FlipSheetAssumption
   DEF Target, OnSunday, Later, At, Instants, Slots

(* The week does not depend on anything but the clock. *)
LEMMA TargetStays ==
  ASSUME clock' = clock
  PROVE  Target' = Target /\ OnSunday' = OnSunday
BY DEF Target, OnSunday

(* It is the present one or the one before. *)
LEMMA TargetInTheWeek ==
  ASSUME clock \in Instants
  PROVE  Target \in Int /\ Target <= clock.week
BY DEF Target, OnSunday, Instants

(* The invariant holds at boot. *)
LEMMA SheetInit == Init => SheetInv
<1> SUFFICES ASSUME Init PROVE SheetInv
  OBVIOUS
<1>1. IInv
  BY InitEstablishes
<1>2. made = tabs /\ shown = tabs /\ tabs \subseteq {0} /\ run.pc = "idle"
  BY RunTypes DEF Init
<1>3. \A w \in tabs : w <= Target
  BY <1>2 DEF Init, Boots, Target
<1> QED
  BY <1>1, <1>2, <1>3 DEF SheetInv, TabsInTime, RunInTime, HiddenIsOld

(* The steps that leave the clock, the tabs made and shown, and the run's metadata. *)
LEMMA SheetNext == SheetInv /\ [Next]_vars => SheetInv'
<1> SUFFICES ASSUME SheetInv, [Next]_vars PROVE SheetInv'
  OBVIOUS
<1> USE DEF SheetInv
<1>0. IInv'
  BY NextPreserves
<1>t. /\ clock \in Instants /\ run \in Runs /\ made \subseteq Nat /\ shown \subseteq tabs
      /\ Target \in Int
  BY TargetInTheWeek DEF IInv, TypeOK, ScheduleTypeOK
<1>1. CASE Wakeup
  <2>1. run' \in {run, NewRun("submitted")} /\ NewRun("submitted").pc = "submitted"
    BY <1>1, <1>t, RunTypes DEF Wakeup
  <2> QED
    BY <1>0, <1>1, <2>1, TargetStays
       DEF Wakeup, HandsOut, sheetVars, TabsInTime, RunInTime, HiddenIsOld
<1>2. CASE ReadsDate
  <2>1. run'.target = Target
    BY <1>2, <1>t DEF ReadsDate, Runs
  <2>2. run'.pc = "dated"
    BY <1>2, <1>t DEF ReadsDate, Runs
  <2> QED
    BY <1>0, <1>2, <1>t, <2>1, <2>2, TargetStays
       DEF ReadsDate, sheetVars, TabsInTime, RunInTime, HiddenIsOld
<1>3. CASE Fetches
  <2>1. run'.target = run.target /\ run'.known = tabs
    BY <1>3, <1>t DEF Fetches, Runs
  <2> QED
    BY <1>0, <1>3, <2>1, TargetStays DEF Fetches, sheetVars, TabsInTime, RunInTime, HiddenIsOld
<1>4. CASE Updates
  <2>1. /\ run.target \in Nat /\ run.target <= Target
        /\ \A w \in made : w <= run.target
        /\ run.known \subseteq made
    BY <1>4, <1>t DEF Updates, RunInTime, Runs
  <2>2. run'.pc = "ended"
    BY <1>4, <1>t, RunTypes DEF Updates, Outcomes
  <2>3. \A w \in HideSheets : w \in Nat /\ w + 2 < run.target
    <3> SUFFICES ASSUME NEW w \in HideSheets PROVE w \in Nat /\ w + 2 < run.target
      OBVIOUS
    <3>1. w \in made /\ w \notin (run.target - 2)..run.target
      BY <2>1 DEF HideSheets, Keep
    <3>2. w \in Nat /\ w <= run.target
      BY <1>t, <2>1, <3>1
    <3> QED
      BY <2>1, <3>1, <3>2
  <2>4. Target' = Target /\ made' = made \cup {run.target} /\ tabs' = tabs \cup {run.target}
        /\ shown' = (shown \ HideSheets) \cup {run.target}
    BY <1>4, TargetStays DEF Updates
  <2>5. TabsInTime'
    BY <2>1, <2>4 DEF TabsInTime
  <2>6. HiddenIsOld'
    <3> SUFFICES ASSUME NEW w \in made' \ shown' PROVE w + 2 < Target
      BY <2>4 DEF HiddenIsOld
    <3>1. CASE w \in made \ shown
      BY <3>1, <1>t DEF HiddenIsOld
    <3>2. CASE w \in HideSheets
      <4>1. w \in Nat /\ w + 2 < run.target
        BY <2>3, <3>2
      <4> QED
        BY <1>t, <2>1, <4>1
    <3> QED
      BY <2>4, <3>1, <3>2
  <2> QED
    BY <1>0, <2>2, <2>5, <2>6 DEF RunInTime
<1>5. CASE UpdateRefused \/ SheetFails
  <2>1. run'.pc = "ended"
    BY <1>5, <1>t, RunTypes DEF UpdateRefused, SheetFails, Outcomes
  <2> QED
    BY <1>0, <1>5, <2>1, TargetStays
       DEF UpdateRefused, SheetFails, sheetVars, TabsInTime, RunInTime, HiddenIsOld
<1>6. CASE Settle
  <2>1. run'.pc = "idle"
    BY <1>6, RunTypes DEF Settle
  <2> QED
    BY <1>0, <1>6, <2>1, TargetStays DEF Settle, sheetVars, TabsInTime, RunInTime, HiddenIsOld
<1>7. CASE EntersHours
  BY <1>0, <1>7, TargetStays DEF EntersHours, TabsInTime, RunInTime, HiddenIsOld
<1>8. CASE DeletesTab
  BY <1>0, <1>8, TargetStays DEF DeletesTab, TabsInTime, RunInTime, HiddenIsOld
<1>9. CASE Tick
  <2>1. Target' \in Int /\ Target <= Target'
    BY <1>9, <1>t, TargetGrows DEF Tick, TimePasses
  <2>2. made' = made /\ shown' = shown /\ tabs' = tabs /\ run' = run
    BY <1>9 DEF Tick, sheetVars
  <2>3. TabsInTime'
    BY <1>t, <2>1, <2>2 DEF TabsInTime
  <2>4. RunInTime'
    BY <1>t, <2>1, <2>2 DEF RunInTime, Runs
  <2>5. HiddenIsOld'
    BY <1>t, <2>1, <2>2 DEF HiddenIsOld
  <2> QED
    BY <1>0, <2>3, <2>4, <2>5
<1>10. CASE UNCHANGED vars
  BY <1>0, <1>10, TargetStays DEF vars, sheetVars, TabsInTime, RunInTime, HiddenIsOld
<1> QED
  BY <1>1, <1>2, <1>3, <1>4, <1>5, <1>6, <1>7, <1>8, <1>9, <1>10 DEF Next

-----------------------------------------------------------------------------
(* A tab that was made and is gone is older than any week a report may be of. *)
LEMMA LastWeeksAreThere ==
  ASSUME SheetInv, NEW w \in made, w \in (clock.week - 2)..(clock.week - 1)
  PROVE  w \in tabs
<1>1. clock \in Instants /\ shown \subseteq tabs /\ w \in Nat /\ clock.week \in Nat
  BY DEF SheetInv, IInv, TypeOK, ScheduleTypeOK, Instants
<1>2. Target \in Int /\ Target <= clock.week
  BY <1>1, TargetInTheWeek
<1>3. ~(w + 2 < Target)
  BY <1>1, <1>2
<1> QED
  BY <1>1, <1>3 DEF SheetInv, HiddenIsOld

(* The tabs a report still has to read are not yet hidden, hence not deleted. *)
LEMMA TabsAreThere == RInv => TabsOutlastTheirReport
BY LastWeeksAreThere DEF RInv, ReportInv, ReadsLastWeeks, TabsOutlastTheirReport

(* The reports that are over. *)
LEMMA ReportTypes ==
  /\ NoReport \in Reports /\ NoReport.pc = "idle" /\ NoReport.read = {} /\ NoReport.alerts = {}
  /\ Down \in Reports /\ Down.pc = "down" /\ Down.read = {} /\ Down.alerts = {}
BY DEF NoReport, Down, Reports

(* Whatever fails, the report is over. *)
LEMMA FailurePreserves ==
  ASSUME RInv, FailsCounted \/ FailsForGood, report.pc # "down", UNCHANGED vars
  PROVE  RInv'
<1>1. SheetInv'
  BY SheetNext DEF RInv
<1>2. tally \in Nat /\ tally < Threshold /\ Threshold \in Nat
  BY RetryScheduleAssumption DEF RInv, ReportInv, TallyBelow
<1>3. report' \in {NoReport, Down} /\ done' = done
  BY DEF FailsCounted, FailsForGood
<1>4. tally' \in 0..Threshold
  BY <1>2 DEF FailsCounted, FailsForGood
<1>5. TallyBelow'
  BY <1>2, ReportTypes DEF FailsCounted, FailsForGood, TalliesOut, TallyBelow
<1>6. report' \in Reports /\ report'.read = {} /\ report'.alerts = {} /\ report'.pc # "reading"
  BY <1>3, ReportTypes
<1> QED
  BY <1>1, <1>3, <1>4, <1>5, <1>6
     DEF RInv, ReportInv, ReadsLastWeeks, ReadRight, NoFalseAlarm

(* A step of the report, other than a failure. *)
LEMMA StepPreserves ==
  ASSUME RInv, UNCHANGED <<vars, tally, done>>, report.pc # "down", report' \in Reports,
         ReadsLastWeeks', ReadRight', NoFalseAlarm'
  PROVE  RInv'
BY SheetNext DEF RInv, ReportInv, TallyBelow

(* TimeclockJob's steps keep the invariant. *)
LEMMA ReportStepPreserves == RInv /\ ReportStep => RInv'
<1> SUFFICES ASSUME RInv, ReportStep PROVE RInv'
  OBVIOUS
<1>0. UNCHANGED vars
  BY DEF ReportStep
<1>t. /\ report \in Reports /\ clock' = clock /\ filled' = filled
      /\ clock.week \in Nat /\ ReadsLastWeeks /\ ReadRight /\ NoFalseAlarm
  BY <1>0 DEF RInv, SheetInv, IInv, TypeOK, ScheduleTypeOK, Instants, ReportInv, vars, sheetVars
<1>f. ASSUME FailsCounted \/ FailsForGood, report.pc # "down" PROVE RInv'
  BY <1>0, <1>f, FailurePreserves
<1>1. CASE Begins
  <2>1. report' \in Reports /\ report'.pc = "processing"
        /\ report'.read = report.read /\ report'.alerts = report.alerts
    BY <1>1, <1>t DEF Begins, Reports
  <2> QED
    BY <1>0, <1>1, <1>t, <2>1, StepPreserves
       DEF Begins, ReadsLastWeeks, ReadRight, NoFalseAlarm
<1>2. CASE ProcessorEnds
  <2>1. CASE UNCHANGED <<tally, done>> /\
             \E weeks \in SheetWeeks : report' = [report EXCEPT !.pc = "reading", !.weeks = weeks]
    <3>1. PICK weeks \in SheetWeeks : report' = [report EXCEPT !.pc = "reading", !.weeks = weeks]
      BY <2>1
    <3>2. report' \in Reports /\ report'.weeks = weeks
          /\ report'.read = report.read /\ report'.alerts = report.alerts
      BY <1>t, <3>1 DEF Reports, SheetWeeks
    <3>3. ReadsLastWeeks'
      BY <1>t, <3>2 DEF ReadsLastWeeks, SheetWeeks
    <3> QED
      BY <1>0, <1>2, <1>t, <2>1, <3>2, <3>3, StepPreserves
         DEF ProcessorEnds, ReadRight, NoFalseAlarm
  <2> QED
    BY <1>2, <1>f, <2>1 DEF ProcessorEnds
<1>3. CASE ReadsTab
  <2> DEFINE week == Min(report.weeks)
  <2>1. week \in Nat /\ report.pc = "reading"
    BY <1>3 DEF ReadsTab, RInv, SheetInv, IInv, TypeOK
  <2>2. HoursOf(week) \in [week : Nat, allotted : Nat, training : Nat, entered : BOOLEAN]
    BY <2>1, TimeclockAssumption DEF HoursOf, TrainingIn
  <2>3. report' = [report EXCEPT !.weeks = @ \ {week}, !.read = @ \cup {HoursOf(week)}]
    BY <1>3 DEF ReadsTab
  <2>4. report' \in Reports /\ report'.pc = "reading" /\ report'.alerts = report.alerts
        /\ report'.weeks = report.weeks \ {week} /\ report'.read = report.read \cup {HoursOf(week)}
    BY <1>t, <2>1, <2>2, <2>3 DEF Reports
  <2>5. ReadsLastWeeks'
    BY <1>t, <2>1, <2>4 DEF ReadsLastWeeks
  <2>6. HoursOf(week).entered /\ Typed[HoursOf(week).week].allotted = "whole" =>
          /\ HoursOf(week).allotted = Allotted
          /\ HoursOf(week).training = TrainingIn(Typed[HoursOf(week).week])
    BY DEF HoursOf, Valid, Row
  <2>7. ReadRight'
    BY <1>t, <2>4, <2>6 DEF ReadRight
  <2> QED
    BY <1>0, <1>3, <1>t, <2>1, <2>4, <2>5, <2>7, StepPreserves DEF ReadsTab, NoFalseAlarm
<1>4. CASE TabIsMissing \/ SheetUnreachable
  BY <1>4, <1>f DEF TabIsMissing, SheetUnreachable
<1>5. CASE Calculates
  <2>1. CASE UNCHANGED <<tally, done>> /\ \E worked \in [report.read -> Worked] :
               report' = [report EXCEPT
                            !.pc = "mailing",
                            !.read = {},
                            !.alerts = {[week |-> hours.week, worked |-> worked[hours],
                                          entered |-> hours.entered] :
                                          hours \in {h \in report.read : ~Within(h, worked[h])}}]
    <3>1. PICK worked \in [report.read -> Worked] :
            report' = [report EXCEPT
                         !.pc = "mailing",
                         !.read = {},
                         !.alerts = {[week |-> hours.week, worked |-> worked[hours],
                                       entered |-> hours.entered] :
                                       hours \in {h \in report.read : ~Within(h, worked[h])}}]
      BY <2>1
    <3>2. /\ report'.pc = "mailing" /\ report'.read = {} /\ report'.weeks = report.weeks
          /\ report'.alerts = {[week |-> hours.week, worked |-> worked[hours],
                                  entered |-> hours.entered] :
                                  hours \in {h \in report.read : ~Within(h, worked[h])}}
      BY <1>t, <3>1 DEF Reports
    <3>3. \A alert \in report'.alerts : \E hours \in report.read :
            /\ alert = [week |-> hours.week, worked |-> worked[hours], entered |-> hours.entered]
            /\ ~Within(hours, worked[hours])
      BY <3>2
    <3>4. report' \in Reports
      <4>1. \A hours \in report.read :
              hours \in [week : Nat, allotted : Nat, training : Nat, entered : BOOLEAN]
              /\ worked[hours] \in Nat
        BY <1>t, TimeclockAssumption DEF Reports
      <4>2. report'.alerts \subseteq [week : Nat, worked : Nat, entered : BOOLEAN]
        BY <3>3, <4>1
      <4> QED
        BY <1>t, <3>1, <3>2, <4>2 DEF Reports
    <3>5. NoFalseAlarm'
      <4> SUFFICES ASSUME NEW alert \in report'.alerts,
                          alert.entered, Typed[alert.week].allotted = "whole"
                   PROVE  (alert.worked - TrainingIn(Typed[alert.week])) - Allotted \notin (-10)..1
        BY DEF NoFalseAlarm
      <4>1. PICK hours \in report.read :
              /\ alert = [week |-> hours.week, worked |-> worked[hours], entered |-> hours.entered]
              /\ ~Within(hours, worked[hours])
        BY <3>3
      <4>2. hours.allotted = Allotted /\ hours.training = TrainingIn(Typed[alert.week])
        BY <1>t, <4>1 DEF ReadRight
      <4> QED
        BY <4>1, <4>2 DEF Within, OverUnder
    <3> QED
      BY <1>0, <1>5, <2>1, <3>2, <3>4, <3>5, StepPreserves
         DEF Calculates, ReadsLastWeeks, ReadRight
  <2> QED
    BY <1>5, <1>f, <2>1 DEF Calculates
<1>6. CASE Mails
  <2>1. CASE report' = NoReport /\ tally' = 0 /\ done' = TRUE
    BY <1>0, <2>1, SheetNext, ReportTypes, RetryScheduleAssumption
       DEF RInv, ReportInv, TallyBelow, ReadsLastWeeks, ReadRight, NoFalseAlarm
  <2> QED
    BY <1>6, <1>f, <2>1 DEF Mails
<1> QED
  BY <1>1, <1>2, <1>3, <1>4, <1>5, <1>6 DEF ReportStep

(* The sheet's steps leave the report alone, and the week too while there is one. *)
LEMMA SheetStepPreserves == RInv /\ SheetStep => RInv'
<1> SUFFICES ASSUME RInv, SheetStep PROVE RInv'
  OBVIOUS
<1>1. SheetInv'
  BY SheetNext DEF RInv, SheetStep
<1>2. report' = report /\ tally' = tally /\ done' \in BOOLEAN
  BY DEF SheetStep, RInv, ReportInv
<1>3. report.pc = "reading" => clock'.week = clock.week
  BY DEF SheetStep, OverWeekEnd
<1>4. ReadsLastWeeks'
  BY <1>2, <1>3 DEF RInv, ReportInv, ReadsLastWeeks
<1>5. TallyBelow' /\ ReadRight' /\ NoFalseAlarm'
  BY <1>2 DEF RInv, ReportInv, TallyBelow, ReadRight, NoFalseAlarm
<1> QED
  BY <1>1, <1>2, <1>4, <1>5 DEF RInv, ReportInv

(* The invariant holds in every reachable state. *)
LEMMA RInvHolds == ReportsSpec => []RInv
<1>1. ReportsInit => RInv
  <2> SUFFICES ASSUME ReportsInit PROVE RInv
    OBVIOUS
  <2>1. SheetInv
    BY SheetInit DEF ReportsInit
  <2>2. /\ report \in Reports /\ report.pc = "idle"
        /\ report.read = {} /\ report.alerts = {}
    BY ReportTypes DEF ReportsInit, NoReport
  <2>3. tally = 0 /\ done = FALSE /\ Threshold \in Nat \ {0}
    BY RetryScheduleAssumption DEF ReportsInit
  <2>4. ReadRight /\ NoFalseAlarm
    BY <2>2 DEF ReadRight, NoFalseAlarm
  <2>5. TallyBelow /\ ReadsLastWeeks /\ tally \in 0..Threshold
    BY <2>2, <2>3 DEF TallyBelow, ReadsLastWeeks
  <2> QED
    BY <2>1, <2>2, <2>3, <2>4, <2>5 DEF RInv, ReportInv
<1>2. RInv /\ UNCHANGED allVars => RInv'
  BY SheetNext
     DEF allVars, reportVars, RInv, ReportInv, TallyBelow, ReadsLastWeeks, ReadRight,
         NoFalseAlarm, vars
<1>3. RInv /\ [ReportsNext]_allVars => RInv'
  BY <1>2, ReportStepPreserves, SheetStepPreserves DEF ReportsNext
<1> QED
  BY <1>1, <1>3, PTL DEF ReportsSpec

-----------------------------------------------------------------------------
(* The report, its tally and the sheet are well-typed. *)
THEOREM ReportsTypeCorrect == ReportsSpec => []ReportsTypeOK
<1>1. RInv => ReportsTypeOK
  BY DEF RInv, ReportInv, SheetInv, IInv, ReportsTypeOK
<1> QED
  BY <1>1, RInvHolds, PTL

(* TimeclockJob finds every tab that FlipSheetJob ever made for the weeks it asks for,
   whatever failed or was late, and whichever hidden tabs people deleted.           *)
THEOREM TabsOutlast == ReportsSpec => []TabsOutlastTheirReport
<1> QED
  BY TabsAreThere, RInvHolds, PTL

(* No store that keeps to the hours of a readable row is mailed about: get_allotted_hours
   and send_results.                                                                *)
THEOREM AlarmsAreDeserved == ReportsSpec => []NoFalseAlarm
<1>1. RInv => NoFalseAlarm
  BY DEF RInv, ReportInv
<1> QED
  BY <1>1, RInvHolds, PTL-----------------------------------------------------------------------------
(* One run reads its date on a Sunday, while a run and its retries end in the
   week of their slot: so no run finds a tab of its week that was made in time.  *)

(* A run at this slot and n retries after it are over before the week is. *)
FitsWeek(slot, n) == slot + RunLimit + RetriesTake(n) < WeekLen

(* The last Sunday slot is not the week's first, and the retries up to
   err_max_threshold end in the week.                                            *)
FlipEndsInWeek == Main > 0 /\ FitsWeek(Main, Threshold - 1)

TabsOnTime == tabs \ late

(* No tab is there that a run of this Sunday would replace, but early ones. *)
SundayIsFree == \A w \in TabsOnTime : w < clock.week - 1

(* The stored run comes at the job's slot or after it, and in the week of its slot
   there is time for its retries, until the re-registration.                      *)
RetriesStayInWeek ==
  /\ args >= Main
  /\ ~ResetDue /\ (next.week = clock.week \/ run.pc # "idle") =>
       FitsWeek(args, Threshold - 1 - errCounter)

(* A run is of this week, and has no other behind it in the week. *)
RunIsOfTheWeek ==
  run.pc # "idle" =>
    /\ run.began = At(clock.week, args)
    /\ args <= clock.slot /\ clock.slot <= args + RunLimit
    /\ next.week > clock.week

(* Until the Sunday's run has read the date. *)
SundayRunsOnce ==
  OnSunday /\ (\/ run.pc = "submitted"
               \/ run.pc = "idle" /\ (ResetDue \/ next = At(clock.week, Main)))
    => SundayIsFree

(* What is on time was made in the week after its own. *)
OnTimeIsOld == \A w \in TabsOnTime : w < clock.week

TargetIsEarly ==
  run.pc \in {"dated", "fetched"} =>
    /\ run.target \in tabs => run.target \in late
    /\ run.onTime => run.target < clock.week

(* The flip waits for no file. *)
NeverWaits == run.outcome # "resched"

FlipInv ==
  /\ Punctual
  /\ RetriesStayInWeek
  /\ RunIsOfTheWeek
  /\ SundayRunsOnce
  /\ OnTimeIsOld
  /\ TargetIsEarly
  /\ NeverWaits

(* What fits, fits with fewer retries, and a run later with one retry less. *)
LEMMA Fits ==
  ASSUME NEW slot \in Slots, NEW n \in Nat, FitsWeek(slot, n)
  PROVE  /\ \A m \in 0..n : FitsWeek(slot, m)
         /\ slot + RunLimit < WeekLen
         /\ n > 0 => /\ ShiftSlot(slot) = slot + Delay
                     /\ FitsWeek(slot + Delay, n - 1)
<1>1. /\ slot \in Nat /\ RunLimit \in Nat /\ WeekLen \in Nat /\ Delay \in Nat
      /\ RetriesTake(n) \in Nat /\ slot + RunLimit + RetriesTake(n) < WeekLen
  BY CronSlotsAssumption, FlipSheetAssumption, RetriesAddUp DEF Slots, FitsWeek
<1>2. \A m \in 0..n : m \in Nat /\ RetriesTake(m) \in Nat /\ RetriesTake(m) <= RetriesTake(n)
  BY RetriesAddUp
<1>3. \A m \in 0..n : FitsWeek(slot, m)
  BY <1>1, <1>2 DEF FitsWeek
<1>4. ASSUME n > 0
      PROVE  ShiftSlot(slot) = slot + Delay /\ FitsWeek(slot + Delay, n - 1)
  <2>1. n - 1 \in Nat /\ (n - 1) + 1 = n
    BY <1>4
  <2>2. RetriesTake(n) = RetriesTake(n - 1) + Delay /\ RetriesTake(n - 1) \in Nat
    BY <2>1, RetriesAddUp
  <2>3. slot + Delay < WeekLen
    BY <1>1, <2>2
  <2> QED
    BY <1>1, <2>2, <2>3 DEF FitsWeek, ShiftSlot, Later, At
<1> QED
  BY <1>1, <1>3, <1>4

(* What the steps of the proofs below know of the types. *)
LEMMA FlipTypes ==
  ASSUME IInv
  PROVE  /\ clock \in Instants /\ clock.week \in Nat /\ clock.slot \in Nat
         /\ clock.slot < WeekLen
         /\ next \in Instants /\ next.week \in Nat /\ next.slot \in Nat
         /\ reset \in Instants /\ reset.week \in Nat /\ reset.slot \in Nat
         /\ args \in Slots /\ args \in Nat /\ Main \in Nat /\ Main \in Slots
         /\ WeekLen \in Nat /\ Delay \in Nat /\ Delay > 0 /\ RunLimit \in Nat
         /\ Threshold \in Nat /\ Threshold > 0 /\ errCounter \in 0..Threshold
         /\ run \in Runs /\ tabs \subseteq Nat /\ ScheduleTypeOK /\ TypeOK
BY CronSlotsAssumption, RetryScheduleAssumption, FlipSheetAssumption
   DEF IInv, TypeOK, ScheduleTypeOK, Instants, Slots

(* What is due is due now; the re-registration at the week's first slot. *)
LEMMA DueNow ==
  ASSUME IInv, Punctual
  PROVE  /\ JobDue => next = clock
         /\ ResetDue => reset = clock /\ clock.slot = 0
<1>1. clock \in Instants /\ next \in Instants /\ reset \in Instants
  BY FlipTypes
<1>2. ASSUME NEW i \in Instants, NEW k \in Instants, NotAfter(i, k), NotAfter(k, i)
      PROVE  i = k
  BY <1>2 DEF NotAfter, Before, Instants, Slots
<1> QED
  BY <1>1, <1>2 DEF Punctual, JobDue, ResetDue

(* The first slot of the week has no run yet. *)
LEMMA RunsAfterReset ==
  ASSUME IInv, FlipInv, FlipEndsInWeek, run.pc # "idle"
  PROVE  ~ResetDue
<1>1. args \in Nat /\ Main \in Nat /\ Main > 0 /\ Main <= args /\ args <= clock.slot
  BY FlipTypes DEF FlipInv, RetriesStayInWeek, RunIsOfTheWeek, FlipEndsInWeek
<1> QED
  BY <1>1, DueNow DEF FlipInv
(* The steps of a run that has read the date, up to its end. *)
LEMMA BodyKeepsFlip ==
  ASSUME FlipInv, UNCHANGED <<clock, scheduleVars>>, run.pc # "idle",
         run'.pc \notin {"idle", "submitted"}, run'.began = run.began,
         OnTimeIsOld', TargetIsEarly', NeverWaits'
  PROVE  FlipInv'
<1>1. Punctual' /\ RetriesStayInWeek' /\ RunIsOfTheWeek'
  BY DEF FlipInv, Punctual, RetriesStayInWeek, RunIsOfTheWeek, ResetDue, scheduleVars, slotVars
<1>2. SundayRunsOnce'
  BY DEF SundayRunsOnce
<1> QED
  BY <1>1, <1>2 DEF FlipInv

(* The body's first step finds its week's tab only where that was made early. *)
LEMMA ReadsDateKeepsFlip ==
  ASSUME IInv, FlipInv, ReadsDate
  PROVE  FlipInv'
<1>1. /\ run.pc = "submitted" /\ UNCHANGED <<clock, scheduleVars, sheetVars>>
      /\ run'.pc = "dated" /\ run'.began = run.began /\ run'.outcome = run.outcome
      /\ run'.target = Target /\ run'.onTime = OnSunday
  BY FlipTypes DEF ReadsDate, Runs
<1>2. OnTimeIsOld' /\ NeverWaits'
  BY <1>1 DEF FlipInv, OnTimeIsOld, TabsOnTime, NeverWaits, sheetVars
<1>3. TargetIsEarly'
  <2>1. tabs' = tabs /\ late' = late /\ clock' = clock /\ clock.week \in Nat
    BY <1>1, FlipTypes DEF sheetVars
  <2>2. CASE OnSunday
    <3>1. \A w \in TabsOnTime : w < clock.week - 1
      BY <1>1, <2>2 DEF FlipInv, SundayRunsOnce, SundayIsFree
    <3>2. run'.target = clock.week - 1
      BY <1>1, <2>2 DEF Target
    <3> QED
      BY <2>1, <3>1, <3>2 DEF TargetIsEarly, TabsOnTime
  <2>3. CASE ~OnSunday
    <3>1. \A w \in TabsOnTime : w < clock.week
      BY DEF FlipInv, OnTimeIsOld
    <3>2. run'.target = clock.week /\ ~run'.onTime
      BY <1>1, <2>3 DEF Target
    <3> QED
      BY <2>1, <3>1, <3>2 DEF TargetIsEarly, TabsOnTime
  <2> QED
    BY <2>2, <2>3
<1> QED
  BY <1>1, <1>2, <1>3, BodyKeepsFlip

(* The rest of the body. *)
LEMMA CallsKeepFlip ==
  ASSUME IInv, FlipInv, Fetches \/ Updates \/ UpdateRefused \/ SheetFails
  PROVE  FlipInv'
<1>1. /\ run.pc \in {"dated", "fetched"} /\ run \in Runs /\ UNCHANGED <<clock, scheduleVars>>
      /\ run.target \in Nat /\ clock.week \in Nat
  BY FlipTypes DEF Fetches, Updates, UpdateRefused, SheetFails, Runs
<1>2. CASE Fetches
  <2>1. /\ run'.pc = "fetched" /\ run'.began = run.began /\ run'.outcome = run.outcome
        /\ run'.target = run.target /\ run'.onTime = run.onTime
        /\ tabs' = tabs /\ late' = late
    BY <1>1, <1>2 DEF Fetches, Runs, sheetVars
  <2> QED
    BY <1>1, <2>1, BodyKeepsFlip
       DEF FlipInv, OnTimeIsOld, TabsOnTime, TargetIsEarly, NeverWaits
<1>3. CASE ~Fetches
  <2>1. PICK outcome \in {"ok", "error", "crash"} : run' = Ended(run, outcome)
    BY <1>3 DEF Updates, UpdateRefused, SheetFails
  <2>2. /\ run'.pc = "ended" /\ run'.began = run.began /\ run'.outcome = outcome
    BY <1>1, <2>1 DEF Ended, Runs
  <2>3. OnTimeIsOld'
    <3>1. CASE Updates
      <4>1. /\ tabs' = tabs \cup {run.target}
            /\ late' = IF run.onTime THEN late \ {run.target} ELSE late \cup {run.target}
            /\ run.onTime => run.target < clock.week
        BY <1>1, <3>1 DEF Updates, FlipInv, TargetIsEarly
      <4> QED
        BY <1>1, <4>1 DEF FlipInv, OnTimeIsOld, TabsOnTime
    <3>2. CASE ~Updates
      <4>1. tabs' = tabs /\ late' = late
        BY <1>3, <3>2 DEF UpdateRefused, SheetFails, sheetVars
      <4> QED
        BY <1>1, <4>1 DEF FlipInv, OnTimeIsOld, TabsOnTime
    <3> QED
      BY <3>1, <3>2
  <2> QED
    BY <1>1, <2>2, <2>3, BodyKeepsFlip DEF TargetIsEarly, NeverWaits
<1> QED
  BY <1>2, <1>3

(* People's steps make no tab. *)
LEMMA PeopleKeepFlip ==
  ASSUME FlipInv, UNCHANGED <<clock, scheduleVars, late, run>>, tabs' \subseteq tabs
  PROVE  FlipInv'
<1>1. Punctual' /\ RetriesStayInWeek' /\ RunIsOfTheWeek' /\ NeverWaits'
  BY DEF FlipInv, Punctual, RetriesStayInWeek, RunIsOfTheWeek, NeverWaits, ResetDue,
         scheduleVars, slotVars
<1>2. TabsOnTime' \subseteq TabsOnTime
  BY DEF TabsOnTime
<1>3. SundayRunsOnce'
  BY <1>2 DEF FlipInv, SundayRunsOnce, SundayIsFree, OnSunday, ResetDue, scheduleVars, slotVars
<1>4. OnTimeIsOld' /\ TargetIsEarly'
  BY <1>2 DEF FlipInv, OnTimeIsOld, TargetIsEarly
<1> QED
  BY <1>1, <1>3, <1>4 DEF FlipInv

(* A wakeup hands out the week's run at its slot, or registers it again before. *)
LEMMA WakeupKeepsFlip ==
  ASSUME IInv, FlipInv, FlipEndsInWeek, Wakeup
  PROVE  FlipInv'
<1>1. /\ ~errored
      /\ JobDue \/ ResetDue
      /\ UNCHANGED <<clock, errCounter, errored, tabs, late>> /\ Punctual'
  BY FlipTypes, HandsOutPunctual DEF Wakeup, HandsOut, sheetVars, FlipInv
<1>2. TabsOnTime' = TabsOnTime
  BY <1>1 DEF TabsOnTime
<1>3. OnTimeIsOld'
  BY <1>1, <1>2 DEF FlipInv, OnTimeIsOld
<1>4. errCounter \in Nat /\ Threshold - 1 - errCounter \in 0..(Threshold - 1)
  <2>1. errCounter # Threshold
    <3>1. ~errored
      BY <1>1
    <3> QED
      BY <3>1 DEF IInv, ThresholdFreezes
  <2> QED
    BY <2>1, FlipTypes
<1>5. CASE ResetDue
  <2>1. run.pc = "idle" /\ clock.slot = 0 /\ OnSunday
    BY <1>5, RunsAfterReset, DueNow, FlipTypes DEF FlipInv, OnSunday
  <2>2. ~JobDue
    BY <1>5, DueNow, FlipTypes DEF FlipInv, Punctual, RetriesStayInWeek, FlipEndsInWeek
  <2>3. run' = run /\ args' = Main /\ reset' = FollowingFire(0, clock)
    BY <1>5, <2>2 DEF Wakeup, HandsOut
  <2>4. reset'.week = clock.week + 1
    <3>1. 0 \in Slots /\ clock \in Instants
      BY FlipTypes, CalendarTypes
    <3>2. FollowingFire(0, clock).week = IF 0 <= clock.slot THEN clock.week + 1 ELSE clock.week
      BY <3>1, FiresAhead
    <3> QED
      BY <2>1, <2>3, <3>2
  <2>5. ~ResetDue'
    BY <1>1, <2>4, FlipTypes DEF ResetDue, NotAfter, Before
  <2>6. RetriesStayInWeek'
    <3>1. FitsWeek(Main, Threshold - 1 - errCounter)
      BY <1>4, Fits, FlipTypes DEF FlipEndsInWeek
    <3> QED
      BY <1>1, <2>3, <3>1, FlipTypes DEF RetriesStayInWeek, FitsWeek
  <2>7. SundayIsFree
    BY <1>5, <2>1 DEF FlipInv, SundayRunsOnce
  <2>8. SundayRunsOnce'
    BY <1>1, <1>2, <2>7 DEF SundayRunsOnce, SundayIsFree
  <2>9. RunIsOfTheWeek' /\ TargetIsEarly' /\ NeverWaits'
    BY <1>1, <2>1, <2>3 DEF FlipInv, RunIsOfTheWeek, TargetIsEarly, NeverWaits
  <2> QED
    BY <1>1, <1>3, <2>6, <2>8, <2>9 DEF FlipInv
<1>6. CASE ~ResetDue
  <2>1. next = clock /\ clock.slot = args /\ JobDue
    BY <1>1, <1>6, DueNow DEF FlipInv, Punctual
  <2>2. run.pc = "idle"
    BY <2>1, FlipTypes DEF FlipInv, RunIsOfTheWeek
  <2>3. /\ run'.pc = "submitted" /\ run'.began = clock /\ run'.outcome = "ok"
        /\ args' = args /\ reset' = reset /\ next' = FollowingFire(args, clock)
    BY <1>6, <2>1, <2>2 DEF Wakeup, HandsOut, NewRun
  <2>4. next'.week = clock.week + 1
    BY <2>1, <2>3, FlipTypes, FiresAhead
  <2>5. clock = At(clock.week, args)
    BY <2>1, FlipTypes DEF At, Instants
  <2>6. FitsWeek(args, Threshold - 1 - errCounter) /\ args >= Main /\ ~ResetDue'
    BY <1>1, <1>6, <2>1, <2>3 DEF FlipInv, RetriesStayInWeek, ResetDue
  <2>7. RetriesStayInWeek'
    BY <1>1, <2>3, <2>6 DEF RetriesStayInWeek, FitsWeek
  <2>8. RunIsOfTheWeek'
    BY <1>1, <2>1, <2>3, <2>4, <2>5, FlipTypes DEF RunIsOfTheWeek
  <2>9. SundayRunsOnce'
    <3> SUFFICES ASSUME OnSunday' PROVE SundayIsFree'
      BY DEF SundayRunsOnce
    <3>1. OnSunday /\ args = Main
      BY <1>1, <2>1, <2>6, FlipTypes DEF OnSunday
    <3>2. SundayIsFree
      BY <2>1, <2>2, <2>5, <3>1 DEF FlipInv, SundayRunsOnce
    <3> QED
      BY <1>1, <1>2, <3>2 DEF SundayIsFree
  <2>10. TargetIsEarly' /\ NeverWaits'
    BY <2>3 DEF TargetIsEarly, NeverWaits
  <2> QED
    BY <1>1, <1>3, <2>7, <2>8, <2>9, <2>10 DEF FlipInv
<1> QED
  BY <1>5, <1>6
(* The end of a run: what it leaves is for after this Sunday. *)
LEMMA SettleKeepsFlip ==
  ASSUME IInv, FlipInv, FlipEndsInWeek, Settle
  PROVE  FlipInv'
<1>1. /\ run.pc = "ended" /\ run' = NoRun /\ Settles(run.outcome)
      /\ UNCHANGED <<clock, tabs, late>> /\ Punctual'
  BY FlipTypes, SettlesPunctual DEF Settle, sheetVars, FlipInv
<1>2. run'.pc = "idle" /\ run'.outcome = "ok"
  BY <1>1 DEF NoRun, NewRun
<1>3. OnTimeIsOld' /\ TargetIsEarly' /\ RunIsOfTheWeek' /\ NeverWaits'
  BY <1>1, <1>2
     DEF FlipInv, OnTimeIsOld, TabsOnTime, TargetIsEarly, RunIsOfTheWeek, NeverWaits
<1>4. ~ResetDue /\ next.week > clock.week /\ args >= Main
      /\ FitsWeek(args, Threshold - 1 - errCounter)
  BY <1>1, RunsAfterReset DEF FlipInv, RunIsOfTheWeek, RetriesStayInWeek
<1>5. reset' = reset /\ ~ResetDue'
  BY <1>1, <1>4
     DEF Settles, EndsClean, RetriesLater, Freezes, slotVars, ResetDue
<1>6. CASE UNCHANGED slotVars
  <2>1. next' = next /\ args' = args
    BY <1>6 DEF slotVars
  <2>2. RetriesStayInWeek'
    BY <1>1, <1>2, <1>4, <2>1, FlipTypes DEF RetriesStayInWeek
  <2>3. next' # At(clock.week, Main)
    BY <1>4, <2>1, FlipTypes DEF At
  <2>4. SundayRunsOnce'
    BY <1>1, <1>2, <1>5, <2>3 DEF SundayRunsOnce
  <2> QED
    BY <1>1, <1>3, <2>2, <2>4 DEF FlipInv
<1>7. CASE ~UNCHANGED slotVars
  <2>1. ~ReachesThreshold /\ RetriesLater(errCounter + 1)
    BY <1>1, <1>7 DEF Settles, EndsClean, Freezes, FlipInv, NeverWaits
  <2>2. /\ errCounter + 1 < Threshold /\ Threshold - 1 - errCounter \in Nat
        /\ Threshold - 1 - errCounter > 0
        /\ (Threshold - 1 - errCounter) - 1 = Threshold - 1 - (errCounter + 1)
    BY <2>1, FlipTypes DEF ReachesThreshold
  <2>3. /\ ShiftSlot(args) = args + Delay
        /\ FitsWeek(args + Delay, Threshold - 1 - (errCounter + 1))
    BY <1>4, <2>2, Fits, FlipTypes
  <2>4. /\ args' = args + Delay /\ errCounter' = errCounter + 1
        /\ next' = NextFire(args + Delay, clock)
    BY <2>1, <2>3 DEF RetriesLater
  <2>5. args' > Main
    BY <1>4, <2>4, FlipTypes
  <2>6. RetriesStayInWeek'
    BY <2>3, <2>4, <2>5, FlipTypes DEF RetriesStayInWeek, FitsWeek
  <2>7. next' # At(clock.week, Main)
    BY <2>4, <2>5 DEF NextFire, At
  <2>8. SundayRunsOnce'
    BY <1>1, <1>2, <1>5, <2>7 DEF SundayRunsOnce
  <2> QED
    BY <1>1, <1>3, <2>6, <2>8 DEF FlipInv
<1> QED
  BY <1>6, <1>7

(* Time passes: in the week, or into the next one, for which no tab is there yet. *)
LEMMA TickKeepsFlip ==
  ASSUME IInv, FlipInv, FlipEndsInWeek, Tick
  PROVE  FlipInv'
<1>1. /\ clock' = Later(clock, 1) /\ ~ResetDue /\ Punctual'
      /\ UNCHANGED <<args, next, reset, errCounter, errored, tabs, late, run>>
  BY FlipTypes, TimePassesPunctual
     DEF Tick, TimePasses, scheduleVars, slotVars, sheetVars, FlipInv
<1>2. TabsOnTime' = TabsOnTime /\ TabsOnTime \subseteq Nat
  BY <1>1, FlipTypes DEF TabsOnTime
<1>3. run.pc # "idle" => clock.slot < args + RunLimit /\ args + RunLimit < WeekLen
  <2> SUFFICES ASSUME run.pc # "idle"
               PROVE  clock.slot < args + RunLimit /\ args + RunLimit < WeekLen
    OBVIOUS
  <2>1. errCounter # Threshold
    <3>1. ~errored
      BY DEF Tick, TimePasses
    <3> QED
      BY <3>1 DEF IInv, ThresholdFreezes
  <2>2. Threshold - 1 - errCounter \in Nat
    BY <2>1, FlipTypes
  <2>3. FitsWeek(args, Threshold - 1 - errCounter)
    BY <1>1 DEF FlipInv, RetriesStayInWeek
  <2>4. args + RunLimit < WeekLen
    BY <2>2, <2>3, Fits, FlipTypes
  <2>5. Later(At(clock.week, args), RunLimit) = At(clock.week, args + RunLimit)
    BY <2>4 DEF Later, At
  <2>6. Before(clock, At(clock.week, args + RunLimit))
    BY <2>5 DEF Tick, FlipInv, RunIsOfTheWeek
  <2> QED
    BY <2>4, <2>6, FlipTypes DEF Before, At
<1>4. NeverWaits'
  BY <1>1 DEF FlipInv, NeverWaits
<1>5. CASE clock'.week = clock.week /\ clock'.slot = clock.slot + 1
  <2>1. ~ResetDue'
    BY <1>1, <1>5, FlipTypes DEF FlipInv, Punctual, ResetDue, NotAfter, Before
  <2>2. RetriesStayInWeek'
    BY <1>1, <1>5, <2>1 DEF FlipInv, RetriesStayInWeek, FitsWeek
  <2>3. RunIsOfTheWeek'
    BY <1>1, <1>3, <1>5, FlipTypes DEF FlipInv, RunIsOfTheWeek
  <2>4. OnSunday' => OnSunday
    BY <1>5, FlipTypes DEF OnSunday
  <2>5. SundayRunsOnce'
    BY <1>1, <1>2, <1>5, <2>1, <2>4 DEF FlipInv, SundayRunsOnce, SundayIsFree
  <2>6. OnTimeIsOld' /\ TargetIsEarly'
    BY <1>1, <1>2, <1>5 DEF FlipInv, OnTimeIsOld, TargetIsEarly
  <2> QED
    BY <1>1, <1>4, <2>2, <2>3, <2>5, <2>6 DEF FlipInv
<1>6. CASE clock'.week = clock.week + 1 /\ clock'.slot = 0 /\ clock.slot = WeekLen - 1
  <2>1. run.pc = "idle" /\ run'.pc = "idle"
    BY <1>1, <1>3, <1>6, FlipTypes
  <2>2. ResetDue'
    <3>1. reset.slot = 0 /\ NotAfter(clock', reset) /\ reset.week <= clock.week + 1
      BY <1>1 DEF FlipInv, Punctual
    <3>2. clock' \in Instants
      BY <1>1, TheNextInstant, FlipTypes
    <3>3. reset.week = clock'.week /\ reset.slot = clock'.slot
      BY <1>6, <3>1, <3>2, FlipTypes, InstantOrder
    <3>4. reset = clock'
      BY <3>2, <3>3, FlipTypes, SameInstant
    <3> QED
      BY <1>1, <3>4 DEF ResetDue, NotAfter
  <2>3. RetriesStayInWeek' /\ RunIsOfTheWeek'
    BY <1>1, <2>1, <2>2 DEF FlipInv, RetriesStayInWeek, RunIsOfTheWeek
  <2>4. SundayIsFree' /\ OnTimeIsOld'
    BY <1>2, <1>6, FlipTypes DEF FlipInv, OnTimeIsOld, SundayIsFree
  <2>5. SundayRunsOnce' /\ TargetIsEarly'
    BY <2>1, <2>4 DEF SundayRunsOnce, TargetIsEarly
  <2> QED
    BY <1>1, <1>4, <2>3, <2>4, <2>5 DEF FlipInv
<1> QED
  BY <1>1, <1>5, <1>6, TheNextInstant, FlipTypes

(* The invariant holds at boot. *)
LEMMA InitFlip == FlipEndsInWeek /\ Init => FlipInv
<1> SUFFICES ASSUME FlipEndsInWeek, Init PROVE FlipInv
  OBVIOUS
<1>1. IInv /\ Punctual /\ run.pc = "idle" /\ run.outcome = "ok"
  BY InitEstablishes, BootsPunctual DEF Init, NoRun, NewRun
<1>2. clock.week = 1 /\ late = {} /\ tabs = (IF OnSunday THEN {} ELSE {0})
      /\ args = Main /\ errCounter = 0
  BY DEF Init, Boots
<1>3. RetriesStayInWeek
  BY <1>2, FlipTypes, <1>1 DEF RetriesStayInWeek, FlipEndsInWeek
<1>4. SundayRunsOnce /\ OnTimeIsOld
  BY <1>2 DEF SundayRunsOnce, SundayIsFree, OnTimeIsOld, TabsOnTime
<1> QED
  BY <1>1, <1>3, <1>4 DEF FlipInv, RunIsOfTheWeek, TargetIsEarly, NeverWaits

LEMMA FlipKeeps == FlipEndsInWeek /\ IInv /\ FlipInv /\ [Next]_vars => FlipInv'
<1> SUFFICES ASSUME FlipEndsInWeek, IInv, FlipInv, [Next]_vars PROVE FlipInv'
  OBVIOUS
<1>1. CASE EntersHours \/ DeletesTab \/ UNCHANGED vars
  BY <1>1, PeopleKeepFlip DEF EntersHours, DeletesTab, vars, sheetVars
<1> QED
  BY <1>1, WakeupKeepsFlip, ReadsDateKeepsFlip, CallsKeepFlip, SettleKeepsFlip, TickKeepsFlip
     DEF Next

(* No flip takes away the hours of a tab made on its Sunday: FlipSheetJob's batch
   deletes a week's tab only where a run that read the date after Sunday made it ahead
   of its time, as long as the run on Sunday and its retries are over before the week
   is: for a job at the end of Sunday, ten minutes between retries and a threshold of
   a few.                                                                           *)
THEOREM OnTimeTabsKeepHours ==
  ASSUME FlipEndsInWeek
  PROVE  ReportsSpec => OnlyEarlyTabsLoseHours
<1>1. ReportsInit => FlipInv
  BY InitFlip DEF ReportsInit
<1>2. ReportsNext => [Next]_vars
  BY DEF ReportsNext, ReportStep, SheetStep, Begins, ProcessorEnds, ReadsTab, Calculates, Mails,
         FailsCounted, FailsForGood
<1>3. RInv /\ FlipInv /\ [ReportsNext]_allVars => FlipInv'
  BY <1>2, FlipKeeps DEF RInv, SheetInv, allVars
<1>4. RInv /\ FlipInv /\ [ReportsNext]_allVars =>
        [run' # run => filled \ filled' \subseteq late]_vars
  <2> SUFFICES ASSUME RInv, FlipInv, [Next]_vars, run' # run
               PROVE  filled \ filled' \subseteq late
    BY <1>2 DEF allVars
  <2>1. CASE Updates
    BY <2>1 DEF Updates, FlipInv, TargetIsEarly, RInv, SheetInv, IInv, TypeOK
  <2>2. CASE ~Updates
    BY <2>2 DEF Next, Wakeup, ReadsDate, Fetches, UpdateRefused, SheetFails, Settle,
                EntersHours, DeletesTab, Tick, sheetVars, vars
  <2> QED
    BY <2>1, <2>2
<1> QED
  BY <1>1, <1>3, <1>4, RInvHolds, PTL DEF ReportsSpec, OnlyEarlyTabsLoseHours

(* With TimeclockJob beside it, people still see the tabs of three weeks in a row. *)
THEOREM ThreeWeeksBesideReports == ReportsSpec => []ShowsThreeWeeks
<1>1. RInv => ShowsThreeWeeks
  BY DEF RInv, SheetInv, IInv
<1> QED
  BY <1>1, RInvHolds, PTL
-----------------------------------------------------------------------------
(* The job lives as JobLife promises of every job.                                  *)

(* Both calendars are one. *)
LEMMA OneCalendar ==
  ASSUME NEW s, NEW now, NEW d
  PROVE  /\ Life!NextFire(s, now) = NextFire(s, now)
         /\ Life!FollowingFire(s, now) = FollowingFire(s, now)
         /\ Life!Later(now, d) = Later(now, d)
         /\ Life!ShiftSlot(s) = ShiftSlot(s)
         /\ Life!NotAfter(s, now) <=> NotAfter(s, now)
         /\ Life!Instants = Instants
BY DEF NextFire, FollowingFire, Later, ShiftSlot, NotAfter, Before, At, Instants, Slots,
       Life!NextFire, Life!FollowingFire, Life!Later, Life!ShiftSlot, Life!NotAfter,
       Life!Before, Life!At, Life!Instants, Life!Slots

LEMMA LifeBegins == Init => Life!Init
<1> SUFFICES ASSUME Init PROVE Life!Init
  OBVIOUS
<1>1. Stage = "none"
  BY DEF Init, NoRun, NewRun, Stage
<1>2. /\ clock \in Instants /\ args = Main /\ next = NextFire(Main, clock)
      /\ errCounter = 0 /\ errored = FALSE
  BY DEF Init, Boots, Instants
<1> QED
  BY <1>1, <1>2, OneCalendar DEF Life!Init

(* A wakeup hands out the job, or registers it anew, or both at once. *)
LEMMA WakeupIsLived ==
  ASSUME IInv, Punctual, Wakeup
  PROVE  Life!Next
<1>1. /\ UNCHANGED <<clock, errCounter, errored>>
      /\ ResetDue => clock.slot = 0 /\ args' = Main /\ next' = NextFire(Main, clock)
      /\ ~ResetDue => JobDue /\ args' = args /\ next' = FollowingFire(args, clock)
  BY HandsOutInTime DEF Wakeup, IInv, TypeOK
<1>2. IF JobDue /\ Stage = "none" THEN Stage' = "waiting" ELSE Stage' = Stage
  BY DEF Wakeup, NewRun, Stage
<1>3. CASE ResetDue
  <2>1. Stage' = Stage \/ (NotAfter(next, clock) /\ Stage = "none" /\ Stage' = "waiting")
    BY <1>2 DEF JobDue
  <2>2. Life!Reregistered
    BY <1>1, <1>3, <2>1, OneCalendar DEF Life!Reregistered
  <2> QED
    BY <2>2 DEF Life!Next
<1>4. CASE ~ResetDue
  <2>1. NotAfter(next, clock)
    BY <1>1, <1>4 DEF JobDue
  <2>2. Stage' = IF Stage = "none" THEN "waiting" ELSE Stage
    BY <1>1, <1>2, <1>4
  <2>3. Life!HandedOut
    BY <1>1, <1>4, <2>1, <2>2, OneCalendar DEF Life!HandedOut
  <2> QED
    BY <2>3 DEF Life!Next
<1> QED
  BY <1>3, <1>4

(* A step of the body, of which the schedule hears nothing. *)
LEMMA BodyIsLived ==
  ASSUME IInv, run.pc # "idle", Stage' = "working", UNCHANGED <<clock, scheduleVars>>
  PROVE  [Life!Next]_(Life!vars)
<1>1. ~errored
  BY DEF IInv, FrozenIsIdle
<1>2. Stage = "waiting" \/ Stage = "working"
  BY DEF Stage
<1>3. UNCHANGED <<clock, args, next, errCounter, errored>>
  BY DEF scheduleVars, slotVars
<1>4. CASE Stage = "waiting"
  BY <1>1, <1>3, <1>4 DEF Life!Next, Life!Works
<1>5. CASE Stage = "working"
  BY <1>3, <1>5 DEF Life!vars
<1> QED
  BY <1>2, <1>4, <1>5

(* The end of a run: clean, retried later, or the job freezes. *)
LEMMA SettleIsLived ==
  ASSUME IInv, Settle
  PROVE  Life!Next
<1>1. Stage = "working" /\ Stage' = "none"
  BY DEF Settle, NoRun, NewRun, Stage
<1>2. ScheduleTypeOK /\ errCounter < Threshold
  BY RetryScheduleAssumption
     DEF Settle, IInv, TypeOK, ScheduleTypeOK, FrozenIsIdle, ThresholdFreezes
<1>3. clock' = clock /\ Settles(run.outcome)
  BY DEF Settle
<1>4. CASE EndsClean
  <2>1. Life!EndsClean
    BY <1>1, <1>3, <1>4 DEF EndsClean, slotVars, Life!EndsClean, Life!RunEnds
  <2> QED
    BY <2>1 DEF Life!Next
<1>5. ASSUME NEW count \in {errCounter, errCounter + 1}, count < Threshold, RetriesLater(count)
      PROVE  Life!Next
  <2>1. Life!RetriedLater(count)
    BY <1>1, <1>3, <1>5, OneCalendar DEF RetriesLater, Life!RetriedLater, Life!RunEnds
  <2> QED
    BY <1>5, <2>1 DEF Life!Next, Life!Fails
<1>6. ASSUME NEW count \in {errCounter, errCounter + 1}, count \in {errCounter, Threshold},
             Freezes(count)
      PROVE  Life!Next
  <2>1. Life!Freezes(count)
    BY <1>1, <1>3, <1>6 DEF Freezes, slotVars, Life!Freezes, Life!RunEnds
  <2> QED
    BY <1>6, <2>1 DEF Life!Next, Life!Fails
<1> QED
  BY <1>2, <1>3, <1>4, <1>5, <1>6, SettlesWithin

LEMMA TickIsLived ==
  ASSUME Tick
  PROVE  Life!Next
<1>1. /\ clock' = Later(clock, 1) /\ Stage' = Stage
      /\ UNCHANGED <<args, next, errCounter, errored>>
  BY DEF Tick, TimePasses, scheduleVars, slotVars, Stage
<1>2. Life!TimePasses
  BY <1>1, OneCalendar DEF Life!TimePasses
<1> QED
  BY <1>2 DEF Life!Next

LEMMA NextIsLived ==
  ASSUME IInv, Punctual, [Next]_vars
  PROVE  [Life!Next]_(Life!vars)
<1>1. CASE Wakeup
  BY <1>1, WakeupIsLived
<1>2. CASE ReadsDate \/ Fetches \/ Updates \/ UpdateRefused \/ SheetFails
  <2>1. run.pc # "idle" /\ UNCHANGED <<clock, scheduleVars>> /\ run \in Runs
    BY <1>2 DEF ReadsDate, Fetches, Updates, UpdateRefused, SheetFails, IInv, TypeOK
  <2>2. run'.pc \in {"dated", "fetched", "ended"}
    <3>1. \A r \in Runs, outcome \in Outcomes : Ended(r, outcome).pc = "ended"
      BY RunTypes
    <3>2. CASE ReadsDate \/ Fetches
      BY <2>1, <3>2 DEF ReadsDate, Fetches, Runs
    <3>3. CASE Updates \/ UpdateRefused \/ SheetFails
      BY <2>1, <3>1, <3>3 DEF Updates, UpdateRefused, SheetFails, Outcomes
    <3> QED
      BY <1>2, <3>2, <3>3
  <2>3. Stage' = "working"
    BY <2>2 DEF Stage
  <2> QED
    BY <2>1, <2>3, BodyIsLived
<1>3. CASE Settle
  BY <1>3, SettleIsLived
<1>4. CASE EntersHours \/ DeletesTab \/ UNCHANGED vars
  BY <1>4 DEF EntersHours, DeletesTab, vars, scheduleVars, slotVars, Stage, Life!vars
<1>5. CASE Tick
  BY <1>5, TickIsLived
<1> QED
  BY <1>1, <1>2, <1>3, <1>4, <1>5 DEF Next

LEMMA PunctualHolds == Spec => []Punctual
<1>1. Init => Punctual
  BY BootsPunctual DEF Init
<1>2. [Next]_vars => ScheduleStep
  <2>1. Settle => UNCHANGED clock /\ \E outcome \in Outcomes : Settles(outcome)
    BY DEF Settle, Settles, Outcomes
  <2> QED
    BY <2>1 DEF Next, Wakeup, ReadsDate, Fetches, Updates, UpdateRefused, SheetFails,
                EntersHours, DeletesTab, Tick, vars, ScheduleStep
<1>3. IInv /\ Punctual /\ [Next]_vars => Punctual'
  BY <1>2, StaysPunctual DEF IInv, TypeOK
<1> QED
  BY <1>1, <1>3, IInvHolds, PTL DEF Spec

(* FlipSheetJob, whichever week its retries come to, implements JobLife: JobBase's
   run_job and error_reschedule keep for it what they promise of every job.         *)
THEOREM FlipSheetLives == Spec => LivesAsPromised
<1>1. IInv /\ Punctual /\ [Next]_vars => [Life!Next]_(Life!vars)
  BY NextIsLived
<1> QED
  BY <1>1, LifeBegins, IInvHolds, PunctualHolds, PTL DEF Spec, LivesAsPromised, Life!Spec

(* TimeclockJob beside it changes nothing of FlipSheetJob's: it reads the spreadsheet. *)
LEMMA ReportsLeaveTheSheet == ReportsSpec => Spec
<1>1. ReportsInit => Init
  BY DEF ReportsInit
<1>2. [ReportsNext]_allVars => [Next]_vars
  BY DEF ReportsNext, ReportStep, SheetStep, Begins, ProcessorEnds, ReadsTab, Calculates, Mails,
         FailsCounted, FailsForGood, allVars
<1> QED
  BY <1>1, <1>2, PTL DEF ReportsSpec, Spec

(* FlipSheetJob implements JobLife with TimeclockJob beside it, too. *)
THEOREM FlipSheetLivesBesideReports == ReportsSpec => LivesAsPromised
BY FlipSheetLives, ReportsLeaveTheSheet, PTL
=============================================================================
