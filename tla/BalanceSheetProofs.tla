------------------------- MODULE BalanceSheetProofs -------------------------
(***************************************************************************)
(* For every length of the week, schedule, threshold, deadlines and run      *)
(* limit, and whatever names the files have: BalanceSheet is well-typed, and *)
(* a mailed report is fresh.                                                 *)
(*                                                                         *)
(* A run finds its files at different times.  What it has found is of a week *)
(* it was at work in, and as it lasts less than a week, these are the weeks  *)
(* of its begin and of its end at most.                                      *)
(*                                                                         *)
(* Then, each under what it needs of the constants: a source is missing only *)
(* when its file is (OnlyMissingFilesAreMissed), a report is repeated only   *)
(* with a cause (RepeatsAreExplained), and no week ends in silence           *)
(* (NoWeekIsForgotten).                                                      *)
(*                                                                         *)
(* And the job implements JobLife (BalanceSheetLives): its steps are a       *)
(* wakeup, a step of the body, the end of a run or the passing of time.      *)
(***************************************************************************)
EXTENDS BalanceSheet, RetryScheduleProofs, SequenceTheorems, WellFoundedInduction

-----------------------------------------------------------------------------
(* The inductive invariant. *)

(* A frozen job has no run, and the threshold freezes it. *)
FrozenIsIdle == errored => run.pc = "idle"

ThresholdFreezes == errCounter = Threshold => errored

AtWork == {"looking", "transferring", "downloaded", "assembling", "emailing"}

(* The weeks a run that is not over can have looked in. *)
WeeksOfRun == {run.began.week, clock.week}

(* The sources a run is through with: `at' is past them. *)
Passed(s) == \E i \in 1..Len(Sources) : i < run.at /\ Sources[i] = s

(* What a run has found, of the source it is at or of one before. *)
Found(s) ==
  run.pc \in AtWork =>
    /\ Passed(s) => s \in run.missing \/ run.got[s] \in WeeksOfRun
    /\ s = Looking /\ run.pc = "transferring" => run.got[s] \in WeeksOfRun

(* The run's walk over the sources. *)
InWalk ==
  /\ run.pc \in {"looking", "transferring"} => run.at <= Len(Sources)
  /\ run.pc \in {"downloaded", "assembling", "emailing"} => run.at = Len(Sources) + 1
  /\ run.pc \in {"assembling", "emailing"} => run.missing = {}

(* A run is not ahead of the clock, nor behind it by more than its limit. *)
RunInTime ==
  run.pc # "idle" =>
    NotAfter(run.began, clock) /\ NotAfter(clock, Later(run.began, RunLimit))

IInv ==
  /\ TypeOK
  /\ FrozenIsIdle
  /\ ThresholdFreezes
  /\ \A s \in SourceKeys : Found(s)
  /\ InWalk
  /\ RunInTime

-----------------------------------------------------------------------------
(* The sources in their order. *)
LEMMA SourcesAre ==
  /\ Len(Sources) = 2 /\ Sources[1] = "ryo" /\ Sources[2] = "sas"
  /\ \A i \in 1..Len(Sources) : Sources[i] \in SourceKeys
BY DEF Sources, SourceKeys

(* The runs a step makes are runs. *)
LEMMA RunTypes ==
  /\ NoRun \in Runs /\ NoRun.pc = "idle"
  /\ clock \in Instants =>
       /\ NewRun("looking") \in Runs /\ NewRun("looking").pc = "looking"
       /\ NewRun("looking").at = 1 /\ NewRun("looking").began = clock
       /\ \A r \in Runs, outcome \in Outcomes :
            /\ Ended(r, outcome) \in Runs /\ Ended(r, outcome).pc = "ended"
            /\ Ended(r, outcome).began = r.began
            /\ Ended(r, outcome).missing = {}
<1>1. At(0, 0) \in Instants
  BY CalendarTypes DEF At, Instants
<1>2. NoFiles \in [SourceKeys -> Names] /\ "ok" \in Outcomes /\ 1 \in 1..(Len(Sources) + 1)
  BY SourcesAre DEF NoFiles, Names, Outcomes
<1>3. NoRun = [pc |-> "idle", began |-> At(0, 0), at |-> 1, got |-> NoFiles,
               missing |-> {}, outcome |-> "ok"]
  BY DEF NoRun, NewRun
<1>4. NoRun \in Runs /\ NoRun.pc = "idle"
  BY <1>1, <1>2, <1>3 DEF Runs, Pcs
<1>5. ASSUME clock \in Instants
      PROVE  /\ NewRun("looking") \in Runs /\ NewRun("looking").pc = "looking"
             /\ NewRun("looking").at = 1 /\ NewRun("looking").began = clock
  BY <1>2, <1>5 DEF NewRun, Runs, Pcs
<1>6. ASSUME clock \in Instants, NEW r \in Runs, NEW outcome \in Outcomes
      PROVE  /\ Ended(r, outcome) \in Runs /\ Ended(r, outcome).pc = "ended"
             /\ Ended(r, outcome).began = r.began
             /\ Ended(r, outcome).missing = {}
  <2>1. NewRun("ended") \in Runs /\ NewRun("ended").pc = "ended" /\ NewRun("ended").missing = {}
    BY <1>2, <1>6 DEF NewRun, Runs, Pcs
  <2>2. r.began \in Instants
    BY DEF Runs
  <2> QED
    BY <2>1, <2>2 DEF Ended, Runs
<1> QED
  BY <1>4, <1>5, <1>6

(* One source further. *)
LEMMA OnwardType ==
  ASSUME NEW r \in Runs, r.at <= Len(Sources)
  PROVE  /\ Onward(r) \in Runs
         /\ Onward(r).pc = IF r.at = Len(Sources) THEN "downloaded" ELSE "looking"
         /\ Onward(r).at = r.at + 1
         /\ Onward(r).began = r.began /\ Onward(r).got = r.got
         /\ Onward(r).missing = r.missing
<1> DEFINE pc == IF r.at = Len(Sources) THEN "downloaded" ELSE "looking"
<1>1. r.at + 1 \in 1..(Len(Sources) + 1) /\ pc \in Pcs
  BY SourcesAre DEF Runs, Pcs
<1>2. Onward(r) = [r EXCEPT !.at = r.at + 1, !.pc = pc]
  BY DEF Onward
<1> HIDE DEF pc
<1>3. /\ Onward(r) \in Runs /\ Onward(r).pc = pc /\ Onward(r).at = r.at + 1
      /\ Onward(r).began = r.began /\ Onward(r).got = r.got
      /\ Onward(r).missing = r.missing
  BY <1>1, <1>2 DEF Runs
<1> QED
  BY <1>3 DEF pc

(* A run lasts less than a week. *)
LEMMA LessThanAWeek ==
  ASSUME NEW began \in Instants, NEW now \in Instants,
         NotAfter(began, now), NotAfter(now, Later(began, RunLimit))
  PROVE  now.week \in began.week..(began.week + 1)
BY CronSlotsAssumption, BalanceSheetAssumption
   DEF Instants, Slots, NotAfter, Before, Later, At

(* Time goes on for a run while it is short of its limit. *)
LEMMA TickInTime ==
  ASSUME NEW began \in Instants, NEW now \in Instants,
         NotAfter(began, now), Before(now, Later(began, RunLimit))
  PROVE  /\ NotAfter(began, Later(now, 1))
         /\ NotAfter(Later(now, 1), Later(began, RunLimit))
         /\ now.week \in {began.week, Later(now, 1).week}
<1> DEFINE limit == Later(began, RunLimit)
           then == Later(now, 1)
<1>1. limit \in Instants /\ limit.week \in began.week..(began.week + 1)
  BY CronSlotsAssumption, BalanceSheetAssumption DEF Instants, Slots, Later, At
<1>2. /\ then \in Instants
      /\ \/ then.week = now.week /\ then.slot = now.slot + 1
         \/ then.week = now.week + 1 /\ then.slot = 0 /\ now.slot = WeekLen - 1
  BY CronSlotsAssumption DEF Instants, Slots, Later, At
<1>3. limit = [week |-> limit.week, slot |-> limit.slot] /\ then = [week |-> then.week, slot |-> then.slot]
  BY <1>1, <1>2 DEF Instants
<1> HIDE DEF limit, then
<1>0. Before(now, limit)
  BY DEF limit
<1>4. Before(began, then)
  BY <1>2 DEF Instants, Slots, NotAfter, Before
<1>5. NotAfter(then, limit)
  <2>1. CASE then.week = now.week /\ then.slot = now.slot + 1
    <3>1. then.week < limit.week \/ (then.week = limit.week /\ then.slot <= limit.slot)
      BY <1>0, <1>1, <1>2, <2>1 DEF Instants, Slots, Before
    <3> QED
      BY <1>1, <1>2, <1>3, <3>1 DEF Instants, Slots, NotAfter, Before
  <2>2. CASE then.week = now.week + 1 /\ then.slot = 0
    <3>1. then.week < limit.week \/ (then.week = limit.week /\ then.slot <= limit.slot)
      BY <1>0, <1>1, <1>2, <2>2, CronSlotsAssumption DEF Instants, Slots, Before
    <3> QED
      BY <1>1, <1>2, <1>3, <3>1 DEF Instants, Slots, NotAfter, Before
  <2> QED
    BY <1>2, <2>1, <2>2
<1>6. now.week \in {began.week, then.week}
  BY <1>0, <1>1, <1>2, <1>5 DEF Instants, Slots, NotAfter, Before
<1> QED
  BY <1>4, <1>5, <1>6 DEF NotAfter, limit, then

(* A run that begins is in time. *)
LEMMA BeginsInTime ==
  ASSUME NEW now \in Instants
  PROVE  NotAfter(now, now) /\ NotAfter(now, Later(now, RunLimit))
BY CronSlotsAssumption, BalanceSheetAssumption
   DEF Instants, Slots, NotAfter, Before, Later, At

-----------------------------------------------------------------------------
(* The invariant holds at boot. *)
LEMMA InitEstablishes == Init => IInv
<1> SUFFICES ASSUME Init PROVE IInv
  OBVIOUS
<1>1. ScheduleTypeOK /\ boot \in Instants
  BY BootsType DEF Init, ScheduleTypeOK
<1>2. run \in Runs /\ run.pc = "idle"
  BY RunTypes DEF Init
<1>3. remote \in [SourceKeys -> Seq(Names)] /\ local \in [SourceKeys -> SUBSET Names]
  BY BalanceSheetAssumption DEF Init
<1>4. alerted = {} /\ sent = <<>>
  BY DEF Init
<1>5. TypeOK
  BY <1>1, <1>2, <1>3, <1>4 DEF TypeOK
<1>6. FrozenIsIdle /\ InWalk /\ RunInTime /\ \A s \in SourceKeys : Found(s)
  BY <1>2 DEF FrozenIsIdle, InWalk, RunInTime, Found, AtWork
<1>7. ThresholdFreezes
  BY RetryScheduleAssumption DEF Init, Boots, ThresholdFreezes
<1> QED
  BY <1>5, <1>6, <1>7 DEF IInv

(* A step of the body leaves the schedule and the clock alone. *)
LEMMA BodyStepKeeps ==
  ASSUME IInv, run.pc # "idle", UNCHANGED <<boot, clock, scheduleVars, remote>>,
         run' \in Runs, run'.pc # "idle", run'.began = run.began,
         local' \in [SourceKeys -> SUBSET Names],
         alerted' \subseteq SourceKeys \X Nat,
         sent' \in Seq([ryo : Nat, sas : Nat, on : Instants, failed : BOOLEAN]),
         InWalk', \A s \in SourceKeys : Found(s)'
  PROVE  IInv'
<1>1. TypeOK'
  BY DEF IInv, TypeOK, ScheduleTypeOK, scheduleVars, slotVars
<1>2. FrozenIsIdle' /\ ThresholdFreezes' /\ RunInTime'
  BY DEF IInv, FrozenIsIdle, ThresholdFreezes, RunInTime, scheduleVars
<1> QED
  BY <1>1, <1>2 DEF IInv

(* A body's end needs no more. *)
LEMMA EndKeeps ==
  ASSUME IInv, run.pc # "idle", UNCHANGED <<boot, clock, scheduleVars, remote, alerted>>,
         NEW outcome \in Outcomes, run' = Ended(run, outcome),
         local' \in [SourceKeys -> SUBSET Names],
         sent' \in Seq([ryo : Nat, sas : Nat, on : Instants, failed : BOOLEAN])
  PROVE  IInv'
<1>1. run' \in Runs /\ run'.pc = "ended" /\ run'.began = run.began
  BY RunTypes DEF IInv, TypeOK, ScheduleTypeOK
<1>2. InWalk' /\ \A s \in SourceKeys : Found(s)'
  BY <1>1 DEF InWalk, Found, AtWork
<1>3. alerted' \subseteq SourceKeys \X Nat
  BY DEF IInv, TypeOK
<1> QED
  BY <1>1, <1>2, <1>3, BodyStepKeeps

(* Unlinking leaves files. *)
LEMMA WithoutType ==
  ASSUME TypeOK, NEW keys
  PROVE  Without(keys) \in [SourceKeys -> SUBSET Names]
BY DEF TypeOK, Without

(* The source a run looks at is one. *)
LEMMA LookingIsSource ==
  ASSUME IInv, run.pc \in {"looking", "transferring"}
  PROVE  Looking \in SourceKeys /\ run.at <= Len(Sources) /\ run.at \in Nat
BY SourcesAre DEF IInv, InWalk, Looking, TypeOK, Runs

(* The file of a source is found: it is of the present week. *)
LEMMA FindsFileKeeps ==
  ASSUME IInv, FindsFile
  PROVE  IInv'
<1>1. Looking \in SourceKeys /\ run.at <= Len(Sources)
  BY LookingIsSource DEF FindsFile
<1>2. /\ run' = [run EXCEPT !.pc = "transferring", !.got[Looking] = clock.week]
      /\ local' = [local EXCEPT ![Looking] = @ \cup {clock.week}]
      /\ UNCHANGED <<boot, clock, scheduleVars, remote, alerted, sent>>
  BY DEF FindsFile, HasFile, ThisWeek
<1>3. clock.week \in Nat /\ clock.week \in Names
  BY DEF IInv, TypeOK, ScheduleTypeOK, Instants, Names
<1>4. /\ run \in Runs
      /\ [run.got EXCEPT ![Looking] = clock.week] \in [SourceKeys -> Names]
  BY <1>1, <1>3 DEF IInv, TypeOK, Runs
<1>5. run' = [pc |-> "transferring", began |-> run.began, at |-> run.at,
              got |-> [run.got EXCEPT ![Looking] = clock.week], missing |-> run.missing,
              outcome |-> run.outcome]
  BY <1>2, <1>4 DEF Runs
<1>6. run' \in Runs
  BY <1>4, <1>5 DEF Runs, Pcs
<1>7. local' \in [SourceKeys -> SUBSET Names]
  BY <1>1, <1>2, <1>3 DEF IInv, TypeOK
<1>8. InWalk'
  BY <1>1, <1>5 DEF InWalk
<1>9. ASSUME NEW s \in SourceKeys
      PROVE  Found(s)'
  <2>1. run'.got[s] = IF s = Looking THEN clock.week ELSE run.got[s]
    BY <1>1, <1>4, <1>5 DEF Runs
  <2>2. Passed(s)' => Passed(s)
    BY <1>5 DEF Passed
  <2>3. Looking' = Looking
    BY <1>5 DEF Looking
  <2> QED
    BY <1>2, <1>5, <2>1, <2>2, <2>3
       DEF FindsFile, Found, WeeksOfRun, AtWork, IInv
<1> QED
  BY <1>2, <1>5, <1>6, <1>7, <1>8, <1>9, BodyStepKeeps DEF FindsFile, IInv, TypeOK

(* The walk goes on behind a source that is found, or known to be missing. *)
LEMMA OnwardKeeps ==
  ASSUME IInv, run.pc \in {"looking", "transferring"},
         UNCHANGED <<boot, clock, scheduleVars, remote, local, sent>>,
         alerted' \subseteq SourceKeys \X Nat,
         NEW missing \in SUBSET SourceKeys, run.missing \subseteq missing,
         Looking \in missing \/ run.pc = "transferring",
         run' = [Onward(run) EXCEPT !.missing = missing]
  PROVE  IInv'
<1>1. Looking \in SourceKeys /\ run.at <= Len(Sources) /\ run.at \in Nat /\ run \in Runs
  BY LookingIsSource DEF IInv, TypeOK
<1>2. /\ run' \in Runs
      /\ run'.pc = IF run.at = Len(Sources) THEN "downloaded" ELSE "looking"
      /\ run'.at = run.at + 1 /\ run'.began = run.began /\ run'.got = run.got
      /\ run'.missing = missing
  <2>1. /\ Onward(run) \in Runs
        /\ Onward(run).pc = IF run.at = Len(Sources) THEN "downloaded" ELSE "looking"
        /\ Onward(run).at = run.at + 1 /\ Onward(run).began = run.began
        /\ Onward(run).got = run.got
    BY <1>1, OnwardType
  <2> QED
    BY <2>1 DEF Runs
<1>3. InWalk'
  BY <1>1, <1>2, SourcesAre DEF InWalk
<1>4. ASSUME NEW s \in SourceKeys
      PROVE  Found(s)'
  <2>1. Passed(s)' => Passed(s) \/ s = Looking
    BY <1>1, <1>2, SourcesAre DEF Passed, Looking
  <2>2. Passed(s) => s \in run.missing \/ run.got[s] \in WeeksOfRun
    BY DEF IInv, Found, AtWork
  <2>3. s = Looking => s \in missing \/ run.got[s] \in WeeksOfRun
    BY DEF IInv, Found, AtWork
  <2>4. WeeksOfRun' = WeeksOfRun
    BY <1>2 DEF WeeksOfRun
  <2>5. run'.pc # "transferring"
    BY <1>2
  <2> QED
    BY <1>2, <2>1, <2>2, <2>3, <2>4, <2>5 DEF Found
<1>5. local' \in [SourceKeys -> SUBSET Names]
      /\ sent' \in Seq([ryo : Nat, sas : Nat, on : Instants, failed : BOOLEAN])
  BY DEF IInv, TypeOK
<1> QED
  BY <1>2, <1>3, <1>4, <1>5, BodyStepKeeps

(* What is to be merged and mailed is of the weeks of the run. *)
LEMMA BothFound ==
  ASSUME IInv, run.pc \in {"assembling", "emailing"}
  PROVE  \A s \in SourceKeys : run.got[s] \in WeeksOfRun /\ WeeksOfRun \subseteq Nat
<1>1. run.at = 3 /\ run.missing = {}
  BY SourcesAre DEF IInv, InWalk
<1>2. \A s \in SourceKeys : Passed(s)
  BY <1>1, SourcesAre DEF Passed, SourceKeys
<1>3. WeeksOfRun \subseteq Nat
  BY DEF WeeksOfRun, IInv, TypeOK, ScheduleTypeOK, Instants, Runs
<1> QED
  BY <1>1, <1>2, <1>3 DEF IInv, Found, AtWork

(* A report, whether its mailing is confirmed or not. *)
LEMMA ReportType ==
  ASSUME IInv, run.pc = "emailing", NEW failed \in BOOLEAN
  PROVE  Report(failed) \in [ryo : Nat, sas : Nat, on : Instants, failed : BOOLEAN]
<1>1. run.got["ryo"] \in Nat /\ run.got["sas"] \in Nat
  BY BothFound DEF SourceKeys
<1>2. clock \in Instants
  BY DEF IInv, TypeOK, ScheduleTypeOK
<1> QED
  BY <1>1, <1>2 DEF Report

(* One more report mailed is still a list of reports. *)
LEMMA MailedType ==
  ASSUME IInv, run.pc = "emailing", NEW failed \in BOOLEAN
  PROVE  Append(sent, Report(failed)) \in Seq([ryo : Nat, sas : Nat, on : Instants, failed : BOOLEAN])
<1> DEFINE Reports == [ryo : Nat, sas : Nat, on : Instants, failed : BOOLEAN]
<1>1. sent \in Seq(Reports) /\ Report(failed) \in Reports
  BY ReportType DEF IInv, TypeOK
<1> HIDE DEF Reports
<1>2. Append(sent, Report(failed)) \in Seq(Reports)
  BY <1>1, AppendProperties
<1> QED
  BY <1>2 DEF Reports

(* A step from one stage of the body to the next. *)
LEMMA StageKeeps ==
  ASSUME IInv, NEW from \in {"downloaded", "assembling"},
         NEW to \in {"assembling", "emailing"},
         run.pc = from, from = "downloaded" => run.missing = {},
         run' = [run EXCEPT !.pc = to],
         UNCHANGED <<boot, clock, scheduleVars, remote, local, alerted, sent>>
  PROVE  IInv'
<1>1. run \in Runs
  BY DEF IInv, TypeOK
<1>2. /\ run' \in Runs /\ run'.pc = to /\ run'.at = run.at /\ run'.began = run.began
      /\ run'.got = run.got /\ run'.missing = run.missing
  BY <1>1 DEF Runs, Pcs
<1>3. InWalk'
  BY <1>2 DEF IInv, InWalk
<1>4. \A s \in SourceKeys : Found(s)'
  BY <1>2 DEF IInv, Found, AtWork, Passed, WeeksOfRun
<1> QED
  BY <1>2, <1>3, <1>4, BodyStepKeeps DEF IInv, TypeOK

(* Every step keeps the invariant, action by action. *)
LEMMA NextPreserves == IInv /\ [Next]_vars => IInv'
<1> SUFFICES ASSUME IInv, [Next]_vars PROVE IInv'
  OBVIOUS
<1>1. CASE Wakeup
  <2>1. ScheduleTypeOK' /\ ThresholdFreezes' /\ ~errored' /\ clock' = clock
    BY <1>1, HandsOutType DEF Wakeup, HandsOut, IInv, TypeOK, ThresholdFreezes
  <2>2. clock \in Instants
    BY DEF IInv, TypeOK, ScheduleTypeOK
  <2>3. run' = run \/ run' = NewRun("looking")
    BY <1>1 DEF Wakeup
  <2>4. run' \in Runs
    BY <2>2, <2>3, RunTypes DEF IInv, TypeOK
  <2>5. TypeOK' /\ FrozenIsIdle'
    BY <1>1, <2>1, <2>4 DEF Wakeup, IInv, TypeOK, FrozenIsIdle
  <2>6. CASE run' = run
    <3>1. InWalk' /\ RunInTime' /\ \A s \in SourceKeys : Found(s)'
      BY <2>1, <2>6 DEF IInv, InWalk, RunInTime, Found, Passed, WeeksOfRun, Looking
    <3> QED
      BY <2>1, <2>5, <3>1 DEF IInv
  <2>7. CASE run' = NewRun("looking")
    <3>1. run'.pc = "looking" /\ run'.at = 1 /\ run'.began = clock
      BY <2>2, <2>7, RunTypes
    <3>2. InWalk' /\ \A s \in SourceKeys : Found(s)'
      BY <3>1, SourcesAre DEF InWalk, Found, Passed
    <3>3. RunInTime'
      BY <2>1, <2>2, <3>1, BeginsInTime DEF RunInTime
    <3> QED
      BY <2>1, <2>5, <3>2, <3>3 DEF IInv
  <2> QED
    BY <2>3, <2>6, <2>7
<1>2. CASE FindsFile
  BY <1>2, FindsFileKeeps
<1>3. CASE MissesFile
  <2>1. Looking \in SourceKeys /\ run.at <= Len(Sources) /\ run \in Runs
    BY <1>3, LookingIsSource DEF MissesFile, IInv, TypeOK
  <2>2. run.missing \in SUBSET SourceKeys /\ Onward(run).missing = run.missing
    BY <2>1, OnwardType DEF Runs
  <2>3. alerted' \subseteq SourceKeys \X Nat
    BY <1>3, <2>1 DEF MissesFile, AlertedLate, ThisWeek, IInv, TypeOK, ScheduleTypeOK, Instants
  <2>4. run' = [Onward(run) EXCEPT !.missing = run.missing \cup {Looking}]
    <3>1. Onward(run) \in Runs
      BY <2>1, OnwardType
    <3> QED
      BY <1>3, <2>2, <3>1 DEF MissesFile, Runs
  <2> DEFINE missing == run.missing \cup {Looking}
  <2>5. missing \in SUBSET SourceKeys /\ run.missing \subseteq missing /\ Looking \in missing
    BY <2>1, <2>2
  <2>6. UNCHANGED <<boot, clock, scheduleVars, remote, local, sent>> /\ run.pc = "looking"
    BY <1>3 DEF MissesFile
  <2> HIDE DEF missing
  <2> QED
    BY <2>3, <2>4, <2>5, <2>6, OnwardKeeps DEF missing
<1>4. CASE FileTransferred
  <2>1. run.at <= Len(Sources) /\ run \in Runs
    BY <1>4, LookingIsSource DEF FileTransferred, IInv, TypeOK
  <2>2. run.missing \in SUBSET SourceKeys
    BY <2>1 DEF Runs
  <2>3. run' = [Onward(run) EXCEPT !.missing = run.missing]
    BY <1>4, <2>1, OnwardType DEF FileTransferred, Runs
  <2> QED
    BY <1>4, <2>2, <2>3, OnwardKeeps DEF FileTransferred, IInv, TypeOK
<1>5. CASE ServerFails
  BY <1>5, EndKeeps, WithoutType DEF ServerFails, Outcomes, IInv, TypeOK
<1>6. CASE LacksFiles
  BY <1>6, EndKeeps, WithoutType DEF LacksFiles, Outcomes, IInv, TypeOK
<1>7. CASE HasFiles
  BY <1>7, StageKeeps DEF HasFiles
<1>8. CASE Assembles
  BY <1>8, StageKeeps DEF Assembles
<1>9. CASE CannotAssemble
  BY <1>9, EndKeeps DEF CannotAssemble, Outcomes, IInv, TypeOK
<1>10. CASE Emails
  <2>1. sent' \in Seq([ryo : Nat, sas : Nat, on : Instants, failed : BOOLEAN])
    BY <1>10, MailedType DEF Emails, IInv, TypeOK
  <2> QED
    BY <1>10, <2>1, EndKeeps DEF Emails, Outcomes, IInv, TypeOK
<1>11. CASE EmailFails
  <2>1. sent' \in Seq([ryo : Nat, sas : Nat, on : Instants, failed : BOOLEAN])
    BY <1>11, MailedType DEF EmailFails, IInv, TypeOK
  <2> QED
    BY <1>11, <2>1, EndKeeps DEF EmailFails, Outcomes, IInv, TypeOK
<1>12. CASE Settle
  <2>1. errCounter < Threshold
    BY <1>12, RetryScheduleAssumption
       DEF Settle, IInv, TypeOK, ScheduleTypeOK, FrozenIsIdle, ThresholdFreezes
  <2>2. ScheduleTypeOK' /\ ThresholdFreezes'
    BY <1>12, <2>1, SettlesType DEF Settle, IInv, TypeOK, ThresholdFreezes
  <2>3. run' \in Runs /\ run'.pc = "idle"
    BY <1>12, RunTypes DEF Settle
  <2>4. TypeOK'
    BY <1>12, <2>2, <2>3 DEF Settle, IInv, TypeOK
  <2>5. FrozenIsIdle' /\ InWalk' /\ RunInTime' /\ \A s \in SourceKeys : Found(s)'
    BY <2>3 DEF FrozenIsIdle, InWalk, RunInTime, Found, AtWork
  <2> QED
    BY <2>2, <2>4, <2>5 DEF IInv
<1>13. ASSUME NEW s \in SourceKeys, Upload(s)
       PROVE  IInv'
  <2>1. remote' \in [SourceKeys -> Seq(Names)]
    <3>1. PICK name \in {ThisWeek, Misnamed} \cup {p[1] : p \in {q \in Typos : q[2] = ThisWeek}} :
            remote' = [remote EXCEPT ![s] = Append(@, name)]
      BY <1>13 DEF Upload
    <3>2. name \in Names
      BY <3>1, BalanceSheetAssumption
         DEF ThisWeek, Names, IInv, TypeOK, ScheduleTypeOK, Instants
    <3> QED
      BY <1>13, <3>1, <3>2 DEF IInv, TypeOK
  <2>2. TypeOK'
    BY <1>13, <2>1 DEF Upload, IInv, TypeOK, ScheduleTypeOK, scheduleVars, slotVars
  <2>3. FrozenIsIdle' /\ ThresholdFreezes' /\ InWalk' /\ RunInTime'
    BY <1>13 DEF Upload, IInv, FrozenIsIdle, ThresholdFreezes, InWalk, RunInTime, scheduleVars
  <2>4. \A k \in SourceKeys : Found(k)'
    BY <1>13 DEF Upload, IInv, Found, Passed, WeeksOfRun, Looking
  <2> QED
    BY <2>2, <2>3, <2>4 DEF IInv
<1>14. CASE Tick
  <2>1. ScheduleTypeOK' /\ TypeOK'
    BY <1>14, TimePassesType DEF Tick, IInv, TypeOK
  <2>2. /\ clock \in Instants /\ clock' = Later(clock, 1) /\ run' = run /\ run.began \in Instants
        /\ run.pc # "idle" => Before(clock, Later(run.began, RunLimit))
    BY <1>14 DEF Tick, TimePasses, IInv, TypeOK, ScheduleTypeOK, Runs
  <2>3. run.pc # "idle" => clock.week \in {run.began.week, clock'.week}
    BY <2>2, TickInTime DEF IInv, RunInTime
  <2>4. RunInTime'
    BY <2>2, TickInTime DEF IInv, RunInTime
  <2>5. \A s \in SourceKeys : Found(s)'
    BY <2>2, <2>3 DEF IInv, Found, Passed, WeeksOfRun, Looking, AtWork
  <2>6. FrozenIsIdle' /\ ThresholdFreezes' /\ InWalk'
    BY <1>14, <2>2 DEF Tick, TimePasses, IInv, FrozenIsIdle, ThresholdFreezes, InWalk, scheduleVars
  <2> QED
    BY <2>1, <2>4, <2>5, <2>6 DEF IInv
<1>15. CASE UNCHANGED vars
  <2>1. TypeOK' /\ FrozenIsIdle' /\ ThresholdFreezes'
    BY <1>15 DEF vars, scheduleVars, slotVars, IInv, TypeOK, ScheduleTypeOK, FrozenIsIdle, ThresholdFreezes
  <2>2. InWalk' /\ RunInTime' /\ \A s \in SourceKeys : Found(s)'
    BY <1>15 DEF vars, IInv, InWalk, RunInTime, Found, Passed, WeeksOfRun, Looking
  <2> QED
    BY <2>1, <2>2 DEF IInv
<1> QED
  BY <1>1, <1>2, <1>3, <1>4, <1>5, <1>6, <1>7, <1>8, <1>9, <1>10, <1>11, <1>12, <1>13,
     <1>14, <1>15 DEF Next, RunStep

-----------------------------------------------------------------------------
(* The inductive invariant holds throughout. *)
LEMMA IInvHolds == Spec => []IInv
BY InitEstablishes, NextPreserves, PTL DEF Spec

(* BalanceSheet is well-typed: what main_job mails are the files of two weeks that
   there were, and no count passes the threshold.                                  *)
THEOREM TypeCorrect == Spec => []TypeOK
<1>1. IInv => TypeOK
  BY DEF IInv
<1> QED
  BY <1>1, IInvHolds, PTL

(* main_job mails files of the week it began in or of the week it mails in, however
   the weeks turn between its two downloads and whatever else is on the servers.    *)
THEOREM WhatIsMailedIsFresh == Spec => ReportsAreFresh
<1>1. IInv /\ [Next]_vars =>
        [sent' # sent =>
           {sent'[Len(sent')].ryo, sent'[Len(sent')].sas} \subseteq {run.began.week, ThisWeek}]_vars
  <2> SUFFICES ASSUME IInv, Next, sent' # sent
               PROVE  {sent'[Len(sent')].ryo, sent'[Len(sent')].sas}
                        \subseteq {run.began.week, ThisWeek}
    OBVIOUS
  <2>1. PICK failed \in BOOLEAN : run.pc = "emailing" /\ sent' = Append(sent, Report(failed))
    BY DEF Next, RunStep, Wakeup, FindsFile, MissesFile, FileTransferred, ServerFails,
           LacksFiles, HasFiles, Assembles, CannotAssemble, Emails, EmailFails, Settle,
           Upload, Tick
  <2>2. sent'[Len(sent')] = Report(failed)
    BY <2>1 DEF IInv, TypeOK
  <2>3. run.got["ryo"] \in WeeksOfRun /\ run.got["sas"] \in WeeksOfRun
    BY <2>1, BothFound DEF SourceKeys
  <2> QED
    BY <2>2, <2>3 DEF Report, WeeksOfRun, ThisWeek
<1> QED
  BY <1>1, IInvHolds, PTL DEF Spec, ReportsAreFresh

-----------------------------------------------------------------------------
(* While nobody mistypes a name, the files on a server are in the order of their
   weeks, and none is of a week to come.                                         *)

InOrder(names) ==
  \A i, k \in DOMAIN names :
    i < k /\ names[i] \in Nat /\ names[k] \in Nat => names[i] <= names[k]

NoneAhead(names, week) == \A i \in DOMAIN names : names[i] \in Nat => names[i] <= week

NamesInOrder == \A s \in SourceKeys : InOrder(remote[s]) /\ NoneAhead(remote[s], clock.week)

(* Of some places in a sequence, one is the last. *)
LEMMA LastExists ==
  ASSUME NEW n \in Nat, NEW places \in SUBSET (1..n), places # {}
  PROVE  \E i \in places : \A k \in places : k <= i
<1> DEFINE gaps == {n - i : i \in places}
<1>1. \A i \in places : n - i \in Nat
  OBVIOUS
<1>2. gaps \subseteq Nat /\ gaps # {}
  BY <1>1
<1>3. PICK x \in gaps : \A y \in gaps : ~ (<<y, x>> \in OpToRel(<, Nat))
  BY <1>2, NatLessThanWellFounded, WFMin
<1>4. \A y \in gaps : ~(y < x)
  BY <1>2, <1>3 DEF OpToRel
<1>5. PICK i \in places : x = n - i
  BY <1>3
<1>6. \A k \in places : n - k \in gaps
  OBVIOUS
<1> HIDE DEF gaps
<1> QED
  BY <1>4, <1>5, <1>6

(* The newest match is this week's file, if there is one. *)
LEMMA ThisWeeksFileIsFound ==
  ASSUME TypeOK, NamesInOrder, NEW s \in SourceKeys,
         NEW i \in DOMAIN remote[s], remote[s][i] = ThisWeek
  PROVE  HasFile(s)
<1> DEFINE names == remote[s]
           y == Youngest(Matching(s))
<1>1. names \in Seq(Names) /\ ThisWeek \in Nat /\ DOMAIN names = 1..Len(names) /\ Len(names) \in Nat
  BY DEF TypeOK, ScheduleTypeOK, Instants, ThisWeek
<1>2. i \in Matching(s) /\ Matching(s) \in SUBSET (1..Len(names))
  BY <1>1 DEF Matching
<1>3. y \in Matching(s) /\ \A k \in Matching(s) : k <= y
  <2>1. \E k \in Matching(s) : \A m \in Matching(s) : m <= k
    BY <1>1, <1>2, LastExists
  <2> QED
    BY <2>1 DEF Youngest
<1>4. names[y] \in Nat
  BY <1>1, <1>3, BalanceSheetAssumption DEF Matching
<1>5. i <= y /\ i \in Nat /\ y \in 1..Len(names)
  BY <1>1, <1>2, <1>3
<1> HIDE DEF y
<1>6. names[y] <= ThisWeek /\ ThisWeek <= names[y]
  <2>1. names[y] <= ThisWeek
    BY <1>1, <1>4, <1>5 DEF NamesInOrder, NoneAhead, ThisWeek
  <2>2. i = y \/ i < y
    BY <1>5
  <2>3. ThisWeek <= names[y]
    BY <1>1, <1>4, <1>5, <2>2 DEF NamesInOrder, InOrder
  <2> QED
    BY <2>1, <2>3
<1>7. names[y] = ThisWeek
  BY <1>1, <1>4, <1>6
<1> QED
  BY <1>2, <1>7 DEF HasFile, y

(* Uploads keep the order, and so does the time. *)
LEMMA OrderKeeps ==
  ASSUME Typos = {}, IInv, IInv', NamesInOrder, [Next]_vars
  PROVE  NamesInOrder'
<1>1. ASSUME UNCHANGED <<remote, clock>>
      PROVE  NamesInOrder'
  BY <1>1 DEF NamesInOrder
<1>2. CASE Tick
  <2>1. remote' = remote /\ clock' = Later(clock, 1) /\ clock \in Instants
    BY <1>2 DEF Tick, TimePasses, IInv, TypeOK, ScheduleTypeOK
  <2>2. clock.week \in Nat /\ clock'.week \in Nat /\ clock.week <= clock'.week
    BY <2>1 DEF Later, At, Instants
  <2>3. \A s \in SourceKeys : NoneAhead(remote[s], clock'.week)
    BY <2>2 DEF NamesInOrder, NoneAhead
  <2> QED
    BY <2>1, <2>3 DEF NamesInOrder
<1>3. ASSUME NEW u \in SourceKeys, Upload(u)
      PROVE  NamesInOrder'
  <2>1. PICK name \in {ThisWeek, Misnamed} : remote' = [remote EXCEPT ![u] = Append(@, name)]
    BY <1>3 DEF Upload
  <2>2. clock' = clock /\ clock.week \in Nat /\ remote \in [SourceKeys -> Seq(Names)]
        /\ name \in Names
    BY <1>3, <2>1 DEF Upload, IInv, TypeOK, ScheduleTypeOK, Instants, ThisWeek, Names
  <2>3. name \in Nat => name = clock.week
    BY <2>1, BalanceSheetAssumption DEF ThisWeek
  <2>4. ASSUME NEW s \in SourceKeys
        PROVE  InOrder(remote'[s]) /\ NoneAhead(remote'[s], clock.week)
    <3>1. CASE s # u
      BY <2>1, <2>2, <3>1 DEF NamesInOrder
    <3>2. CASE s = u
      <4> DEFINE names == remote[u]
                 longer == Append(names, name)
      <4>1. remote'[s] = longer /\ names \in Seq(Names)
        BY <2>1, <2>2, <3>2
      <4>2. /\ DOMAIN longer = 1..(Len(names) + 1) /\ DOMAIN names = 1..Len(names)
            /\ Len(names) \in Nat
            /\ \A i \in 1..Len(names) : longer[i] = names[i]
            /\ longer[Len(names) + 1] = name
        BY <2>2, <4>1, AppendProperties
      <4>3. InOrder(names) /\ NoneAhead(names, clock.week)
        BY DEF NamesInOrder
      <4> HIDE DEF names, longer
      <4>4. NoneAhead(longer, clock.week)
        BY <2>2, <2>3, <4>2, <4>3 DEF NoneAhead
      <4>5. InOrder(longer)
        <5> SUFFICES ASSUME NEW i \in DOMAIN longer, NEW k \in DOMAIN longer,
                            i < k, longer[i] \in Nat, longer[k] \in Nat
                     PROVE  longer[i] <= longer[k]
          BY DEF InOrder
        <5>1. CASE k = Len(names) + 1
          BY <2>3, <4>2, <4>4, <5>1 DEF NoneAhead
        <5>2. CASE k \in 1..Len(names)
          BY <4>2, <4>3, <5>2 DEF InOrder
        <5> QED
          BY <4>2, <5>1, <5>2
      <4> QED
        BY <4>1, <4>4, <4>5
    <3> QED
      BY <3>1, <3>2
  <2> QED
    BY <2>2, <2>4 DEF NamesInOrder
<1>4. CASE UNCHANGED vars
  BY <1>1, <1>4 DEF vars
<1>5. CASE Wakeup
  BY <1>1, <1>5 DEF Wakeup, HandsOut
<1>6. CASE RunStep
  BY <1>1, <1>6
     DEF RunStep, FindsFile, MissesFile, FileTransferred, ServerFails, LacksFiles, HasFiles,
         Assembles, CannotAssemble, Emails, EmailFails, Settle
<1> QED
  BY <1>2, <1>3, <1>4, <1>5, <1>6 DEF Next

(* A run takes a source for missing only when this week's file is not on its server:
   where nobody mistypes a name, the old names that a pattern matches too never hide
   it, whichever they are.                                                          *)
THEOREM OnlyMissingFilesAreMissed ==
  ASSUME Typos = {}, InOrder(OldFiles), NoneAhead(OldFiles, 1)
  PROVE  Spec => OnlyMissingFilesDelay
<1>1. Init => NamesInOrder
  BY DEF Init, Boots, NamesInOrder
<1>2. IInv /\ IInv' /\ NamesInOrder /\ [Next]_vars => NamesInOrder'
  BY OrderKeeps
<1>3. IInv /\ NamesInOrder /\ [Next]_vars =>
        [\A s \in run'.missing \ run.missing :
           \A i \in DOMAIN remote[s] : remote[s][i] # ThisWeek]_vars
  <2> SUFFICES ASSUME IInv, NamesInOrder, Next, NEW s \in run'.missing \ run.missing
               PROVE  \A i \in DOMAIN remote[s] : remote[s][i] # ThisWeek
    OBVIOUS
  <2>1. run \in Runs /\ clock \in Instants
    BY DEF IInv, TypeOK, ScheduleTypeOK
  <2>2. NoRun.missing = {} /\ NewRun("looking").missing = {}
    BY DEF NoRun, NewRun
  <2>3. ~Wakeup /\ ~Settle
    BY <2>2 DEF Wakeup, Settle
  <2>4. ~ServerFails /\ ~LacksFiles /\ ~CannotAssemble /\ ~Emails /\ ~EmailFails
    <3>1. \A outcome \in Outcomes : run' # Ended(run, outcome)
      BY <2>1, RunTypes
    <3> QED
      BY <3>1 DEF ServerFails, LacksFiles, CannotAssemble, Emails, EmailFails, Outcomes
  <2>5. ~FindsFile /\ ~HasFiles /\ ~Assembles /\ ~Tick /\ \A u \in SourceKeys : ~Upload(u)
    BY <2>1 DEF FindsFile, HasFiles, Assembles, Tick, Upload, Runs
  <2>6. ~FileTransferred
    BY <2>1, LookingIsSource, OnwardType DEF FileTransferred
  <2>7. MissesFile
    BY <2>3, <2>4, <2>5, <2>6 DEF Next, RunStep
  <2>8. Looking \in SourceKeys /\ Onward(run).missing = run.missing /\ Onward(run) \in Runs
    BY <2>1, <2>7, LookingIsSource, OnwardType DEF MissesFile
  <2>9. s = Looking
    BY <2>7, <2>8 DEF MissesFile, Runs
  <2> QED
    BY <2>7, <2>8, <2>9, ThisWeeksFileIsFound DEF MissesFile, IInv
<1> QED
  BY <1>1, <1>2, <1>3, IInvHolds, PTL DEF Spec, OnlyMissingFilesDelay
-----------------------------------------------------------------------------
(* While a run is over before the slot of the week's own run, a week's report is
   mailed once: a run of this week has the next one in the week after, and what
   was mailed well, at the week's own slot or later, left no run to mail again.   *)

NextIsLater == run.pc # "idle" /\ run.began.slot > 0 => next.week > run.began.week

SentBefore == \A i \in DOMAIN sent : NotAfter(sent[i].on, clock)

MailedWell(i) == sent[i].on.week = clock.week /\ ~sent[i].failed /\ sent[i].on.slot >= Main

WeekIsDone ==
  \A i \in DOMAIN sent :
    MailedWell(i) =>
      /\ next.week > clock.week
      /\ run.pc = "idle" \/ (run.pc = "ended" /\ run.outcome = "ok")

RepeatsInv ==
  /\ Punctual
  /\ NextIsLater
  /\ SentBefore
  /\ WeekIsDone
  /\ RepeatsHaveCause

(* What the steps of the proofs below know of the types. *)
LEMMA PlainTypes ==
  ASSUME TypeOK
  PROVE  /\ clock \in Instants /\ clock.week \in Nat /\ clock.slot \in Slots
         /\ next \in Instants /\ next.week \in Nat /\ next.slot \in Slots
         /\ reset \in Instants /\ reset.week \in Nat /\ reset.slot \in Slots
         /\ run \in Runs /\ run.began \in Instants
         /\ run.began.week \in Nat /\ run.began.slot \in Slots
         /\ \A i \in DOMAIN sent :
              /\ sent[i].on \in Instants /\ sent[i].on.week \in Nat /\ sent[i].on.slot \in Slots
              /\ sent[i].failed \in BOOLEAN
<1>1. /\ clock \in Instants /\ next \in Instants /\ reset \in Instants
      /\ run \in Runs /\ run.began \in Instants
  BY DEF TypeOK, ScheduleTypeOK, Runs
<1>2. ASSUME NEW i \in DOMAIN sent
      PROVE  sent[i].on \in Instants /\ sent[i].failed \in BOOLEAN
  <2> DEFINE Reports == [ryo : Nat, sas : Nat, on : Instants, failed : BOOLEAN]
  <2>1. sent \in Seq(Reports)
    BY DEF TypeOK
  <2> HIDE DEF Reports
  <2>2. sent[i] \in Reports
    BY <2>1
  <2> QED
    BY <2>2 DEF Reports
<1> QED
  BY <1>1, <1>2 DEF Instants

(* A step of a body at work that mails nothing. *)
LEMMA BodyKeepsRepeats ==
  ASSUME TypeOK, RepeatsInv, run.pc \in AtWork, run'.began = run.began,
         UNCHANGED <<clock, scheduleVars, sent>>
  PROVE  RepeatsInv'
<1>1. Punctual' /\ SentBefore' /\ RepeatsHaveCause'
  BY DEF RepeatsInv, Punctual, SentBefore, RepeatsHaveCause, scheduleVars, slotVars
<1>2. NextIsLater'
  BY DEF RepeatsInv, NextIsLater, AtWork, scheduleVars, slotVars
<1>3. WeekIsDone'
  BY DEF RepeatsInv, WeekIsDone, MailedWell, AtWork, scheduleVars, slotVars
<1> QED
  BY <1>1, <1>2, <1>3 DEF RepeatsInv

(* A wakeup that is due for the weekly reset comes at the week's first slot. *)
LEMMA ResetAtTheTurn ==
  ASSUME TypeOK, Punctual, ResetDue
  PROVE  clock.slot = 0
BY PlainTypes, InstantOrder DEF Punctual, ResetDue, Slots

(* A job that is due is due at this instant. *)
LEMMA DueIsNow ==
  ASSUME TypeOK, Punctual, JobDue
  PROVE  next.week = clock.week /\ clock.slot = args
BY PlainTypes, InstantOrder DEF Punctual, JobDue, Slots

(* How far the clock is, in weeks and slots, before the end of a run's time: from w0, s0
   a run lasts until w2, s2 at most, and it is w1, s1.                                   *)
LEMMA WithinLimit ==
  ASSUME NEW len \in Nat, NEW lasts \in Nat, lasts < len,
         NEW w0 \in Nat, NEW s0 \in Nat, s0 < len, NEW w1 \in Nat, NEW s1 \in Nat,
         NEW w2 \in Nat, NEW s2 \in Nat,
         \/ w2 = w0 /\ s2 = s0 + lasts
         \/ w2 = w0 + 1 /\ s2 = s0 + lasts - len,
         w0 < w1 \/ (w0 = w1 /\ s0 <= s1),
         w1 < w2 \/ (w1 = w2 /\ s1 <= s2)
  PROVE  \/ w1 = w0 /\ (s1 <= s0 + lasts \/ s0 + lasts >= len)
         \/ w1 = w0 + 1 /\ s1 < lasts
OBVIOUS

(* Where the clock stands while a run is at work or has just ended. *)
LEMMA ClockInRun ==
  ASSUME IInv, run.pc # "idle"
  PROVE  \/ /\ clock.week = run.began.week
            /\ clock.slot <= run.began.slot + RunLimit \/ run.began.slot + RunLimit >= WeekLen
         \/ clock.week = run.began.week + 1 /\ clock.slot < RunLimit
<1>1. /\ run.began \in Instants /\ clock \in Instants
      /\ NotAfter(run.began, clock) /\ NotAfter(clock, Later(run.began, RunLimit))
  BY PlainTypes DEF IInv, RunInTime
<1> DEFINE limit == Later(run.began, RunLimit)
<1>2. /\ limit \in Instants
      /\ \/ limit.week = run.began.week /\ limit.slot = run.began.slot + RunLimit
         \/ limit.week = run.began.week + 1 /\ limit.slot = run.began.slot + RunLimit - WeekLen
  BY <1>1, LaterIs, BalanceSheetAssumption
<1> HIDE DEF limit
<1>3. run.began.week < clock.week \/ (run.began.week = clock.week /\ run.began.slot <= clock.slot)
  BY <1>1, InstantOrder
<1>4. clock.week < limit.week \/ (clock.week = limit.week /\ clock.slot <= limit.slot)
  BY <1>1, <1>2, InstantOrder DEF limit
<1>5. /\ run.began.week \in Nat /\ clock.week \in Nat /\ limit.week \in Nat
      /\ run.began.slot \in Nat /\ clock.slot \in Nat /\ limit.slot \in Nat
      /\ run.began.slot < WeekLen
  BY <1>1, <1>2, CronSlotsAssumption DEF Instants, Slots
<1>6. WeekLen \in Nat /\ RunLimit \in Nat /\ RunLimit < WeekLen
  BY CronSlotsAssumption, BalanceSheetAssumption
<1> QED
  BY <1>2, <1>3, <1>4, <1>5, <1>6, WithinLimit

(* In its own week, once that is past the time of a run. *)
LEMMA BeganThisWeek ==
  ASSUME RunLimit < Main, IInv, run.pc # "idle", clock.slot >= Main
  PROVE  run.began.week = clock.week /\ run.began.slot > 0
<1>1. clock.slot \in Slots /\ run.began.slot \in Slots
  BY PlainTypes DEF IInv
<1>2. /\ clock.slot \in Nat /\ run.began.slot \in Nat
      /\ Main \in Nat /\ RunLimit \in Nat /\ WeekLen \in Nat /\ RunLimit < WeekLen
  BY <1>1, CronSlotsAssumption, BalanceSheetAssumption, RetryScheduleAssumption DEF Slots
<1> QED
  BY <1>2, ClockInRun

(* A wakeup: after a good mailing of this week there is none before the next. *)
LEMMA WakeupKeepsRepeats ==
  ASSUME RunLimit < Main, IInv, RepeatsInv, Wakeup
  PROVE  RepeatsInv'
<1>0. TypeOK /\ Punctual /\ Main \in Slots /\ 0 \in Slots /\ args \in Slots
  BY CalendarTypes, RetryScheduleAssumption DEF IInv, TypeOK, ScheduleTypeOK, RepeatsInv
<1>1. Punctual'
  BY <1>0, HandsOutPunctual DEF Wakeup, TypeOK
<1>2. UNCHANGED <<clock, sent>>
  BY DEF Wakeup, HandsOut
<1>3. SentBefore' /\ RepeatsHaveCause'
  BY <1>2 DEF RepeatsInv, SentBefore, RepeatsHaveCause
<1>4. NextIsLater'
  <2> SUFFICES ASSUME run'.pc # "idle", run'.began.slot > 0
               PROVE  next'.week > run'.began.week
    BY DEF NextIsLater
  <2>1. run'.began \in {clock, run.began} /\ NotAfter(run'.began, clock)
    <3>1. CASE run' = run
      BY <3>1 DEF IInv, RunInTime
    <3>2. CASE run' = NewRun("looking")
      BY <1>0, <3>2, PlainTypes, RunTypes, InstantOrder
    <3> QED
      BY <3>1, <3>2 DEF Wakeup
  <2>2. run'.began \in Instants
    BY <1>0, <2>1, PlainTypes
  <2>3. CASE ResetDue
    <3>1. clock.slot = 0 /\ next' = NextFire(Main, clock)
      BY <1>0, <2>3, ResetAtTheTurn DEF Wakeup, HandsOut
    <3>2. next'.week = clock.week
      BY <1>0, <3>1, PlainTypes, FiresAhead DEF Slots
    <3>3. run'.began.week < clock.week
      BY <1>0, <2>1, <2>2, <3>1, PlainTypes, InstantOrder DEF Instants, Slots
    <3> QED
      BY <1>0, <2>2, <3>2, <3>3, PlainTypes DEF Instants
  <2>4. CASE ~ResetDue
    <3>1. clock.slot = args /\ next' = FollowingFire(args, clock)
      BY <1>0, <2>4, DueIsNow DEF Wakeup, HandsOut
    <3>2. next'.week = clock.week + 1
      BY <1>0, <3>1, PlainTypes, FiresAhead DEF Slots
    <3>3. run'.began.week <= clock.week
      BY <1>0, <2>1, <2>2, PlainTypes, InstantOrder DEF Instants
    <3> QED
      BY <1>0, <2>2, <3>2, <3>3, PlainTypes DEF Instants
  <2> QED
    BY <2>3, <2>4
<1>5. WeekIsDone'
  <2>1. \A i \in DOMAIN sent : ~MailedWell(i)
    <3> SUFFICES ASSUME NEW i \in DOMAIN sent, MailedWell(i) PROVE FALSE
      OBVIOUS
    <3>1. ~JobDue
      BY <1>0, DueIsNow, PlainTypes DEF RepeatsInv, WeekIsDone
    <3>2. clock.slot = 0
      BY <1>0, <3>1, ResetAtTheTurn DEF Wakeup, HandsOut
    <3>3. sent[i].on.slot <= 0
      BY <1>0, <3>2, PlainTypes, InstantOrder DEF RepeatsInv, SentBefore, MailedWell
    <3> QED
      BY <1>0, <3>3, PlainTypes, BalanceSheetAssumption DEF MailedWell, Slots
  <2> QED
    BY <1>2, <2>1 DEF WeekIsDone, MailedWell
<1> QED
  BY <1>1, <1>3, <1>4, <1>5 DEF RepeatsInv

(* A mailing: no good one of this week's was there before, and it leaves none to come. *)
LEMMA MailingKeepsRepeats ==
  ASSUME RunLimit < Main, IInv, RepeatsInv, NEW failed \in BOOLEAN, NEW outcome \in Outcomes,
         run.pc = "emailing", sent' = Append(sent, Report(failed)),
         run' = Ended(run, outcome), ~failed => outcome = "ok",
         UNCHANGED <<clock, scheduleVars>>
  PROVE  RepeatsInv'
<1> DEFINE Reports == [ryo : Nat, sas : Nat, on : Instants, failed : BOOLEAN]
<1>0. TypeOK /\ sent \in Seq(Reports)
  BY DEF IInv, TypeOK
<1>1. Report(failed).on = clock /\ Report(failed).failed = failed
  BY DEF Report
<1>2. /\ DOMAIN sent' = 1..(Len(sent) + 1) /\ DOMAIN sent = 1..Len(sent) /\ Len(sent) \in Nat
      /\ \A i \in 1..Len(sent) : sent'[i] = sent[i]
      /\ sent'[Len(sent) + 1].on = clock /\ sent'[Len(sent) + 1].failed = failed
  BY <1>0, <1>1
<1>3. \A i \in DOMAIN sent : ~MailedWell(i)
  BY DEF RepeatsInv, WeekIsDone
<1>4. run'.pc = "ended" /\ run'.began = run.began /\ run'.outcome = outcome
  <2>1. Ended(run, outcome).outcome = outcome
    BY <1>0, PlainTypes DEF Ended, NewRun
  <2> QED
    BY <1>0, <2>1, PlainTypes, RunTypes
<1>5. Punctual'
  BY DEF RepeatsInv, Punctual, scheduleVars, slotVars
<1>6. NextIsLater'
  BY <1>4 DEF RepeatsInv, NextIsLater, scheduleVars, slotVars
<1>7. SentBefore'
  <2>1. NotAfter(clock, clock)
    BY <1>0, PlainTypes, InstantOrder
  <2> QED
    BY <1>2, <2>1 DEF RepeatsInv, SentBefore
<1>8. WeekIsDone'
  <2> SUFFICES ASSUME NEW i \in DOMAIN sent', MailedWell(i)'
               PROVE  next.week > clock.week /\ run'.pc = "ended" /\ run'.outcome = "ok"
    BY DEF WeekIsDone, scheduleVars, slotVars
  <2>1. i = Len(sent) + 1
    BY <1>2, <1>3 DEF MailedWell
  <2>2. ~failed /\ clock.slot >= Main
    BY <1>2, <2>1 DEF MailedWell
  <2>3. next.week > clock.week
    BY <2>2, BeganThisWeek DEF RepeatsInv, NextIsLater
  <2> QED
    BY <1>4, <2>2, <2>3
<1>9. RepeatsHaveCause'
  <2> SUFFICES ASSUME NEW i \in DOMAIN sent', NEW k \in DOMAIN sent', i < k,
                      sent'[i].on.week = sent'[k].on.week
               PROVE  sent'[i].failed \/ sent'[i].on.slot < Main
    BY DEF RepeatsHaveCause
  <2>1. CASE k \in 1..Len(sent)
    BY <1>2, <2>1 DEF RepeatsInv, RepeatsHaveCause
  <2>2. CASE k = Len(sent) + 1
    <3>1. i \in DOMAIN sent /\ sent'[i] = sent[i] /\ ~MailedWell(i) /\ sent[i].on.week = clock.week
      BY <1>2, <1>3, <2>2
    <3>2. sent[i].failed \/ ~(sent[i].on.slot >= Main)
      BY <3>1 DEF MailedWell
    <3>3. sent[i].on.slot \in Slots
      BY <1>0, <3>1, PlainTypes
    <3>4. sent[i].on.slot \in Nat /\ Main \in Nat
      BY <3>3, RetryScheduleAssumption DEF Slots
    <3> QED
      BY <3>1, <3>2, <3>4
  <2> QED
    BY <1>2, <2>1, <2>2
<1> QED
  BY <1>5, <1>6, <1>7, <1>8, <1>9 DEF RepeatsInv

(* Every step keeps it. *)
LEMMA RepeatsKeep ==
  ASSUME RunLimit < Main, IInv, RepeatsInv, [Next]_vars
  PROVE  RepeatsInv'
<1>0. TypeOK /\ clock \in Instants /\ run \in Runs
  BY DEF IInv, TypeOK, ScheduleTypeOK
<1>1. CASE Wakeup
  BY <1>1, WakeupKeepsRepeats
<1>2. CASE FindsFile
  <2>1. run'.began = run.began
    BY <1>0, <1>2 DEF FindsFile, Runs
  <2> QED
    BY <1>0, <1>2, <2>1, BodyKeepsRepeats DEF FindsFile, AtWork
<1>3. CASE MissesFile
  <2>1. Onward(run).began = run.began /\ Onward(run) \in Runs
    BY <1>0, <1>3, LookingIsSource, OnwardType DEF MissesFile
  <2>2. run'.began = run.began
    BY <1>3, <2>1 DEF MissesFile, Runs
  <2> QED
    BY <1>0, <1>3, <2>2, BodyKeepsRepeats DEF MissesFile, AtWork
<1>4. CASE FileTransferred
  <2>1. run'.began = run.began
    BY <1>0, <1>4, LookingIsSource, OnwardType DEF FileTransferred
  <2> QED
    BY <1>0, <1>4, <2>1, BodyKeepsRepeats DEF FileTransferred, AtWork
<1>5. CASE ServerFails \/ LacksFiles \/ CannotAssemble
  <2>1. PICK outcome \in Outcomes : run' = Ended(run, outcome)
    BY <1>5 DEF ServerFails, LacksFiles, CannotAssemble, Outcomes
  <2>2. run'.began = run.began
    BY <1>0, <2>1, RunTypes
  <2> QED
    BY <1>0, <1>5, <2>2, BodyKeepsRepeats DEF ServerFails, LacksFiles, CannotAssemble, AtWork
<1>6. CASE HasFiles \/ Assembles
  <2>1. run'.began = run.began
    BY <1>0, <1>6 DEF HasFiles, Assembles, Runs
  <2> QED
    BY <1>0, <1>6, <2>1, BodyKeepsRepeats DEF HasFiles, Assembles, AtWork
<1>7. CASE Emails
  BY <1>7, MailingKeepsRepeats DEF Emails, Outcomes
<1>8. CASE EmailFails
  <2>1. CASE sent' = sent
    <3>1. run'.began = run.began
      BY <1>0, <1>8, RunTypes DEF EmailFails, Outcomes
    <3> QED
      BY <1>0, <1>8, <2>1, <3>1, BodyKeepsRepeats DEF EmailFails, AtWork
  <2>2. CASE sent' = Append(sent, Report(TRUE))
    BY <1>8, <2>2, MailingKeepsRepeats DEF EmailFails, Outcomes
  <2> QED
    BY <1>8, <2>1, <2>2 DEF EmailFails
<1>9. CASE Settle
  <2>1. Punctual'
    BY <1>0, <1>9, SettlesPunctual DEF Settle, TypeOK, RepeatsInv
  <2>2. run'.pc = "idle" /\ UNCHANGED <<clock, sent>>
    BY <1>9, RunTypes DEF Settle
  <2>3. NextIsLater' /\ SentBefore' /\ RepeatsHaveCause'
    BY <2>2 DEF RepeatsInv, NextIsLater, SentBefore, RepeatsHaveCause
  <2>4. WeekIsDone'
    <3> SUFFICES ASSUME NEW i \in DOMAIN sent, MailedWell(i)
                 PROVE  next'.week > clock.week
      BY <2>2 DEF WeekIsDone, MailedWell
    <3>1. next.week > clock.week /\ run.outcome = "ok"
      BY <1>9 DEF RepeatsInv, WeekIsDone, Settle
    <3>2. next' = next
      BY <1>9, <3>1 DEF Settle, Settles, EndsClean, slotVars
    <3> QED
      BY <3>1, <3>2
  <2> QED
    BY <2>1, <2>3, <2>4 DEF RepeatsInv
<1>10. CASE Tick
  <2>1. clock' = Later(clock, 1) /\ UNCHANGED <<scheduleVars, sent, run>>
    BY <1>10 DEF Tick, TimePasses
  <2>2. Punctual'
    BY <1>0, <1>10, TimePassesPunctual DEF Tick, TypeOK, RepeatsInv
  <2>3. NextIsLater' /\ RepeatsHaveCause'
    BY <2>1 DEF RepeatsInv, NextIsLater, RepeatsHaveCause, scheduleVars, slotVars
  <2>4. /\ clock' \in Instants
        /\ clock'.week = clock.week \/ clock'.week = clock.week + 1
        /\ NotAfter(clock, clock')
    <3>1. clock' \in Instants
      BY <1>0, <2>1, TheNextInstant
    <3> QED
      BY <1>0, <2>1, <3>1, TheNextInstant, InstantOrder DEF Instants, Slots
  <2>5. SentBefore'
    <3> SUFFICES ASSUME NEW i \in DOMAIN sent PROVE NotAfter(sent[i].on, clock')
      BY <2>1 DEF SentBefore
    <3>1. NotAfter(sent[i].on, clock) /\ sent[i].on \in Instants
      BY <1>0, PlainTypes DEF RepeatsInv, SentBefore
    <3> QED
      BY <1>0, <2>4, <3>1, InstantOrder DEF Instants, Slots
  <2>6. WeekIsDone'
    <3> SUFFICES ASSUME NEW i \in DOMAIN sent, MailedWell(i)'
                 PROVE  /\ next.week > clock'.week
                        /\ run.pc = "idle" \/ (run.pc = "ended" /\ run.outcome = "ok")
      BY <2>1 DEF WeekIsDone, scheduleVars, slotVars
    <3>1. NotAfter(sent[i].on, clock) /\ sent[i].on \in Instants
      BY <1>0, PlainTypes DEF RepeatsInv, SentBefore
    <3>2. sent[i].on.week = clock'.week
      BY <2>1 DEF MailedWell
    <3>3. clock'.week = clock.week
      BY <1>0, <2>4, <3>1, <3>2, InstantOrder DEF Instants
    <3>4. MailedWell(i)
      BY <2>1, <3>3 DEF MailedWell
    <3> QED
      BY <3>3, <3>4 DEF RepeatsInv, WeekIsDone
  <2> QED
    BY <2>2, <2>3, <2>5, <2>6 DEF RepeatsInv
<1>11. CASE (\E s \in SourceKeys : Upload(s)) \/ UNCHANGED vars
  BY <1>11
     DEF Upload, vars, scheduleVars, slotVars, RepeatsInv, Punctual, NextIsLater, SentBefore,
         WeekIsDone, MailedWell, RepeatsHaveCause
<1> QED
  BY <1>1, <1>2, <1>3, <1>4, <1>5, <1>6, <1>7, <1>8, <1>9, <1>10, <1>11 DEF Next, RunStep

(* main_job mails a week's report again only after a mailing that run_job took for
   failed, or that a retry from the week before made ahead of the week's own run: as
   long as a run is over before that one's slot.                                    *)
THEOREM RepeatsAreExplained ==
  ASSUME RunLimit < Main
  PROVE  Spec => []RepeatsHaveCause
<1>1. Init => RepeatsInv
  <2> SUFFICES ASSUME Init PROVE RepeatsInv
    OBVIOUS
  <2>1. Punctual
    BY BootsPunctual DEF Init
  <2>2. run.pc = "idle" /\ DOMAIN sent = {}
    BY RunTypes DEF Init
  <2> QED
    BY <2>1, <2>2 DEF RepeatsInv, NextIsLater, SentBefore, WeekIsDone, RepeatsHaveCause
<1>2. IInv /\ RepeatsInv /\ [Next]_vars => RepeatsInv'
  BY RepeatsKeep
<1>3. RepeatsInv => RepeatsHaveCause
  BY DEF RepeatsInv
<1> QED
  BY <1>1, <1>2, <1>3, IInvHolds, PTL DEF Spec
-----------------------------------------------------------------------------
(* While a run is over before its retry would be due, and the retries of a week
   fit into it, the week's run and its retries end in a report, an alert or the
   stop of the process.                                                          *)

(* A run at this slot and n retries after it are over before the week is. *)
FitsWeek(slot, n) == slot + RunLimit + RetriesTake(n) < WeekLen

(* A run is over before its retry is due, and in the week whose slot it began at
   or before.                                                                     *)
RunsAreShort == RunLimit < Main /\ RunLimit <= Delay

(* An alert is due while the retries still fit. *)
RetriesFit ==
  /\ FitsWeek(Main, Threshold)
  /\ \A s \in SourceKeys : Deadline[s] + RunLimit + RetriesTake(Threshold) <= WeekLen

Silent(week) ==
  /\ ~errored
  /\ \A i \in DOMAIN sent : sent[i].on.week # week
  /\ \A s \in SourceKeys : <<s, week>> \notin alerted

RunMails ==
  run.pc = "ended" /\ run.outcome = "ok" => \E i \in DOMAIN sent : sent[i].on.week = clock.week

(* The run gives up for a missing file, or will. *)
GivesUp == run.missing # {} \/ (run.pc = "ended" /\ run.outcome = "resched")

(* The week's next run is ahead, and the failures left fit. *)
RunIsAhead ==
  /\ run.pc = "idle"
  /\ next = At(clock.week, args)
  /\ FitsWeek(args, Threshold - 1 - errCounter)

(* It is there, and a source it misses was not late yet. *)
RunIsOn ==
  /\ run.pc # "idle"
  /\ run.began = At(clock.week, args)
  /\ next.week > clock.week
  /\ FitsWeek(args, Threshold - 1 - errCounter)
  /\ GivesUp => FitsWeek(args, Threshold)

(* A run from the week before is still at work. *)
RunIsOld ==
  /\ run.pc # "idle"
  /\ NotAfter(run.began, At(clock.week, 0))
  /\ args = Main
  /\ next = At(clock.week, Main)

OnTrack ==
  NotAfter(boot, At(clock.week, Main)) /\ Silent(clock.week) =>
    ResetDue \/ RunIsAhead \/ RunIsOn \/ RunIsOld

WeeksInv ==
  /\ Punctual
  /\ RunMails
  /\ OnTrack
  /\ NoWeekInSilence

(* What fits, fits with fewer retries, and a run later with one retry less. *)
LEMMA Fits ==
  ASSUME NEW slot \in Slots, NEW n \in Nat, FitsWeek(slot, n)
  PROVE  /\ \A m \in 0..n : FitsWeek(slot, m)
         /\ slot + RunLimit < WeekLen
         /\ n > 0 => slot + Delay < WeekLen /\ FitsWeek(slot + Delay, n - 1)
<1>1. /\ slot \in Nat /\ RunLimit \in Nat /\ WeekLen \in Nat /\ Delay \in Nat
      /\ RetriesTake(n) \in Nat /\ slot + RunLimit + RetriesTake(n) < WeekLen
  BY CronSlotsAssumption, BalanceSheetAssumption, RetriesAddUp DEF Slots, FitsWeek
<1>2. \A m \in 0..n : m \in Nat /\ RetriesTake(m) \in Nat /\ RetriesTake(m) <= RetriesTake(n)
  BY RetriesAddUp
<1>3. \A m \in 0..n : FitsWeek(slot, m)
  BY <1>1, <1>2 DEF FitsWeek
<1>4. ASSUME n > 0
      PROVE  slot + Delay < WeekLen /\ FitsWeek(slot + Delay, n - 1)
  <2>1. n - 1 \in Nat /\ (n - 1) + 1 = n
    BY <1>4
  <2>2. RetriesTake(n) = RetriesTake(n - 1) + Delay /\ RetriesTake(n - 1) \in Nat
    BY <2>1, RetriesAddUp
  <2> QED
    BY <1>1, <2>2 DEF FitsWeek
<1> QED
  BY <1>1, <1>3, <1>4

(* NoWeekInSilence, said with Silent. *)
LEMMA NoneSilent ==
  NoWeekInSilence <=>
    \A week \in 1..(clock.week - 1) : NotAfter(boot, At(week, Main)) => ~Silent(week)
BY Zenon DEF NoWeekInSilence, Silent

(* Where nothing is taken back, the weeks that are over stay as they are. *)
LEMMA OldWeeksStay ==
  ASSUME NoWeekInSilence, UNCHANGED <<boot, clock>>,
         \A week \in Nat : Silent(week)' => Silent(week)
  PROVE  NoWeekInSilence'
<1>1. \A week \in 1..(clock.week - 1) : week \in Nat
  OBVIOUS
<1>2. \A week \in 1..(clock.week - 1) : NotAfter(boot, At(week, Main)) => ~Silent(week)'
  BY <1>1, NoneSilent
<1>3. ASSUME NEW week \in 1..(clock'.week - 1), NotAfter(boot', At(week, Main))
      PROVE  ~Silent(week)'
  BY <1>2, <1>3
<1> QED
  BY <1>3, Zenon DEF NoWeekInSilence, Silent

(* A step of the body, up to its end. *)
LEMMA BodyKeepsTrack ==
  ASSUME TypeOK, WeeksInv, run.pc # "idle", run'.pc # "idle", run'.began = run.began,
         UNCHANGED <<boot, clock, scheduleVars>>,
         \A week \in Nat : Silent(week)' => Silent(week),
         Silent(clock.week)' /\ GivesUp' /\ run.began = At(clock.week, args) =>
           GivesUp \/ FitsWeek(args, Threshold),
         RunMails'
  PROVE  WeeksInv'
<1>1. Punctual' /\ NoWeekInSilence'
  BY OldWeeksStay DEF WeeksInv, Punctual, scheduleVars, slotVars
<1>2. OnTrack'
  <2> SUFFICES ASSUME NotAfter(boot, At(clock.week, Main)), Silent(clock.week)'
               PROVE  (ResetDue \/ RunIsAhead \/ RunIsOn \/ RunIsOld)'
    BY DEF OnTrack
  <2>1. ResetDue \/ RunIsOn \/ RunIsOld
    BY PlainTypes DEF WeeksInv, OnTrack, RunIsAhead
  <2>2. CASE ResetDue
    BY <2>2 DEF ResetDue, scheduleVars, slotVars
  <2>3. CASE RunIsOn
    BY <2>3 DEF RunIsOn, scheduleVars, slotVars, FitsWeek
  <2>4. CASE RunIsOld
    BY <2>4 DEF RunIsOld, scheduleVars, slotVars
  <2> QED
    BY <2>1, <2>2, <2>3, <2>4
<1> QED
  BY <1>1, <1>2 DEF WeeksInv
(* What a failure leaves of the schedule: its retry, a delay later in this week. *)
LEMMA RetryIsAhead ==
  ASSUME ScheduleTypeOK, NEW count, RetriesLater(count),
         args + Delay < WeekLen, clock.slot <= args + Delay
  PROVE  args' = args + Delay /\ next' = At(clock.week, args + Delay)
<1>1. /\ clock \in Instants /\ clock.slot \in Nat /\ args \in Slots /\ args \in Nat
      /\ Delay \in Nat
  BY CronSlotsAssumption DEF ScheduleTypeOK, Instants, Slots
<1>2. ShiftSlot(args) = args + Delay
  BY <1>1 DEF ShiftSlot, Later, At
<1> QED
  BY <1>1, <1>2 DEF RetriesLater, NextFire

(* The clock while a run is at work or has just ended, by the slots of this week. *)
LEMMA ClockOfRun ==
  ASSUME IInv, run.pc # "idle", NEW slot \in Slots, slot + RunLimit < WeekLen,
         NotAfter(run.began, At(clock.week, slot))
  PROVE  clock.slot <= slot + RunLimit
<1>1. run.began \in Instants /\ clock \in Instants
  BY PlainTypes DEF IInv
<1>2. run.began.week < clock.week \/ (run.began.week = clock.week /\ run.began.slot <= slot)
  <2>1. At(clock.week, slot) \in Instants
    BY <1>1 DEF At, Instants
  <2> QED
    BY <1>1, <2>1, InstantOrder DEF At
<1>3. /\ clock.slot \in Nat /\ run.began.slot \in Nat /\ slot \in Nat
      /\ clock.week \in Nat /\ run.began.week \in Nat /\ RunLimit \in Nat /\ WeekLen \in Nat
  BY <1>1, CronSlotsAssumption, BalanceSheetAssumption DEF Instants, Slots
<1> QED
  BY <1>2, <1>3, ClockInRun

(* A run from the week before is over soon after the turn of the week. *)
LEMMA ClockOfOldRun ==
  ASSUME IInv, RunIsOld
  PROVE  clock.slot <= RunLimit
<1>1. 0 \in Slots /\ RunLimit \in Nat /\ 0 + RunLimit < WeekLen /\ 0 + RunLimit = RunLimit
  BY CalendarTypes, CronSlotsAssumption, BalanceSheetAssumption
<1>2. clock.slot <= 0 + RunLimit
  BY <1>1, ClockOfRun DEF RunIsOld
<1> QED
  BY <1>1, <1>2

(* A wakeup. *)
LEMMA WakeupKeepsTrack ==
  ASSUME RunsAreShort, RetriesFit, IInv, WeeksInv, Wakeup
  PROVE  WeeksInv'
<1>0. /\ TypeOK /\ ScheduleTypeOK /\ Punctual /\ args \in Slots /\ Main \in Slots
      /\ errCounter \in Nat
  BY RetryScheduleAssumption DEF IInv, TypeOK, ScheduleTypeOK, WeeksInv
<1>1. Punctual'
  BY <1>0, HandsOutPunctual DEF Wakeup
<1>2. UNCHANGED <<boot, clock, sent, alerted, errored, errCounter>> /\ ~errored
  BY DEF Wakeup, HandsOut
<1>3. \A week \in Nat : Silent(week)' => Silent(week)
  BY <1>2 DEF Silent
<1>4. NoWeekInSilence'
  BY <1>2, <1>3, OldWeeksStay DEF WeeksInv
<1>5. /\ run' = IF JobDue /\ run.pc = "idle" THEN NewRun("looking") ELSE run
      /\ NewRun("looking").pc = "looking" /\ NewRun("looking").began = clock
      /\ NewRun("looking").missing = {}
  BY <1>0, PlainTypes, RunTypes DEF Wakeup, NewRun
<1>6. RunMails'
  BY <1>2, <1>5 DEF WeeksInv, RunMails
<1>7. Threshold - 1 - errCounter \in 0..Threshold /\ Threshold \in Nat
  BY <1>0, <1>2, RetryScheduleAssumption DEF IInv, ScheduleTypeOK, ThresholdFreezes
<1>8. OnTrack'
  <2>1. CASE ResetDue
    <3>1. clock.slot = 0 /\ args' = Main /\ next' = NextFire(Main, clock)
      BY <1>0, <2>1, ResetAtTheTurn DEF Wakeup, HandsOut
    <3>2. next' = At(clock.week, Main)
      BY <1>0, <3>1 DEF NextFire, Slots
    <3>3. FitsWeek(Main, Threshold - 1 - errCounter)
      BY <1>0, <1>7, Fits DEF RetriesFit
    <3>4. CASE run' = run /\ run.pc = "idle"
      BY <1>2, <3>1, <3>2, <3>3, <3>4 DEF OnTrack, RunIsAhead, FitsWeek
    <3>5. clock = At(clock.week, 0)
      BY <1>0, <3>1, PlainTypes DEF At, Instants
    <3>6. CASE run' = run /\ run.pc # "idle"
      BY <1>2, <3>1, <3>2, <3>5, <3>6 DEF OnTrack, RunIsOld, IInv, RunInTime
    <3>7. CASE run' = NewRun("looking")
      <4>1. NotAfter(clock, clock)
        BY DEF NotAfter
      <4> QED
        BY <1>2, <1>5, <3>1, <3>2, <3>5, <3>7, <4>1 DEF OnTrack, RunIsOld
    <3> QED
      BY <1>5, <3>4, <3>6, <3>7
  <2>2. CASE ~ResetDue
    <3>1. /\ JobDue /\ next.week = clock.week /\ clock.slot = args
          /\ args' = args /\ next' = FollowingFire(args, clock)
      BY <1>0, <2>2, DueIsNow DEF Wakeup, HandsOut
    <3>2. next'.week > clock.week /\ clock = At(clock.week, args)
      BY <1>0, <3>1, FiresAhead, PlainTypes DEF At, Instants, Slots
    <3> SUFFICES ASSUME NotAfter(boot, At(clock.week, Main)), Silent(clock.week)
                 PROVE  RunIsOn'
      BY <1>2, <1>3, <1>0, PlainTypes DEF OnTrack
    <3>3. ~RunIsOn
      BY <1>0, <3>1, PlainTypes DEF RunIsOn
    <3>4. ~RunIsOld
      <4> SUFFICES ASSUME RunIsOld PROVE FALSE
        OBVIOUS
      <4>1. clock.slot <= RunLimit
        BY ClockOfOldRun
      <4>2. clock.slot = Main
        BY <3>1 DEF RunIsOld
      <4> QED
        BY <1>0, <4>1, <4>2, BalanceSheetAssumption DEF RunsAreShort, Slots
    <3>5. RunIsAhead
      BY <2>2, <3>3, <3>4 DEF WeeksInv, OnTrack
    <3>6. run' = NewRun("looking") /\ FitsWeek(args, Threshold - 1 - errCounter)
      BY <1>5, <3>1, <3>5 DEF RunIsAhead
    <3> QED
      BY <1>2, <1>5, <3>1, <3>2, <3>6 DEF RunIsOn, GivesUp, FitsWeek
  <2> QED
    BY <2>1, <2>2
<1> QED
  BY <1>1, <1>4, <1>6, <1>8 DEF WeeksInv

(* A source that is missed without an alert is missed early. *)
LEMMA MissKeepsTrack ==
  ASSUME RetriesFit, IInv, WeeksInv, MissesFile
  PROVE  WeeksInv'
<1>0. TypeOK /\ run \in Runs /\ clock \in Instants /\ args \in Slots
  BY DEF IInv, TypeOK, ScheduleTypeOK
<1>1. /\ Looking \in SourceKeys /\ Onward(run) \in Runs /\ Onward(run).began = run.began
      /\ Onward(run).pc \in {"downloaded", "looking"} /\ Onward(run).missing = run.missing
  BY <1>0, LookingIsSource, OnwardType DEF MissesFile
<1>2. run'.began = run.began /\ run'.pc \in {"downloaded", "looking"}
  BY <1>1 DEF MissesFile, Runs
<1>3. /\ UNCHANGED <<boot, clock, scheduleVars, sent>>
      /\ alerted' = AlertedLate(Looking) /\ alerted \subseteq alerted'
  BY DEF MissesFile, AlertedLate
<1>4. \A week \in Nat : Silent(week)' => Silent(week)
  BY <1>3 DEF Silent, scheduleVars
<1>5. ASSUME Silent(clock.week)', run.began = At(clock.week, args)
      PROVE  FitsWeek(args, Threshold)
  <2>1. <<Looking, clock.week>> \notin alerted'
    BY <1>1, <1>3, <1>5 DEF Silent
  <2>2. Before(clock, At(ThisWeek, Deadline[Looking]))
    BY <1>3, <2>1 DEF AlertedLate, ThisWeek
  <2>3. clock.slot < Deadline[Looking]
    BY <1>0, <2>2 DEF Before, At, ThisWeek, Instants
  <2>4. args <= clock.slot
    <3>1. NotAfter(run.began, clock) /\ run.began \in Instants
      BY <1>0, PlainTypes DEF MissesFile, IInv, RunInTime
    <3> QED
      BY <1>0, <1>5, <3>1, InstantOrder DEF At, Instants, Slots
  <2>5. Deadline[Looking] + RunLimit + RetriesTake(Threshold) <= WeekLen
    BY <1>1 DEF RetriesFit
  <2>6. /\ args \in Nat /\ clock.slot \in Nat /\ Deadline[Looking] \in Nat /\ RunLimit \in Nat
        /\ RetriesTake(Threshold) \in Nat /\ WeekLen \in Nat
    <3>1. clock.slot \in Slots /\ Deadline[Looking] \in Slots
      BY <1>0, <1>1, BalanceSheetAssumption DEF Instants
    <3>2. RetriesTake(Threshold) \in Nat
      BY RetriesAddUp, RetryScheduleAssumption
    <3> QED
      BY <1>0, <3>1, <3>2, CronSlotsAssumption, BalanceSheetAssumption DEF Slots
  <2> QED
    BY <2>3, <2>4, <2>5, <2>6 DEF FitsWeek
<1>6. RunMails'
  BY <1>2 DEF RunMails
<1> QED
  BY <1>0, <1>2, <1>3, <1>4, <1>5, <1>6, BodyKeepsTrack DEF MissesFile

(* The end of a run: what fits the week is tried again in it. *)
LEMMA SettleKeepsTrack ==
  ASSUME RunsAreShort, RetriesFit, IInv, WeeksInv, Settle
  PROVE  WeeksInv'
<1>0. /\ TypeOK /\ ScheduleTypeOK /\ Punctual /\ args \in Slots /\ Main \in Slots
      /\ errCounter \in 0..Threshold /\ errored \in BOOLEAN
      /\ run.pc = "ended" /\ clock \in Instants
  BY RetryScheduleAssumption DEF Settle, IInv, TypeOK, ScheduleTypeOK, WeeksInv
<1>1. UNCHANGED <<boot, clock, sent, alerted>> /\ run'.pc = "idle"
  BY RunTypes DEF Settle
<1>2. Punctual'
  BY <1>0, <1>1, SettlesPunctual DEF Settle
<1>3. ~errored
  BY <1>0 DEF IInv, FrozenIsIdle
<1>4. \A week \in Nat : Silent(week)' => Silent(week)
  BY <1>1, <1>3 DEF Silent
<1>5. NoWeekInSilence'
  BY <1>1, <1>4, OldWeeksStay DEF WeeksInv
<1>6. RunMails'
  BY <1>1 DEF RunMails
<1>7. errCounter \in 0..(Threshold - 1) /\ Threshold \in Nat
  BY <1>0, <1>3, RetryScheduleAssumption DEF IInv, ThresholdFreezes
<1>8. OnTrack'
  <2> SUFFICES ASSUME NotAfter(boot', At(clock'.week, Main)), Silent(clock.week)', ~ResetDue'
               PROVE  RunIsAhead'
    BY DEF OnTrack
  <2>0. NotAfter(boot, At(clock.week, Main))
    BY <1>1
  <2>1. Silent(clock.week) /\ run.outcome # "ok" /\ ~errored'
    <3>1. Silent(clock.week)
      BY <1>1, <1>3 DEF Silent
    <3> QED
      BY <1>0, <3>1 DEF Silent, WeeksInv, RunMails
  <2>2. PICK count \in Nat :
          /\ RetriesLater(count)
          /\ \/ count = errCounter /\ GivesUp
             \/ count = errCounter + 1 /\ count < Threshold
    <3>1. CASE run.outcome = "resched" /\ RetriesLater(errCounter)
      BY <1>0, <1>7, <3>1 DEF GivesUp
    <3>2. CASE ~ReachesThreshold /\ RetriesLater(errCounter + 1)
      BY <1>0, <1>7, <3>2 DEF ReachesThreshold
    <3> QED
      BY <2>1, <3>1, <3>2 DEF Settle, Settles, Freezes
  <2>3. ~ResetDue
    BY <1>1, <2>2 DEF RetriesLater, ResetDue
  <2>4. CASE RunIsOn
    <3>1. PICK n \in Nat : n > 0 /\ FitsWeek(args, n) /\ n - 1 >= Threshold - 1 - count
                           /\ Threshold - 1 - count \in Nat
      <4>1. CASE count = errCounter /\ GivesUp
        BY <1>7, <2>4, <4>1 DEF RunIsOn
      <4>2. CASE count = errCounter + 1 /\ count < Threshold
        BY <1>7, <2>4, <4>2 DEF RunIsOn
      <4> QED
        BY <2>2, <4>1, <4>2
    <3>2. /\ args + RunLimit < WeekLen /\ args + Delay < WeekLen
          /\ FitsWeek(args + Delay, n - 1) /\ args + Delay \in Slots
      BY <1>0, <3>1, Fits, CronSlotsAssumption DEF Slots
    <3>3. FitsWeek(args + Delay, Threshold - 1 - count)
      BY <3>1, <3>2, Fits
    <3>4. clock.slot <= args + RunLimit
      BY <1>0, <2>4, <3>2, ClockOfRun DEF RunIsOn, NotAfter
    <3>5. clock.slot <= args + Delay
      BY <1>0, <3>4, CronSlotsAssumption, BalanceSheetAssumption DEF RunsAreShort, Instants, Slots
    <3>6. args' = args + Delay /\ next' = At(clock.week, args + Delay) /\ errCounter' = count
      BY <1>0, <2>2, <3>2, <3>5, RetryIsAhead DEF RetriesLater
    <3> QED
      BY <1>1, <3>3, <3>6 DEF RunIsAhead, FitsWeek
  <2>5. CASE RunIsOld
    <3>1. args = Main
      BY <2>5 DEF RunIsOld
    <3>2. /\ Main + Delay < WeekLen /\ Main + Delay \in Slots
          /\ FitsWeek(Main + Delay, Threshold - 1)
      BY <1>0, <1>7, Fits, CronSlotsAssumption, RetryScheduleAssumption DEF RetriesFit, Slots
    <3>3. Threshold - 1 - count \in 0..(Threshold - 1)
      BY <1>7, <2>2
    <3>4. FitsWeek(Main + Delay, Threshold - 1 - count)
      BY <1>7, <3>2, <3>3, Fits, RetryScheduleAssumption
    <3>5. clock.slot <= RunLimit
      BY <2>5, ClockOfOldRun
    <3>6. clock.slot <= args + Delay
      BY <1>0, <3>1, <3>5, CronSlotsAssumption, BalanceSheetAssumption
         DEF RunsAreShort, Instants, Slots
    <3>7. args' = Main + Delay /\ next' = At(clock.week, Main + Delay) /\ errCounter' = count
      BY <1>0, <2>2, <3>1, <3>2, <3>6, RetryIsAhead DEF RetriesLater
    <3> QED
      BY <1>1, <3>4, <3>7 DEF RunIsAhead, FitsWeek
  <2> QED
    BY <1>0, <2>0, <2>1, <2>3, <2>4, <2>5 DEF WeeksInv, OnTrack, RunIsAhead
<1> QED
  BY <1>2, <1>5, <1>6, <1>8 DEF WeeksInv
(* Time: it does not leave a week that is on track. *)
LEMMA TickKeepsTrack ==
  ASSUME IInv, WeeksInv, Tick
  PROVE  WeeksInv'
<1>0. /\ TypeOK /\ ScheduleTypeOK /\ Punctual /\ args \in Slots /\ Main \in Slots
      /\ clock \in Instants /\ next \in Instants /\ reset \in Instants /\ run.began \in Instants
  BY PlainTypes, RetryScheduleAssumption DEF IInv, TypeOK, ScheduleTypeOK, WeeksInv
<1>1. /\ clock' = Later(clock, 1) /\ UNCHANGED <<boot, scheduleVars, sent, alerted, run>>
      /\ ~JobDue /\ ~ResetDue /\ run.pc # "ended"
  BY DEF Tick, TimePasses
<1>2. Punctual'
  BY <1>0, TimePassesPunctual DEF Tick
<1>3. RunMails'
  BY <1>1 DEF RunMails
<1>4. \A week \in Nat : Silent(week)' <=> Silent(week)
  BY <1>1 DEF Silent, scheduleVars
<1>5. clock' \in Instants /\ clock.week \in Nat /\ clock'.week \in Nat
  BY <1>0, <1>1, TheNextInstant DEF Instants
<1>6. CASE clock'.week = clock.week
  <2>1. NoWeekInSilence'
    BY <1>1, <1>6 DEF WeeksInv, NoWeekInSilence, scheduleVars
  <2>2. OnTrack'
    <3> SUFFICES ASSUME NotAfter(boot', At(clock'.week, Main)), Silent(clock.week)'
                 PROVE  (RunIsAhead \/ RunIsOn \/ RunIsOld)'
      BY DEF OnTrack
    <3>1. NotAfter(boot, At(clock.week, Main)) /\ Silent(clock.week)
      BY <1>1, <1>6 DEF Silent, scheduleVars
    <3>2. RunIsAhead \/ RunIsOn \/ RunIsOld
      BY <1>1, <3>1 DEF WeeksInv, OnTrack
    <3>3. UNCHANGED <<args, next, errCounter, run>>
      BY <1>1 DEF scheduleVars, slotVars
    <3> QED
      BY <1>6, <3>2, <3>3 DEF RunIsAhead, RunIsOn, RunIsOld, GivesUp, FitsWeek
  <2> QED
    BY <1>2, <1>3, <2>1, <2>2 DEF WeeksInv
<1>7. CASE clock'.week # clock.week
  <2>1. clock'.week = clock.week + 1 /\ clock'.slot = 0 /\ clock.slot = WeekLen - 1
    BY <1>0, <1>1, <1>7, TheNextInstant
  <2>2. ASSUME NotAfter(boot, At(clock.week, Main)), Silent(clock.week)
        PROVE  FALSE
    <3>1. Before(clock, next)
      BY <1>0, <1>1, InstantOrder DEF JobDue
    <3>2. next.week > clock.week
      BY <1>0, <2>1, <3>1, CronSlotsAssumption DEF Before, Instants, Slots
    <3>3. ~RunIsAhead /\ ~RunIsOld
      BY <1>5, <3>2 DEF RunIsAhead, RunIsOld, At
    <3>4. ~RunIsOn
      <4> SUFFICES ASSUME RunIsOn PROVE FALSE
        OBVIOUS
      <4>1. Before(clock, Later(run.began, RunLimit)) /\ run.began = At(clock.week, args)
        BY DEF Tick, RunIsOn
      <4>2. args + RunLimit < WeekLen
        <5>1. Threshold - 1 - errCounter \in Nat
          <6>1. ~errored
            BY <2>2 DEF Silent
          <6> QED
            BY <1>0, <6>1, RetryScheduleAssumption DEF IInv, ScheduleTypeOK, ThresholdFreezes
        <5> QED
          BY <1>0, <5>1, Fits DEF RunIsOn
      <4>3. clock.slot < args + RunLimit
        BY <4>1, <4>2, <1>5 DEF Before, Later, At
      <4> QED
        BY <1>0, <2>1, <4>2, <4>3, CronSlotsAssumption, BalanceSheetAssumption DEF Slots
    <3> QED
      BY <1>1, <2>2, <3>3, <3>4 DEF WeeksInv, OnTrack
  <2>3. ResetDue'
    <3>1. Before(clock, reset)
      BY <1>0, <1>1, InstantOrder DEF ResetDue
    <3>2. reset.week = clock.week + 1 /\ reset.slot = 0
      BY <1>0, <2>1, <3>1, CronSlotsAssumption DEF Before, Punctual, Instants, Slots
    <3>3. reset = clock'
      BY <1>0, <1>5, <2>1, <3>2, SameInstant
    <3>4. reset' = reset
      BY <1>1 DEF scheduleVars, slotVars
    <3> QED
      BY <3>3, <3>4 DEF ResetDue, NotAfter
  <2>4. OnTrack'
    BY <2>3 DEF OnTrack
  <2>5. NoWeekInSilence'
    <3>1. \A week \in 1..(clock'.week - 1) : week = clock.week \/ week \in 1..(clock.week - 1)
      BY <1>5, <2>1
    <3>2. \A week \in 1..(clock'.week - 1) : NotAfter(boot, At(week, Main)) => ~Silent(week)
      BY <2>2, <3>1, NoneSilent DEF WeeksInv
    <3>3. ASSUME NEW week \in 1..(clock'.week - 1), NotAfter(boot', At(week, Main))
          PROVE  ~Silent(week)'
      <4>1. ~Silent(week) /\ week \in Nat
        BY <1>1, <3>2, <3>3
      <4> QED
        BY <1>4, <4>1
    <3> QED
      BY <3>3, Zenon DEF NoWeekInSilence, Silent
  <2> QED
    BY <1>2, <1>3, <2>4, <2>5 DEF WeeksInv
<1> QED
  BY <1>6, <1>7

(* Every step keeps it. *)
LEMMA WeeksKeep ==
  ASSUME RunsAreShort, RetriesFit, IInv, WeeksInv, [Next]_vars
  PROVE  WeeksInv'
<1>0. TypeOK /\ clock \in Instants /\ run \in Runs
  BY DEF IInv, TypeOK, ScheduleTypeOK
<1>1. CASE Wakeup
  BY <1>1, WakeupKeepsTrack
<1>2. ASSUME run.pc # "idle", run'.pc # "idle", run'.pc # "ended",
             run'.began = run.began, run'.missing = run.missing,
             UNCHANGED <<boot, clock, scheduleVars, sent, alerted>>
      PROVE  WeeksInv'
  <2>1. \A week \in Nat : Silent(week)' => Silent(week)
    BY <1>2 DEF Silent, scheduleVars
  <2>2. RunMails' /\ (GivesUp' => GivesUp)
    BY <1>2 DEF RunMails, GivesUp
  <2> QED
    BY <1>0, <1>2, <2>1, <2>2, BodyKeepsTrack
<1>3. ASSUME NEW outcome \in Outcomes, run.pc # "idle", run' = Ended(run, outcome),
             outcome = "resched" => GivesUp,
             outcome = "ok" => \E i \in DOMAIN sent' : sent'[i].on.week = clock.week,
             UNCHANGED <<boot, clock, scheduleVars, alerted>>,
             \A i \in DOMAIN sent : i \in DOMAIN sent' /\ sent'[i] = sent[i]
      PROVE  WeeksInv'
  <2>1. /\ run'.pc = "ended" /\ run'.began = run.began /\ run'.missing = {}
        /\ run'.outcome = outcome
    <3>1. Ended(run, outcome).outcome = outcome
      BY <1>0, PlainTypes DEF Ended, NewRun
    <3> QED
      BY <1>0, <1>3, <3>1, RunTypes
  <2>2. \A week \in Nat : Silent(week)' => Silent(week)
    BY <1>3 DEF Silent, scheduleVars
  <2>3. RunMails' /\ (GivesUp' => GivesUp)
    BY <1>3, <2>1 DEF RunMails, GivesUp
  <2> QED
    BY <1>0, <1>3, <2>1, <2>2, <2>3, BodyKeepsTrack
<1>4. CASE FindsFile
  <2>1. run'.pc = "transferring" /\ run'.began = run.began /\ run'.missing = run.missing
    BY <1>0, <1>4 DEF FindsFile, Runs
  <2> QED
    BY <1>2, <1>4, <2>1 DEF FindsFile
<1>5. CASE MissesFile
  BY <1>5, MissKeepsTrack
<1>6. CASE FileTransferred
  <2>1. /\ run'.pc \in {"downloaded", "looking"} /\ run'.began = run.began
        /\ run'.missing = run.missing
    BY <1>0, <1>6, LookingIsSource, OnwardType DEF FileTransferred
  <2> QED
    BY <1>2, <1>6, <2>1 DEF FileTransferred
<1>7. CASE HasFiles \/ Assembles
  <2>1. /\ run'.pc \in {"assembling", "emailing"} /\ run'.began = run.began
        /\ run'.missing = run.missing
    BY <1>0, <1>7 DEF HasFiles, Assembles, Runs
  <2> QED
    BY <1>2, <1>7, <2>1 DEF HasFiles, Assembles
<1>8. CASE ServerFails \/ CannotAssemble
  <2>1. PICK outcome \in {"error", "crash", "joberror"} : run' = Ended(run, outcome)
    BY <1>8 DEF ServerFails, CannotAssemble
  <2> QED
    BY <1>3, <1>8, <2>1 DEF ServerFails, CannotAssemble, Outcomes
<1>9. CASE LacksFiles
  BY <1>3, <1>9 DEF LacksFiles, Outcomes, GivesUp
<1>10. ASSUME NEW failed \in BOOLEAN, sent' = Append(sent, Report(failed))
       PROVE  /\ \A i \in DOMAIN sent : i \in DOMAIN sent' /\ sent'[i] = sent[i]
              /\ \E i \in DOMAIN sent' : sent'[i].on.week = clock.week
  <2>1. Report(failed).on = clock
    BY DEF Report
  <2>2. sent \in Seq([ryo : Nat, sas : Nat, on : Instants, failed : BOOLEAN])
    BY <1>0 DEF TypeOK
  <2>3. /\ DOMAIN sent' = 1..(Len(sent) + 1) /\ DOMAIN sent = 1..Len(sent) /\ Len(sent) \in Nat
        /\ \A i \in 1..Len(sent) : sent'[i] = sent[i]
        /\ sent'[Len(sent) + 1].on = clock
    BY <1>10, <2>1, <2>2
  <2>4. Len(sent) + 1 \in DOMAIN sent' /\ \A i \in DOMAIN sent : i \in DOMAIN sent'
    BY <2>3
  <2> QED
    BY <2>3, <2>4
<1>11. CASE Emails
  BY <1>3, <1>10, <1>11 DEF Emails, Outcomes
<1>12. CASE EmailFails
  <2>1. \A i \in DOMAIN sent : i \in DOMAIN sent' /\ sent'[i] = sent[i]
    BY <1>10, <1>12 DEF EmailFails
  <2> QED
    BY <1>3, <1>12, <2>1 DEF EmailFails, Outcomes
<1>13. CASE Settle
  BY <1>13, SettleKeepsTrack
<1>14. CASE Tick
  BY <1>14, TickKeepsTrack
<1>15. CASE (\E s \in SourceKeys : Upload(s)) \/ UNCHANGED vars
  <2>1. UNCHANGED <<boot, clock, scheduleVars, sent, alerted, run>>
    BY <1>15 DEF Upload, vars
  <2>2. Punctual' /\ RunMails' /\ NoWeekInSilence'
    BY <2>1 DEF WeeksInv, Punctual, RunMails, NoWeekInSilence, scheduleVars, slotVars
  <2>3. OnTrack'
    BY <2>1 DEF WeeksInv, OnTrack, Silent, ResetDue, RunIsAhead, RunIsOn, RunIsOld, GivesUp,
                FitsWeek, scheduleVars, slotVars
  <2> QED
    BY <2>2, <2>3 DEF WeeksInv
<1> QED
  BY <1>1, <1>4, <1>5, <1>6, <1>7, <1>8, <1>9, <1>11, <1>12, <1>13, <1>14, <1>15
     DEF Next, RunStep

(* A week whose scheduled run the process was up for is not over without the report
   mailed, an alert_if_past_deadline alert, or the process stopped, whatever the
   servers, the people and the mail do: as long as a run is over before its retry
   is due, and an alert's deadline and the job's own slot leave the week room for
   the retries up to err_max_threshold.                                             *)
THEOREM NoWeekIsForgotten ==
  ASSUME RunsAreShort, RetriesFit
  PROVE  Spec => []NoWeekInSilence
<1>1. Init => WeeksInv
  <2> SUFFICES ASSUME Init PROVE WeeksInv
    OBVIOUS
  <2>1. Punctual
    BY BootsPunctual DEF Init
  <2>2. run.pc = "idle"
    BY RunTypes DEF Init
  <2>3. /\ clock \in Instants /\ clock.week = 1 /\ boot = clock /\ args = Main
        /\ next = NextFire(Main, clock) /\ errCounter = 0
    BY DEF Init, Boots, Instants
  <2>4. RunMails /\ NoWeekInSilence
    BY <2>2, <2>3 DEF RunMails, NoWeekInSilence
  <2>5. OnTrack
    <3> SUFFICES ASSUME NotAfter(boot, At(clock.week, Main)) PROVE RunIsAhead
      BY DEF OnTrack
    <3>1. clock.slot <= Main
      <4>1. At(clock.week, Main) \in Instants
        BY <2>3, RetryScheduleAssumption DEF At, Instants
      <4> QED
        BY <2>3, <4>1, InstantOrder DEF At, Instants
    <3>2. next = At(clock.week, Main)
      BY <2>3, <3>1, RetryScheduleAssumption DEF NextFire, Instants, Slots
    <3>3. Threshold - 1 - errCounter \in 0..Threshold
      BY <2>3, RetryScheduleAssumption
    <3> QED
      BY <2>2, <2>3, <3>2, <3>3, Fits, RetryScheduleAssumption DEF RunIsAhead, RetriesFit
  <2> QED
    BY <2>1, <2>4, <2>5 DEF WeeksInv
<1>2. IInv /\ WeeksInv /\ [Next]_vars => WeeksInv'
  BY WeeksKeep
<1>3. WeeksInv => NoWeekInSilence
  BY DEF WeeksInv
<1> QED
  BY <1>1, <1>2, <1>3, IInvHolds, PTL DEF Spec
-----------------------------------------------------------------------------
(* The job lives as JobLife promises of every job.                                  *)

(* Both calendars are one. *)
LEMMA OneCalendar ==
  ASSUME NEW s, NEW now, NEW d
  PROVE  /\ Life!NextFire(s, now) = NextFire(s, now)
         /\ Life!FollowingFire(s, now) = FollowingFire(s, now)
         /\ Life!Later(now, d) = Later(now, d)
         /\ Life!ShiftSlot(s) = ShiftSlot(s)
         /\ Life!NotAfter(s, now) <=> NotAfter(s, now)
         /\ Life!Instants = Instants
BY DEF NextFire, FollowingFire, Later, ShiftSlot, NotAfter, Before, At, Instants, Slots,
       Life!NextFire, Life!FollowingFire, Life!Later, Life!ShiftSlot, Life!NotAfter,
       Life!Before, Life!At, Life!Instants, Life!Slots

LEMMA LifeBegins == Init => Life!Init
<1> SUFFICES ASSUME Init PROVE Life!Init
  OBVIOUS
<1>1. Stage = "none"
  BY DEF Init, NoRun, NewRun, Stage
<1>2. /\ clock \in Instants /\ args = Main /\ next = NextFire(Main, clock)
      /\ errCounter = 0 /\ errored = FALSE
  BY DEF Init, Boots, Instants
<1> QED
  BY <1>1, <1>2, OneCalendar DEF Life!Init

(* A wakeup hands out the job, or registers it anew, or both at once. *)
LEMMA WakeupIsLived ==
  ASSUME IInv, Punctual, Wakeup
  PROVE  Life!Next
<1>1. /\ UNCHANGED <<clock, errCounter, errored>>
      /\ ResetDue => clock.slot = 0 /\ args' = Main /\ next' = NextFire(Main, clock)
      /\ ~ResetDue => JobDue /\ args' = args /\ next' = FollowingFire(args, clock)
  BY HandsOutInTime DEF Wakeup, IInv, TypeOK
<1>2. IF JobDue /\ Stage = "none" THEN Stage' = "waiting" ELSE Stage' = Stage
  BY DEF Wakeup, NewRun, Stage
<1>3. CASE ResetDue
  <2>1. Stage' = Stage \/ (NotAfter(next, clock) /\ Stage = "none" /\ Stage' = "waiting")
    BY <1>2 DEF JobDue
  <2>2. Life!Reregistered
    BY <1>1, <1>3, <2>1, OneCalendar DEF Life!Reregistered
  <2> QED
    BY <2>2 DEF Life!Next
<1>4. CASE ~ResetDue
  <2>1. NotAfter(next, clock)
    BY <1>1, <1>4 DEF JobDue
  <2>2. Stage' = IF Stage = "none" THEN "waiting" ELSE Stage
    BY <1>1, <1>2, <1>4
  <2>3. Life!HandedOut
    BY <1>1, <1>4, <2>1, <2>2, OneCalendar DEF Life!HandedOut
  <2> QED
    BY <2>3 DEF Life!Next
<1> QED
  BY <1>3, <1>4

(* A step of the body, of which the schedule hears nothing. *)
LEMMA BodyIsLived ==
  ASSUME IInv, run.pc # "idle", Stage' = "working", UNCHANGED <<clock, scheduleVars>>
  PROVE  [Life!Next]_(Life!vars)
<1>1. ~errored
  BY DEF IInv, FrozenIsIdle
<1>2. Stage = "waiting" \/ Stage = "working"
  BY DEF Stage
<1>3. UNCHANGED <<clock, args, next, errCounter, errored>>
  BY DEF scheduleVars, slotVars
<1>4. CASE Stage = "waiting"
  BY <1>1, <1>3, <1>4 DEF Life!Next, Life!Works
<1>5. CASE Stage = "working"
  BY <1>3, <1>5 DEF Life!vars
<1> QED
  BY <1>2, <1>4, <1>5

(* The end of a run: clean, retried later, or the job freezes. *)
LEMMA SettleIsLived ==
  ASSUME IInv, Settle
  PROVE  Life!Next
<1>1. Stage = "working" /\ Stage' = "none"
  BY DEF Settle, NoRun, NewRun, Stage
<1>2. ScheduleTypeOK /\ errCounter < Threshold
  BY RetryScheduleAssumption
     DEF Settle, IInv, TypeOK, ScheduleTypeOK, FrozenIsIdle, ThresholdFreezes
<1>3. clock' = clock /\ Settles(run.outcome)
  BY DEF Settle
<1>4. CASE EndsClean
  <2>1. Life!EndsClean
    BY <1>1, <1>3, <1>4 DEF EndsClean, slotVars, Life!EndsClean, Life!RunEnds
  <2> QED
    BY <2>1 DEF Life!Next
<1>5. ASSUME NEW count \in {errCounter, errCounter + 1}, count < Threshold, RetriesLater(count)
      PROVE  Life!Next
  <2>1. Life!RetriedLater(count)
    BY <1>1, <1>3, <1>5, OneCalendar DEF RetriesLater, Life!RetriedLater, Life!RunEnds
  <2> QED
    BY <1>5, <2>1 DEF Life!Next, Life!Fails
<1>6. ASSUME NEW count \in {errCounter, errCounter + 1}, count \in {errCounter, Threshold},
             Freezes(count)
      PROVE  Life!Next
  <2>1. Life!Freezes(count)
    BY <1>1, <1>3, <1>6 DEF Freezes, slotVars, Life!Freezes, Life!RunEnds
  <2> QED
    BY <1>6, <2>1 DEF Life!Next, Life!Fails
<1> QED
  BY <1>2, <1>3, <1>4, <1>5, <1>6, SettlesWithin

LEMMA TickIsLived ==
  ASSUME Tick
  PROVE  Life!Next
<1>1. /\ clock' = Later(clock, 1) /\ Stage' = Stage
      /\ UNCHANGED <<args, next, errCounter, errored>>
  BY DEF Tick, TimePasses, scheduleVars, slotVars, Stage
<1>2. Life!TimePasses
  BY <1>1, OneCalendar DEF Life!TimePasses
<1> QED
  BY <1>2 DEF Life!Next

LEMMA NextIsLived ==
  ASSUME IInv, Punctual, [Next]_vars
  PROVE  [Life!Next]_(Life!vars)
<1>1. CASE Wakeup
  BY <1>1, WakeupIsLived
<1>2. CASE RunStep /\ ~Settle
  <2>1. run.pc # "idle" /\ UNCHANGED <<clock, scheduleVars>> /\ run \in Runs
    BY <1>2 DEF RunStep, FindsFile, MissesFile, FileTransferred, ServerFails, LacksFiles,
                HasFiles, Assembles, CannotAssemble, Emails, EmailFails, IInv, TypeOK
  <2>2. run'.pc # "idle" /\ ~(run'.pc = "looking" /\ run'.at = 1)
    <3>1. \A r \in Runs : Onward(r).pc # "idle" /\ Onward(r).at = r.at + 1 /\ r.at + 1 # 1
      BY SourcesAre DEF Onward, Runs
    <3>2. \A r \in Runs, outcome \in Outcomes : Ended(r, outcome).pc = "ended"
      BY DEF Ended, NewRun
    <3>3. CASE FindsFile
      BY <2>1, <3>3 DEF FindsFile, Runs
    <3>4. CASE MissesFile
      <4>1. run'.pc = Onward(run).pc /\ run'.at = Onward(run).at
        BY <2>1, <3>4 DEF MissesFile, Onward, Runs
      <4> QED
        BY <2>1, <3>1, <4>1
    <3>5. CASE FileTransferred
      BY <2>1, <3>1, <3>5 DEF FileTransferred
    <3>6. CASE ServerFails \/ LacksFiles \/ CannotAssemble \/ Emails \/ EmailFails
      BY <2>1, <3>2, <3>6
         DEF ServerFails, LacksFiles, CannotAssemble, Emails, EmailFails, Outcomes
    <3>7. CASE HasFiles \/ Assembles
      BY <2>1, <3>7 DEF HasFiles, Assembles, Runs
    <3> QED
      BY <1>2, <3>3, <3>4, <3>5, <3>6, <3>7 DEF RunStep
  <2>3. Stage' = "working"
    BY <2>2 DEF Stage
  <2> QED
    BY <2>1, <2>3, BodyIsLived
<1>3. CASE Settle
  BY <1>3, SettleIsLived
<1>4. CASE (\E s \in SourceKeys : Upload(s)) \/ UNCHANGED vars
  BY <1>4 DEF Upload, vars, scheduleVars, slotVars, Stage, Life!vars
<1>5. CASE Tick
  BY <1>5, TickIsLived
<1> QED
  BY <1>1, <1>2, <1>3, <1>4, <1>5 DEF Next

LEMMA PunctualHolds == Spec => []Punctual
<1>1. Init => Punctual
  BY BootsPunctual DEF Init
<1>2. [Next]_vars => ScheduleStep
  <2>1. Settle => UNCHANGED clock /\ \E outcome \in Outcomes : Settles(outcome)
    BY DEF Settle, Settles, Outcomes
  <2> QED
    BY <2>1 DEF Next, RunStep, Wakeup, FindsFile, MissesFile, FileTransferred, ServerFails,
                LacksFiles, HasFiles, Assembles, CannotAssemble, Emails, EmailFails, Upload,
                Tick, vars, ScheduleStep
<1>3. IInv /\ Punctual /\ [Next]_vars => Punctual'
  BY <1>2, StaysPunctual DEF IInv, TypeOK
<1> QED
  BY <1>1, <1>3, IInvHolds, PTL DEF Spec

(* BalanceSheetJob, through late files, failures, retries and runs that outlast their
   retry, implements JobLife: JobBase's run_job and error_reschedule keep for it what
   they promise of every job.                                                        *)
THEOREM BalanceSheetLives == Spec => LivesAsPromised
<1>1. IInv /\ Punctual /\ [Next]_vars => [Life!Next]_(Life!vars)
  BY NextIsLived
<1> QED
  BY <1>1, LifeBegins, IInvHolds, PunctualHolds, PTL DEF Spec, LivesAsPromised, Life!Spec
=============================================================================
