----------------------- MODULE EmployeeDiscountsProofs -----------------------
(***************************************************************************)
(* First, of CronShift: for every arguments with a day of the week, and      *)
(* whatever the day of the failure, shift_cron_args is ShiftSlot of          *)
(* CronSlots, the shift that JobScheduling and RetrySchedule are built on.   *)
(*                                                                         *)
(* Then, for any threshold, number of days kept shown and schedule: whatever *)
(* fails between the calls of an upload, no day goes by without its report   *)
(* in its tab, and a retry is barred only where the tabs of the last days    *)
(* are gone.                                                                 *)
(***************************************************************************)
EXTENDS EmployeeDiscounts, TLAPS

(* The lengths in minutes. *)
LEMMA Lengths ==
  /\ DaysPerWeek = 7
  /\ HoursPerDay = 24
  /\ MinutesPerHour = 60
  /\ MinutesPerDay = 1440
  /\ MinutesPerWeek = 10080
  /\ DelayMinutes = 10
  /\ Unused = -1
BY DEF DaysPerWeek, HoursPerDay, MinutesPerHour, MinutesPerDay, MinutesPerWeek,
       DelayMinutes, Unused

(* The slots of CronSlots, with a minute to a slot. *)
LEMMA WeeklySlots ==
  ASSUME NEW slot
  PROVE  slot \in Weekly!Slots <=> slot \in Int /\ 0 <= slot /\ slot < 10080
<1>1. MinutesPerWeek \in Int
  BY Lengths
<1>2. slot \in Weekly!Slots <=> slot \in Int /\ 0 <= slot /\ slot < MinutesPerWeek
  BY <1>1 DEF Weekly!Slots
<1> QED
  BY <1>2, Lengths

Days == 0..(DaysPerWeek - 1)

Hours == 0..(HoursPerDay - 1)

Minutes == 0..(MinutesPerHour - 1)

(* Weekly arguments by their fields, and their slot. *)
Fields(d, h, m) == [day_of_week |-> d, hour |-> h, minute |-> m]

Slot(d, h, m) == d * MinutesPerDay + h * MinutesPerHour + m

(* Arguments with a day of the week are made of three numbers. *)
LEMMA WeeklyArgs ==
  ASSUME NEW a \in CronArgs, a.day_of_week # Unused
  PROVE  /\ a.day_of_week \in Days
         /\ a.hour \in Hours
         /\ a.minute \in Minutes
         /\ a = Fields(a.day_of_week, a.hour, a.minute)
BY DEF CronArgs, Fields, Days, Hours, Minutes

(* Their slot is one of the week. *)
LEMMA SlotOfFields ==
  ASSUME NEW d \in Days, NEW h \in Hours, NEW m \in Minutes
  PROVE  /\ Fields(d, h, m) \in CronArgs
         /\ Fields(d, h, m).day_of_week # Unused
         /\ SlotOf(Fields(d, h, m)) = Slot(d, h, m)
         /\ Slot(d, h, m) \in Weekly!Slots
<1>1. d \in 0..6 /\ h \in 0..23 /\ m \in 0..59
  BY Lengths DEF Days, Hours, Minutes
<1>2. Fields(d, h, m) \in CronArgs
  BY <1>1, Lengths DEF Fields, CronArgs
<1>3. Fields(d, h, m).day_of_week # Unused
  BY <1>1, Lengths DEF Fields
<1>4. SlotOf(Fields(d, h, m)) = Slot(d, h, m)
  BY DEF Fields, Slot, SlotOf
<1>5. /\ d * 1440 + h * 60 + m \in Int
      /\ 0 <= d * 1440 + h * 60 + m /\ d * 1440 + h * 60 + m <= 10079
  <2>1. d \in Int /\ h \in Int /\ m \in Int /\ 0 <= d /\ d <= 6 /\ 0 <= h /\ h <= 23 /\ 0 <= m /\ m <= 59
    BY <1>1
  <2> QED
    BY <2>1
<1>6. Slot(d, h, m) \in Int /\ 0 <= Slot(d, h, m) /\ Slot(d, h, m) < 10080
  BY <1>5, Lengths DEF Slot
<1>7. Slot(d, h, m) \in Weekly!Slots
  BY <1>6, WeeklySlots
<1> QED
  BY <1>2, <1>3, <1>4, <1>7

(* The base instant is on the arguments' own slot of some week. *)
LEMMA BaseSlot ==
  ASSUME NEW d \in Days, NEW h \in Hours, NEW m \in Minutes, NEW now \in Int
  PROVE  \E week \in Int :
           BaseMinutes(Fields(d, h, m), now) = week * MinutesPerWeek + Slot(d, h, m)
<1> DEFINE week == (now - d) \div 7
<1>1. d \in 0..6 /\ h \in 0..23 /\ m \in 0..59
  BY Lengths DEF Days, Hours, Minutes
<1>2. week \in Int /\ now - ((now - d) % 7) = 7 * week + d
  BY <1>1
<1>3. LastWeekday(now, d) = 7 * week + d
  BY <1>1, <1>2, Lengths DEF LastWeekday
<1> HIDE DEF week
<1>4. BaseMinutes(Fields(d, h, m), now) = week * MinutesPerWeek + Slot(d, h, m)
  BY <1>1, <1>2, <1>3, Lengths DEF BaseMinutes, Fields, Slot
<1> QED
  BY <1>2, <1>4

(* Reading an instant's fields and putting them together again loses the week only. *)
LEMMA FieldsSlot ==
  ASSUME NEW a, a.day_of_week # Unused, NEW minutes \in Int
  PROVE  /\ FieldsOf(a, minutes) \in CronArgs
         /\ FieldsOf(a, minutes).day_of_week # Unused
         /\ SlotOf(FieldsOf(a, minutes)) = minutes % MinutesPerWeek
<1> DEFINE d == (minutes \div MinutesPerDay) % DaysPerWeek
           h == (minutes \div MinutesPerHour) % HoursPerDay
           m == minutes % MinutesPerHour
<1>1. FieldsOf(a, minutes) = Fields(d, h, m)
  BY DEF FieldsOf, Fields
<1>2. d \in Days /\ h \in Hours /\ m \in Minutes
  BY Lengths DEF Days, Hours, Minutes
<1>3. Slot(d, h, m) = minutes % MinutesPerWeek
  <2>1. ((minutes \div 1440) % 7) * 1440 + ((minutes \div 60) % 24) * 60 + (minutes % 60)
          = minutes % 10080
    OBVIOUS
  <2> QED
    BY <2>1, Lengths DEF Slot
<1> HIDE DEF d, h, m
<1> QED
  BY <1>1, <1>2, <1>3, SlotOfFields

(* CronSlots' shift of a slot, a minute to a slot. *)
LEMMA ShiftSlotWraps ==
  ASSUME NEW slot \in Weekly!Slots
  PROVE  Weekly!ShiftSlot(slot) = (slot + DelayMinutes) % MinutesPerWeek
<1>1. slot \in Int /\ 0 <= slot /\ slot < 10080
  BY WeeklySlots
<1>2. \A n \in Int : 0 <= n /\ n < 10080 =>
        (n + 10) % 10080 = IF n + 10 < 10080 THEN n + 10 ELSE n + 10 - 10080
  OBVIOUS
<1>3. Weekly!ShiftSlot(slot) = IF slot + 10 < 10080 THEN slot + 10 ELSE slot + 10 - 10080
  BY <1>1, Lengths DEF Weekly!ShiftSlot, Weekly!Later, Weekly!At
<1> QED
  BY <1>1, <1>2, <1>3, Lengths

(* The week does not matter to the slot. *)
LEMMA WeekCancels ==
  ASSUME NEW week \in Int, NEW slot \in Weekly!Slots
  PROVE  /\ week * MinutesPerWeek + slot + DelayMinutes \in Int
         /\ (week * MinutesPerWeek + slot + DelayMinutes) % MinutesPerWeek
              = (slot + DelayMinutes) % MinutesPerWeek
<1>1. slot \in Int
  BY WeeklySlots
<1>2. \A w, n \in Int : (w * 10080 + n + 10) % 10080 = (n + 10) % 10080
  OBVIOUS
<1> QED
  BY <1>1, <1>2, Lengths

(* shift_cron_args moves a weekly schedule by the delay, around the week, and
   leaves it weekly.                                                          *)
THEOREM ShiftIsShiftSlot ==
  ASSUME NEW a \in CronArgs, a.day_of_week # Unused, NEW now \in Int
  PROVE  /\ ShiftCronArgs(a, now) \in CronArgs
         /\ ShiftCronArgs(a, now).day_of_week # Unused
         /\ SlotOf(ShiftCronArgs(a, now)) = Weekly!ShiftSlot(SlotOf(a))
<1>1. PICK d \in Days, h \in Hours, m \in Minutes : a = Fields(d, h, m)
  BY WeeklyArgs
<1>2. SlotOf(a) = Slot(d, h, m) /\ Slot(d, h, m) \in Weekly!Slots
  BY <1>1, SlotOfFields
<1>3. PICK week \in Int : BaseMinutes(a, now) = week * MinutesPerWeek + Slot(d, h, m)
  BY <1>1, BaseSlot
<1> DEFINE shifted == week * MinutesPerWeek + Slot(d, h, m) + DelayMinutes
<1>4. ShiftCronArgs(a, now) = FieldsOf(a, shifted)
  BY <1>3 DEF ShiftCronArgs
<1>5. shifted \in Int /\ shifted % MinutesPerWeek = Weekly!ShiftSlot(SlotOf(a))
  BY <1>2, WeekCancels, ShiftSlotWraps
<1> HIDE DEF shifted
<1> QED
  BY <1>4, <1>5, FieldsSlot

(* Reading an instant's fields for a daily trigger leaves it daily. *)
LEMMA DailyFields ==
  ASSUME NEW a, a.day_of_week = Unused, NEW minutes \in Int
  PROVE  FieldsOf(a, minutes) \in CronArgs
<1> DEFINE h == (minutes \div MinutesPerHour) % HoursPerDay
           m == minutes % MinutesPerHour
<1>1. FieldsOf(a, minutes) = Fields(Unused, h, m)
  BY DEF FieldsOf, Fields
<1>2. h \in Hours /\ m \in Minutes
  BY Lengths DEF Hours, Minutes
<1> HIDE DEF h, m
<1> QED
  BY <1>1, <1>2 DEF CronArgs, Fields, Hours, Minutes

(* The instant a shift starts from is a number of minutes. *)
LEMMA BaseMinutesType ==
  ASSUME NEW a \in CronArgs, NEW now \in Int
  PROVE  BaseMinutes(a, now) + DelayMinutes \in Int
<1>1. a.day_of_week \in Int /\ a.hour \in Int /\ a.minute \in Int
  BY Lengths DEF CronArgs
<1>2. LastWeekday(now, a.day_of_week) \in Int
  BY <1>1, Lengths DEF LastWeekday
<1> QED
  BY <1>1, <1>2, Lengths DEF BaseMinutes

(* A failure leaves the fields in their ranges. *)
LEMMA StepTypes == TypeOK /\ [Next]_vars => TypeOK'
<1> SUFFICES ASSUME TypeOK, [Next]_vars
             PROVE  TypeOK'
  OBVIOUS
<1>1. CASE Next
  <2>1. PICK gap \in 0..MaxGap : today' = (today + gap) % DaysPerWeek
    BY <1>1 DEF Next, Fail
  <2>2. today' \in 0..(DaysPerWeek - 1) /\ today' \in Int
    BY <2>1, CronShiftAssumption, Lengths DEF TypeOK
  <2>3. args' = ShiftCronArgs(args, today') /\ args \in CronArgs
    BY <1>1 DEF Next, Fail, TypeOK
  <2>4. args' \in CronArgs
    BY <2>2, <2>3, FieldsSlot, DailyFields, BaseMinutesType DEF ShiftCronArgs
  <2>5. failures' \in 0..(MinutesPerWeek \div DelayMinutes - 1)
    BY <1>1, Lengths DEF Next, Fail, TypeOK
  <2> QED
    BY <1>1, <2>2, <2>4, <2>5 DEF Next, Fail, TypeOK
<1>2. CASE UNCHANGED vars
  BY <1>2 DEF vars, TypeOK
<1> QED
  BY <1>1, <1>2

(* Every state's fields are those of a calendar. *)
THEOREM TypeCorrect == Spec => []TypeOK
<1>1. Init => TypeOK
  <2>1. 0 \in 0..(MinutesPerWeek \div DelayMinutes - 1)
    BY Lengths
  <2> QED
    BY <2>1, CronShiftAssumption DEF Init, TypeOK
<1> QED
  BY <1>1, StepTypes, PTL DEF Spec

(* Every failure of a weekly job, in every chain of failures, is a shift of its slot. *)
THEOREM ShiftsFollowCronSlots == Spec => ShiftsLikeCronSlots
<1> DEFINE Shifts == args.day_of_week # Unused => SlotOf(args') = Weekly!ShiftSlot(SlotOf(args))
<1>1. TypeOK /\ [Next]_vars => [Shifts]_vars
  <2> SUFFICES ASSUME TypeOK, Next, args.day_of_week # Unused
               PROVE  SlotOf(args') = Weekly!ShiftSlot(SlotOf(args))
    OBVIOUS
  <2>1. PICK gap \in 0..MaxGap : today' = (today + gap) % DaysPerWeek
    BY DEF Next, Fail
  <2>2. today' \in Int
    BY <2>1, CronShiftAssumption, Lengths DEF TypeOK
  <2>3. args' = ShiftCronArgs(args, today') /\ args \in CronArgs
    BY DEF Next, Fail, TypeOK
  <2> QED
    BY <2>2, <2>3, ShiftIsShiftSlot
<1> QED
  BY <1>1, TypeCorrect, PTL DEF Spec, ShiftsLikeCronSlots

(* The minute of the day. *)
TimeOf(a) == a.hour * MinutesPerHour + a.minute

(* shift_cron_args moves a daily schedule by the delay, around the day, and leaves it
   daily.                                                                            *)
LEMMA DailyShift ==
  ASSUME NEW a \in CronArgs, a.day_of_week = Unused, NEW now \in Int
  PROVE  /\ ShiftCronArgs(a, now).day_of_week = Unused
         /\ TimeOf(ShiftCronArgs(a, now)) = (TimeOf(a) + DelayMinutes) % MinutesPerDay
<1> DEFINE shifted == BaseMinutes(a, now) + DelayMinutes
<1>1. a.hour \in 0..23 /\ a.minute \in 0..59
  BY Lengths DEF CronArgs
<1>2. /\ TimeOf(a) = a.hour * 60 + a.minute
      /\ shifted = now * 1440 + (a.hour * 60 + a.minute) + 10
  BY <1>1, Lengths DEF BaseMinutes, LastWeekday, TimeOf
<1>3. shifted \in Int /\ shifted % 1440 = (TimeOf(a) + 10) % 1440
  <2>1. \A time \in Int, d \in Int : ((d * 1440) + time + 10) % 1440 = (time + 10) % 1440
    OBVIOUS
  <2>2. TimeOf(a) \in Int /\ shifted = (now * 1440) + TimeOf(a) + 10
    BY <1>1, <1>2
  <2> HIDE DEF shifted
  <2> QED
    BY <2>1, <2>2
<1> HIDE DEF shifted
<1>4. (((shifted \div 60) % 24) * 60) + (shifted % 60) = shifted % 1440
  BY <1>3
<1>5. /\ FieldsOf(a, shifted).day_of_week = Unused
      /\ FieldsOf(a, shifted).hour = (shifted \div 60) % 24
      /\ FieldsOf(a, shifted).minute = shifted % 60
  BY Lengths DEF FieldsOf
<1>6. TimeOf(FieldsOf(a, shifted)) = shifted % 1440
  BY <1>4, <1>5, Lengths DEF TimeOf
<1> QED
  BY <1>3, <1>5, <1>6, Lengths DEF ShiftCronArgs, shifted

(* The failures are counted around the week, which is a number of days. *)
LEMMA CountsAround ==
  ASSUME NEW from \in Int, NEW count \in Int, 0 <= count, count <= 1007,
         NEW next \in Int, next = (count + 1) % 1008
  PROVE  /\ (((from + (count * 10)) % 10080) + 10) % 10080 = (from + (next * 10)) % 10080
         /\ (((from + (count * 10)) % 1440) + 10) % 1440 = (from + (next * 10)) % 1440
<1>1. CASE count = 1007
  <2>1. next = 0
    BY <1>1
  <2> QED
    BY <1>1, <2>1
<1>2. CASE count # 1007
  <2>1. next = count + 1
    BY <1>2
  <2> QED
    BY <1>2, <2>1
<1> QED
  BY <1>1, <1>2

(* A job registered weekly stays weekly, one registered daily daily. *)
SameKind == (args.day_of_week = Unused) <=> (start.day_of_week = Unused)

(* A job as registered has not moved. *)
LEMMA RegisteredStays ==
  ASSUME NEW a \in CronArgs
  PROVE  /\ a.day_of_week # Unused => SlotOf(a) = (SlotOf(a) + (0 * DelayMinutes)) % MinutesPerWeek
         /\ a.day_of_week = Unused =>
              TimeOf(a) = (TimeOf(a) + (0 * DelayMinutes)) % MinutesPerDay
<1>1. CASE a.day_of_week # Unused
  <2>1. PICK d \in Days, h \in Hours, m \in Minutes : a = Fields(d, h, m)
    BY <1>1, WeeklyArgs
  <2>2. SlotOf(a) \in Weekly!Slots
    BY <2>1, SlotOfFields
  <2>3. \A slot \in Int : 0 <= slot /\ slot < 10080 => slot = (slot + (0 * 10)) % 10080
    OBVIOUS
  <2>4. SlotOf(a) = (SlotOf(a) + (0 * 10)) % 10080
    BY <2>2, <2>3, WeeklySlots
  <2> QED
    BY <1>1, <2>4, Lengths
<1>2. CASE a.day_of_week = Unused
  <2>1. a.hour \in 0..23 /\ a.minute \in 0..59
    BY Lengths DEF CronArgs
  <2> QED
    BY <1>2, <2>1, Lengths DEF TimeOf
<1> QED
  BY <1>1, <1>2

(* One more failure moves the schedule by one more delay. *)
LEMMA FailureAddsUp ==
  ASSUME TypeOK, SameKind, ShiftsAddUp, [Next]_vars, TypeOK'
  PROVE  SameKind' /\ ShiftsAddUp'
<1>1. CASE UNCHANGED vars
  BY <1>1 DEF vars, ShiftsAddUp, SameKind
<1>2. CASE Next
  <2>1. /\ args' = ShiftCronArgs(args, today') /\ start' = start
        /\ failures' = (failures + 1) % 1008
        /\ today' \in Int /\ args \in CronArgs /\ start \in CronArgs
        /\ failures \in 0..1007 /\ failures' \in Int
    BY <1>2, Lengths DEF Next, Fail, TypeOK
  <2>c. PICK count \in Int, next \in Int :
          /\ 0 <= count /\ count <= 1007 /\ next = (count + 1) % 1008
          /\ failures = count /\ failures' = next
    BY <2>1
  <2>2. CASE start.day_of_week # Unused
    <3>1. PICK d \in Days, h \in Hours, m \in Minutes : start = Fields(d, h, m)
      BY <2>1, <2>2, WeeklyArgs
    <3>2. SlotOf(start) \in Weekly!Slots
      BY <3>1, SlotOfFields
    <3>3. PICK weekday \in Days, hour \in Hours, minute \in Minutes :
            args = Fields(weekday, hour, minute)
      BY <2>1, <2>2, WeeklyArgs DEF SameKind
    <3>4. SlotOf(args) \in Weekly!Slots
      BY <3>3, SlotOfFields
    <3>5. /\ args'.day_of_week # Unused
          /\ SlotOf(args') = (SlotOf(args) + DelayMinutes) % MinutesPerWeek
      BY <2>1, <2>2, <3>4, ShiftIsShiftSlot, ShiftSlotWraps DEF SameKind
    <3>6. SlotOf(args) = (SlotOf(start) + failures * 10) % 10080
      BY <2>2, Lengths DEF ShiftsAddUp, SameKind
    <3>7. SlotOf(args') = (SlotOf(start) + failures' * 10) % 10080
      <4>1. PICK from \in Int : from = SlotOf(start)
        BY <3>2, WeeklySlots
      <4>2. (((from + (count * 10)) % 10080) + 10) % 10080 = (from + (next * 10)) % 10080
        BY <2>c, <4>1, CountsAround
      <4>3. SlotOf(args') = (SlotOf(args) + 10) % 10080
        BY <3>5, Lengths
      <4> QED
        BY <2>c, <3>6, <4>1, <4>2, <4>3
    <3> QED
      BY <2>1, <2>2, <3>5, <3>7, Lengths DEF ShiftsAddUp, SameKind
  <2>3. CASE start.day_of_week = Unused
    <3>1. TimeOf(start) \in Int
      BY <2>1, Lengths DEF TimeOf, CronArgs
    <3>2. /\ args'.day_of_week = Unused
          /\ TimeOf(args') = (TimeOf(args) + DelayMinutes) % MinutesPerDay
      BY <2>1, <2>3, DailyShift DEF SameKind
    <3>3. TimeOf(args) = (TimeOf(start) + failures * 10) % 1440
      BY <2>3, Lengths DEF ShiftsAddUp, SameKind, TimeOf
    <3>4. TimeOf(args') = (TimeOf(start) + failures' * 10) % 1440
      <4>1. PICK from \in Int : from = TimeOf(start)
        BY <3>1
      <4>2. (((from + (count * 10)) % 1440) + 10) % 1440 = (from + (next * 10)) % 1440
        BY <2>c, <4>1, CountsAround
      <4>3. TimeOf(args') = (TimeOf(args) + 10) % 1440
        BY <3>2, Lengths
      <4> QED
        BY <2>c, <3>3, <4>1, <4>2, <4>3
    <3> QED
      BY <2>1, <2>3, <3>2, <3>4, Lengths DEF ShiftsAddUp, SameKind, TimeOf
  <2> QED
    BY <2>2, <2>3
<1> QED
  BY <1>1, <1>2

(* The arguments of a chain of retries say how often it failed, whatever the days:
   the schedule drifts by one delay each time, and by nothing else.                *)
THEOREM FailuresAddUp == Spec => []ShiftsAddUp
<1>1. Init => SameKind /\ ShiftsAddUp
  BY RegisteredStays, CronShiftAssumption DEF Init, SameKind, ShiftsAddUp, TimeOf
<1>2. TypeOK /\ SameKind /\ ShiftsAddUp /\ TypeOK' /\ [Next]_vars => SameKind' /\ ShiftsAddUp'
  BY FailureAddsUp
<1> QED
  BY <1>1, <1>2, TypeCorrect, PTL DEF Spec

-----------------------------------------------------------------------------
(* Once a run has added today's tab, the tab is there and shown; at its end it is
   complete, or the day is one of those the code gives up.                       *)
TodaysTab ==
  /\ pc \in {"added", "written", "uploaded"} => day \in shown
  /\ pc = "uploaded" => tabs[day] = "formatted"
  /\ pc = "over" => day \in lapsed \/ (tabs[day] = "formatted" /\ day \in shown)
  /\ pc = "down" => day \in lapsed

(* There are no tabs of days to come, and those of the last days are shown. *)
LastDaysShown ==
  \A title \in There : title <= day /\ (day - KeepDays <= title => title \in shown)

(* The tally of a job that is not stopped is below the threshold. *)
TallyBelow == pc # "down" => tally < Threshold

DInv ==
  /\ DiscountsTypeOK
  /\ SameKind /\ ShiftsAddUp
  /\ TallyBelow
  /\ TodaysTab
  /\ LastDaysShown
  /\ NoDayIsSkipped

-----------------------------------------------------------------------------
(* The titles are whole numbers, and the spreadsheet's own tab is of no day kept. *)
LEMMA TitleTypes ==
  /\ Base \in Titles /\ Base \in Int /\ Base < -KeepDays
  /\ \A title \in Titles : title \in Int
  /\ 0..LastDay \subseteq Titles
  /\ KeepDays \in Nat /\ LastDay \in Nat /\ Threshold \in Nat \ {0}
BY DiscountsAssumption DEF Base, Titles

(* The invariant holds before the first run. *)
LEMMA DInit == DiscountsInit => DInv
<1> SUFFICES ASSUME DiscountsInit PROVE DInv
  OBVIOUS
<1>1. TypeOK
  <2>1. 0 \in 0..(MinutesPerWeek \div DelayMinutes - 1)
    BY Lengths
  <2> QED
    BY <2>1, CronShiftAssumption DEF DiscountsInit, Init, TypeOK
<1>2. SameKind /\ ShiftsAddUp
  BY RegisteredStays, CronShiftAssumption DEF DiscountsInit, Init, SameKind, ShiftsAddUp, TimeOf
<1>3. There = {Base} /\ shown = {Base} /\ tabs \in [Titles -> Stages]
  BY TitleTypes DEF DiscountsInit, There, Stages
<1>4. DiscountsTypeOK /\ TallyBelow
  BY <1>1, <1>3, TitleTypes DEF DiscountsInit, DiscountsTypeOK, TallyBelow
<1>5. LastDaysShown
  BY <1>3, TitleTypes DEF DiscountsInit, LastDaysShown
<1>6. TodaysTab /\ NoDayIsSkipped
  BY DEF DiscountsInit, TodaysTab, NoDayIsSkipped
<1> QED
  BY <1>1, <1>2, <1>4, <1>5, <1>6 DEF DInv

(* The steps that leave the schedule alone, and those of a failure. *)
LEMMA ScheduleKeeps ==
  ASSUME DInv, [Next]_vars
  PROVE  TypeOK' /\ SameKind' /\ ShiftsAddUp'
BY StepTypes, FailureAddsUp DEF DInv, DiscountsTypeOK

(* The schedule of a boot or of Sunday is the original one, with no failures since. *)
LEMMA RegisteringKeeps ==
  ASSUME DInv, start' = start, today' \in 0..(DaysPerWeek - 1), Registers
  PROVE  TypeOK' /\ SameKind' /\ ShiftsAddUp'
<1>1. start \in CronArgs /\ args' = start /\ failures' = 0
  BY DEF Registers, DInv, DiscountsTypeOK, TypeOK
<1>2. TypeOK'
  BY <1>1, Lengths DEF TypeOK
<1>3. SameKind' /\ ShiftsAddUp'
  BY <1>1, RegisteredStays DEF SameKind, ShiftsAddUp, TimeOf
<1> QED
  BY <1>2, <1>3

(* What is in the tabs stays true of the days that are over. *)
LEMMA SheetStays ==
  ASSUME DInv, UNCHANGED <<tabs, shown, day>>, lapsed \subseteq lapsed'
  PROVE  LastDaysShown' /\ NoDayIsSkipped'
BY DEF DInv, LastDaysShown, NoDayIsSkipped, There

(* The steps before the upload, and the day's export. *)
LEMMA BeforeUploadKeeps ==
  ASSUME DInv, _download_files \/ _process_report \/ Exports
  PROVE  DInv'
<1>1. UNCHANGED <<vars, tabs, shown, day, lapsed, tally>>
  BY DEF _download_files, _process_report, Exports, Goes, sheetVars
<1>2. TypeOK' /\ SameKind' /\ ShiftsAddUp'
  BY <1>1, ScheduleKeeps
<1>3. LastDaysShown' /\ NoDayIsSkipped'
  BY <1>1, SheetStays
<1>4. pc' \in {pc, "downloaded", "processed"} /\ newest' \in {newest, day}
  BY DEF _download_files, _process_report, Exports, Goes
<1>5. DiscountsTypeOK' /\ TallyBelow'
  <2>1. pc' = "down" => pc = "down"
    BY <1>4
  <2>2. There' = There
    BY <1>1 DEF There
  <2> QED
    BY <1>1, <1>2, <1>4, <2>1, <2>2, TitleTypes DEF _download_files, _process_report, Exports, Goes, DInv, DiscountsTypeOK, TallyBelow
<1>6. TodaysTab'
  BY <1>1, <1>4 DEF _download_files, _process_report, Exports, Goes, DInv, TodaysTab
<1> QED
  BY <1>2, <1>3, <1>5, <1>6 DEF DInv

(* The first batch: today's tab is there and shown, the last days' tabs stay. *)
LEMMA AddsTabKeeps ==
  ASSUME DInv, AddsTab
  PROVE  DInv'
<1>1. /\ UNCHANGED <<vars, day, newest, tally, lapsed>>
      /\ pc = "processed" /\ pc' = "added"
      /\ tabs' = [tabs EXCEPT ![day] = "empty"]
      /\ shown' = (shown \cap KeepDates) \cup {day}
  BY DEF AddsTab, Goes
<1>2. TypeOK' /\ SameKind' /\ ShiftsAddUp'
  BY <1>1, ScheduleKeeps
<1>3. /\ day \in 0..LastDay /\ day \in Titles /\ tabs \in [Titles -> Stages]
      /\ shown \subseteq There /\ LastDaysShown
  BY TitleTypes DEF DInv, DiscountsTypeOK
<1>4. There' = There \cup {day} /\ tabs' \in [Titles -> Stages]
  BY <1>1, <1>3 DEF There, Stages
<1>5. DiscountsTypeOK' /\ TallyBelow' /\ TodaysTab'
  <2>1. shown' \subseteq There'
    BY <1>1, <1>3, <1>4
  <2>2. There' = {title \in Titles : tabs'[title] # "absent"}
    BY DEF There
  <2> QED
    BY <1>1, <1>2, <1>3, <1>4, <2>1 DEF DInv, DiscountsTypeOK, TallyBelow, TodaysTab
<1>6. LastDaysShown'
  <2> SUFFICES ASSUME NEW title \in There'
               PROVE  title <= day /\ (day - KeepDays <= title => title \in shown')
    BY <1>1 DEF LastDaysShown
  <2>1. CASE title = day
    BY <1>1, <1>3, <2>1
  <2>2. CASE title # day
    <3>1. title \in There /\ title \in Int
      BY <1>4, <2>2, TitleTypes DEF There
    <3> QED
      BY <1>1, <1>3, <3>1, TitleTypes DEF LastDaysShown, KeepDates
  <2> QED
    BY <2>1, <2>2
<1>7. NoDayIsSkipped'
  <2> SUFFICES ASSUME NEW d \in 0..(day - 1), d \notin lapsed
               PROVE  tabs'[d] = "formatted" /\ (day - d <= KeepDays => d \in shown')
    BY <1>1 DEF NoDayIsSkipped
  <2>1. tabs[d] = "formatted" /\ (day - d <= KeepDays => d \in shown)
    BY DEF DInv, NoDayIsSkipped
  <2>2. d # day /\ (day - d <= KeepDays => d \in KeepDates)
    BY <1>3, TitleTypes DEF KeepDates
  <2> QED
    BY <1>1, <1>3, <2>1, <2>2
<1> QED
  BY <1>2, <1>5, <1>6, <1>7 DEF DInv

(* The other calls write into today's tab. *)
LEMMA WritingKeeps ==
  ASSUME DInv, WritesValues \/ Formats
  PROVE  DInv'
<1>1. PICK stage \in {"values", "formatted"} :
        /\ tabs' = [tabs EXCEPT ![day] = stage]
        /\ pc' = IF stage = "values" THEN "written" ELSE "uploaded"
  BY DEF WritesValues, Formats, Goes
<1>2. pc \in {"added", "written"} /\ UNCHANGED <<vars, day, newest, tally, lapsed, shown>>
  BY DEF WritesValues, Formats, Goes
<1>3. TypeOK' /\ SameKind' /\ ShiftsAddUp'
  BY <1>2, ScheduleKeeps
<1>4. /\ day \in 0..LastDay /\ day \in Titles /\ tabs \in [Titles -> Stages]
      /\ shown \subseteq There /\ day \in shown
  BY <1>2, TitleTypes DEF DInv, DiscountsTypeOK, TodaysTab
<1>5. There' = There /\ tabs' \in [Titles -> Stages] /\ tabs'[day] = stage
  BY <1>1, <1>2, <1>4 DEF There, Stages
<1>6. DiscountsTypeOK' /\ TallyBelow' /\ TodaysTab'
  BY <1>1, <1>2, <1>3, <1>4, <1>5 DEF DInv, DiscountsTypeOK, TallyBelow, TodaysTab
<1>7. LastDaysShown'
  BY <1>2, <1>5 DEF DInv, LastDaysShown
<1>8. NoDayIsSkipped'
  <2>1. \A d \in 0..(day - 1) : tabs'[d] = tabs[d]
    <3>1. \A d \in 0..(day - 1) : d \in Titles /\ d # day
      BY <1>4, TitleTypes
    <3> QED
      BY <1>1, <1>4, <3>1
  <2> QED
    BY <1>2, <2>1 DEF DInv, NoDayIsSkipped
<1> QED
  BY <1>3, <1>6, <1>7, <1>8 DEF DInv

(* A failed step: the tabs are as it found them. *)
LEMMA StepFailsKeeps ==
  ASSUME DInv, StepFails
  PROVE  DInv'
<1>1. /\ pc # "down" /\ UNCHANGED <<tabs, shown, day, newest>> /\ tally' = tally + 1
      /\ FailsCounted
  BY DEF StepFails, FailsCounted, sheetVars
<1>2. [Next]_vars
  BY <1>1 DEF FailsCounted, Next
<1>3. TypeOK' /\ SameKind' /\ ShiftsAddUp'
  BY <1>2, ScheduleKeeps
<1>4. tally \in 0..Threshold /\ tally < Threshold /\ day \in 0..LastDay /\ lapsed \subseteq 0..day
  BY <1>1 DEF DInv, DiscountsTypeOK, TallyBelow
<1>5. \/ pc' = "down" /\ lapsed' = lapsed \cup {day}
      \/ tally + 1 < Threshold /\ pc' = "waiting" /\ lapsed' = lapsed
      \/ tally + 1 < Threshold /\ pc' = "over" /\ lapsed' = lapsed \cup {day}
  BY <1>1, <1>4, TitleTypes DEF FailsCounted, StopsAt
<1>6. DiscountsTypeOK' /\ TallyBelow' /\ TodaysTab'
  <2>1. There' = There
    BY <1>1 DEF There
  <2>2. tally' \in 0..Threshold
    BY <1>1, <1>4, TitleTypes
  <2>3. lapsed' \subseteq 0..day
    <3>1. lapsed' \subseteq lapsed \cup {day}
      BY <1>5
    <3>2. day \in 0..day
      BY <1>4
    <3> QED
      BY <1>4, <3>1, <3>2
  <2> QED
    BY <1>1, <1>3, <1>4, <1>5, <2>1, <2>2, <2>3 DEF DInv, DiscountsTypeOK, TallyBelow, TodaysTab
<1>7. LastDaysShown' /\ NoDayIsSkipped'
  <2>1. lapsed \subseteq lapsed'
    BY <1>5
  <2> QED
    BY <1>1, <2>1, SheetStays
<1> QED
  BY <1>3, <1>6, <1>7 DEF DInv

(* A clean run ends with the tab complete. *)
LEMMA SendsEmailKeeps ==
  ASSUME DInv, SendsEmail
  PROVE  DInv'
<1>1. TypeOK' /\ SameKind' /\ ShiftsAddUp'
  BY ScheduleKeeps DEF SendsEmail
<1>2. LastDaysShown' /\ NoDayIsSkipped'
  BY SheetStays DEF SendsEmail, sheetVars
<1>3. There' = There
  BY DEF SendsEmail, There, sheetVars
<1>4. DiscountsTypeOK' /\ TallyBelow' /\ TodaysTab'
  BY <1>1, <1>3, TitleTypes
     DEF SendsEmail, sheetVars, DInv, DiscountsTypeOK, TallyBelow, TodaysTab
<1> QED
  BY <1>1, <1>2, <1>4 DEF DInv

(* A day that is over is complete or given up; the new one has no tab yet. *)
LEMMA NextDayKeeps ==
  ASSUME DInv, NextDay
  PROVE  DInv'
<1>1. /\ pc \in {"over", "down"} /\ day < LastDay /\ day' = day + 1
      /\ today' = (today + 1) % DaysPerWeek /\ UNCHANGED <<start, newest, tally, tabs, shown>>
      /\ \/ pc = "over" /\ pc' = "waiting" /\ lapsed' = lapsed
         \/ pc = "down" /\ pc' = "down" /\ lapsed' = lapsed \cup {day'}
  BY DEF NextDay, sheetVars
<1>2. /\ day \in 0..LastDay /\ today \in 0..(DaysPerWeek - 1) /\ lapsed \subseteq 0..day
      /\ newest \in -1..day
  BY DEF DInv, DiscountsTypeOK, TypeOK
<1>3. today' \in 0..(DaysPerWeek - 1)
  BY <1>1, <1>2, Lengths
<1>4. TypeOK' /\ SameKind' /\ ShiftsAddUp'
  <2>1. CASE today' = 0
    BY <1>1, <1>3, <2>1, RegisteringKeeps DEF NextDay
  <2>2. CASE today' # 0
    BY <1>1, <1>3, <2>2 DEF NextDay, DInv, DiscountsTypeOK, TypeOK, SameKind, ShiftsAddUp
  <2> QED
    BY <2>1, <2>2
<1>5. DiscountsTypeOK' /\ TallyBelow' /\ TodaysTab'
  <2>1. There' = There
    BY <1>1 DEF There
  <2>2. day' \in 0..LastDay /\ newest' \in -1..day'
    BY <1>1, <1>2, TitleTypes
  <2>3. lapsed' \subseteq 0..day'
    <3>1. lapsed' \subseteq lapsed \cup {day'}
      BY <1>1
    <3>2. 0..day \subseteq 0..day' /\ day' \in 0..day'
      BY <1>1, <1>2
    <3> QED
      BY <1>2, <3>1, <3>2
  <2> QED
    BY <1>1, <1>4, <2>1, <2>2, <2>3 DEF DInv, DiscountsTypeOK, TallyBelow, TodaysTab
<1>6. LastDaysShown'
  <2> SUFFICES ASSUME NEW title \in There
               PROVE  title <= day' /\ (day' - KeepDays <= title => title \in shown)
    <3>1. There' = There
      BY <1>1 DEF There
    <3> QED
      BY <1>1, <3>1 DEF LastDaysShown
  <2>1. title \in Int /\ title <= day /\ (day - KeepDays <= title => title \in shown)
    BY TitleTypes DEF DInv, LastDaysShown, There
  <2> QED
    BY <1>1, <1>2, <2>1, TitleTypes
<1>7. NoDayIsSkipped'
  <2> SUFFICES ASSUME NEW d \in 0..day, d \notin lapsed'
               PROVE  tabs[d] = "formatted" /\ (day + 1 - d <= KeepDays => d \in shown)
    BY <1>1, <1>2 DEF NoDayIsSkipped
  <2>1. d \notin lapsed
    BY <1>1
  <2>2. CASE d = day
    BY <1>1, <2>1, <2>2 DEF DInv, TodaysTab
  <2>3. CASE d # day
    <3>1. d \in 0..(day - 1)
      BY <1>2, <2>3
    <3>2. tabs[d] = "formatted" /\ (day - d <= KeepDays => d \in shown)
      BY <2>1, <3>1 DEF DInv, NoDayIsSkipped
    <3> QED
      BY <1>2, <3>1, <3>2, TitleTypes
  <2> QED
    BY <2>2, <2>3
<1> QED
  BY <1>4, <1>5, <1>6, <1>7 DEF DInv

(* A restart leaves the sheet alone. *)
LEMMA RestartKeeps ==
  ASSUME DInv, Restart
  PROVE  DInv'
<1>1. TypeOK' /\ SameKind' /\ ShiftsAddUp'
  BY RegisteringKeeps DEF Restart, DInv, DiscountsTypeOK, TypeOK
<1>2. LastDaysShown' /\ NoDayIsSkipped'
  BY SheetStays DEF Restart, sheetVars
<1>3. There' = There
  BY DEF Restart, There, sheetVars
<1>4. DiscountsTypeOK' /\ TallyBelow' /\ TodaysTab'
  BY <1>1, <1>3, TitleTypes
     DEF Restart, sheetVars, DInv, DiscountsTypeOK, TallyBelow, TodaysTab
<1> QED
  BY <1>1, <1>2, <1>4 DEF DInv

(* Every step keeps the invariant, action by action. *)
LEMMA DNext == DInv /\ [DiscountsNext]_allVars => DInv'
<1> SUFFICES ASSUME DInv, [DiscountsNext]_allVars PROVE DInv'
  OBVIOUS
<1>1. CASE JobStep
  BY <1>1, BeforeUploadKeeps, AddsTabKeeps, WritingKeeps, StepFailsKeeps, SendsEmailKeeps,
     NextDayKeeps, RestartKeeps DEF JobStep
<1>2. CASE [Next]_vars /\ UNCHANGED jobVars
  <2>1. TypeOK' /\ SameKind' /\ ShiftsAddUp'
    BY <1>2, ScheduleKeeps
  <2>2. There' = There
    BY <1>2 DEF There, jobVars
  <2> QED
    BY <1>2, <2>1, <2>2
       DEF jobVars, DInv, DiscountsTypeOK, TallyBelow, TodaysTab, LastDaysShown, NoDayIsSkipped
<1> QED
  BY <1>1, <1>2 DEF DiscountsNext, Next, allVars

(* The invariant holds in every reachable state. *)
LEMMA DInvariance == DiscountsSpec => []DInv
BY DInit, DNext, PTL DEF DiscountsSpec

-----------------------------------------------------------------------------
(* The day's run, the tabs and the schedule are well-typed; no tally passes the
   threshold, whatever fails.                                                   *)
THEOREM DiscountsTypeCorrect == DiscountsSpec => []DiscountsTypeOK
<1>1. DInv => DiscountsTypeOK
  BY DEF DInv
<1> QED
  BY <1>1, DInvariance, PTL

(* The retries of EmployeeDiscountsJob move its schedule by one delay each, between
   two registrations.                                                              *)
THEOREM DiscountsAddUp == DiscountsSpec => []ShiftsAddUp
<1>1. DInv => ShiftsAddUp
  BY DEF DInv
<1> QED
  BY <1>1, DInvariance, PTL

(* Whichever calls of _upload_to_sheets fail and are tried again, each day's report
   ends up complete in its tab, and the last days' tabs stay shown.                *)
THEOREM EachDayHasItsTab == DiscountsSpec => []NoDayIsSkipped
<1>1. DInv => NoDayIsSkipped
  BY DEF DInv
<1> QED
  BY <1>1, DInvariance, PTL

(* The retry of an upload finds the batch refused only after days without a tab. *)
THEOREM OnlyGapsBar == DiscountsSpec => []OnlyAGapBarsTheRetry
<1>1. DInv => OnlyAGapBarsTheRetry
  <2> SUFFICES ASSUME DInv, tabs[day] # "absent", NoneLeftShown
               PROVE  There \cap (day - KeepDays)..day = {day}
    BY DEF OnlyAGapBarsTheRetry
  <2>1. day \in There /\ day \in Int /\ KeepDays \in Nat
    BY TitleTypes DEF DInv, DiscountsTypeOK, There
  <2>2. \A title \in There : day - KeepDays <= title => title = day
    BY DEF DInv, LastDaysShown, NoneLeftShown
  <2> QED
    BY <2>1, <2>2
<1> QED
  BY <1>1, DInvariance, PTL
=============================================================================
