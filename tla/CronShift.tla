------------------------------ MODULE CronShift ------------------------------
(***************************************************************************)
(* JobBase.shift_cron_args on the fields of a CronArgs, with the calendar's *)
(* real lengths, and the chain of retries it makes when a job fails again   *)
(* and again: each failure, whenever it comes, shifts the arguments of the  *)
(* one before.  Instants are wall-clock: aware datetimes are added so.      *)
(***************************************************************************)
EXTENDS Integers

CONSTANTS
  Starts,   \* main_cron_args as registered, of the jobs considered
  MaxGap    \* bound: days from one failure to the next

DaysPerWeek == 7

HoursPerDay == 24

MinutesPerHour == 60

MinutesPerDay == HoursPerDay * MinutesPerHour

MinutesPerWeek == DaysPerWeek * MinutesPerDay

(* reschedule_delay_minutes *)
DelayMinutes == 10

(* A daily trigger has no day_of_week. *)
Unused == -1

(* The fields a CronArgs of startup.jobs uses; the week starts on Sunday.  The
   delay does not touch the second.                                           *)
CronArgs == [day_of_week : 0..(DaysPerWeek - 1) \cup {Unused},
             hour : 0..(HoursPerDay - 1),
             minute : 0..(MinutesPerHour - 1)]

ASSUME CronShiftAssumption ==
  /\ Starts \subseteq CronArgs
  /\ MaxGap \in Nat

VARIABLES
  start,     \* the job's arguments as registered
  args,      \* main_cron_args
  today,     \* the day of the last failure; day 0 is a Sunday
  failures   \* how many there were (history)

vars == <<start, args, today, failures>>

-----------------------------------------------------------------------------
(* relativedelta(weekday=DAY(-1)): the last such day, the day itself included. *)
LastWeekday(day, day_of_week) ==
  IF day_of_week = Unused THEN day ELSE day - ((day - day_of_week) % DaysPerWeek)

(* Minutes, from day 0, of the arguments' time on the day they are based on. *)
BaseMinutes(a, day) ==
  LastWeekday(day, a.day_of_week) * MinutesPerDay + a.hour * MinutesPerHour + a.minute

(* The fields of an instant, those the arguments use. *)
FieldsOf(a, minutes) ==
  [day_of_week |-> IF a.day_of_week = Unused
                     THEN Unused ELSE (minutes \div MinutesPerDay) % DaysPerWeek,
   hour        |-> (minutes \div MinutesPerHour) % HoursPerDay,
   minute      |-> minutes % MinutesPerHour]

(* Mutant: the minute does not carry. *)
ShiftUncarried(a, day) == [a EXCEPT !.minute = @ + DelayMinutes]

(* Mutant: the hour does not carry into the day. *)
ShiftWithinDay(a, day) ==
  [FieldsOf(a, BaseMinutes(a, day) + DelayMinutes) EXCEPT !.day_of_week = a.day_of_week]

ShiftCronArgs(a, day) == FieldsOf(a, BaseMinutes(a, day) + DelayMinutes)

Init ==
  /\ start \in Starts
  /\ args = start
  /\ today \in 0..(DaysPerWeek - 1)
  /\ failures = 0

(* error_reschedule on some later day: the shift reads the date, not the time. *)
Fail ==
  /\ \E gap \in 0..MaxGap : today' = (today + gap) % DaysPerWeek
  /\ args' = ShiftCronArgs(args, today')
  /\ failures' = (failures + 1) % (MinutesPerWeek \div DelayMinutes)
  /\ UNCHANGED start

Next == Fail

Spec == Init /\ [][Next]_vars

-----------------------------------------------------------------------------
(* The weekly calendar of JobScheduling, a minute to a slot. *)
Weekly == INSTANCE CronSlots WITH WeekLen <- MinutesPerWeek, Delay <- DelayMinutes

(* The slot of arguments with a day of the week. *)
SlotOf(a) == a.day_of_week * MinutesPerDay + a.hour * MinutesPerHour + a.minute

TypeOK ==
  /\ start \in CronArgs
  /\ args \in CronArgs
  /\ today \in 0..(DaysPerWeek - 1)
  /\ failures \in 0..(MinutesPerWeek \div DelayMinutes - 1)

(* Whatever the days on which the failures come, n of them move a weekly schedule
   by n delays, around the week, and a daily one around the day: the arguments alone
   say where a job is, and the slots of JobScheduling stand for them.             *)
ShiftsAddUp ==
  LET shifted == failures * DelayMinutes IN
  IF start.day_of_week # Unused
    THEN SlotOf(args) = (SlotOf(start) + shifted) % MinutesPerWeek
    ELSE /\ args.day_of_week = Unused
         /\ args.hour * MinutesPerHour + args.minute
              = (start.hour * MinutesPerHour + start.minute + shifted) % MinutesPerDay

(* Each failure is CronSlots' shift of the slot. *)
ShiftsLikeCronSlots ==
  [][args.day_of_week # Unused => SlotOf(args') = Weekly!ShiftSlot(SlotOf(args))]_vars
=============================================================================
