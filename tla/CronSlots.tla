------------------------------ MODULE CronSlots ------------------------------
(***************************************************************************)
(* Calendar arithmetic of the schedules: a weekly cron trigger is one slot  *)
(* of the week, an instant is a week number and a slot.  A slot stands for  *)
(* the day_of_week / hour / minute / second fields of a CronArgs.           *)
(*                                                                         *)
(* `ShiftSlot' is what JobBase.shift_cron_args computes for arguments with  *)
(* a day of the week; module CronShift derives it from the field level.    *)
(* `NextFire' and its companions are APScheduler's CronTrigger (external). *)
(***************************************************************************)
EXTENDS Naturals

CONSTANTS
  WeekLen,  \* slots in a week
  Delay     \* JobBase.reschedule_delay_minutes, in slots

ASSUME CronSlotsAssumption ==
  /\ WeekLen \in Nat \ {0}
  /\ Delay \in 1..(WeekLen - 1)

Slots == 0..(WeekLen - 1)

Instants == [week : Nat, slot : Slots]

At(week, slot) == [week |-> week, slot |-> slot]

Before(i, k) ==
  \/ i.week < k.week
  \/ i.week = k.week /\ i.slot < k.slot

NotAfter(i, k) == Before(i, k) \/ i = k

(* The instant d slots after i, for d shorter than a week. *)
Later(i, d) ==
  IF i.slot + d < WeekLen
    THEN At(i.week, i.slot + d)
    ELSE At(i.week + 1, i.slot + d - WeekLen)

-----------------------------------------------------------------------------
(* CronTrigger.get_next_fire_time(None, now): the first match not before now. *)
NextFire(slot, now) ==
  At(IF slot < now.slot THEN now.week + 1 ELSE now.week, slot)

(* The first match after now, once the due runs have been handed out. *)
FollowingFire(slot, now) ==
  At(IF slot <= now.slot THEN now.week + 1 ELSE now.week, slot)

(* The run time of a due job: `coalesce' keeps the latest match not after now. *)
DueFire(slot, now) ==
  At(IF slot <= now.slot THEN now.week ELSE now.week - 1, slot)

(* Mutant: the delay is added twice.                                          *)
ShiftSlotTwice(slot) == Later(Later(At(0, slot), Delay), Delay).slot

(* shift_cron_args(main_cron_args, 10 minutes): the same fields, Delay later, *)
(* wrapping from Saturday night to Sunday.                                    *)
ShiftSlot(slot) == Later(At(0, slot), Delay).slot
=============================================================================
