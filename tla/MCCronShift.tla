---------------------------- MODULE MCCronShift ----------------------------
(* Schedules for TLC, at minute precision. *)
EXTENDS EmployeeDiscounts

(* FlipSheetJob, Sunday 23:59: its first retry is on the next day. *)
MCFlipSheet == [day_of_week |-> 0, hour |-> 23, minute |-> 59]

(* A daily schedule of any other job, which goes around the day. *)
MCNightly == [day_of_week |-> Unused, hour |-> 23, minute |-> 55]

(* EmployeeDiscountsJob, daily at 05:00. *)
MCDiscounts == [day_of_week |-> Unused, hour |-> 5, minute |-> 0]

MCStarts == {MCFlipSheet, MCNightly, MCDiscounts}
=============================================================================
