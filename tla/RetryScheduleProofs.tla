------------------------ MODULE RetryScheduleProofs ------------------------
(***************************************************************************)
(* What the operators of RetrySchedule keep: the lemmas for the proofs of   *)
(* the modules that extend it.                                              *)
(***************************************************************************)
EXTENDS RetrySchedule, TLAPS

(* The calendar stays within its weeks. *)
LEMMA CalendarTypes ==
  /\ \A s \in Slots : ShiftSlot(s) \in Slots
  /\ \A i \in Instants : Later(i, 1) \in Instants
  /\ \A s \in Slots, i \in Instants :
       NextFire(s, i) \in Instants /\ FollowingFire(s, i) \in Instants
  /\ 0 \in Slots
BY CronSlotsAssumption
   DEF Slots, Instants, ShiftSlot, Later, NextFire, FollowingFire, At

(* The schedule is well-typed at boot. *)
LEMMA BootsType == Boots => ScheduleTypeOK
<1> SUFFICES ASSUME Boots PROVE ScheduleTypeOK
  OBVIOUS
<1>1. clock \in Instants
  BY DEF Boots, Instants
<1>2. next \in Instants /\ reset \in Instants
  BY <1>1, CalendarTypes, RetryScheduleAssumption DEF Boots
<1>3. args \in Slots /\ errCounter \in 0..Threshold
  BY RetryScheduleAssumption DEF Boots
<1>4. errored \in BOOLEAN
  BY Zenon DEF Boots
<1> QED
  BY <1>1, <1>2, <1>3, <1>4 DEF ScheduleTypeOK

(* A wakeup keeps it so. *)
LEMMA HandsOutType == ScheduleTypeOK /\ HandsOut => ScheduleTypeOK'
<1> SUFFICES ASSUME ScheduleTypeOK, HandsOut PROVE ScheduleTypeOK'
  OBVIOUS
<1>1. CASE ResetDue
  BY <1>1, CalendarTypes, RetryScheduleAssumption DEF HandsOut, ScheduleTypeOK
<1>2. CASE ~ResetDue
  BY <1>2, CalendarTypes DEF HandsOut, ScheduleTypeOK
<1> QED
  BY <1>1, <1>2

(* The end of a run keeps it so, as long as it is not an end of a frozen job. *)
LEMMA SettlesType ==
  ASSUME NEW outcome, ScheduleTypeOK, errCounter < Threshold, Settles(outcome),
         clock' = clock
  PROVE  ScheduleTypeOK' /\ (errCounter' = Threshold => errored')
<1> USE RetryScheduleAssumption
<1>1. CASE EndsClean
  BY <1>1 DEF EndsClean, slotVars, ScheduleTypeOK
<1>2. ASSUME NEW count \in 0..(Threshold - 1), RetriesLater(count)
      PROVE  ScheduleTypeOK' /\ errCounter' # Threshold
  BY <1>2, CalendarTypes DEF RetriesLater, ScheduleTypeOK
<1>3. ASSUME NEW count \in 0..Threshold, Freezes(count)
      PROVE  ScheduleTypeOK' /\ errored'
  BY <1>3 DEF Freezes, slotVars, ScheduleTypeOK
<1>4. errCounter \in 0..(Threshold - 1)
  BY DEF ScheduleTypeOK
<1>5. CASE RetriesLater(errCounter)
  BY <1>2, <1>4, <1>5
<1>6. CASE ~ReachesThreshold /\ RetriesLater(errCounter + 1)
  <2>1. errCounter + 1 \in 0..(Threshold - 1)
    BY <1>4, <1>6 DEF ReachesThreshold
  <2> QED
    BY <1>2, <1>6, <2>1
<1>7. CASE Freezes(errCounter + 1)
  BY <1>3, <1>4, <1>7
<1>8. CASE Freezes(errCounter)
  BY <1>3, <1>4, <1>8
<1> QED
  BY <1>1, <1>5, <1>6, <1>7, <1>8 DEF Settles, EndsClean

(* The clock keeps it so. *)
LEMMA TimePassesType == ScheduleTypeOK /\ TimePasses => ScheduleTypeOK'
BY CalendarTypes DEF TimePasses, scheduleVars, slotVars, ScheduleTypeOK
-----------------------------------------------------------------------------
(* The schedule is never behind the clock: what is due is due at this instant.  *)

Punctual ==
  /\ NotAfter(clock, next)
  /\ next.slot = args
  /\ NotAfter(clock, reset)
  /\ reset.slot = 0
  /\ reset.week <= clock.week + 1

(* Instants are told apart by their fields. *)
LEMMA SameInstant ==
  ASSUME NEW i \in Instants, NEW k \in Instants, i.week = k.week, i.slot = k.slot
  PROVE  i = k
BY DEF Instants

(* Two instants are in the order of their fields. *)
LEMMA InstantOrder ==
  ASSUME NEW i \in Instants, NEW k \in Instants
  PROVE  /\ NotAfter(i, k) <=> i.week < k.week \/ (i.week = k.week /\ i.slot <= k.slot)
         /\ ~NotAfter(i, k) => Before(k, i)
         /\ NotAfter(i, i)
BY SameInstant DEF NotAfter, Before, Instants, Slots

(* A cron trigger's next time is not behind the clock. *)
LEMMA FiresAhead ==
  ASSUME NEW slot \in Slots, NEW now \in Instants
  PROVE  /\ NextFire(slot, now).slot = slot
         /\ NextFire(slot, now).week = IF slot < now.slot THEN now.week + 1 ELSE now.week
         /\ NotAfter(now, NextFire(slot, now))
         /\ FollowingFire(slot, now).slot = slot
         /\ FollowingFire(slot, now).week = IF slot <= now.slot THEN now.week + 1 ELSE now.week
         /\ Before(now, FollowingFire(slot, now))
<1>1. /\ NextFire(slot, now).slot = slot
      /\ NextFire(slot, now).week = IF slot < now.slot THEN now.week + 1 ELSE now.week
      /\ FollowingFire(slot, now).slot = slot
      /\ FollowingFire(slot, now).week = IF slot <= now.slot THEN now.week + 1 ELSE now.week
  BY DEF NextFire, FollowingFire, At
<1>2. NextFire(slot, now) \in Instants
  BY CalendarTypes
<1>3. NotAfter(now, NextFire(slot, now))
  BY <1>1, <1>2, InstantOrder DEF Instants, Slots
<1>4. Before(now, FollowingFire(slot, now))
  BY <1>1 DEF Before, Instants, Slots
<1> QED
  BY <1>1, <1>3, <1>4

(* Less than a week later is in this week or the next. *)
LEMMA LaterIs ==
  ASSUME NEW i \in Instants, NEW d \in 0..(WeekLen - 1)
  PROVE  /\ Later(i, d) \in Instants
         /\ \/ Later(i, d).week = i.week /\ Later(i, d).slot = i.slot + d
            \/ Later(i, d).week = i.week + 1 /\ Later(i, d).slot = i.slot + d - WeekLen
BY CronSlotsAssumption DEF Instants, Slots, Later, At

(* A slot later, or the first slot of the week after. *)
LEMMA TheNextInstant ==
  ASSUME NEW now \in Instants
  PROVE  /\ Later(now, 1) \in Instants
         /\ \/ Later(now, 1).week = now.week /\ Later(now, 1).slot = now.slot + 1
            \/ Later(now, 1).week = now.week + 1 /\ Later(now, 1).slot = 0 /\ now.slot = WeekLen - 1
BY CronSlotsAssumption DEF Instants, Slots, Later, At

(* The clock does not jump over an instant. *)
LEMMA NoInstantIsSkipped ==
  ASSUME NEW now \in Instants, NEW i \in Instants, Before(now, i)
  PROVE  NotAfter(Later(now, 1), i)
BY TheNextInstant, InstantOrder DEF Before, Instants, Slots

LEMMA BootsPunctual == Boots => Punctual
<1> SUFFICES ASSUME Boots PROVE Punctual
  OBVIOUS
<1>1. clock \in Instants /\ Main \in Slots /\ 0 \in Slots /\ clock.week \in Nat
  BY CalendarTypes, RetryScheduleAssumption DEF Boots, Instants
<1> QED
  BY <1>1, FiresAhead DEF Boots, Punctual

LEMMA HandsOutPunctual == ScheduleTypeOK /\ Punctual /\ HandsOut => Punctual'
<1> SUFFICES ASSUME ScheduleTypeOK, Punctual, HandsOut PROVE Punctual'
  OBVIOUS
<1>1. clock \in Instants /\ clock' = clock /\ args \in Slots /\ clock.week \in Nat
  BY DEF ScheduleTypeOK, HandsOut, Instants
<1>2. CASE ResetDue
  <2>1. args' = Main /\ next' = NextFire(Main, clock) /\ reset' = FollowingFire(0, clock)
    BY <1>2 DEF HandsOut
  <2>2. Main \in Slots /\ 0 \in Slots
    BY CalendarTypes, RetryScheduleAssumption
  <2> QED
    BY <1>1, <2>1, <2>2, FiresAhead DEF Punctual, NotAfter
<1>3. CASE ~ResetDue
  <2>1. args' = args /\ next' = FollowingFire(args, clock) /\ reset' = reset
    BY <1>3 DEF HandsOut
  <2> QED
    BY <1>1, <2>1, FiresAhead DEF Punctual, NotAfter
<1> QED
  BY <1>2, <1>3

LEMMA SettlesPunctual ==
  ASSUME NEW outcome, ScheduleTypeOK, Punctual, Settles(outcome), clock' = clock
  PROVE  Punctual'
<1>1. clock \in Instants /\ ShiftSlot(args) \in Slots
  BY CalendarTypes DEF ScheduleTypeOK
<1>2. ASSUME NEW count, RetriesLater(count)
      PROVE  Punctual'
  BY <1>1, <1>2, FiresAhead DEF RetriesLater, Punctual
<1>3. ASSUME UNCHANGED slotVars
      PROVE  Punctual'
  BY <1>3 DEF slotVars, Punctual
<1> QED
  BY <1>2, <1>3 DEF Settles, EndsClean, Freezes

LEMMA TimePassesPunctual == ScheduleTypeOK /\ Punctual /\ TimePasses => Punctual'
<1> SUFFICES ASSUME ScheduleTypeOK, Punctual, TimePasses PROVE Punctual'
  OBVIOUS
<1>1. /\ clock \in Instants /\ next \in Instants /\ reset \in Instants
      /\ clock' = Later(clock, 1) /\ UNCHANGED slotVars
  BY DEF ScheduleTypeOK, TimePasses, scheduleVars
<1>2. Before(clock, next) /\ Before(clock, reset)
  BY <1>1, InstantOrder DEF TimePasses, JobDue, ResetDue
<1>3. NotAfter(clock', next) /\ NotAfter(clock', reset)
  BY <1>1, <1>2, NoInstantIsSkipped
<1>4. reset.week <= clock'.week + 1
  BY <1>1, TheNextInstant DEF Punctual, Instants
<1> QED
  BY <1>1, <1>3, <1>4 DEF slotVars, Punctual
-----------------------------------------------------------------------------
(* The time that a chain of retries takes. *)

RetriesTake(n) == Delay * n

(* Retries add up. *)
LEMMA RetriesAddUp ==
  /\ \A n \in Nat : RetriesTake(n) \in Nat /\ RetriesTake(n + 1) = RetriesTake(n) + Delay
  /\ \A n \in Nat : \A m \in 0..n : RetriesTake(m) <= RetriesTake(n)
<1>1. Delay \in Nat
  BY CronSlotsAssumption
<1>2. ASSUME NEW n \in Nat
      PROVE  RetriesTake(n) \in Nat /\ RetriesTake(n + 1) = RetriesTake(n) + Delay
  BY <1>1 DEF RetriesTake
<1>3. ASSUME NEW n \in Nat, NEW m \in 0..n
      PROVE  RetriesTake(m) <= RetriesTake(n)
  <2>1. n - m \in Nat /\ n = m + (n - m) /\ m \in Nat
    OBVIOUS
  <2>2. Delay * (n - m) \in Nat /\ Delay * n = Delay * m + Delay * (n - m)
    BY <1>1, <2>1
  <2> QED
    BY <1>1, <2>1, <2>2 DEF RetriesTake
<1> QED
  BY <1>2, <1>3
-----------------------------------------------------------------------------
(* What a step makes of the schedule, whoever takes it. *)
ScheduleStep ==
  \/ HandsOut
  \/ UNCHANGED clock /\ \E outcome \in Outcomes : Settles(outcome)
  \/ TimePasses
  \/ UNCHANGED <<clock, scheduleVars>>

LEMMA StaysPunctual == ScheduleTypeOK /\ Punctual /\ ScheduleStep => Punctual'
<1>1. UNCHANGED <<clock, scheduleVars>> /\ Punctual => Punctual'
  BY DEF Punctual, scheduleVars, slotVars
<1> QED
  BY <1>1, HandsOutPunctual, SettlesPunctual, TimePassesPunctual DEF ScheduleStep

(* What is handed out is handed out in its own slot: reschedule_jobs at the begin of
   the week.                                                                         *)
LEMMA HandsOutInTime ==
  ASSUME ScheduleTypeOK, Punctual, HandsOut
  PROVE  /\ UNCHANGED <<clock, errCounter, errored>>
         /\ ResetDue => clock.slot = 0 /\ args' = Main /\ next' = NextFire(Main, clock)
         /\ ~ResetDue => JobDue /\ args' = args /\ next' = FollowingFire(args, clock)
<1>1. ResetDue => clock.slot = 0
  <2>1. clock \in Instants /\ reset \in Instants
    BY DEF ScheduleTypeOK
  <2> QED
    BY <2>1, InstantOrder DEF Punctual, ResetDue, Instants, Slots
<1> QED
  BY <1>1 DEF HandsOut

(* The end of a run counts no further than the threshold. *)
LEMMA SettlesWithin ==
  ASSUME NEW outcome, ScheduleTypeOK, errCounter < Threshold, Settles(outcome)
  PROVE  \/ EndsClean
         \/ \E count \in {errCounter, errCounter + 1} :
              \/ count < Threshold /\ RetriesLater(count)
              \/ count \in {errCounter, Threshold} /\ Freezes(count)
<1>1. errCounter \in Nat /\ Threshold \in Nat
  BY RetryScheduleAssumption DEF ScheduleTypeOK
<1>2. /\ ReachesThreshold => errCounter + 1 = Threshold
      /\ ~ReachesThreshold => errCounter + 1 < Threshold
  BY <1>1 DEF ReachesThreshold
<1> QED
  BY <1>2 DEF Settles
=============================================================================
