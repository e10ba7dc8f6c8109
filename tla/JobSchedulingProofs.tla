------------------------- MODULE JobSchedulingProofs -------------------------
(***************************************************************************)
(* Proofs about JobScheduling for every set of jobs, week length, delay and *)
(* threshold: the type invariant, StoreFollowsArgs, FrozenJobsAreReported,  *)
(* RunsSettleBeforeStop, NoBodyAfterStop and RetryKeepsPace from one        *)
(* inductive invariant; WakesForEveryRun is one by itself.  The pace of the  *)
(* schedules, PaceInv, gives OnlyLongRunsCostASlot where the jobs' slots     *)
(* leave room at both ends of the week; and each job lives as JobLife        *)
(* promises.                                                                *)
(***************************************************************************)
EXTENDS JobScheduling, FiniteSetTheorems, TLAPS

(* A body between its first step and the settling of its end. *)
AtWork == {"inline", "awaiting", "tail", "thread", "finished"}

(* An instance is taken exactly while the id has a task that is not over. *)
InstancesMatchRuns == \A id \in Ids : instances[id] = 0 <=> task[id].pc = "idle"

(* reschedule_jobs has no await: it is never seen at work. *)
ResetIsBrief == task[Reset].pc \notin AtWork

(* A run is not ahead of its time. *)
RunsAreDue == \A id \in Ids : task[id].pc # "idle" => NotAfter(task[id].sched, clock)

(* A job freezes at its own end of a run, and begins none after. *)
FrozenJobsRest == \A j \in Jobs : errored[j] => task[j].pc \notin AtWork

(* Reaching the threshold freezes. *)
ThresholdFreezes == \A j \in Jobs : errCounter[j] = Threshold => errored[j]

(* Only the end of main() stops the scheduler. *)
StoppedByMain == scheduler = "stopped" => main = "complete"

IInv ==
  /\ TypeOK
  /\ StoreFollowsArgs
  /\ InstancesMatchRuns
  /\ ResetIsBrief
  /\ RunsAreDue
  /\ FrozenJobsRest
  /\ ThresholdFreezes
  /\ FrozenJobsAreReported
  /\ StoppedByMain
  /\ RunsSettleBeforeStop

-----------------------------------------------------------------------------
(* Slots and instants *)

(* The calendar stays within its weeks, and a fire is on its trigger's slot. *)
LEMMA SlotTypes ==
  /\ \A s \in Slots : ShiftSlot(s) \in Slots
  /\ \A i \in Instants, d \in 0..(WeekLen - 1) : Later(i, d) \in Instants
  /\ \A s \in Slots, i \in Instants : NextFire(s, i) \in Instants /\ NextFire(s, i).slot = s
  /\ \A s \in Slots, i \in Instants :
       FollowingFire(s, i) \in Instants /\ FollowingFire(s, i).slot = s
BY CronSlotsAssumption
   DEF Slots, Instants, ShiftSlot, Later, NextFire, FollowingFire, At

(* The run time handed to a due job is an instant, and not ahead. *)
LEMMA DueFireType ==
  ASSUME NEW now \in Instants, NEW next \in Instants, NotAfter(next, now)
  PROVE  /\ DueFire(next.slot, now) \in Instants
         /\ NotAfter(DueFire(next.slot, now), now)
BY CronSlotsAssumption DEF Slots, Instants, NotAfter, Before, DueFire, At

(* A tick keeps what is past in the past. *)
LEMMA LaterIsAfter ==
  ASSUME NEW i \in Instants, NEW now \in Instants, NotAfter(i, now)
  PROVE  NotAfter(i, Later(now, 1))
BY CronSlotsAssumption DEF Slots, Instants, NotAfter, Before, Later, At

(* The handles the actions queue. *)
LEMMA HandleTypes ==
  /\ {Process, Main, Freeze, Stop} \subseteq Handles
  /\ \A id \in Ids : {Start(id), Resume(id), Done(id)} \subseteq Handles
BY DEF Handles, Process, Main, Freeze, Stop, Start, Resume, Done

(* Running a handle, and queueing one, leaves a queue of handles. *)
LEMMA TailType ==
  ASSUME NEW queue \in Seq(Handles), queue # <<>>
  PROVE  Tail(queue) \in Seq(Handles)
OBVIOUS

(* Queueing a handle likewise. *)
LEMMA AppendType ==
  ASSUME NEW queue \in Seq(Handles), NEW handle \in Handles
  PROVE  Append(queue, handle) \in Seq(Handles)
OBVIOUS

(* Telling main() or the scheduler queues handles. *)
LEMMA QueueTypes ==
  ASSUME NEW queue \in Seq(Handles)
  PROVE  /\ TellMain(queue) \in Seq(Handles)
         /\ Woken(queue) \in Seq(Handles)
BY HandleTypes DEF TellMain, Woken

-----------------------------------------------------------------------------
(* The queue *)

(* The handle waits in the queue. *)
Queued(handle, queue) == \E i \in 1..Len(queue) : queue[i] = handle

(* What waits behind the head still waits when the head has run. *)
LEMMA TailKeeps ==
  ASSUME NEW queue \in Seq(Handles), NEW handle, queue # <<>>,
         Head(queue) # handle, Queued(handle, queue)
  PROVE  Queued(handle, Tail(queue))
<1>1. PICK i \in 1..Len(queue) : queue[i] = handle
  BY DEF Queued
<1>2. i # 1
  BY <1>1
<1>3. i - 1 \in 1..Len(Tail(queue)) /\ Tail(queue)[i - 1] = handle
  BY <1>1, <1>2
<1> QED
  BY <1>3 DEF Queued

(* What waits, and what is queued, waits behind a newly queued handle. *)
LEMMA AppendKeeps ==
  ASSUME NEW queue \in Seq(Handles), NEW handle \in Handles, NEW other \in Handles,
         Queued(handle, queue) \/ other = handle
  PROVE  Queued(handle, Append(queue, other))
<1>1. CASE other = handle
  <2>1. Append(queue, other)[Len(queue) + 1] = handle
    BY <1>1
  <2>2. Len(queue) + 1 \in 1..Len(Append(queue, other))
    OBVIOUS
  <2> QED
    BY <2>1, <2>2 DEF Queued
<1>2. CASE Queued(handle, queue)
  <2>1. PICK i \in 1..Len(queue) : queue[i] = handle
    BY <1>2 DEF Queued
  <2>2. i \in 1..Len(Append(queue, other)) /\ Append(queue, other)[i] = handle
    BY <2>1
  <2> QED
    BY <2>2 DEF Queued
<1> QED
  BY <1>1, <1>2

(* Likewise for several handles queued at once. *)
LEMMA ConcatKeeps ==
  ASSUME NEW queue \in Seq(Handles), NEW rest \in Seq(Handles), NEW handle,
         Queued(handle, queue)
  PROVE  Queued(handle, queue \o rest)
<1>1. PICK i \in 1..Len(queue) : queue[i] = handle
  BY DEF Queued
<1>2. i \in 1..Len(queue \o rest) /\ (queue \o rest)[i] = handle
  BY <1>1
<1> QED
  BY <1>2 DEF Queued

(* What tells the handles apart. *)
LEMMA HandleKinds ==
  /\ Process.do = "process" /\ Main.do = "main" /\ Freeze.do = "freeze" /\ Stop.do = "stop"
  /\ \A id \in Ids : /\ Start(id).do = "start" /\ Resume(id).do = "resume"
                     /\ Done(id).do = "done" /\ Done(id).of = id
BY DEF Process, Main, Freeze, Stop, Start, Resume, Done

(* main() and the scheduler are told behind what is queued. *)
LEMMA TellingKeeps ==
  ASSUME NEW queue \in Seq(Handles), NEW handle \in Handles, Queued(handle, queue)
  PROVE  Queued(handle, TellMain(queue)) /\ Queued(handle, Woken(queue))
BY AppendKeeps, HandleTypes DEF TellMain, Woken

(* The loop runs a handle other than the run's callback. *)
LEMMA RunningKeeps ==
  ASSUME TypeOK, NEW j \in Jobs, NEW handle, Runs(handle), handle # Done(j)
  PROVE  /\ Tail(ready) \in Seq(Handles)
         /\ Done(j) \in Handles
         /\ Queued(Done(j), ready) => Queued(Done(j), Tail(ready))
<1>1. ready \in Seq(Handles) /\ ready # <<>> /\ Head(ready) = handle
  BY DEF Runs, TypeOK
<1>2. Done(j) \in Handles
  BY HandleTypes DEF Ids
<1> QED
  BY <1>1, <1>2, TailType, TailKeeps

-----------------------------------------------------------------------------
(* The invariant holds at boot. *)
THEOREM InitInv == Init => IInv
<1> SUFFICES ASSUME Init PROVE IInv
  OBVIOUS
<1>1. clock \in Instants
  BY CronSlotsAssumption DEF Init, Instants
<1>2. ASSUME NEW id \in Ids
      PROVE  /\ store[id] \in [trigger : Slots, next : Instants]
             /\ store[id].next.slot = store[id].trigger
  <2>1. BootSlot(id) \in Slots
    BY CronSlotsAssumption, JobSchedulingAssumption DEF Ids, Slots, BootSlot
  <2>2. store[id] = [trigger |-> BootSlot(id), next |-> NextFire(BootSlot(id), clock)]
    BY DEF Init
  <2> QED
    BY <1>1, <2>1, <2>2, SlotTypes
<1>3. \A j \in Jobs : store[j].trigger = args[j]
  BY JobSchedulingAssumption DEF Init, BootSlot, Ids
<1>4. store \in [Ids -> [trigger : Slots, next : Instants]]
  BY <1>2 DEF Init
<1>5. task \in [Ids -> [pc : Pcs, outcome : Outcomes, sched : Instants]]
  BY CronSlotsAssumption DEF Init, NoRun, At, Pcs, Outcomes, Instants, Slots
<1>6. timer \in [armed : BOOLEAN, at : Instants]
  BY CronSlotsAssumption DEF Init, NoTimer, At, Instants, Slots
<1>7. TypeOK
  BY <1>1, <1>4, <1>5, <1>6, HandleTypes, JobSchedulingAssumption DEF Init, TypeOK
<1>8. /\ InstancesMatchRuns
      /\ ResetIsBrief
      /\ RunsAreDue
      /\ RunsSettleBeforeStop
  BY DEF Init, InstancesMatchRuns, ResetIsBrief, RunsAreDue, RunsSettleBeforeStop,
         AtWork, Ids, NoRun
<1>9. /\ FrozenJobsRest
      /\ ThresholdFreezes
      /\ FrozenJobsAreReported
      /\ StoppedByMain
  BY JobSchedulingAssumption
     DEF Init, FrozenJobsRest, ThresholdFreezes, FrozenJobsAreReported, StoppedByMain
<1> QED
  BY <1>2, <1>3, <1>7, <1>8, <1>9 DEF IInv, StoreFollowsArgs

(* main() wakes: no job is touched. *)
LEMMA MainWakesInv ==
  ASSUME IInv, MainWakes
  PROVE  IInv'
BY HandleTypes, QueueTypes
   DEF MainWakes, IInv, TypeOK, StoreFollowsArgs, InstancesMatchRuns, ResetIsBrief,
       RunsAreDue, FrozenJobsRest, ThresholdFreezes, FrozenJobsAreReported,
       StoppedByMain, RunsSettleBeforeStop, jobVars, processVars, Runs

(* main() pauses the scheduler: no job is touched. *)
LEMMA MainFreezesInv ==
  ASSUME IInv, MainFreezes
  PROVE  IInv'
BY HandleTypes, QueueTypes
   DEF MainFreezes, IInv, TypeOK, StoreFollowsArgs, InstancesMatchRuns, ResetIsBrief,
       RunsAreDue, FrozenJobsRest, ThresholdFreezes, FrozenJobsAreReported,
       StoppedByMain, RunsSettleBeforeStop, jobVars, processVars, Runs

(* A graceful request leaves a fatal one alone. *)
LEMMA RequestShutdownInv ==
  ASSUME IInv, RequestShutdown
  PROVE  IInv'
BY HandleTypes, QueueTypes
   DEF RequestShutdown, IInv, TypeOK, StoreFollowsArgs, InstancesMatchRuns,
       ResetIsBrief, RunsAreDue, FrozenJobsRest, ThresholdFreezes,
       FrozenJobsAreReported, StoppedByMain, RunsSettleBeforeStop, jobVars, processVars,
       Runs

(* The disarmed timer is a timer. *)
LEMMA NoTimerType == NoTimer \in [armed : BOOLEAN, at : Instants]
BY CronSlotsAssumption DEF NoTimer, At, Instants, Slots

(* A wakeup that only cancels the timer. *)
LEMMA ProcessNothingInv ==
  ASSUME IInv, ProcessNothing
  PROVE  IInv'
BY NoTimerType
   DEF ProcessNothing, IInv, TypeOK, StoreFollowsArgs, InstancesMatchRuns, ResetIsBrief,
       RunsAreDue, FrozenJobsRest, ThresholdFreezes, FrozenJobsAreReported,
       StoppedByMain, RunsSettleBeforeStop, jobVars, processVars, Runs

(* The timer queues a wakeup. *)
LEMMA TimerFiresInv ==
  ASSUME IInv, TimerFires
  PROVE  IInv'
BY NoTimerType, HandleTypes
   DEF TimerFires, IInv, TypeOK, StoreFollowsArgs, InstancesMatchRuns, ResetIsBrief,
       RunsAreDue, FrozenJobsRest, ThresholdFreezes, FrozenJobsAreReported,
       StoppedByMain, RunsSettleBeforeStop, jobVars, processVars, Runs

(* Runs that were due stay due when time passes. *)
LEMMA TickInv ==
  ASSUME IInv, Tick
  PROVE  IInv'
BY CronSlotsAssumption, SlotTypes, LaterIsAfter
   DEF Tick, IInv, TypeOK, StoreFollowsArgs, InstancesMatchRuns, ResetIsBrief,
       RunsAreDue, FrozenJobsRest, ThresholdFreezes, FrozenJobsAreReported,
       StoppedByMain, RunsSettleBeforeStop, jobVars, processVars, Runs

(* The stop cancels every run that could still be settled. *)
LEMMA SchedulerStopsInv ==
  ASSUME IInv, SchedulerStops
  PROVE  IInv'
<1>1. task' \in [Ids -> [pc : Pcs, outcome : Outcomes, sched : Instants]]
  <2> DEFINE Tasks == [pc : Pcs, outcome : Outcomes, sched : Instants]
  <2>1. \A t \in Tasks : [t EXCEPT !.pc = "cancelled"] \in Tasks
    BY DEF Pcs
  <2>2. \A id \in Ids : task[id] \in Tasks
    BY DEF IInv, TypeOK
  <2> HIDE DEF Tasks
  <2>3. task' \in [Ids -> Tasks]
    BY <2>1, <2>2 DEF SchedulerStops
  <2> QED
    BY <2>3 DEF Tasks
<1>2. \A id \in Ids : /\ task'[id].sched = task[id].sched
                      /\ task'[id].pc = IF task[id].pc \in Pending THEN "cancelled"
                                                                  ELSE task[id].pc
  BY DEF SchedulerStops, IInv, TypeOK
<1>3. timer' \in [armed : BOOLEAN, at : Instants] /\ ready' \in Seq(Handles)
  BY NoTimerType DEF SchedulerStops, IInv, TypeOK, Runs
<1>4. TypeOK' /\ StoreFollowsArgs' /\ ThresholdFreezes' /\ StoppedByMain'
  BY <1>1, <1>3 DEF SchedulerStops, IInv, TypeOK, StoreFollowsArgs, ThresholdFreezes,
                    StoppedByMain, jobVars
<1>5. InstancesMatchRuns' /\ RunsAreDue' /\ ResetIsBrief'
  BY <1>2 DEF SchedulerStops, IInv, InstancesMatchRuns, RunsAreDue, ResetIsBrief, Pending,
              AtWork, Ids
<1>6. FrozenJobsRest' /\ FrozenJobsAreReported'
  BY <1>2 DEF SchedulerStops, IInv, FrozenJobsRest, FrozenJobsAreReported, Pending, AtWork,
              Ids, jobVars
<1>7. \A id \in Ids : task[id].pc \notin {"inline", "tail"}
  BY DEF SchedulerStops, Runs, LoopHeld, IInv, ResetIsBrief, AtWork, Ids
<1>8. RunsSettleBeforeStop'
  BY <1>2, <1>7 DEF RunsSettleBeforeStop, Pending
<1> QED
  BY <1>4, <1>5, <1>6, <1>8 DEF IInv

(* A step that moves one task, and nothing else but the queue. *)
MovesTo(id, pc) ==
  /\ task' \in [Ids -> [pc : Pcs, outcome : Outcomes, sched : Instants]]
  /\ task'[id].pc = pc
  /\ task'[id].sched = task[id].sched
  /\ \A other \in Ids \ {id} : task'[other] = task[other]

(* Both ways of moving a task leave the other tasks alone. *)
LEMMA MoveTaskMoves ==
  ASSUME TypeOK, NEW id \in Ids, NEW pc \in Pcs,
         MoveTask(id, pc) \/ Leaves(id, pc)
  PROVE  MovesTo(id, pc)
<1> DEFINE Tasks == [pc : Pcs, outcome : Outcomes, sched : Instants]
<1>1. task \in [Ids -> Tasks] /\ task[id] \in Tasks
  BY DEF TypeOK
<1>2. PICK outcome \in Outcomes :
        task' = [task EXCEPT ![id] = [pc |-> pc, outcome |-> outcome, sched |-> task[id].sched]]
  <2>1. CASE MoveTask(id, pc)
    <3>1. [task[id] EXCEPT !.pc = pc]
            = [pc |-> pc, outcome |-> task[id].outcome, sched |-> task[id].sched]
      BY <1>1
    <3> QED
      BY <1>1, <2>1, <3>1 DEF MoveTask
  <2>2. CASE Leaves(id, pc)
    BY <2>2 DEF Leaves, Outcomes
  <2> QED
    BY <2>1, <2>2
<1>3. [pc |-> pc, outcome |-> outcome, sched |-> task[id].sched] \in Tasks
  BY <1>1
<1> QED
  BY <1>1, <1>2, <1>3 DEF MovesTo

(* Moving one run along, when neither its job's registration nor its instance changes. *)
LEMMA MoveKeepsInv ==
  ASSUME IInv, NEW id \in Ids, NEW pc \in Pcs \ {"idle"}, MovesTo(id, pc),
         task[id].pc # "idle",
         task[id].pc # "raised",
         pc \in AtWork => id \in Jobs /\ ~errored[id],
         scheduler = "stopped" => pc \notin AtWork \cup {"created"},
         ready' \in Seq(Handles),
         UNCHANGED <<clock, jobVars, instances, processVars>>
  PROVE  IInv'
<1>1. TypeOK' /\ StoreFollowsArgs'
  BY DEF IInv, TypeOK, StoreFollowsArgs, MovesTo, jobVars, processVars
<1>2. InstancesMatchRuns' /\ RunsAreDue'
  BY DEF IInv, InstancesMatchRuns, RunsAreDue, MovesTo
<1>3. ResetIsBrief'
  BY JobSchedulingAssumption DEF IInv, ResetIsBrief, MovesTo, Ids
<1>4. FrozenJobsRest' /\ ThresholdFreezes' /\ StoppedByMain'
  BY DEF IInv, FrozenJobsRest, ThresholdFreezes, StoppedByMain, MovesTo, jobVars,
         processVars, Ids
<1>5. FrozenJobsAreReported'
  BY DEF IInv, FrozenJobsAreReported, MovesTo, jobVars, processVars, Ids
<1>6. RunsSettleBeforeStop'
  BY DEF IInv, RunsSettleBeforeStop, MovesTo, processVars, AtWork
<1> QED
  BY <1>1, <1>2, <1>3, <1>4, <1>5, <1>6 DEF IInv

(* An errored job's run returns at once. *)
LEMMA SkipFrozenInv ==
  ASSUME IInv, NEW j \in Jobs, SkipFrozen(j)
  PROVE  IInv'
<1>1. MovesTo(j, "returned")
  BY MoveTaskMoves DEF SkipFrozen, IInv, Ids, Pcs
<1>2. ready' \in Seq(Handles)
  BY HandleTypes DEF SkipFrozen, Runs, IInv, TypeOK, Ids
<1> QED
  BY <1>1, <1>2, MoveKeepsInv DEF SkipFrozen, Ids, Pcs, AtWork

(* A body begins for a job that is not errored. *)
LEMMA BeginBodyInv ==
  ASSUME IInv, NEW j \in Jobs, BeginBody(j)
  PROVE  IInv'
<1> DEFINE pc == IF j \in Inline THEN "inline" ELSE "thread"
<1>1. MovesTo(j, pc)
  BY MoveTaskMoves DEF BeginBody, IInv, Ids, Pcs
<1>2. ready' \in Seq(Handles)
  BY DEF BeginBody, Runs, IInv, TypeOK
<1>3. scheduler # "stopped"
  BY DEF BeginBody, IInv, RunsSettleBeforeStop, Ids
<1> QED
  BY <1>1, <1>2, <1>3, MoveKeepsInv DEF BeginBody, Ids, Pcs

(* A worker thread ends: nothing is settled yet. *)
LEMMA ThreadEndsInv ==
  ASSUME IInv, NEW j \in Jobs, ThreadEnds(j)
  PROVE  IInv'
<1>1. MovesTo(j, "finished")
  BY JobSchedulingAssumption DEF ThreadEnds, MovesTo, IInv, TypeOK, Ids, Pcs
<1>2. ready' \in Seq(Handles)
  BY HandleTypes DEF ThreadEnds, IInv, TypeOK, Ids
<1>3. scheduler # "stopped" /\ ~errored[j]
  BY DEF ThreadEnds, IInv, RunsSettleBeforeStop, FrozenJobsRest, AtWork, Ids
<1> QED
  BY <1>1, <1>2, <1>3, MoveKeepsInv DEF ThreadEnds, Ids, Pcs

(* The steps of an inline body before its end. *)
LEMMA InlineStepsInv ==
  ASSUME IInv, NEW j \in Jobs, InlineAwaits(j) \/ SubprocessEnds(j) \/ ResumeInline(j)
  PROVE  IInv'
<1>1. PICK pc \in AtWork : MovesTo(j, pc)
  <2>1. \E pc \in AtWork : MoveTask(j, pc)
    BY DEF InlineAwaits, SubprocessEnds, ResumeInline, AtWork
  <2>2. TypeOK /\ j \in Ids /\ AtWork \subseteq Pcs
    BY DEF IInv, Ids, AtWork, Pcs
  <2> QED
    BY <2>1, <2>2, MoveTaskMoves
<1>2. ready' \in Seq(Handles)
  <2>1. ready \in Seq(Handles) /\ Resume(j) \in Handles
    BY HandleTypes DEF IInv, TypeOK, Ids
  <2>2. ready' = ready \/ ready' = Append(ready, Resume(j))
          \/ (ready # <<>> /\ ready' = Tail(ready))
    BY DEF InlineAwaits, SubprocessEnds, ResumeInline, Runs
  <2> QED
    BY <2>1, <2>2, TailType, AppendType
<1>3. /\ task[j].pc \in AtWork
      /\ UNCHANGED <<clock, jobVars, instances, processVars>>
  BY DEF InlineAwaits, SubprocessEnds, ResumeInline, AtWork
<1>4. scheduler # "stopped" /\ ~errored[j]
  BY <1>3 DEF IInv, RunsSettleBeforeStop, FrozenJobsRest, AtWork, Ids
<1> QED
  BY <1>1, <1>2, <1>3, <1>4, MoveKeepsInv DEF Ids, Pcs, AtWork

(* A misfired reset changes no registration. *)
LEMMA ResetMissedInv ==
  ASSUME IInv, ResetMissed
  PROVE  IInv'
<1>1. MovesTo(Reset, "returned")
  BY MoveTaskMoves DEF ResetMissed, IInv, Ids, Pcs
<1>2. ready' \in Seq(Handles)
  BY HandleTypes DEF ResetMissed, Runs, IInv, TypeOK, Ids
<1> QED
  BY <1>1, <1>2, MoveKeepsInv DEF ResetMissed, Ids, Pcs, AtWork

(* A cancelled task's handle is spent. *)
LEMMA RunCancelledInv ==
  ASSUME IInv, NEW id \in Ids, RunCancelled(id)
  PROVE  IInv'
<1>1. ready' \in Seq(Handles)
  BY DEF RunCancelled, Runs, IInv, TypeOK
<1> QED
  BY <1>1 DEF RunCancelled, IInv, TypeOK, StoreFollowsArgs, InstancesMatchRuns,
     ResetIsBrief, RunsAreDue, FrozenJobsRest, ThresholdFreezes, FrozenJobsAreReported,
     StoppedByMain, RunsSettleBeforeStop, jobVars, processVars

(* The callback of a raised run reports the frozen job. *)
LEMMA RunRaisedInv ==
  ASSUME IInv, NEW j \in Jobs, RunRaised(j)
  PROVE  IInv'
<1>1. MovesTo(j, "lost")
  BY MoveTaskMoves DEF RunRaised, IInv, Ids, Pcs
<1>2. ready' \in Seq(Handles)
  BY TailType, QueueTypes DEF RunRaised, Runs, IInv, TypeOK
<1>3. TypeOK' /\ StoreFollowsArgs' /\ ThresholdFreezes'
  BY <1>1, <1>2 DEF RunRaised, ReportsFatal, IInv, TypeOK, StoreFollowsArgs,
                    ThresholdFreezes, MovesTo, jobVars
<1>4. InstancesMatchRuns' /\ RunsAreDue'
  BY <1>1 DEF RunRaised, IInv, InstancesMatchRuns, RunsAreDue, MovesTo, Ids
<1>5. ResetIsBrief' /\ FrozenJobsRest'
  BY <1>1, JobSchedulingAssumption
     DEF RunRaised, IInv, ResetIsBrief, FrozenJobsRest, MovesTo, AtWork, Ids, jobVars
<1>6. FrozenJobsAreReported'
  BY DEF RunRaised, ReportsFatal, FrozenJobsAreReported
<1>7. RunsSettleBeforeStop' /\ StoppedByMain'
  BY <1>1 DEF RunRaised, IInv, RunsSettleBeforeStop, StoppedByMain, MovesTo, Ids
<1> QED
  BY <1>3, <1>4, <1>5, <1>6, <1>7 DEF IInv

(* The callback of a settled run gives its instance back. *)
LEMMA RunReturnedInv ==
  ASSUME IInv, NEW id \in Ids, RunReturned(id)
  PROVE  IInv'
<1>1. /\ task' = [task EXCEPT ![id] = NoRun]
      /\ NoRun \in [pc : Pcs, outcome : Outcomes, sched : Instants]
      /\ NoRun.pc = "idle"
  BY CronSlotsAssumption DEF RunReturned, NoRun, Pcs, Outcomes, At, Instants, Slots
<1>2. instances[id] = 1
  BY DEF RunReturned, IInv, TypeOK, InstancesMatchRuns
<1>3. instances' = [instances EXCEPT ![id] = 0]
  BY <1>2 DEF RunReturned
<1>4. ready' \in Seq(Handles)
  BY DEF RunReturned, Runs, IInv, TypeOK
<1>5. TypeOK' /\ StoreFollowsArgs' /\ ThresholdFreezes'
  BY <1>1, <1>3, <1>4 DEF RunReturned, IInv, TypeOK, StoreFollowsArgs, ThresholdFreezes,
                          processVars, jobVars
<1>6. InstancesMatchRuns' /\ RunsAreDue' /\ ResetIsBrief'
  BY <1>1, <1>3 DEF RunReturned, IInv, TypeOK, InstancesMatchRuns, RunsAreDue,
                    ResetIsBrief, AtWork
<1>7. FrozenJobsRest' /\ FrozenJobsAreReported'
  BY <1>1 DEF RunReturned, IInv, TypeOK, FrozenJobsRest, FrozenJobsAreReported, AtWork,
              Ids, jobVars, processVars
<1>8. RunsSettleBeforeStop' /\ StoppedByMain'
  BY <1>1 DEF RunReturned, IInv, TypeOK, RunsSettleBeforeStop, StoppedByMain, processVars
<1> QED
  BY <1>5, <1>6, <1>7, <1>8 DEF IInv

(* A job's registration, by a retry or by the weekly reset. *)
LEMMA RegisteredType ==
  ASSUME clock \in Instants, NEW j, NEW slot \in Slots
  PROVE  /\ Registered(j, slot) \in [trigger : Slots, next : Instants]
         /\ Registered(j, slot).trigger = slot
         /\ Registered(j, slot).next.slot = slot
BY SlotTypes DEF Registered

(* The reset moves arguments and stored jobs together. *)
LEMMA ResetSchedulesInv ==
  ASSUME IInv, ResetSchedules
  PROVE  IInv'
<1>1. MovesTo(Reset, "returned")
  BY MoveTaskMoves DEF ResetSchedules, IInv, Ids, Pcs
<1>2. ready' \in Seq(Handles)
  <2>1. Tail(ready) \in Seq(Handles) /\ <<Process, Done(Reset)>> \in Seq(Handles)
    BY HandleTypes DEF ResetSchedules, Runs, IInv, TypeOK, Ids
  <2> QED
    BY <2>1 DEF ResetSchedules
<1>3. \A j \in Jobs : /\ store'[j] \in [trigger : Slots, next : Instants]
                      /\ store'[j].trigger = args'[j]
                      /\ store'[j].next.slot = store'[j].trigger
  BY RegisteredType, JobSchedulingAssumption DEF ResetSchedules, IInv, TypeOK, Ids
<1>4. store'[Reset] = store[Reset]
  BY JobSchedulingAssumption DEF ResetSchedules, Ids
<1>5. StoreFollowsArgs' /\ store' \in [Ids -> [trigger : Slots, next : Instants]]
  BY <1>3, <1>4 DEF ResetSchedules, IInv, TypeOK, StoreFollowsArgs, Ids
<1>6. TypeOK' /\ ThresholdFreezes'
  BY <1>1, <1>2, <1>5, JobSchedulingAssumption
     DEF ResetSchedules, IInv, TypeOK, ThresholdFreezes, MovesTo
<1>7. InstancesMatchRuns' /\ RunsAreDue' /\ ResetIsBrief'
  BY <1>1 DEF ResetSchedules, IInv, InstancesMatchRuns, RunsAreDue, ResetIsBrief, AtWork,
              MovesTo, Ids
<1>8. FrozenJobsRest' /\ FrozenJobsAreReported'
  BY <1>1, JobSchedulingAssumption
     DEF ResetSchedules, IInv, FrozenJobsRest, FrozenJobsAreReported, MovesTo, Ids
<1>9. RunsSettleBeforeStop' /\ StoppedByMain'
  BY DEF ResetSchedules, RunsSettleBeforeStop, StoppedByMain
<1> QED
  BY <1>5, <1>6, <1>7, <1>8, <1>9 DEF IInv
-----------------------------------------------------------------------------
(* The end of a run *)

(* What the endings of a run have in common: the job's count, errored flag and
   registration change together with its task.                                 *)
LEMMA EndingKeepsInv ==
  ASSUME IInv, NEW j \in Jobs, task[j].pc \in AtWork,
         NEW pc \in {"returned", "raised"}, Leaves(j, pc),
         NEW count \in 0..Threshold, errCounter' = [errCounter EXCEPT ![j] = count],
         NEW freeze \in BOOLEAN, errored' = [errored EXCEPT ![j] = freeze],
         count = Threshold => freeze,
         shutdown' \in {shutdown, "fatal"},
         freeze => shutdown' = "fatal" \/ pc = "raised",
         NEW slot \in Slots, args' = [args EXCEPT ![j] = slot],
         NEW entry \in [trigger : Slots, next : Instants],
         entry.trigger = slot, entry.next.slot = slot,
         store' = [store EXCEPT ![j] = entry],
         ready' \in Seq(Handles),
         UNCHANGED <<clock, instances, scheduler, timer, main>>
  PROVE  IInv'
<1>1. MovesTo(j, pc)
  BY MoveTaskMoves DEF IInv, Ids, Pcs
<1>2. j \in Ids /\ scheduler # "stopped"
  BY DEF IInv, RunsSettleBeforeStop, AtWork, Ids
<1>3. /\ args' \in [Jobs -> Slots]
      /\ store' \in [Ids -> [trigger : Slots, next : Instants]]
      /\ StoreFollowsArgs'
  BY <1>2 DEF IInv, TypeOK, StoreFollowsArgs, Ids
<1>4. errored' \in [Jobs -> BOOLEAN] /\ errCounter' \in [Jobs -> 0..Threshold]
  BY DEF IInv, TypeOK
<1>5. shutdown' \in {"none", "graceful", "fatal"}
  BY DEF IInv, TypeOK
<1>6. TypeOK'
  <2>1. TypeOK
    BY DEF IInv
  <2>2. task' \in [Ids -> [pc : Pcs, outcome : Outcomes, sched : Instants]]
    BY <1>1 DEF MovesTo
  <2> QED
    BY <1>3, <1>4, <1>5, <2>1, <2>2 DEF TypeOK
<1>7. InstancesMatchRuns' /\ RunsAreDue' /\ ResetIsBrief'
  <2>1. task[j].pc # "idle" /\ task'[j].pc = pc /\ task'[j].sched = task[j].sched /\ pc # "idle"
    BY <1>1 DEF MovesTo, AtWork
  <2>2. \A id \in Ids \ {j} : task'[id] = task[id]
    BY <1>1 DEF MovesTo
  <2>3. InstancesMatchRuns' /\ RunsAreDue'
    BY <2>1, <2>2 DEF IInv, InstancesMatchRuns, RunsAreDue
  <2>4. ResetIsBrief'
    BY <2>2, JobSchedulingAssumption DEF IInv, ResetIsBrief, Ids
  <2> QED
    BY <2>3, <2>4
<1>8. FrozenJobsRest' /\ FrozenJobsAreReported'
  BY <1>1 DEF IInv, TypeOK, FrozenJobsRest, FrozenJobsAreReported, MovesTo, AtWork, Ids
<1>9. ThresholdFreezes'
  BY DEF IInv, TypeOK, ThresholdFreezes
<1>10. StoppedByMain' /\ RunsSettleBeforeStop'
  BY <1>2 DEF StoppedByMain, RunsSettleBeforeStop
<1> QED
  BY <1>3, <1>6, <1>7, <1>8, <1>9, <1>10 DEF IInv

(* However run_job settles a run, the invariant survives. *)
LEMMA SettlesInv ==
  ASSUME IInv, NEW j \in Jobs, NEW outcome, NEW queue \in Seq(Handles),
         task[j].pc \in AtWork,
         Settles(j, outcome, queue),
         UNCHANGED <<clock, instances, scheduler, timer, main>>
  PROVE  IInv'
<1>1. /\ errored[j] = FALSE
      /\ errCounter[j] \in 0..(Threshold - 1)
      /\ Threshold \in Nat \ {0}
      /\ args[j] \in Slots
      /\ store[j] \in [trigger : Slots, next : Instants]
      /\ store[j].trigger = args[j]
      /\ store[j].next.slot = args[j]
  BY JobSchedulingAssumption
     DEF IInv, TypeOK, StoreFollowsArgs, FrozenJobsRest, ThresholdFreezes, Ids
<1>2. /\ errored = [errored EXCEPT ![j] = FALSE]
      /\ errCounter = [errCounter EXCEPT ![j] = errCounter[j]]
      /\ args = [args EXCEPT ![j] = args[j]]
      /\ store = [store EXCEPT ![j] = store[j]]
  BY <1>1 DEF IInv, TypeOK
<1>3. /\ Append(queue, Done(j)) \in Seq(Handles)
      /\ Append(Woken(queue), Done(j)) \in Seq(Handles)
      /\ Append(TellMain(queue), Done(j)) \in Seq(Handles)
  BY HandleTypes, QueueTypes, AppendType DEF Ids
<1>4. CASE EndsClean(j, queue)
  <2>1. /\ Leaves(j, "returned")
        /\ errCounter' = [errCounter EXCEPT ![j] = 0]
        /\ args' = [args EXCEPT ![j] = args[j]]
        /\ store' = [store EXCEPT ![j] = store[j]]
    BY <1>2, <1>4 DEF EndsClean
  <2>2. 0 \in 0..Threshold /\ 0 # Threshold
    BY <1>1
  <2>3. /\ errored' = [errored EXCEPT ![j] = FALSE]
        /\ shutdown' \in {shutdown, "fatal"}
        /\ ready' \in Seq(Handles)
    BY <1>2, <1>3, <1>4 DEF EndsClean
  <2> QED
    BY <1>1, <2>1, <2>2, <2>3, EndingKeepsInv
<1>5. CASE Abandons(j, queue)
  <2>1. /\ UNCHANGED <<args, store, errCounter, errored, shutdown>>
        /\ ready' = Append(queue, Done(j))
    BY <1>5 DEF Abandons, jobVars
  <2>2. /\ errored' = [errored EXCEPT ![j] = FALSE]
        /\ errCounter' = [errCounter EXCEPT ![j] = errCounter[j]]
        /\ args' = [args EXCEPT ![j] = args[j]]
        /\ store' = [store EXCEPT ![j] = store[j]]
    BY <1>2, <2>1
  <2>3. /\ Leaves(j, "returned")
        /\ shutdown' \in {shutdown, "fatal"}
        /\ ready' \in Seq(Handles)
    BY <1>3, <1>5, <2>1 DEF Abandons
  <2>4. errCounter[j] \in 0..Threshold /\ errCounter[j] # Threshold
    BY <1>1
  <2> QED
    BY <1>1, <2>2, <2>3, <2>4, EndingKeepsInv
<1>6. CASE Crashes(j, queue)
  <2>1. /\ Leaves(j, "raised")
        /\ errCounter' = [errCounter EXCEPT ![j] = errCounter[j]]
    BY <1>2, <1>6 DEF Crashes
  <2>4. /\ args' = [args EXCEPT ![j] = args[j]]
        /\ store' = [store EXCEPT ![j] = store[j]]
    BY <1>2, <1>6 DEF Crashes
  <2>2. errCounter[j] \in 0..Threshold /\ errCounter[j] # Threshold
    BY <1>1
  <2>3. /\ errored' = [errored EXCEPT ![j] = TRUE]
        /\ shutdown' \in {shutdown, "fatal"}
        /\ ready' \in Seq(Handles)
    BY <1>3, <1>6 DEF Crashes
  <2> QED
    BY <1>1, <2>1, <2>2, <2>3, <2>4, EndingKeepsInv
<1>7. ASSUME NEW count \in 0..(Threshold - 1), RetriesLater(j, count, queue)
      PROVE  IInv'
  <2>1. /\ ShiftSlot(args[j]) \in Slots
        /\ Registered(j, ShiftSlot(args[j])) \in [trigger : Slots, next : Instants]
        /\ Registered(j, ShiftSlot(args[j])).trigger = ShiftSlot(args[j])
        /\ Registered(j, ShiftSlot(args[j])).next.slot = ShiftSlot(args[j])
    BY <1>1, SlotTypes, RegisteredType DEF IInv, TypeOK
  <2>2. count \in 0..Threshold /\ count # Threshold
    BY <1>1
  <2> QED
    BY <1>2, <1>3, <1>7, <2>1, <2>2, EndingKeepsInv DEF RetriesLater
<1>8. ASSUME NEW count \in 0..Threshold, Freezes(j, count, queue)
      PROVE  IInv'
  <2>1. /\ Leaves(j, "returned")
        /\ args' = [args EXCEPT ![j] = args[j]]
        /\ store' = [store EXCEPT ![j] = store[j]]
        /\ errCounter' = [errCounter EXCEPT ![j] = count]
        /\ errored' = [errored EXCEPT ![j] = TRUE]
        /\ shutdown' = "fatal"
        /\ ready' \in Seq(Handles)
    BY <1>2, <1>3, <1>8 DEF Freezes
  <2> QED
    BY <1>1, <1>8, <2>1, EndingKeepsInv
<1>9. /\ errCounter[j] \in 0..Threshold
      /\ errCounter[j] + 1 \in 0..Threshold
      /\ ~ReachesThreshold(j) => errCounter[j] + 1 \in 0..(Threshold - 1)
  BY <1>1 DEF ReachesThreshold
<1> QED
  BY <1>1, <1>4, <1>5, <1>6, <1>7, <1>8, <1>9 DEF Settles

(* The settling of a threaded run. *)
LEMMA ResumeThreadedInv ==
  ASSUME IInv, NEW j \in Jobs, ResumeThreaded(j)
  PROVE  IInv'
<1>1. task[j].outcome \in Outcomes /\ task[j].pc \in AtWork
  BY DEF ResumeThreaded, IInv, TypeOK, AtWork, Ids
<1>2. Tail(ready) \in Seq(Handles)
  BY TailType DEF ResumeThreaded, Runs, IInv, TypeOK
<1> QED
  BY <1>1, <1>2, SettlesInv DEF ResumeThreaded

(* The settling of an inline run. *)
LEMMA InlineEndsInv ==
  ASSUME IInv, NEW j \in Jobs, InlineEnds(j)
  PROVE  IInv'
<1>1. PICK outcome \in MayEnd[j] : Settles(j, outcome, ready)
  BY DEF InlineEnds
<1>2. outcome \in Outcomes /\ task[j].pc \in AtWork /\ ready \in Seq(Handles)
  BY <1>1, JobSchedulingAssumption DEF InlineEnds, AtWork, IInv, TypeOK
<1> QED
  BY <1>1, <1>2, SettlesInv DEF InlineEnds
-----------------------------------------------------------------------------
(* Handing out due jobs: each takes a free instance, at a run time that has come. *)
LEMMA ProcessJobsInv ==
  ASSUME IInv, ProcessJobs
  PROVE  IInv'
<1> DEFINE submitted == {id \in Due : Admits(id)}
           Tasks == [pc : Pcs, outcome : Outcomes, sched : Instants]
<1>1. PICK order \in SubmissionOrders(submitted) :
        /\ instances' = [id \in Ids |-> IF id \in submitted THEN 1 ELSE instances[id]]
        /\ task' = [id \in Ids |->
                      IF id \in submitted
                        THEN [pc |-> "created", outcome |-> "ok",
                              sched |-> DueFire(store[id].trigger, clock)]
                        ELSE task[id]]
        /\ ready' = Tail(ready) \o [i \in 1..Cardinality(submitted) |-> Start(order[i])]
  BY DEF ProcessJobs
<1>2. /\ store' = NextRuns(Due)
      /\ \E id \in Ids : timer' = [armed |-> TRUE, at |-> store'[id].next]
      /\ scheduler = "running"
      /\ UNCHANGED <<clock, args, errCounter, errored, scheduler, shutdown, main>>
  BY DEF ProcessJobs
<1>3. \A id \in Ids : /\ store[id] \in [trigger : Slots, next : Instants]
                      /\ store[id].next.slot = store[id].trigger
  BY DEF IInv, TypeOK, StoreFollowsArgs
<1>4. \A id \in Ids : /\ store'[id] \in [trigger : Slots, next : Instants]
                      /\ store'[id].trigger = store[id].trigger
                      /\ store'[id].next.slot = store[id].trigger
  <2> TAKE id \in Ids
  <2>1. CASE id \in Due
    <3>1. store'[id] = [store[id] EXCEPT !.next = FollowingFire(store[id].trigger, clock)]
      BY <1>2, <2>1 DEF NextRuns
    <3>2. /\ FollowingFire(store[id].trigger, clock) \in Instants
          /\ FollowingFire(store[id].trigger, clock).slot = store[id].trigger
      BY <1>3, SlotTypes DEF IInv, TypeOK
    <3> QED
      BY <1>3, <3>1, <3>2
  <2>2. CASE id \notin Due
    BY <1>2, <1>3, <2>2 DEF NextRuns
  <2> QED
    BY <2>1, <2>2
<1>5. StoreFollowsArgs' /\ store' \in [Ids -> [trigger : Slots, next : Instants]]
  BY <1>2, <1>4 DEF IInv, StoreFollowsArgs, NextRuns, Ids
<1>6. \A id \in submitted : /\ DueFire(store[id].trigger, clock) \in Instants
                            /\ NotAfter(DueFire(store[id].trigger, clock), clock)
  BY <1>3, DueFireType DEF Due, IInv, TypeOK
<1>7. task' \in [Ids -> Tasks]
  <2>1. "created" \in Pcs /\ "ok" \in Outcomes
    BY DEF Pcs, Outcomes
  <2> QED
    BY <1>1, <1>6, <2>1 DEF IInv, TypeOK
<1>8. \A id \in Ids :
        \/ id \in submitted /\ task'[id].pc = "created" /\ task[id].pc = "idle"
             /\ instances'[id] = 1 /\ NotAfter(task'[id].sched, clock)
        \/ task'[id] = task[id] /\ instances'[id] = instances[id]
  BY <1>1, <1>6 DEF Admits, IInv, InstancesMatchRuns
<1>9. ready' \in Seq(Handles)
  <2>1. IsFiniteSet(submitted)
    <3>1. IsFiniteSet(Ids)
      BY JobSchedulingAssumption, FS_AddElement DEF Ids
    <3> QED
      BY <3>1, FS_Subset DEF Due
  <2>2. Cardinality(submitted) \in Nat
    BY <2>1, FS_CardinalityType
  <2>3. \A i \in 1..Cardinality(submitted) : Start(order[i]) \in Handles
    BY HandleTypes DEF SubmissionOrders, Due
  <2>4. [i \in 1..Cardinality(submitted) |-> Start(order[i])] \in Seq(Handles)
    BY <2>2, <2>3
  <2>5. Tail(ready) \in Seq(Handles)
    BY TailType DEF ProcessJobs, Runs, IInv, TypeOK
  <2> QED
    BY <1>1, <2>4, <2>5
<1>10. timer' \in [armed : BOOLEAN, at : Instants]
  BY <1>2, <1>4
<1>11. instances' \in [Ids -> 0..1]
  BY <1>1 DEF IInv, TypeOK
<1>12. TypeOK'
  BY <1>2, <1>5, <1>7, <1>9, <1>10, <1>11 DEF IInv, TypeOK
<1>13. InstancesMatchRuns' /\ RunsAreDue'
  BY <1>2, <1>8 DEF IInv, InstancesMatchRuns, RunsAreDue
<1>14. ResetIsBrief' /\ FrozenJobsRest' /\ FrozenJobsAreReported'
  BY <1>2, <1>8 DEF IInv, ResetIsBrief, FrozenJobsRest, FrozenJobsAreReported, AtWork, Ids
<1>15. ThresholdFreezes' /\ StoppedByMain' /\ RunsSettleBeforeStop'
  BY <1>2 DEF IInv, ThresholdFreezes, StoppedByMain, RunsSettleBeforeStop
<1> QED
  BY <1>5, <1>12, <1>13, <1>14, <1>15 DEF IInv
-----------------------------------------------------------------------------
(* Every step keeps the invariant, action by action. *)
THEOREM NextInv == IInv /\ [Next]_vars => IInv'
<1> SUFFICES ASSUME IInv, [Next]_vars PROVE IInv'
  OBVIOUS
<1>1. CASE ProcessJobs
  BY <1>1, ProcessJobsInv
<1>2. CASE ProcessNothing
  BY <1>2, ProcessNothingInv
<1>3. ASSUME NEW j \in Jobs,
             SkipFrozen(j) \/ BeginBody(j) \/ ResumeThreaded(j) \/ ResumeInline(j) \/ RunRaised(j)
      PROVE  IInv'
  BY <1>3, SkipFrozenInv, BeginBodyInv, ResumeThreadedInv, InlineStepsInv, RunRaisedInv
<1>4. ASSUME NEW id \in Ids, RunReturned(id) \/ RunCancelled(id)
      PROVE  IInv'
  BY <1>4, RunReturnedInv, RunCancelledInv
<1>5. CASE ResetSchedules \/ ResetMissed
  BY <1>5, ResetSchedulesInv, ResetMissedInv
<1>6. CASE MainWakes \/ MainFreezes \/ SchedulerStops
  BY <1>6, MainWakesInv, MainFreezesInv, SchedulerStopsInv
<1>7. CASE TimerFires \/ Tick \/ RequestShutdown
  BY <1>7, TimerFiresInv, TickInv, RequestShutdownInv
<1>8. ASSUME NEW j \in Jobs, BodyStep(j)
      PROVE  IInv'
  BY <1>8, ThreadEndsInv, InlineStepsInv, InlineEndsInv DEF BodyStep
<1>9. CASE UNCHANGED vars
  BY <1>9 DEF vars, jobVars, processVars, IInv, TypeOK, StoreFollowsArgs,
     InstancesMatchRuns, ResetIsBrief, RunsAreDue, FrozenJobsRest, ThresholdFreezes,
     FrozenJobsAreReported, StoppedByMain, RunsSettleBeforeStop
<1> QED
  BY <1>1, <1>2, <1>3, <1>4, <1>5, <1>6, <1>7, <1>8, <1>9 DEF Next, LoopStep

(* The invariant holds in every reachable state. *)
THEOREM Invariance == Spec => []IInv
BY InitInv, NextInv, PTL DEF Spec

(* The variables keep their types; in particular an id never holds two
   instances, and no count passes the threshold.                        *)
THEOREM TypeCorrect == Spec => []TypeOK
<1>1. IInv => TypeOK
  BY DEF IInv
<1> QED
  BY <1>1, Invariance, PTL

(* The scheduler's copy of a job's schedule is the job's own. *)
THEOREM StoreFollows == Spec => []StoreFollowsArgs
<1>1. IInv => StoreFollowsArgs
  BY DEF IInv
<1> QED
  BY <1>1, Invariance, PTL

(* run_job freezes no job in silence. *)
THEOREM FrozenReported == Spec => []FrozenJobsAreReported
<1>1. IInv => FrozenJobsAreReported
  BY DEF IInv
<1> QED
  BY <1>1, Invariance, PTL

(* error_reschedule never meets the emptied stores of a stopped scheduler. *)
THEOREM SettledBeforeStop == Spec => []RunsSettleBeforeStop
<1>1. IInv => RunsSettleBeforeStop
  BY DEF IInv
<1> QED
  BY <1>1, Invariance, PTL
-----------------------------------------------------------------------------
(* Wakeups *)

(* A step that neither moves a stored run nor touches the timer, and loses no
   queued wakeup.                                                              *)
LEMMA QuietKeepsWakes ==
  ASSUME WakesForEveryRun, UNCHANGED <<store, timer>>,
         scheduler' \in {scheduler, "paused", "stopped"},
         Queued(Process, ready) => Queued(Process, ready')
  PROVE  WakesForEveryRun'
BY DEF WakesForEveryRun, Queued

(* A queued wakeup is enough. *)
LEMMA QueuedWakes ==
  ASSUME Queued(Process, ready')
  PROVE  WakesForEveryRun'
BY DEF WakesForEveryRun, Queued

(* The loop runs a handle other than a wakeup. *)
LEMMA RunningKeepsWakeup ==
  ASSUME TypeOK, NEW handle \in Handles \ {Process}, Runs(handle)
  PROVE  /\ Tail(ready) \in Seq(Handles)
         /\ Queued(Process, ready) => Queued(Process, Tail(ready))
<1>1. ready \in Seq(Handles) /\ ready # <<>> /\ Head(ready) = handle
  BY DEF Runs, TypeOK
<1> QED
  BY <1>1, TailType, TailKeeps

(* The handles of a run are no wakeups. *)
LEMMA RunHandles ==
  ASSUME NEW id \in Ids
  PROVE  {Start(id), Resume(id), Done(id)} \subseteq Handles \ {Process}
BY HandleTypes, HandleKinds

(* Those of main() and the stop are none either. *)
LEMMA MainHandles == {Main, Freeze, Stop} \subseteq Handles \ {Process}
BY HandleTypes, HandleKinds

(* The end of a run: the retry it adds wakes the scheduler. *)
LEMMA SettlesWakes ==
  ASSUME TypeOK, WakesForEveryRun, NEW j \in Jobs, NEW outcome,
         NEW queue \in Seq(Handles),
         Queued(Process, ready) => Queued(Process, queue),
         Settles(j, outcome, queue),
         UNCHANGED <<scheduler, timer>>
  PROVE  WakesForEveryRun'
<1>1. Process \in Handles /\ Done(j) \in Handles
  BY HandleTypes DEF Ids
<1>2. ASSUME store' = store, ready' \in {Append(queue, Done(j)), Append(TellMain(queue), Done(j))}
      PROVE  WakesForEveryRun'
  <2>1. ASSUME Queued(Process, ready) PROVE Queued(Process, ready')
    <3>1. Queued(Process, queue) /\ Queued(Process, TellMain(queue))
      BY <1>1, <2>1, TellingKeeps
    <3>2. queue \in Seq(Handles) /\ TellMain(queue) \in Seq(Handles)
      BY QueueTypes
    <3>3. Queued(Process, Append(queue, Done(j)))
      BY <1>1, <3>1, <3>2, AppendKeeps
    <3>4. Queued(Process, Append(TellMain(queue), Done(j)))
      BY <1>1, <3>1, <3>2, AppendKeeps
    <3> QED
      BY <1>2, <3>3, <3>4
  <2> QED
    BY <1>2, <2>1, QuietKeepsWakes
<1>3. ASSUME NEW count, RetriesLater(j, count, queue)
      PROVE  WakesForEveryRun'
  <2>1. CASE scheduler = "running"
    <3>1. Woken(queue) = Append(queue, Process)
      BY <2>1 DEF Woken
    <3>2. Woken(queue) \in Seq(Handles) /\ Queued(Process, Woken(queue))
      BY <1>1, <3>1, QueueTypes, AppendKeeps
    <3>3. Queued(Process, Append(Woken(queue), Done(j)))
      BY <1>1, <3>2, AppendKeeps
    <3> QED
      BY <1>3, <3>3, QueuedWakes DEF RetriesLater
  <2>2. CASE scheduler # "running"
    BY <2>2 DEF WakesForEveryRun
  <2> QED
    BY <2>1, <2>2
<1> QED
  BY <1>2, <1>3 DEF Settles, EndsClean, Abandons, Freezes, Crashes, jobVars

(* The wakeup arms the timer for the first of the stored runs. *)
LEMMA ProcessJobsWakes ==
  ASSUME ProcessJobs
  PROVE  WakesForEveryRun'
<1>1. PICK id \in Ids :
        /\ \A other \in Ids : NotAfter(store'[id].next, store'[other].next)
        /\ timer' = [armed |-> TRUE, at |-> store'[id].next]
  BY DEF ProcessJobs
<1> QED
  BY <1>1 DEF WakesForEveryRun

(* No step of the loop oversleeps a stored run. *)
LEMMA LoopStepWakes ==
  ASSUME TypeOK, WakesForEveryRun, LoopStep
  PROVE  WakesForEveryRun'
<1>1. CASE ProcessJobs
  BY <1>1, ProcessJobsWakes
<1>2. CASE ProcessNothing
  BY <1>2 DEF ProcessNothing, WakesForEveryRun
<1>3. ASSUME NEW j \in Jobs, ResumeThreaded(j)
      PROVE  WakesForEveryRun'
  <2>1. Resume(j) \in Handles \ {Process}
    BY RunHandles DEF Ids
  <2>2. /\ Tail(ready) \in Seq(Handles)
        /\ Queued(Process, ready) => Queued(Process, Tail(ready))
    BY <1>3, <2>1, RunningKeepsWakeup DEF ResumeThreaded
  <2> QED
    BY <1>3, <2>2, SettlesWakes DEF ResumeThreaded
<1>4. ASSUME NEW handle \in Handles \ {Process}, Runs(handle),
             UNCHANGED <<store, timer>>,
             scheduler' \in {scheduler, "paused", "stopped"},
             \/ ready' = Tail(ready)
             \/ \E other \in Handles : ready' = Append(Tail(ready), other)
             \/ ready' = TellMain(Tail(ready))
      PROVE  WakesForEveryRun'
  <2>1. /\ Tail(ready) \in Seq(Handles)
        /\ Queued(Process, ready) => Queued(Process, Tail(ready))
    BY <1>4, RunningKeepsWakeup
  <2>2. Queued(Process, ready) => Queued(Process, ready')
    BY <1>4, <2>1, HandleTypes, AppendKeeps, TellingKeeps
  <2> QED
    BY <1>4, <2>2, QuietKeepsWakes
<1>5. ASSUME NEW j \in Jobs, SkipFrozen(j) \/ BeginBody(j) \/ ResumeInline(j) \/ RunRaised(j)
      PROVE  WakesForEveryRun'
  <2>1. {Start(j), Resume(j), Done(j)} \subseteq Handles \ {Process}
    BY RunHandles DEF Ids
  <2> QED
    BY <1>4, <1>5, <2>1 DEF SkipFrozen, BeginBody, ResumeInline, RunRaised, jobVars, processVars
<1>6. ASSUME NEW id \in Ids, RunReturned(id) \/ RunCancelled(id)
      PROVE  WakesForEveryRun'
  <2>1. {Start(id), Resume(id), Done(id)} \subseteq Handles \ {Process}
    BY RunHandles
  <2> QED
    BY <1>4, <1>6, <2>1 DEF RunReturned, RunCancelled, jobVars, processVars
<1>7. CASE ResetSchedules
  <2>1. Process \in Handles /\ Start(Reset) \in Handles /\ Done(Reset) \in Handles
    BY HandleTypes DEF Ids
  <2>2. Tail(ready) \in Seq(Handles)
    BY <1>7, TailType DEF ResetSchedules, Runs, TypeOK
  <2>3. ready' = Append(Append(Tail(ready), Process), Done(Reset))
    BY <1>7, <2>1, <2>2 DEF ResetSchedules
  <2>4. Queued(Process, Append(Tail(ready), Process))
    BY <2>1, <2>2, AppendKeeps
  <2>5. Queued(Process, ready')
    BY <2>1, <2>2, <2>3, <2>4, AppendType, AppendKeeps
  <2> QED
    BY <2>5, QueuedWakes
<1>8. CASE ResetMissed
  <2>1. {Start(Reset), Done(Reset)} \subseteq Handles \ {Process}
    BY RunHandles DEF Ids
  <2> QED
    BY <1>4, <1>8, <2>1 DEF ResetMissed, jobVars, processVars
<1>9. CASE MainWakes
  BY <1>4, <1>9, MainHandles DEF MainWakes, jobVars
<1>10. CASE MainFreezes \/ SchedulerStops
  BY <1>10 DEF MainFreezes, SchedulerStops, WakesForEveryRun
<1> QED
  BY <1>1, <1>2, <1>3, <1>5, <1>6, <1>7, <1>8, <1>9, <1>10 DEF LoopStep

(* Nor does any other step. *)
LEMMA NextWakes ==
  ASSUME TypeOK, WakesForEveryRun, [Next]_vars
  PROVE  WakesForEveryRun'
<1>1. ready \in Seq(Handles)
  BY DEF TypeOK
<1>2. CASE TimerFires
  <2>1. ready' = <<Process>> /\ Queued(Process, <<Process>>)
    BY <1>2 DEF TimerFires, Queued
  <2> QED
    BY <2>1, QueuedWakes
<1>3. CASE RequestShutdown
  BY <1>1, <1>3, HandleTypes, TellingKeeps, QuietKeepsWakes DEF RequestShutdown, jobVars
<1>4. ASSUME NEW j \in Jobs, ThreadEnds(j) \/ SubprocessEnds(j)
      PROVE  WakesForEveryRun'
  <2>1. Resume(j) \in Handles /\ Process \in Handles
    BY HandleTypes DEF Ids
  <2>2. Queued(Process, ready) => Queued(Process, Append(ready, Resume(j)))
    BY <1>1, <2>1, AppendKeeps
  <2> QED
    BY <1>4, <2>2, QuietKeepsWakes DEF ThreadEnds, SubprocessEnds, jobVars, processVars
<1>5. ASSUME NEW j \in Jobs, InlineEnds(j)
      PROVE  WakesForEveryRun'
  BY <1>1, <1>5, SettlesWakes DEF InlineEnds
<1>6. ASSUME UNCHANGED <<store, timer, scheduler, ready>>
      PROVE  WakesForEveryRun'
  BY <1>6, QuietKeepsWakes
<1>7. ASSUME NEW j \in Jobs, InlineAwaits(j)
      PROVE  WakesForEveryRun'
  BY <1>6, <1>7 DEF InlineAwaits, jobVars, processVars
<1>8. CASE Tick \/ UNCHANGED vars
  BY <1>6, <1>8 DEF Tick, vars, jobVars, processVars
<1> QED
  BY <1>2, <1>3, <1>4, <1>5, <1>7, <1>8, LoopStepWakes DEF Next, BodyStep

(* The scheduler's next wakeup comes no later than any stored run, retries and
   weekly re-registrations included.                                           *)
THEOREM NothingOverslept == Spec => []WakesForEveryRun
<1>1. Init => WakesForEveryRun
  <2>1. Init => Queued(Process, ready)
    BY DEF Init, Queued
  <2> QED
    BY <2>1 DEF WakesForEveryRun, Queued
<1>2. TypeOK /\ WakesForEveryRun /\ [Next]_vars => WakesForEveryRun'
  BY NextWakes
<1> QED
  BY <1>1, <1>2, TypeCorrect, PTL DEF Spec
-----------------------------------------------------------------------------
(* Steps *)

(* No body begins on a stopped scheduler: its tasks were cancelled. *)
THEOREM BodiesBeginBeforeStop == Spec => NoBodyAfterStop
<1>1. IInv /\ [Next]_vars =>
        [\A j \in Jobs : task'[j].pc \in {"inline", "thread"} /\ task[j].pc = "created"
           => scheduler # "stopped"]_vars
  BY DEF IInv, RunsSettleBeforeStop, Ids
<1> QED
  BY <1>1, Invariance, PTL DEF Spec, NoBodyAfterStop

(* A schedule moved by the delay fires next at the run's own time plus the delay,
   so long as that time has not passed.                                          *)
LEMMA ShiftedFire ==
  ASSUME NEW sched \in Instants, NEW now \in Instants,
         NotAfter(sched, now), NotAfter(now, Later(sched, Delay))
  PROVE  NextFire(ShiftSlot(sched.slot), now) = Later(sched, Delay)
BY CronSlotsAssumption
   DEF Slots, Instants, NotAfter, Before, Later, At, NextFire, ShiftSlot

(* Only the settling of a job's own failed run ends it and moves its arguments. *)
LEMMA RetryRegisters ==
  ASSUME IInv, Next, NEW j \in Jobs,
         task[j].pc \in {"finished", "inline", "tail"},
         task'[j].pc = "returned", args'[j] # args[j]
  PROVE  store'[j].next = NextFire(ShiftSlot(args[j]), clock)
<1>1. ASSUME NEW k \in Jobs, NEW outcome, NEW queue, Settles(k, outcome, queue)
      PROVE  store'[j].next = NextFire(ShiftSlot(args[j]), clock)
  <2>1. PICK count : RetriesLater(k, count, queue)
    BY <1>1 DEF Settles, EndsClean, Abandons, Freezes, Crashes, jobVars
  <2>2. k = j
    BY <2>1 DEF RetriesLater, IInv, TypeOK
  <2>3. store' = [store EXCEPT ![j] = Registered(j, ShiftSlot(args[j]))]
    BY <2>1, <2>2 DEF RetriesLater
  <2>4. store'[j] = Registered(j, ShiftSlot(args[j]))
    BY <2>3 DEF IInv, TypeOK, Ids
  <2> QED
    BY <2>4 DEF Registered
<1>2. ASSUME NEW k \in Jobs, ResumeThreaded(k) \/ InlineEnds(k)
      PROVE  store'[j].next = NextFire(ShiftSlot(args[j]), clock)
  BY <1>1, <1>2 DEF ResumeThreaded, InlineEnds
<1>3. CASE ResetSchedules
  <2>1. MovesTo(Reset, "returned")
    BY <1>3, MoveTaskMoves DEF ResetSchedules, IInv, Ids, Pcs
  <2>2. task'[j] = task[j]
    BY <2>1, JobSchedulingAssumption DEF MovesTo, Ids
  <2> QED
    BY <2>2
<1>4. args' # args
  OBVIOUS
<1>5. ASSUME NEW k \in Jobs
      PROVE  /\ ~SkipFrozen(k) /\ ~BeginBody(k) /\ ~ResumeInline(k) /\ ~RunRaised(k)
             /\ ~ThreadEnds(k) /\ ~InlineAwaits(k) /\ ~SubprocessEnds(k)
  BY <1>4 DEF SkipFrozen, BeginBody, ResumeInline, RunRaised, ThreadEnds, InlineAwaits,
              SubprocessEnds, jobVars
<1>6. ASSUME NEW id \in Ids
      PROVE  ~RunReturned(id) /\ ~RunCancelled(id)
  BY <1>4 DEF RunReturned, RunCancelled, jobVars
<1>7. /\ ~ProcessJobs /\ ~ProcessNothing /\ ~ResetMissed
      /\ ~MainWakes /\ ~MainFreezes /\ ~SchedulerStops
      /\ ~TimerFires /\ ~Tick /\ ~RequestShutdown
  BY <1>4 DEF ProcessJobs, ProcessNothing, ResetMissed, MainWakes, MainFreezes,
              SchedulerStops, TimerFires, Tick, RequestShutdown, jobVars
<1> QED
  BY <1>2, <1>3, <1>5, <1>6, <1>7 DEF Next, LoopStep, BodyStep

(* A failed run that is settled in time is retried exactly one delay after its
   own time, whatever the length of the week and the delay.                     *)
THEOREM RetriesKeepPace == Spec => RetryKeepsPace
<1>1. IInv /\ [Next]_vars =>
        [\A j \in Jobs :
           /\ task[j].pc \in {"finished", "inline", "tail"}
           /\ task'[j].pc = "returned"
           /\ args'[j] # args[j]
           /\ args[j] = task[j].sched.slot
           /\ NotAfter(clock, Later(task[j].sched, Delay))
           => store'[j].next = Later(task[j].sched, Delay)]_vars
  <2> SUFFICES ASSUME IInv, Next, NEW j \in Jobs,
                      task[j].pc \in {"finished", "inline", "tail"},
                      task'[j].pc = "returned",
                      args'[j] # args[j],
                      args[j] = task[j].sched.slot,
                      NotAfter(clock, Later(task[j].sched, Delay))
               PROVE  store'[j].next = Later(task[j].sched, Delay)
    OBVIOUS
  <2>1. /\ task[j].sched \in Instants
        /\ clock \in Instants
        /\ NotAfter(task[j].sched, clock)
    BY DEF IInv, TypeOK, RunsAreDue, Ids
  <2>2. NextFire(ShiftSlot(args[j]), clock) = Later(task[j].sched, Delay)
    BY <2>1, ShiftedFire
  <2> QED
    BY <2>2, RetryRegisters
<1> QED
  BY <1>1, Invariance, PTL DEF Spec, RetryKeepsPace-----------------------------------------------------------------------------
(* Slots that are dropped *)

(* As in startup.jobs: no job's slot is within the grace and one delay of the
   re-registration, and no job's first retry is in the next week.              *)
SlotsAreClear ==
  \A j \in Jobs : Grace + Delay <= Orig[j] /\ Orig[j] + Delay < WeekLen

Unsettled == AtWork \cup {"created"}

(* Only the jobs' own schedules move. *)
ResetAtMidnight == store[Reset].trigger = 0 /\ task[Reset].sched.slot = 0

(* A job's next run is the delay or more behind the one that has its instance. *)
NextIsLater ==
  \A j \in Jobs :
    task[j].pc # "idle" => NotAfter(Later(task[j].sched, Delay), store[j].next)

(* A run will shift its own slot, unless it was registered anew meanwhile: then its
   slot of this week is the delay or more behind it already.                     *)
ShiftsAhead ==
  \A j \in Jobs :
    task[j].pc \in Unsettled =>
      \/ args[j] = task[j].sched.slot
      \/ /\ args[j] = Orig[j]
         /\ NotAfter(Later(task[j].sched, Delay), At(clock.week, Orig[j]))

PaceInv == NextIsLater /\ ShiftsAhead

(* Once a due run is handed out, the next is a week behind it. *)
LEMMA FollowingIsLater ==
  ASSUME NEW now \in Instants, NEW next \in Instants, NotAfter(next, now)
  PROVE  NotAfter(Later(DueFire(next.slot, now), Delay), FollowingFire(next.slot, now))
BY CronSlotsAssumption
   DEF Slots, Instants, NotAfter, Before, DueFire, FollowingFire, Later, At

(* However late a run fails, its retry is the delay or more behind it. *)
LEMMA RetryIsLater ==
  ASSUME NEW sched \in Instants, NEW now \in Instants, NotAfter(sched, now)
  PROVE  NotAfter(Later(sched, Delay), NextFire(ShiftSlot(sched.slot), now))
BY CronSlotsAssumption
   DEF Slots, Instants, NotAfter, Before, NextFire, ShiftSlot, Later, At

(* So is the next run at a slot that is the delay or more behind it in this week. *)
LEMMA SlotIsLater ==
  ASSUME NEW sched \in Instants, NEW now \in Instants, NEW slot \in Slots,
         NotAfter(Later(sched, Delay), At(now.week, slot))
  PROVE  /\ NotAfter(Later(sched, Delay), NextFire(slot, now))
         /\ slot + Delay < WeekLen =>
              NotAfter(Later(sched, Delay), NextFire(ShiftSlot(slot), now))
BY CronSlotsAssumption
   DEF Slots, Instants, NotAfter, Before, NextFire, ShiftSlot, Later, At

(* At a re-registration that is not missed, a clear slot is behind every run. *)
LEMMA ResetIsEarly ==
  ASSUME NEW now \in Instants, NEW sched \in Instants, NotAfter(sched, now),
         NEW reset \in Instants, reset.slot = 0, NotAfter(reset, now),
         ~Before(Later(reset, Grace), now),
         NEW slot \in Slots, Grace + Delay <= slot
  PROVE  NotAfter(Later(sched, Delay), At(now.week, slot))
<1>1. Grace \in 0..(WeekLen - 1)
  BY JobSchedulingAssumption
<1>2. now.week = reset.week /\ now.slot <= Grace
  BY <1>1, CronSlotsAssumption DEF Slots, Instants, NotAfter, Before, Later, At
<1> QED
  BY <1>1, <1>2, CronSlotsAssumption DEF Slots, Instants, NotAfter, Before, Later, At

(* A slot of this week is no earlier than one of the weeks before. *)
LEMMA TickKeepsAhead ==
  ASSUME NEW i \in Instants, NEW now \in Instants, NEW slot \in Slots,
         NotAfter(i, At(now.week, slot))
  PROVE  NotAfter(i, At(Later(now, 1).week, slot))
BY CronSlotsAssumption DEF Slots, Instants, NotAfter, Before, Later, At

(* The instants and slots of the schedules. *)
LEMMA PaceTypes ==
  ASSUME IInv
  PROVE  /\ clock \in Instants
         /\ \A id \in Ids : /\ task[id].sched \in Instants
                            /\ Later(task[id].sched, Delay) \in Instants
                            /\ store[id].next \in Instants
         /\ \A j \in Jobs : /\ j \in Ids /\ j # Reset
                            /\ args[j] \in Slots /\ Orig[j] \in Slots
                            /\ task[j].pc # "idle" => NotAfter(task[j].sched, clock)
<1>1. Delay \in 0..(WeekLen - 1)
  BY CronSlotsAssumption
<1> QED
  BY <1>1, SlotTypes, JobSchedulingAssumption DEF IInv, TypeOK, RunsAreDue, Ids

(* reschedule_jobs is due at midnight, whichever job is rescheduled. *)
LEMMA MidnightStays ==
  ASSUME IInv, ResetAtMidnight, [Next]_vars
  PROVE  ResetAtMidnight'
<1>1. Reset \in Ids /\ \A j \in Jobs : j # Reset
  BY JobSchedulingAssumption DEF Ids
<1>2. ASSUME store'[Reset].trigger = store[Reset].trigger,
             \/ task'[Reset].sched = task[Reset].sched
             \/ task'[Reset].sched = DueFire(store[Reset].trigger, clock)
             \/ task'[Reset] = NoRun
      PROVE  ResetAtMidnight'
  BY <1>2 DEF ResetAtMidnight, DueFire, NoRun, At
<1>3. CASE ProcessJobs
  <2>1. store'[Reset].trigger = store[Reset].trigger
    BY <1>1, <1>3 DEF ProcessJobs, NextRuns, IInv, TypeOK
  <2>2. \/ task'[Reset].sched = DueFire(store[Reset].trigger, clock)
        \/ task'[Reset] = task[Reset]
    BY <1>1, <1>3 DEF ProcessJobs
  <2> QED
    BY <1>2, <2>1, <2>2
<1>4. ASSUME NEW id \in Ids, NEW pc \in Pcs, MoveTask(id, pc) \/ Leaves(id, pc),
             store' = store
      PROVE  ResetAtMidnight'
  <2>1. task'[Reset].sched = task[Reset].sched
    BY <1>1, <1>4, MoveTaskMoves DEF MovesTo, IInv
  <2> QED
    BY <1>2, <1>4, <2>1
<1>5. ASSUME NEW j \in Jobs, NEW outcome, NEW queue, Settles(j, outcome, queue)
      PROVE  ResetAtMidnight'
  <2>1. \E pc \in {"returned", "raised"} : Leaves(j, pc)
    BY <1>5 DEF Settles, EndsClean, Abandons, RetriesLater, Freezes, Crashes
  <2>2. task'[Reset].sched = task[Reset].sched
    BY <1>1, <2>1 DEF Leaves, IInv, TypeOK
  <2>3. store'[Reset] = store[Reset]
    BY <1>1, <1>5 DEF Settles, EndsClean, Abandons, RetriesLater, Freezes, Crashes, jobVars,
                      IInv, TypeOK
  <2> QED
    BY <1>2, <2>2, <2>3
<1>6. ASSUME NEW j \in Jobs,
             \/ SkipFrozen(j) \/ BeginBody(j) \/ ResumeInline(j) \/ RunRaised(j)
             \/ InlineAwaits(j) \/ SubprocessEnds(j)
      PROVE  ResetAtMidnight'
  BY <1>4, <1>6 DEF SkipFrozen, BeginBody, ResumeInline, RunRaised, InlineAwaits,
                    SubprocessEnds, jobVars, Pcs, Ids
<1>7. ASSUME NEW j \in Jobs, ThreadEnds(j)
      PROVE  ResetAtMidnight'
  <2>1. store' = store /\ task'[Reset] = task[Reset]
    BY <1>1, <1>7 DEF ThreadEnds, jobVars, IInv, TypeOK
  <2> QED
    BY <1>2, <2>1
<1>8. ASSUME NEW j \in Jobs, ResumeThreaded(j) \/ InlineEnds(j)
      PROVE  ResetAtMidnight'
  BY <1>5, <1>8 DEF ResumeThreaded, InlineEnds
<1>9. ASSUME NEW id \in Ids, RunReturned(id)
      PROVE  ResetAtMidnight'
  <2>1. store' = store /\ task'[Reset] \in {task[Reset], NoRun}
    BY <1>1, <1>9 DEF RunReturned, jobVars, IInv, TypeOK
  <2> QED
    BY <1>2, <2>1
<1>10. CASE ResetSchedules
  <2>1. store'[Reset] = store[Reset]
    BY <1>1, <1>10 DEF ResetSchedules
  <2>2. task'[Reset].sched = task[Reset].sched
    BY <1>1, <1>10 DEF ResetSchedules, Leaves, IInv, TypeOK
  <2> QED
    BY <1>2, <2>1, <2>2
<1>11. CASE ResetMissed
  BY <1>1, <1>4, <1>11 DEF ResetMissed, jobVars, Pcs
<1>12. CASE SchedulerStops
  <2>1. store' = store /\ task'[Reset].sched = task[Reset].sched
    BY <1>1, <1>12 DEF SchedulerStops, jobVars, IInv, TypeOK
  <2> QED
    BY <1>2, <2>1
<1>13. CASE \/ ProcessNothing \/ TimerFires \/ RequestShutdown \/ MainWakes \/ MainFreezes
            \/ Tick \/ UNCHANGED vars \/ \E id \in Ids : RunCancelled(id)
  <2>1. UNCHANGED <<store, task>>
    BY <1>13 DEF ProcessNothing, TimerFires, RequestShutdown, MainWakes, MainFreezes, Tick,
                 RunCancelled, vars, jobVars
  <2> QED
    BY <1>2, <2>1
<1> QED
  BY <1>3, <1>6, <1>7, <1>8, <1>9, <1>10, <1>11, <1>12, <1>13 DEF Next, LoopStep, BodyStep

LEMMA MidnightBegins == Init => ResetAtMidnight
BY DEF Init, ResetAtMidnight, BootSlot, NoRun, At, Ids

LEMMA MidnightHolds == Spec => []ResetAtMidnight
<1>1. Init => ResetAtMidnight
  BY MidnightBegins
<1>2. IInv /\ ResetAtMidnight /\ [Next]_vars => ResetAtMidnight'
  BY MidnightStays
<1> QED
  BY <1>1, <1>2, Invariance, PTL DEF Spec

(* Moving one run along, its end included, while nothing is registered. *)
LEMMA MoveKeepsPace ==
  ASSUME PaceInv, NEW id \in Ids, NEW pc, MovesTo(id, pc), task[id].pc # "idle",
         pc \in Unsettled => task[id].pc \in Unsettled,
         UNCHANGED <<clock, args, store>>
  PROVE  PaceInv'
<1>2. \A j \in Jobs : /\ task'[j].pc # "idle" => task[j].pc # "idle"
                      /\ task'[j].pc \in Unsettled => task[j].pc \in Unsettled
                      /\ task'[j].sched = task[j].sched
  BY DEF MovesTo, Ids
<1>3. NextIsLater' /\ ShiftsAhead'
  BY <1>2 DEF PaceInv, NextIsLater, ShiftsAhead
<1> QED
  BY <1>3 DEF PaceInv

(* The end of a run: a retry is the delay or more behind it. *)
LEMMA SettlesPace ==
  ASSUME SlotsAreClear, IInv, PaceInv, NEW j \in Jobs, NEW outcome, NEW queue,
         task[j].pc \in AtWork, Settles(j, outcome, queue), UNCHANGED clock
  PROVE  PaceInv'
<1>1. j \in Ids /\ task[j].pc # "idle" /\ {"returned", "raised"} \subseteq Pcs /\ TypeOK
  BY DEF AtWork, Ids, Pcs, IInv
<1>2. ASSUME NEW pc \in {"returned", "raised"}, Leaves(j, pc), args' = args, store' = store
      PROVE  PaceInv'
  <2>1. MovesTo(j, pc)
    BY <1>1, <1>2, MoveTaskMoves
  <2> QED
    BY <1>1, <1>2, <2>1, MoveKeepsPace DEF Unsettled, AtWork
<1>3. ASSUME NEW count, RetriesLater(j, count, queue)
      PROVE  PaceInv'
  <2>1. MovesTo(j, "returned")
    BY <1>1, <1>3, MoveTaskMoves DEF RetriesLater
  <2>2. /\ store'[j].next = NextFire(ShiftSlot(args[j]), clock)
        /\ \A id \in Ids \ {j} : store'[id] = store[id]
        /\ \A other \in Jobs \ {j} : args'[other] = args[other]
    BY <1>1, <1>3 DEF RetriesLater, Registered, TypeOK
  <2>3. NotAfter(Later(task[j].sched, Delay), NextFire(ShiftSlot(args[j]), clock))
    <3>1. CASE args[j] = task[j].sched.slot
      BY <1>1, <3>1, PaceTypes, RetryIsLater
    <3>2. CASE args[j] = Orig[j]
               /\ NotAfter(Later(task[j].sched, Delay), At(clock.week, Orig[j]))
      <4>1. Orig[j] + Delay < WeekLen
        BY DEF SlotsAreClear
      <4> QED
        BY <3>2, <4>1, PaceTypes, SlotIsLater
    <3> QED
      BY <3>1, <3>2 DEF PaceInv, ShiftsAhead, Unsettled
  <2>5. NextIsLater' /\ ShiftsAhead'
    <3> SUFFICES ASSUME NEW k \in Jobs
                 PROVE  /\ task'[k].pc # "idle" =>
                             NotAfter(Later(task'[k].sched, Delay), store'[k].next)
                        /\ task'[k].pc \in Unsettled =>
                             \/ args'[k] = task'[k].sched.slot
                             \/ /\ args'[k] = Orig[k]
                                /\ NotAfter(Later(task'[k].sched, Delay),
                                            At(clock'.week, Orig[k]))
      BY DEF NextIsLater, ShiftsAhead
    <3>1. CASE k = j
      BY <2>1, <2>2, <2>3, <3>1 DEF MovesTo, Unsettled, AtWork
    <3>2. CASE k # j
      <4>1. task'[k] = task[k] /\ store'[k] = store[k] /\ args'[k] = args[k]
        BY <2>1, <2>2, <3>2 DEF MovesTo, Ids
      <4> QED
        BY <4>1 DEF PaceInv, NextIsLater, ShiftsAhead
    <3> QED
      BY <3>1, <3>2
  <2> QED
    BY <2>5 DEF PaceInv
<1> QED
  BY <1>2, <1>3 DEF Settles, EndsClean, Abandons, Freezes, Crashes, jobVars

(* The re-registration: each job's own slot is behind its run, which began no later. *)
LEMMA ResetSchedulesPace ==
  ASSUME SlotsAreClear, IInv, ResetAtMidnight, PaceInv, ResetSchedules
  PROVE  PaceInv'
<1>1. MovesTo(Reset, "returned")
  BY MoveTaskMoves DEF ResetSchedules, IInv, Ids, Pcs
<1>2. /\ store'[Reset] = store[Reset] /\ args' = Orig /\ clock' = clock
      /\ \A j \in Jobs : store'[j].next = NextFire(Orig[j], clock) /\ task'[j] = task[j]
  BY <1>1, PaceTypes DEF ResetSchedules, Registered, MovesTo, Ids
<1>3. ASSUME NEW j \in Jobs, task[j].pc # "idle"
      PROVE  NotAfter(Later(task[j].sched, Delay), At(clock.week, Orig[j]))
  <2>1. /\ task[Reset].sched \in Instants /\ task[Reset].sched.slot = 0
        /\ NotAfter(task[Reset].sched, clock)
        /\ ~Before(Later(task[Reset].sched, Grace), clock)
    BY PaceTypes DEF ResetSchedules, Misfires, IInv, RunsAreDue, ResetAtMidnight, Ids
  <2>2. Grace + Delay <= Orig[j]
    BY DEF SlotsAreClear
  <2> QED
    BY <1>3, <2>1, <2>2, PaceTypes, ResetIsEarly
<1>5. NextIsLater'
  BY <1>2, <1>3, PaceTypes, SlotIsLater DEF NextIsLater
<1>6. ShiftsAhead'
  BY <1>2, <1>3 DEF ShiftsAhead, Unsettled, AtWork
<1> QED
  BY <1>5, <1>6 DEF PaceInv

(* Who is handed out has a new run, and its next a week behind. *)
LEMMA ProcessJobsPace ==
  ASSUME IInv, PaceInv, ProcessJobs
  PROVE  PaceInv'
<1>1. clock' = clock /\ args' = args /\ store' = NextRuns(Due)
  BY DEF ProcessJobs
<1>2. ASSUME NEW id \in Ids
      PROVE  \/ /\ id \in Due
                /\ store'[id].trigger = store[id].trigger
                /\ store'[id].next = FollowingFire(store[id].trigger, clock)
             \/ store'[id] = store[id]
  <2>1. store[id] \in [trigger : Slots, next : Instants]
    BY DEF IInv, TypeOK
  <2> QED
    BY <1>1, <2>1 DEF NextRuns
<1>3. ASSUME NEW id \in Ids
      PROVE  \/ /\ id \in Due
                /\ task'[id].sched = DueFire(store[id].trigger, clock)
             \/ task'[id] = task[id]
  BY DEF ProcessJobs, Due
<1>4. ASSUME NEW id \in Ids
      PROVE  /\ store[id].next \in Instants /\ clock \in Instants
             /\ store[id].trigger = store[id].next.slot
             /\ id \in Due => NotAfter(store[id].next, clock)
  <2>1. store[id].next \in Instants /\ clock \in Instants
    BY PaceTypes
  <2>2. store[id].trigger = store[id].next.slot
    BY DEF IInv, StoreFollowsArgs
  <2> QED
    BY <2>1, <2>2 DEF Due
<1>6. ASSUME NEW j \in Jobs, task'[j].pc # "idle"
      PROVE  NotAfter(Later(task'[j].sched, Delay), store'[j].next)
  <2>1. j \in Ids
    BY DEF Ids
  <2>2. CASE task'[j] = task[j] /\ store'[j] = store[j]
    BY <1>6, <2>2 DEF PaceInv, NextIsLater
  <2>3. CASE /\ j \in Due /\ task'[j] = task[j]
             /\ store'[j].next = FollowingFire(store[j].trigger, clock)
    <3>1. NotAfter(Later(task[j].sched, Delay), store[j].next)
      BY <1>6, <2>3 DEF PaceInv, NextIsLater
    <3>2. NotAfter(store[j].next, FollowingFire(store[j].trigger, clock))
      BY <1>4, <2>1, <2>3, CronSlotsAssumption
         DEF FollowingFire, Instants, Slots, NotAfter, Before, At
    <3>3. FollowingFire(store[j].trigger, clock) \in Instants
      BY <1>4, <2>1, SlotTypes DEF Instants
    <3>4. Later(task[j].sched, Delay) \in Instants /\ store[j].next \in Instants
      BY <2>1, PaceTypes
    <3>5. NotAfter(Later(task[j].sched, Delay), FollowingFire(store[j].trigger, clock))
      BY <3>1, <3>2, <3>3, <3>4 DEF Instants, Slots, NotAfter, Before
    <3> QED
      BY <2>3, <3>5
  <2>4. CASE /\ j \in Due /\ task'[j].sched = DueFire(store[j].trigger, clock)
             /\ store'[j].next = FollowingFire(store[j].trigger, clock)
    BY <1>4, <2>1, <2>4, FollowingIsLater
  <2>5. ASSUME j \in Due PROVE store'[j].next = FollowingFire(store[j].trigger, clock)
    <3>1. store[j] \in [trigger : Slots, next : Instants]
      BY <2>1 DEF IInv, TypeOK
    <3> QED
      BY <1>1, <2>1, <2>5, <3>1 DEF NextRuns
  <2> QED
    BY <1>2, <1>3, <2>1, <2>2, <2>3, <2>4, <2>5
<1>7. ASSUME NEW j \in Jobs, task'[j].pc \in Unsettled
      PROVE  \/ args[j] = task'[j].sched.slot
             \/ /\ args[j] = Orig[j]
                /\ NotAfter(Later(task'[j].sched, Delay), At(clock.week, Orig[j]))
  <2>1. CASE task'[j] = task[j]
    BY <1>7, <2>1 DEF PaceInv, ShiftsAhead
  <2>2. CASE task'[j].sched = DueFire(store[j].trigger, clock)
    BY <2>2 DEF IInv, StoreFollowsArgs, DueFire, At
  <2> QED
    BY <1>3, <2>1, <2>2 DEF Ids
<1> QED
  BY <1>1, <1>6, <1>7 DEF PaceInv, NextIsLater, ShiftsAhead, Unsettled, AtWork

(* Every step keeps the pace. *)
LEMMA NextKeepsPace ==
  ASSUME SlotsAreClear, IInv, ResetAtMidnight, PaceInv, [Next]_vars
  PROVE  PaceInv'
<1>1. CASE ProcessJobs
  BY <1>1, ProcessJobsPace
<1>2. ASSUME UNCHANGED <<clock, args, store, task>>
      PROVE  PaceInv'
  BY <1>2 DEF PaceInv, NextIsLater, ShiftsAhead
<1>3. ASSUME NEW id \in Ids, NEW pc \in Pcs \ {"idle"},
             MoveTask(id, pc) \/ Leaves(id, pc) \/ MovesTo(id, pc),
             task[id].pc # "idle", pc \in Unsettled => task[id].pc \in Unsettled,
             UNCHANGED <<clock, args, store>>
      PROVE  PaceInv'
  BY <1>3, MoveTaskMoves, MoveKeepsPace DEF IInv
<1>4. ASSUME NEW j \in Jobs, SkipFrozen(j) \/ BeginBody(j) \/ ResumeInline(j) \/ RunRaised(j)
      PROVE  PaceInv'
  <2>1. j \in Ids
    BY DEF Ids
  <2>2. CASE SkipFrozen(j)
    BY <1>3, <2>1, <2>2 DEF SkipFrozen, jobVars, Pcs, Unsettled, AtWork
  <2>3. CASE BeginBody(j)
    BY <1>3, <2>1, <2>3 DEF BeginBody, jobVars, Pcs, Unsettled, AtWork
  <2>4. CASE ResumeInline(j)
    BY <1>3, <2>1, <2>4 DEF ResumeInline, jobVars, Pcs, Unsettled, AtWork
  <2>5. CASE RunRaised(j)
    BY <1>3, <2>1, <2>5 DEF RunRaised, jobVars, Pcs, Unsettled, AtWork
  <2> QED
    BY <1>4, <2>2, <2>3, <2>4, <2>5
<1>5. ASSUME NEW j \in Jobs, ThreadEnds(j) \/ InlineAwaits(j) \/ SubprocessEnds(j)
      PROVE  PaceInv'
  <2>1. j \in Ids
    BY DEF Ids
  <2>2. CASE ThreadEnds(j)
    <3>1. PICK outcome \in MayEnd[j] :
            task' = [task EXCEPT ![j] = [pc |-> "finished", outcome |-> outcome,
                                         sched |-> @.sched]]
      BY <2>2 DEF ThreadEnds
    <3>2. outcome \in Outcomes
      BY JobSchedulingAssumption
    <3>3. MovesTo(j, "finished")
      BY <2>1, <3>1, <3>2 DEF MovesTo, IInv, TypeOK, Pcs
    <3> QED
      BY <1>3, <2>1, <2>2, <3>3 DEF ThreadEnds, jobVars, Pcs, Unsettled, AtWork
  <2>3. CASE InlineAwaits(j)
    BY <1>3, <2>1, <2>3 DEF InlineAwaits, jobVars, Pcs, Unsettled, AtWork
  <2>4. CASE SubprocessEnds(j)
    BY <1>3, <2>1, <2>4 DEF SubprocessEnds, jobVars, Pcs, Unsettled, AtWork
  <2> QED
    BY <1>5, <2>2, <2>3, <2>4
<1>6. ASSUME NEW j \in Jobs, ResumeThreaded(j) \/ InlineEnds(j)
      PROVE  PaceInv'
  <2>1. task[j].pc \in AtWork
    BY <1>6 DEF ResumeThreaded, InlineEnds, AtWork
  <2> QED
    BY <1>6, <2>1, SettlesPace DEF ResumeThreaded, InlineEnds
<1>7. ASSUME NEW id \in Ids, RunReturned(id)
      PROVE  PaceInv'
  <2>1. /\ task'[id] = NoRun
        /\ \A other \in Ids \ {id} : task'[other] = task[other]
        /\ UNCHANGED <<clock, args, store>>
    BY <1>7 DEF RunReturned, jobVars, IInv, TypeOK
  <2>2. NoRun.pc = "idle" /\ NoRun.sched.slot = 0
    BY DEF NoRun, At
  <2> QED
    BY <2>1, <2>2
       DEF PaceInv, NextIsLater, ShiftsAhead, Unsettled, AtWork, Ids
<1>8. CASE ResetSchedules
  BY <1>8, ResetSchedulesPace
<1>9. CASE ResetMissed
  BY <1>3, <1>9 DEF ResetMissed, jobVars, Pcs, Unsettled, AtWork, Ids
<1>10. CASE SchedulerStops
  <2>1. \A id \in Ids : /\ task'[id].sched = task[id].sched
                        /\ task'[id].pc \in {task[id].pc, "cancelled"}
                        /\ task'[id].pc # "idle" => task[id].pc # "idle"
    BY <1>10 DEF SchedulerStops, IInv, TypeOK, Pending
  <2> QED
    BY <1>10, <2>1
       DEF SchedulerStops, jobVars, PaceInv, NextIsLater, ShiftsAhead,
           Unsettled, AtWork, Ids
<1>11. CASE Tick
  <2>1. clock' = Later(clock, 1) /\ UNCHANGED <<args, store, task>>
    BY <1>11 DEF Tick, jobVars
  <2>2. NextIsLater'
    BY <2>1 DEF PaceInv, NextIsLater
  <2>3. ShiftsAhead'
    BY <2>1, PaceTypes, TickKeepsAhead DEF PaceInv, ShiftsAhead
  <2> QED
    BY <2>2, <2>3 DEF PaceInv
<1>12. CASE \/ ProcessNothing \/ TimerFires \/ RequestShutdown \/ MainWakes \/ MainFreezes
            \/ UNCHANGED vars
  BY <1>2, <1>12 DEF ProcessNothing, TimerFires, RequestShutdown, MainWakes, MainFreezes,
                     vars, jobVars
<1>13. ASSUME NEW id \in Ids, RunCancelled(id)
       PROVE  PaceInv'
  BY <1>2, <1>13 DEF RunCancelled, jobVars
<1> QED
  BY <1>1, <1>4, <1>5, <1>6, <1>7, <1>8, <1>9, <1>10, <1>11, <1>12, <1>13
     DEF Next, LoopStep, BodyStep

(* At boot nothing has run. *)
LEMMA InitPace == Init => PaceInv
BY DEF Init, PaceInv, NextIsLater, ShiftsAhead, Unsettled, AtWork, NoRun,
       BootSlot, At, Ids

(* Only a wakeup that meets a taken instance moves a stored run and not its task. *)
LEMMA OnlyBehindALateRun ==
  ASSUME IInv, PaceInv, [Next]_vars, NEW j \in Jobs,
         Runs(Process), store'[j].next # store[j].next, task'[j] = task[j]
  PROVE  NotAfter(Later(task[j].sched, Delay), clock)
<1>1. ProcessJobs
  <2>1. store' # store
    OBVIOUS
  <2>2. \A handle : handle # Process => ~Runs(handle)
    BY DEF Runs
  <2>3. \A id \in Ids : Start(id) # Process /\ Resume(id) # Process
    BY HandleKinds
  <2>4. ASSUME NEW k \in Jobs PROVE ~ResumeThreaded(k) /\ ~InlineEnds(k)
    BY <2>2, <2>3 DEF ResumeThreaded, InlineEnds, Runs, LoopHeld, Ids
  <2>5. ~ResetSchedules
    BY <2>2, <2>3 DEF ResetSchedules, Ids
  <2>6. ASSUME NEW k \in Jobs
        PROVE  /\ ~SkipFrozen(k) /\ ~BeginBody(k) /\ ~ResumeInline(k) /\ ~RunRaised(k)
               /\ ~ThreadEnds(k) /\ ~InlineAwaits(k) /\ ~SubprocessEnds(k)
    BY <2>1 DEF SkipFrozen, BeginBody, ResumeInline, RunRaised, ThreadEnds, InlineAwaits,
                SubprocessEnds, jobVars
  <2>7. \A id \in Ids : ~RunReturned(id) /\ ~RunCancelled(id)
    BY <2>1 DEF RunReturned, RunCancelled, jobVars
  <2>8. /\ ~ProcessNothing /\ ~ResetMissed /\ ~MainWakes /\ ~MainFreezes /\ ~SchedulerStops
        /\ ~TimerFires /\ ~Tick /\ ~RequestShutdown /\ ~UNCHANGED vars
    BY <2>1 DEF ProcessNothing, ResetMissed, MainWakes, MainFreezes, SchedulerStops,
                TimerFires, Tick, RequestShutdown, vars, jobVars
  <2> QED
    BY <2>4, <2>5, <2>6, <2>7, <2>8 DEF Next, LoopStep, BodyStep
<1>2. j \in Ids /\ j \in Due
  <2>1. j \in Ids
    BY DEF Ids
  <2> QED
    BY <1>1, <2>1 DEF ProcessJobs, NextRuns
<1>3. task[j].pc # "idle"
  <2> SUFFICES ASSUME task[j].pc = "idle" PROVE FALSE
    OBVIOUS
  <2>1. Admits(j)
    BY <1>2 DEF Admits, IInv, InstancesMatchRuns
  <2>2. task'[j].pc = "created"
    BY <1>1, <1>2, <2>1 DEF ProcessJobs
  <2> QED
    BY <2>2
<1>4. NotAfter(Later(task[j].sched, Delay), store[j].next) /\ NotAfter(store[j].next, clock)
  BY <1>2, <1>3 DEF PaceInv, NextIsLater, Due
<1>5. /\ Later(task[j].sched, Delay) \in Instants
      /\ store[j].next \in Instants /\ clock \in Instants
  BY <1>2, PaceTypes
<1> QED
  BY <1>2, <1>4, <1>5 DEF Instants, Slots, NotAfter, Before

(* With the slots of startup.jobs, max_instances drops a run of process_jobs only
   behind one that has had its instance for the delay or longer.                 *)
THEOREM LongRunsCostASlot == ASSUME SlotsAreClear PROVE Spec => OnlyLongRunsCostASlot
<1>1. Init => PaceInv
  BY InitPace
<1>2. IInv /\ ResetAtMidnight /\ PaceInv /\ [Next]_vars => PaceInv'
  BY NextKeepsPace
<1>3. IInv /\ PaceInv /\ [Next]_vars =>
        [\A j \in Jobs :
           Runs(Process) /\ store'[j].next # store[j].next /\ task'[j] = task[j]
           => NotAfter(Later(task[j].sched, Delay), clock)]_vars
  BY OnlyBehindALateRun
<1> QED
  BY <1>1, <1>2, <1>3, Invariance, MidnightHolds, PTL DEF Spec, OnlyLongRunsCostASlot

-----------------------------------------------------------------------------
(* Each job lives as JobLife promises *)

(* Both calendars are one. *)
LEMMA OneCalendar ==
  ASSUME NEW j \in Jobs, NEW s, NEW now, NEW d
  PROVE  /\ Life(j)!NextFire(s, now) = NextFire(s, now)
         /\ Life(j)!FollowingFire(s, now) = FollowingFire(s, now)
         /\ Life(j)!Later(now, d) = Later(now, d)
         /\ Life(j)!ShiftSlot(s) = ShiftSlot(s)
         /\ Life(j)!NotAfter(s, now) <=> NotAfter(s, now)
BY DEF NextFire, FollowingFire, Later, ShiftSlot, NotAfter, Before, At,
       Life!NextFire, Life!FollowingFire, Life!Later, Life!ShiftSlot, Life!NotAfter,
       Life!Before, Life!At

(* A job boots as it is registered. *)
LEMMA LifeBegins ==
  ASSUME Init, NEW j \in Jobs
  PROVE  Life(j)!Init
<1>1. j \in Ids /\ j # Reset
  BY JobSchedulingAssumption DEF Ids
<1>2. store[j].next = NextFire(Orig[j], clock) /\ Stage(task[j].pc) = "none"
  BY <1>1 DEF Init, BootSlot, NoRun, Stage
<1>3. /\ clock \in Life(j)!Instants /\ args[j] = Orig[j]
      /\ errCounter[j] = 0 /\ errored[j] = FALSE
  BY DEF Init, Slots, Life!Instants, Life!Slots
<1> QED
  BY <1>2, <1>3, OneCalendar DEF Life!Init

(* The stages that a run goes through while its job's registration stays. *)
LEMMA RunGoesOn ==
  ASSUME NEW j \in Jobs, UNCHANGED <<clock, jobVars>>,
         \/ Stage(task'[j].pc) = Stage(task[j].pc)
         \/ Stage(task[j].pc) = "waiting" /\ Stage(task'[j].pc) = "working" /\ ~errored[j]
         \/ Stage(task[j].pc) \in {"waiting", "working"} /\ Stage(task'[j].pc) = "over"
         \/ Stage(task[j].pc) = "over" /\ Stage(task'[j].pc) = "none"
  PROVE  [Life(j)!Next]_(Life(j)!vars)
<1>1. CASE Stage(task'[j].pc) = Stage(task[j].pc)
  BY <1>1 DEF Life!vars, jobVars, Stage
<1>2. CASE Stage(task[j].pc) = "waiting" /\ Stage(task'[j].pc) = "working" /\ ~errored[j]
  BY <1>2 DEF Life!Next, Life!Works, jobVars, Stage
<1>3. CASE Stage(task[j].pc) \in {"waiting", "working"} /\ Stage(task'[j].pc) = "over"
  BY <1>3 DEF Life!Next, Life!Abandoned, Life!RunEnds, jobVars, Stage
<1>4. CASE Stage(task[j].pc) = "over" /\ Stage(task'[j].pc) = "none"
  BY <1>4 DEF Life!Next, Life!GivesBack, jobVars, Stage
<1> QED
  BY <1>1, <1>2, <1>3, <1>4

(* A step of one run is a step or none of that job's life, and no step of another's. *)
LEMMA MoveIsLived ==
  ASSUME NEW id \in Ids, NEW pc, MovesTo(id, pc), UNCHANGED <<clock, jobVars>>,
         NEW j \in Jobs,
         \/ Stage(pc) = Stage(task[id].pc)
         \/ Stage(task[id].pc) = "waiting" /\ Stage(pc) = "working" /\ (id = j => ~errored[j])
         \/ Stage(task[id].pc) \in {"waiting", "working"} /\ Stage(pc) = "over"
         \/ Stage(task[id].pc) = "over" /\ Stage(pc) = "none"
  PROVE  [Life(j)!Next]_(Life(j)!vars)
<1>1. CASE id = j
  <2>1. task'[j].pc = pc
    BY <1>1 DEF MovesTo
  <2> QED
    BY <1>1, <2>1, RunGoesOn
<1>2. CASE id # j
  <2>1. task'[j] = task[j]
    BY <1>2 DEF MovesTo, Ids
  <2> QED
    BY <2>1, RunGoesOn
<1> QED
  BY <1>1, <1>2

(* The end of a run: clean, given up, retried later, or the job freezes. *)
LEMMA SettlesLife ==
  ASSUME IInv, NEW k \in Jobs, NEW outcome, NEW queue,
         task[k].pc \in AtWork, Settles(k, outcome, queue), UNCHANGED clock,
         NEW j \in Jobs
  PROVE  [Life(j)!Next]_(Life(j)!vars)
<1>1. k \in Ids /\ Stage(task[k].pc) = "working" /\ TypeOK
  BY DEF Stage, AtWork, Ids, IInv
<1>2. PICK pc \in {"returned", "raised"} : Leaves(k, pc)
  BY DEF Settles, EndsClean, Abandons, RetriesLater, Freezes, Crashes
<1>3. MovesTo(k, pc) /\ Stage(pc) = "over"
  BY <1>1, <1>2, MoveTaskMoves DEF Pcs, Stage
<1>4. CASE k # j
  <2>1. task'[j] = task[j]
    BY <1>3, <1>4 DEF MovesTo, Ids
  <2>2. /\ args'[j] = args[j] /\ store'[j] = store[j]
        /\ errCounter'[j] = errCounter[j] /\ errored'[j] = errored[j]
    BY <1>1, <1>4 DEF Settles, EndsClean, Abandons, RetriesLater, Freezes, Crashes, jobVars,
                      TypeOK, Ids
  <2> QED
    BY <2>1, <2>2 DEF Life!vars
<1>5. CASE k = j
  <2>1. Stage(task[j].pc) = "working" /\ Stage(task'[j].pc) = "over"
    BY <1>1, <1>3, <1>5 DEF MovesTo
  <2>2. ~errored[j] /\ errCounter[j] \in Nat /\ errCounter[j] < Threshold
    BY <1>1, <1>5, JobSchedulingAssumption
       DEF IInv, TypeOK, FrozenJobsRest, ThresholdFreezes
  <2>3. CASE EndsClean(j, queue)
    <3>1. Life(j)!EndsClean
      BY <2>1, <2>3, <1>1 DEF EndsClean, Life!EndsClean, Life!RunEnds, TypeOK, Stage
    <3> QED
      BY <3>1 DEF Life!Next
  <2>4. CASE Abandons(j, queue)
    BY <2>1, <2>4, RunGoesOn DEF Abandons
  <2>5. ASSUME NEW count \in {errCounter[j], errCounter[j] + 1}, count < Threshold,
               RetriesLater(j, count, queue)
        PROVE  [Life(j)!Next]_(Life(j)!vars)
    <3>1. /\ args'[j] = ShiftSlot(args[j])
          /\ store'[j].next = NextFire(ShiftSlot(args[j]), clock)
          /\ errCounter'[j] = count /\ errored'[j] = errored[j]
      BY <1>1, <2>5, <1>5 DEF RetriesLater, Registered, TypeOK, Ids
    <3>2. Life(j)!RetriedLater(count)
      BY <2>1, <2>5, <3>1, OneCalendar DEF Life!RetriedLater, Life!RunEnds, Stage
    <3> QED
      BY <2>5, <3>2 DEF Life!Next, Life!Fails
  <2>6. ASSUME NEW count \in {errCounter[j], errCounter[j] + 1},
               count \in {errCounter[j], Threshold}, Freezes(j, count, queue)
        PROVE  [Life(j)!Next]_(Life(j)!vars)
    <3>1. Life(j)!Freezes(count)
      BY <1>1, <2>1, <2>6 DEF Freezes, Life!Freezes, Life!RunEnds, TypeOK, Stage
    <3> QED
      BY <2>6, <3>1 DEF Life!Next, Life!Fails
  <2>7. CASE Crashes(j, queue)
    <3>1. Life(j)!Freezes(errCounter[j])
      BY <1>1, <2>1, <2>7 DEF Crashes, Life!Freezes, Life!RunEnds, TypeOK, Stage
    <3> QED
      BY <3>1 DEF Life!Next, Life!Fails
  <2>8. CASE outcome = "resched" /\ RetriesLater(j, errCounter[j], queue)
    BY <2>2, <2>5, <2>8
  <2>9. CASE outcome = "error" /\ ~ReachesThreshold(j)
             /\ RetriesLater(j, errCounter[j] + 1, queue)
    <3>1. errCounter[j] + 1 < Threshold
      BY <2>2, <2>9, JobSchedulingAssumption DEF ReachesThreshold
    <3> QED
      BY <2>5, <2>9, <3>1
  <2>10. CASE outcome = "error" /\ ReachesThreshold(j) /\ Freezes(j, errCounter[j] + 1, queue)
    <3>1. errCounter[j] + 1 = Threshold
      BY <2>2, <2>10, JobSchedulingAssumption DEF ReachesThreshold
    <3> QED
      BY <2>6, <2>10, <3>1
  <2>11. CASE outcome = "joberror" /\ Freezes(j, errCounter[j], queue)
    BY <2>6, <2>11
  <2> QED
    BY <1>5, <2>3, <2>4, <2>7, <2>8, <2>9, <2>10, <2>11 DEF Settles
<1> QED
  BY <1>4, <1>5

(* The weekly re-registration comes within the grace of midnight. *)
LEMMA ResetSchedulesLife ==
  ASSUME IInv, ResetAtMidnight, ResetSchedules, NEW j \in Jobs
  PROVE  [Life(j)!Next]_(Life(j)!vars)
<1>1. j \in Ids /\ j # Reset /\ Reset \in Ids
  BY JobSchedulingAssumption DEF Ids
<1>2. /\ args'[j] = Orig[j] /\ store'[j].next = NextFire(Orig[j], clock)
      /\ UNCHANGED <<clock, errCounter, errored>> /\ task'[j] = task[j]
  BY <1>1 DEF ResetSchedules, Registered, Leaves, IInv, TypeOK
<1>3. clock.slot <= Grace
  <2>1. /\ task[Reset].sched \in Instants /\ task[Reset].sched.slot = 0 /\ clock \in Instants
        /\ NotAfter(task[Reset].sched, clock)
        /\ ~Before(Later(task[Reset].sched, Grace), clock)
    BY <1>1, PaceTypes DEF ResetSchedules, Misfires, IInv, TypeOK, RunsAreDue, ResetAtMidnight
  <2> QED
    BY <2>1, JobSchedulingAssumption, CronSlotsAssumption
       DEF Later, Before, NotAfter, At, Instants, Slots
<1>4. Life(j)!Reregistered
  BY <1>2, <1>3, OneCalendar DEF Life!Reregistered
<1> QED
  BY <1>4 DEF Life!Next

(* Who is due is handed out, or dropped with its next run a week behind. *)
LEMMA ProcessJobsLife ==
  ASSUME IInv, ProcessJobs, NEW j \in Jobs
  PROVE  [Life(j)!Next]_(Life(j)!vars)
<1>1. /\ j \in Ids
      /\ store[j] \in [trigger : Slots, next : Instants] /\ store[j].trigger = args[j]
  BY DEF Ids, IInv, TypeOK, StoreFollowsArgs
<1>2. UNCHANGED <<clock, args, errCounter, errored>>
  BY DEF ProcessJobs
<1>3. CASE j \in Due
  <2>1. NotAfter(store[j].next, clock) /\ store'[j].next = FollowingFire(args[j], clock)
    BY <1>1, <1>3 DEF ProcessJobs, NextRuns, Due
  <2>2. Stage(task'[j].pc) = IF Stage(task[j].pc) = "none" THEN "waiting"
                                                           ELSE Stage(task[j].pc)
    <3>1. Admits(j) <=> Stage(task[j].pc) = "none"
      BY <1>1 DEF Admits, IInv, InstancesMatchRuns, Stage
    <3>2. Admits(j) => task'[j].pc = "created"
      BY <1>1, <1>3 DEF ProcessJobs
    <3>3. ~Admits(j) => task'[j] = task[j]
      BY <1>1, <1>3 DEF ProcessJobs
    <3> QED
      BY <3>1, <3>2, <3>3 DEF Stage
  <2>3. Life(j)!HandedOut
    BY <1>2, <2>1, <2>2, OneCalendar DEF Life!HandedOut
  <2> QED
    BY <2>3 DEF Life!Next
<1>4. CASE j \notin Due
  <2>1. store'[j] = store[j] /\ task'[j] = task[j]
    BY <1>1, <1>4 DEF ProcessJobs, NextRuns
  <2> QED
    BY <1>2, <2>1 DEF Life!vars
<1> QED
  BY <1>3, <1>4

(* Every step of the jobs' system is, to each job, a step of its life or none. *)
LEMMA NextIsLived ==
  ASSUME IInv, ResetAtMidnight, [Next]_vars, NEW j \in Jobs
  PROVE  [Life(j)!Next]_(Life(j)!vars)
<1> USE DEF jobVars
<1>1. ASSUME UNCHANGED <<clock, jobVars, task>>
      PROVE  [Life(j)!Next]_(Life(j)!vars)
  BY <1>1, RunGoesOn
<1>2. ASSUME NEW id \in Ids, NEW pc \in Pcs,
             MoveTask(id, pc) \/ Leaves(id, pc) \/ MovesTo(id, pc), UNCHANGED <<clock, jobVars>>,
             \/ Stage(pc) = Stage(task[id].pc)
             \/ Stage(task[id].pc) = "waiting" /\ Stage(pc) = "working" /\ (id = j => ~errored[j])
             \/ Stage(task[id].pc) \in {"waiting", "working"} /\ Stage(pc) = "over"
      PROVE  [Life(j)!Next]_(Life(j)!vars)
  BY <1>2, MoveTaskMoves, MoveIsLived DEF IInv
<1>3. ASSUME NEW k \in Jobs, \/ SkipFrozen(k) \/ BeginBody(k) \/ ResumeInline(k) \/ RunRaised(k)
                             \/ InlineAwaits(k) \/ SubprocessEnds(k)
      PROVE  [Life(j)!Next]_(Life(j)!vars)
  <2>1. k \in Ids
    BY DEF Ids
  <2>2. CASE SkipFrozen(k)
    BY <1>2, <2>1, <2>2 DEF SkipFrozen, Pcs, Stage
  <2>3. CASE BeginBody(k)
    BY <1>2, <2>1, <2>3 DEF BeginBody, Pcs, Stage
  <2>4. CASE ResumeInline(k)
    BY <1>2, <2>1, <2>4 DEF ResumeInline, Pcs, Stage
  <2>5. CASE RunRaised(k)
    BY <1>2, <2>1, <2>5 DEF RunRaised, Pcs, Stage
  <2>6. CASE InlineAwaits(k) \/ SubprocessEnds(k)
    BY <1>2, <2>1, <2>6 DEF InlineAwaits, SubprocessEnds, Pcs, Stage
  <2> QED
    BY <1>3, <2>2, <2>3, <2>4, <2>5, <2>6
<1>4. ASSUME NEW k \in Jobs, ThreadEnds(k)
      PROVE  [Life(j)!Next]_(Life(j)!vars)
  <2>1. task'[j] = task[j] \/ (task[j].pc = "thread" /\ task'[j].pc = "finished")
    BY <1>4 DEF ThreadEnds, IInv, TypeOK, Ids
  <2> QED
    BY <1>4, <2>1, RunGoesOn DEF ThreadEnds, Stage
<1>5. ASSUME NEW k \in Jobs, ResumeThreaded(k) \/ InlineEnds(k)
      PROVE  [Life(j)!Next]_(Life(j)!vars)
  <2>1. task[k].pc \in AtWork
    BY <1>5 DEF ResumeThreaded, InlineEnds, AtWork
  <2> QED
    BY <1>5, <2>1, SettlesLife DEF ResumeThreaded, InlineEnds
<1>6. ASSUME NEW id \in Ids, RunReturned(id)
      PROVE  [Life(j)!Next]_(Life(j)!vars)
  <2>1. task'[j] = task[j] \/ (task[j].pc = "returned" /\ task'[j].pc = "idle")
    BY <1>6 DEF RunReturned, NoRun, IInv, TypeOK, Ids
  <2> QED
    BY <1>6, <2>1, RunGoesOn DEF RunReturned, Stage
<1>7. CASE ResetMissed
  BY <1>2, <1>7 DEF ResetMissed, Pcs, Stage, Ids
<1>8. CASE SchedulerStops
  <2>1. task'[j] = task[j] \/ (task[j].pc \in Pending /\ task'[j].pc = "cancelled")
    BY <1>8 DEF SchedulerStops, IInv, TypeOK, Ids
  <2> QED
    BY <1>8, <2>1, RunGoesOn DEF SchedulerStops, Pending, Stage
<1>9. CASE Tick
  <2>1. Life(j)!TimePasses
    BY <1>9, OneCalendar DEF Tick, Life!TimePasses
  <2> QED
    BY <2>1 DEF Life!Next
<1>10. CASE \/ ProcessNothing \/ TimerFires \/ RequestShutdown \/ MainWakes \/ MainFreezes
            \/ UNCHANGED vars \/ \E id \in Ids : RunCancelled(id)
  BY <1>1, <1>10 DEF ProcessNothing, TimerFires, RequestShutdown, MainWakes, MainFreezes,
                     RunCancelled, vars
<1> QED
  BY <1>3, <1>4, <1>5, <1>6, <1>7, <1>8, <1>9, <1>10, ProcessJobsLife, ResetSchedulesLife
     DEF Next, LoopStep, BodyStep

(* JobScheduling implements JobLife for each of its jobs, whatever the others, the
   loop, the threads and the stop do: at most one run of a job at a time, no work of
   a frozen job, every retry one delay behind the job's own slot, and a registration
   that only a retry of the job itself or the begin of the week moves.              *)
THEOREM EachJobLivesAsPromised == Spec => LivesAsPromised
<1>1. Init => \A j \in Jobs : Life(j)!Init
  BY LifeBegins
<1>2. IInv /\ ResetAtMidnight /\ [Next]_vars =>
        [\A j \in Jobs : [Life(j)!Next]_(Life(j)!vars)]_vars
  BY NextIsLived
<1> QED
  BY <1>1, <1>2, Invariance, MidnightHolds, PTL DEF Spec, LivesAsPromised
=============================================================================
