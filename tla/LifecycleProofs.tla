--------------------------- MODULE LifecycleProofs ---------------------------
(***************************************************************************)
(* For every set of jobs, week length, delay and threshold, and a shutdown,  *)
(* its teardown and the exit nudge at any moment: no failed run is forgotten *)
(* by an exit with 0, and only a failed run makes a shutdown fatal.          *)
(*                                                                         *)
(* JobScheduling's inductive invariant survives the process around it.  What *)
(* it lacks is that the exception of a failed run, while it is not yet       *)
(* reported, has its callback in the loop's queue: the loop is not closed    *)
(* until that queue is empty.                                                *)
(*                                                                         *)
(* And no body begins beside the teardown (NoJobIntoTheClose): what the      *)
(* queue still holds comes behind the scheduler's stop.                      *)
(*                                                                         *)
(* Each job lives as JobLife promises through all of it                      *)
(* (EachJobLivesInTheProcess).                                               *)
(***************************************************************************)
EXTENDS Lifecycle, JobSchedulingProofs

(* A run's exception is of an errored job and on its way to the callback. *)
RaisedIsQueued ==
  \A j \in Jobs : task[j].pc = "raised" => errored[j] /\ Queued(Done(j), ready)

(* Nothing fails before there is a loop. *)
BootIsClean == phase = "boot" => \A j \in Jobs : ~errored[j]

CodesAreOfExits == exitCode # NoCode => phase = "exited"

LifeInv ==
  /\ IInv
  /\ RaisedIsQueued
  /\ LifeTypeOK
  /\ BootIsClean
  /\ CodesAreOfExits
  /\ FailuresExitOne

-----------------------------------------------------------------------------
(* A step after which no more runs have raised, and their callbacks are queued. *)
LEMMA StillQueued ==
  ASSUME RaisedIsQueued,
         \A j \in Jobs : task'[j].pc = "raised" =>
           /\ task[j].pc = "raised"
           /\ errored[j] => errored'[j]
           /\ Queued(Done(j), ready) => Queued(Done(j), ready')
  PROVE  RaisedIsQueued'
BY DEF RaisedIsQueued

-----------------------------------------------------------------------------
(* The steps of JobScheduling *)

(* The steps that leave the tasks alone. *)
LEMMA TasklessKeeps ==
  ASSUME IInv, RaisedIsQueued,
         \/ ProcessNothing \/ TimerFires \/ Tick \/ RequestShutdown
         \/ MainWakes \/ MainFreezes
  PROVE  RaisedIsQueued'
<1>1. task' = task /\ errored' = errored
  BY DEF ProcessNothing, TimerFires, Tick, RequestShutdown, MainWakes, MainFreezes, jobVars
<1>2. TypeOK
  BY DEF IInv
<1>3. ASSUME NEW j \in Jobs, Queued(Done(j), ready)
      PROVE  Queued(Done(j), ready')
  <2>1. Done(j) \in Handles /\ Done(j).do = "done" /\ ready \in Seq(Handles)
    BY <1>2, HandleTypes, HandleKinds DEF Ids, TypeOK
  <2>2. CASE ProcessNothing
    BY <1>2, <1>3, <2>1, <2>2, RunningKeeps, HandleKinds DEF ProcessNothing
  <2>3. CASE TimerFires
    BY <1>3, <2>3 DEF TimerFires, LoopIdle, Queued
  <2>4. CASE Tick
    BY <1>3, <2>4 DEF Tick
  <2>5. CASE RequestShutdown
    BY <1>3, <2>1, <2>5, TellingKeeps DEF RequestShutdown
  <2>6. CASE MainWakes
    BY <1>2, <1>3, <2>1, <2>6, RunningKeeps, HandleKinds, HandleTypes, AppendKeeps
       DEF MainWakes
  <2>7. CASE MainFreezes
    BY <1>2, <1>3, <2>1, <2>7, RunningKeeps, HandleKinds, HandleTypes, AppendKeeps
       DEF MainFreezes
  <2> QED
    BY <2>2, <2>3, <2>4, <2>5, <2>6, <2>7
<1> QED
  BY <1>1, <1>3, StillQueued

(* The stop cancels no run that has raised. *)
LEMMA SchedulerStopsKeeps ==
  ASSUME IInv, RaisedIsQueued, SchedulerStops
  PROVE  RaisedIsQueued'
<1>1. TypeOK /\ errored' = errored
  BY DEF IInv, SchedulerStops, jobVars
<1>2. \A j \in Jobs : task'[j].pc = "raised" => task[j].pc = "raised"
  BY <1>1 DEF SchedulerStops, TypeOK, Ids
<1>3. \A j \in Jobs : Queued(Done(j), ready) => Queued(Done(j), ready')
  BY <1>1, RunningKeeps, HandleKinds DEF SchedulerStops, Ids
<1> QED
  BY <1>1, <1>2, <1>3, StillQueued

(* The runs of what is due are queued behind. *)
LEMMA ProcessJobsKeeps ==
  ASSUME IInv, RaisedIsQueued, ProcessJobs
  PROVE  RaisedIsQueued'
<1> DEFINE submitted == {id \in Due : Admits(id)}
<1>1. PICK order \in SubmissionOrders(submitted) :
        /\ task' = [id \in Ids |->
                      IF id \in submitted
                        THEN [pc |-> "created", outcome |-> "ok",
                              sched |-> DueFire(store[id].trigger, clock)]
                        ELSE task[id]]
        /\ ready' = Tail(ready) \o [i \in 1..Cardinality(submitted) |-> Start(order[i])]
  BY DEF ProcessJobs
<1>2. TypeOK /\ errored' = errored /\ Runs(Process)
  BY DEF IInv, ProcessJobs
<1>3. \A j \in Jobs : task'[j].pc = "raised" => task[j].pc = "raised"
  BY <1>1 DEF Ids
<1>4. [i \in 1..Cardinality(submitted) |-> Start(order[i])] \in Seq(Handles)
  <2>1. IsFiniteSet(submitted)
    <3>1. IsFiniteSet(Ids)
      BY JobSchedulingAssumption, FS_AddElement DEF Ids
    <3> QED
      BY <3>1, FS_Subset DEF Due
  <2>2. Cardinality(submitted) \in Nat
    BY <2>1, FS_CardinalityType
  <2>3. \A i \in 1..Cardinality(submitted) : Start(order[i]) \in Handles
    BY HandleTypes DEF SubmissionOrders, Due
  <2> QED
    BY <2>2, <2>3
<1>5. \A j \in Jobs : Queued(Done(j), ready) => Queued(Done(j), ready')
  <2> SUFFICES ASSUME NEW j \in Jobs, Queued(Done(j), ready) PROVE Queued(Done(j), ready')
    OBVIOUS
  <2>1. Tail(ready) \in Seq(Handles) /\ Queued(Done(j), Tail(ready))
    BY <1>2, RunningKeeps, HandleKinds DEF Ids
  <2> QED
    BY <1>1, <1>4, <2>1, ConcatKeeps
<1> QED
  BY <1>2, <1>3, <1>5, StillQueued

(* The steps of one run that settle nothing. *)
LEMMA MovingKeeps ==
  ASSUME IInv, RaisedIsQueued, NEW j \in Jobs,
         \/ SkipFrozen(j) \/ BeginBody(j) \/ ThreadEnds(j)
         \/ InlineAwaits(j) \/ SubprocessEnds(j) \/ ResumeInline(j)
  PROVE  RaisedIsQueued'
<1>1. TypeOK /\ errored' = errored
  BY DEF IInv, SkipFrozen, BeginBody, ThreadEnds, InlineAwaits, SubprocessEnds,
         ResumeInline, jobVars
<1>2. \A k \in Jobs : task'[k].pc = "raised" => task[k].pc = "raised"
  <2> DEFINE Ways == {"returned", "inline", "thread", "awaiting", "finished", "tail"}
  <2>1. CASE ThreadEnds(j)
    BY <1>1, <2>1 DEF ThreadEnds, TypeOK, Ids
  <2>2. CASE ~ThreadEnds(j)
    <3>1. PICK pc \in Ways : MoveTask(j, pc) \/ Leaves(j, pc)
      BY <2>2 DEF SkipFrozen, BeginBody, InlineAwaits, SubprocessEnds, ResumeInline
    <3>2. MovesTo(j, pc)
      BY <1>1, <3>1, MoveTaskMoves DEF Ids, Pcs
    <3> QED
      BY <3>2 DEF MovesTo, Ids
  <2> QED
    BY <2>1, <2>2
<1>3. ASSUME NEW k \in Jobs, Queued(Done(k), ready)
      PROVE  Queued(Done(k), ready')
  <2>1. /\ {Done(j), Done(k), Resume(j)} \subseteq Handles /\ Done(k).do = "done"
        /\ Start(j).do = "start" /\ Resume(j).do = "resume" /\ ready \in Seq(Handles)
    BY <1>1, HandleTypes, HandleKinds DEF Ids, TypeOK
  <2>2. CASE SkipFrozen(j)
    BY <1>1, <1>3, <2>1, <2>2, RunningKeeps, AppendKeeps DEF SkipFrozen
  <2>3. CASE BeginBody(j)
    BY <1>1, <1>3, <2>1, <2>3, RunningKeeps DEF BeginBody
  <2>4. CASE ThreadEnds(j)
    BY <1>3, <2>1, <2>4, AppendKeeps DEF ThreadEnds
  <2>5. CASE InlineAwaits(j)
    BY <1>3, <2>5 DEF InlineAwaits
  <2>6. CASE SubprocessEnds(j)
    BY <1>3, <2>1, <2>6, AppendKeeps DEF SubprocessEnds
  <2>7. CASE ResumeInline(j)
    BY <1>1, <1>3, <2>1, <2>7, RunningKeeps DEF ResumeInline
  <2> QED
    BY <2>2, <2>3, <2>4, <2>5, <2>6, <2>7
<1> QED
  BY <1>1, <1>2, <1>3, StillQueued

(* However a run is settled: its own exception queues its own callback. *)
LEMMA SettlingKeeps ==
  ASSUME IInv, RaisedIsQueued, NEW j \in Jobs, NEW outcome, NEW queue \in Seq(Handles),
         Settles(j, outcome, queue),
         \A k \in Jobs : Queued(Done(k), ready) => Queued(Done(k), queue)
  PROVE  RaisedIsQueued'
<1>1. /\ task \in [Ids -> [pc : Pcs, outcome : Outcomes, sched : Instants]]
      /\ errored \in [Jobs -> BOOLEAN] /\ j \in Ids
  BY DEF IInv, TypeOK, Ids
<1>2. \A k \in Jobs : Done(k) \in Handles
  BY HandleTypes DEF Ids
<1>3. /\ \A k \in Jobs \ {j} : task'[k] = task[k]
      /\ \A k \in Jobs : errored[k] => errored'[k]
      /\ task'[j].pc = "raised" => errored'[j]
  BY <1>1 DEF Settles, EndsClean, Abandons, RetriesLater, Freezes, Crashes, Leaves,
              jobVars, Ids
<1>4. \E told \in Seq(Handles) :
        /\ ready' = Append(told, Done(j))
        /\ \A k \in Jobs : Queued(Done(k), queue) => Queued(Done(k), told)
  <2>1. /\ TellMain(queue) \in Seq(Handles) /\ Woken(queue) \in Seq(Handles)
        /\ \A k \in Jobs : Queued(Done(k), queue) =>
             Queued(Done(k), TellMain(queue)) /\ Queued(Done(k), Woken(queue))
    BY <1>2, QueueTypes, TellingKeeps
  <2>2. ready' \in {Append(queue, Done(j)), Append(Woken(queue), Done(j)),
                    Append(TellMain(queue), Done(j))}
    BY DEF Settles, EndsClean, Abandons, RetriesLater, Freezes, Crashes
  <2> QED
    BY <2>1, <2>2
<1>5. /\ Queued(Done(j), ready')
      /\ \A k \in Jobs : Queued(Done(k), ready) => Queued(Done(k), ready')
  BY <1>2, <1>4, AppendKeeps
<1> QED
  BY <1>3, <1>5 DEF RaisedIsQueued

(* A run that ends, on the loop or resumed. *)
LEMMA EndingKeeps ==
  ASSUME IInv, RaisedIsQueued, NEW j \in Jobs, ResumeThreaded(j) \/ InlineEnds(j)
  PROVE  RaisedIsQueued'
<1>1. TypeOK /\ ready \in Seq(Handles)
  BY DEF IInv, TypeOK
<1>2. CASE ResumeThreaded(j)
  <2>1. Settles(j, task[j].outcome, Tail(ready)) /\ Runs(Resume(j))
    BY <1>2 DEF ResumeThreaded
  <2>2. Tail(ready) \in Seq(Handles)
    BY <1>1, <2>1, TailType DEF Runs
  <2>3. \A k \in Jobs : Queued(Done(k), ready) => Queued(Done(k), Tail(ready))
    BY <1>1, <2>1, RunningKeeps, HandleKinds DEF Ids
  <2> QED
    BY <2>1, <2>2, <2>3, SettlingKeeps
<1>3. CASE InlineEnds(j)
  <2>1. PICK outcome \in MayEnd[j] : Settles(j, outcome, ready)
    BY <1>3 DEF InlineEnds
  <2> QED
    BY <1>1, <2>1, SettlingKeeps
<1> QED
  BY <1>2, <1>3

(* The callbacks of runs. *)
LEMMA CallbackKeeps ==
  ASSUME IInv, RaisedIsQueued, NEW id \in Ids,
         RunReturned(id) \/ (id \in Jobs /\ RunRaised(id))
  PROVE  RaisedIsQueued'
<1>1. TypeOK /\ errored' = errored /\ Runs(Done(id))
  BY DEF IInv, RunReturned, RunRaised, jobVars
<1>2. task'[id].pc # "raised" /\ \A k \in Ids \ {id} : task'[k] = task[k]
  BY <1>1 DEF RunReturned, RunRaised, MoveTask, NoRun, TypeOK
<1>3. ASSUME NEW k \in Jobs, k # id, Queued(Done(k), ready)
      PROVE  Queued(Done(k), ready')
  <2>1. Done(id) # Done(k)
    BY <1>3, HandleKinds DEF Ids
  <2>2. /\ Tail(ready) \in Seq(Handles) /\ Done(k) \in Handles
        /\ Queued(Done(k), Tail(ready))
    BY <1>1, <1>3, <2>1, RunningKeeps
  <2>3. ready' \in {Tail(ready), TellMain(Tail(ready))}
    BY DEF RunReturned, RunRaised
  <2> QED
    BY <2>2, <2>3, TellingKeeps
<1> QED
  BY <1>1, <1>2, <1>3, StillQueued DEF Ids

(* A cancelled run, and the re-registration. *)
LEMMA OthersKeep ==
  ASSUME IInv, RaisedIsQueued,
         (\E id \in Ids : RunCancelled(id)) \/ ResetSchedules \/ ResetMissed
  PROVE  RaisedIsQueued'
<1>1. TypeOK /\ errored' = errored
  BY DEF IInv, RunCancelled, ResetSchedules, ResetMissed, jobVars
<1>2. \A k \in Jobs : task'[k] = task[k]
  BY <1>1, JobSchedulingAssumption
     DEF RunCancelled, ResetSchedules, ResetMissed, Leaves, TypeOK, Ids
<1>3. ASSUME NEW k \in Jobs, Queued(Done(k), ready)
      PROVE  Queued(Done(k), ready')
  <2>1. PICK handle : Runs(handle) /\ handle # Done(k)
    BY HandleKinds DEF RunCancelled, ResetSchedules, ResetMissed, Ids
  <2>2. /\ Tail(ready) \in Seq(Handles) /\ Done(k) \in Handles
        /\ Queued(Done(k), Tail(ready))
    BY <1>1, <1>3, <2>1, RunningKeeps
  <2>3. Done(Reset) \in Handles /\ <<Process, Done(Reset)>> \in Seq(Handles)
    BY HandleTypes DEF Ids
  <2>4. ready' \in {Tail(ready), Append(Tail(ready), Done(Reset)),
                    Tail(ready) \o <<Process, Done(Reset)>>}
    BY DEF RunCancelled, ResetSchedules, ResetMissed
  <2> QED
    BY <2>2, <2>3, <2>4, AppendKeeps, ConcatKeeps
<1> QED
  BY <1>1, <1>2, <1>3, StillQueued

(* No step of JobScheduling forgets a raised run's callback. *)
LEMMA NextKeeps == IInv /\ RaisedIsQueued /\ [Next]_vars => RaisedIsQueued'
<1> SUFFICES ASSUME IInv, RaisedIsQueued, [Next]_vars PROVE RaisedIsQueued'
  OBVIOUS
<1>1. CASE UNCHANGED vars
  BY <1>1 DEF vars, jobVars, RaisedIsQueued
<1>2. CASE ProcessNothing \/ TimerFires \/ Tick \/ RequestShutdown \/ MainWakes \/ MainFreezes
  BY <1>2, TasklessKeeps
<1>3. CASE ProcessJobs \/ SchedulerStops
  BY <1>3, ProcessJobsKeeps, SchedulerStopsKeeps
<1>4. ASSUME NEW j \in Jobs,
             SkipFrozen(j) \/ BeginBody(j) \/ ResumeThreaded(j) \/ ResumeInline(j) \/ RunRaised(j)
      PROVE  RaisedIsQueued'
  <2>1. j \in Ids
    BY DEF Ids
  <2> QED
    BY <1>4, <2>1, MovingKeeps, EndingKeeps, CallbackKeeps
<1>5. ASSUME NEW j \in Jobs, BodyStep(j)
      PROVE  RaisedIsQueued'
  BY <1>5, MovingKeeps, EndingKeeps DEF BodyStep
<1>6. ASSUME NEW id \in Ids, RunReturned(id) \/ RunCancelled(id)
      PROVE  RaisedIsQueued'
  <2>1. CASE RunReturned(id)
    BY <2>1, CallbackKeeps
  <2>2. CASE RunCancelled(id)
    <3>1. \E other \in Ids : RunCancelled(other)
      BY <2>2
    <3> QED
      BY <3>1, OthersKeep
  <2> QED
    BY <1>6, <2>1, <2>2
<1>7. CASE ResetSchedules \/ ResetMissed
  BY <1>7, OthersKeep
<1> QED
  BY <1>1, <1>2, <1>3, <1>4, <1>5, <1>6, <1>7 DEF Next, LoopStep

-----------------------------------------------------------------------------
(* The steps of the process around it *)

(* JobScheduling's invariant when only main(), the queue and the shutdown change. *)
LEMMA QuietKeeps ==
  ASSUME IInv, UNCHANGED <<clock, jobVars, instances, task, scheduler, timer>>,
         ready' \in Seq(Handles), main' = main,
         shutdown' \in {"none", "graceful", "fatal"}, shutdown = "fatal" => shutdown' = "fatal"
  PROVE  IInv'
BY DEF IInv, TypeOK, StoreFollowsArgs, InstancesMatchRuns, ResetIsBrief, RunsAreDue,
       FrozenJobsRest, ThresholdFreezes, FrozenJobsAreReported, StoppedByMain,
       RunsSettleBeforeStop, jobVars

(* Runs are cancelled, and one that holds the loop is interrupted. *)
LEMMA CancelsKeep ==
  ASSUME IInv, RaisedIsQueued,
         task' \in [Ids -> [pc : Pcs, outcome : Outcomes, sched : Instants]],
         \A id \in Ids : /\ task'[id].sched = task[id].sched
                         /\ \/ task'[id] = task[id]
                            \/ /\ task[id].pc \in AtWork \cup {"created"}
                               /\ task'[id].pc \in {"cancelled", "interrupted"},
         UNCHANGED <<clock, jobVars, instances, scheduler, timer, shutdown>>,
         main' \in {main, "cancelled"}, main = "complete" => main' = main,
         ready' \in Seq(Handles),
         \A j \in Jobs : Queued(Done(j), ready) => Queued(Done(j), ready')
  PROVE  IInv' /\ RaisedIsQueued'
<1>1. TypeOK' /\ StoreFollowsArgs' /\ ThresholdFreezes' /\ StoppedByMain'
  BY DEF IInv, TypeOK, StoreFollowsArgs, ThresholdFreezes, StoppedByMain, jobVars
<1>2. InstancesMatchRuns' /\ RunsAreDue' /\ ResetIsBrief'
  BY DEF IInv, InstancesMatchRuns, RunsAreDue, ResetIsBrief, AtWork, Ids
<1>3. FrozenJobsRest'
  BY DEF IInv, FrozenJobsRest, AtWork, Ids, jobVars
<1>4. FrozenJobsAreReported'
  BY DEF IInv, FrozenJobsAreReported, AtWork, Ids, jobVars
<1>5. RunsSettleBeforeStop'
  BY DEF IInv, RunsSettleBeforeStop, AtWork
<1>6. RaisedIsQueued'
  BY DEF RaisedIsQueued, AtWork, Ids, jobVars
<1> QED
  BY <1>1, <1>2, <1>3, <1>4, <1>5, <1>6 DEF IInv

(* Cancelling spares the tasks that are done or hold the loop. *)
LEMMA CancelledTask ==
  ASSUME NEW run \in [pc : Pcs, outcome : Outcomes, sched : Instants]
  PROVE  /\ Cancelled(run) \in [pc : Pcs, outcome : Outcomes, sched : Instants]
         /\ Cancelled(run).sched = run.sched
         /\ \/ Cancelled(run) = run
            \/ run.pc \in Pending /\ Cancelled(run).pc = "cancelled"
<1>1. CASE run.pc \in Pending
  <2>1. Cancelled(run) = [pc |-> "cancelled", outcome |-> run.outcome, sched |-> run.sched]
    BY <1>1 DEF Cancelled
  <2> QED
    BY <1>1, <2>1 DEF Pcs
<1>2. CASE run.pc \notin Pending
  BY <1>2 DEF Cancelled
<1> QED
  BY <1>1, <1>2

(* The loop's end moves tasks in these two ways only: main()'s return cancels what is
   pending, the nudge interrupts one body at most besides.                          *)
LEMMA EndOnlyCancels ==
  ASSUME TypeOK, MainReturns \/ Nudge
  PROVE  /\ task' \in [Ids -> [pc : Pcs, outcome : Outcomes, sched : Instants]]
         /\ \A id \in Ids : /\ task'[id].sched = task[id].sched
                            /\ \/ task'[id] = task[id]
                               \/ /\ task[id].pc \in AtWork \cup {"created"}
                                  /\ task'[id].pc \in {"cancelled", "interrupted"}
<1> DEFINE Tasks == [pc : Pcs, outcome : Outcomes, sched : Instants]
           cancelled == [id \in Ids |-> Cancelled(task[id])]
<1>1. task \in [Ids -> Tasks]
  BY DEF TypeOK
<1>2. /\ cancelled \in [Ids -> Tasks]
      /\ \A id \in Ids : /\ cancelled[id].sched = task[id].sched
                         /\ \/ cancelled[id] = task[id]
                            \/ /\ task[id].pc \in AtWork \cup {"created"}
                               /\ cancelled[id].pc \in {"cancelled", "interrupted"}
  BY <1>1, CancelledTask DEF Pending, AtWork
<1>3. CASE task' = cancelled
  BY <1>2, <1>3
<1>4. ASSUME NEW j \in Jobs, task[j].pc \in {"inline", "tail"},
             task' = [cancelled EXCEPT ![j].pc = "interrupted"]
      PROVE  /\ task' \in [Ids -> Tasks]
             /\ \A id \in Ids : /\ task'[id].sched = task[id].sched
                                /\ \/ task'[id] = task[id]
                                   \/ /\ task[id].pc \in AtWork \cup {"created"}
                                      /\ task'[id].pc \in {"cancelled", "interrupted"}
  <2>1. j \in Ids /\ "interrupted" \in Pcs /\ task[j].pc \in AtWork
    BY <1>4 DEF Ids, Pcs, AtWork
  <2>2. /\ task' \in [Ids -> Tasks]
        /\ task'[j].pc = "interrupted" /\ task'[j].sched = cancelled[j].sched
        /\ \A id \in Ids \ {j} : task'[id] = cancelled[id]
    BY <1>2, <1>4, <2>1
  <2> QED
    BY <1>2, <2>1, <2>2
<1> QED
  BY <1>3, <1>4 DEF MainReturns, Nudge

(* main()'s return queues nothing. *)
LEMMA MainReturnsKeeps ==
  ASSUME IInv, RaisedIsQueued, MainReturns
  PROVE  IInv' /\ RaisedIsQueued'
<1>1. TypeOK /\ ready \in Seq(Handles)
  BY DEF IInv, TypeOK
<1>2. UNCHANGED <<clock, jobVars, instances, scheduler, timer, shutdown, main, ready>>
  BY DEF MainReturns, processVars
<1> QED
  BY <1>1, <1>2, EndOnlyCancels, CancelsKeep

(* The nudge queues the callback of what it interrupts. *)
LEMMA NudgeKeeps ==
  ASSUME IInv, RaisedIsQueued, Nudge
  PROVE  IInv' /\ RaisedIsQueued'
<1>1. TypeOK /\ ready \in Seq(Handles)
  BY DEF IInv, TypeOK
<1>2. \A j \in Jobs : Done(j) \in Handles
  BY HandleTypes DEF Ids
<1>3. /\ ready' \in Seq(Handles)
      /\ \A j \in Jobs : Queued(Done(j), ready) => Queued(Done(j), ready')
  <2>1. CASE ready' = ready
    BY <1>1, <2>1
  <2>2. ASSUME NEW j \in Jobs, ready' = Append(ready, Done(j))
        PROVE  /\ ready' \in Seq(Handles)
               /\ \A k \in Jobs : Queued(Done(k), ready) => Queued(Done(k), ready')
    BY <1>1, <1>2, <2>2, AppendKeeps
  <2> QED
    BY <2>1, <2>2 DEF Nudge
<1>4. /\ UNCHANGED <<clock, jobVars, instances, scheduler, timer, shutdown>>
      /\ main' \in {main, "cancelled"} /\ (main = "complete" => main' = main)
  BY DEF Nudge
<1> QED
  BY <1>1, <1>3, <1>4, EndOnlyCancels, CancelsKeep

(* The handles only a closing loop meets. *)
LEMMA ClosingKeeps ==
  ASSUME IInv, RaisedIsQueued, ClosingHandle
  PROVE  IInv' /\ RaisedIsQueued'
<1>1. TypeOK /\ ready \in Seq(Handles)
  BY DEF IInv, TypeOK
<1>2. CASE MainCancelled
  <2>1. PICK handle \in {Main, Freeze} : Runs(handle)
    BY <1>2 DEF MainCancelled
  <2>2. Tail(ready) \in Seq(Handles)
    BY <1>1, <2>1, TailType DEF Runs
  <2>3. IInv'
    BY <1>2, <2>2, QuietKeeps DEF MainCancelled, processVars, IInv, TypeOK
  <2>4. \A j \in Jobs : Queued(Done(j), ready) => Queued(Done(j), ready')
    BY <1>1, <1>2, <2>1, RunningKeeps, HandleKinds DEF MainCancelled, Ids
  <2> QED
    BY <1>2, <2>3, <2>4, StillQueued DEF MainCancelled, jobVars
<1>3. ASSUME NEW j \in Jobs, RunInterrupted(j)
      PROVE  IInv' /\ RaisedIsQueued'
  <2>1. Tail(ready) \in Seq(Handles)
    BY <1>1, <1>3, TailType DEF RunInterrupted, Runs
  <2>2. IInv'
    BY <1>3, <2>1, QuietKeeps DEF RunInterrupted, InterruptIsNoFailure, IInv, TypeOK
  <2>3. \A k \in Jobs : k # j /\ Queued(Done(k), ready) => Queued(Done(k), ready')
    BY <1>1, <1>3, RunningKeeps, HandleKinds DEF RunInterrupted, Ids
  <2> QED
    BY <1>3, <2>2, <2>3, StillQueued DEF RunInterrupted, jobVars
<1>4. ASSUME NEW j \in Jobs, BeginsTooLate(j)
      PROVE  IInv' /\ RaisedIsQueued'
  <2>1. /\ Crashes(j, Tail(ready)) /\ Runs(Start(j)) /\ task[j].pc = "created"
        /\ UNCHANGED <<clock, instances, scheduler, timer, main>> /\ j \in Ids
    BY <1>4 DEF BeginsTooLate, Ids
  <2>2. Tail(ready) \in Seq(Handles) /\ Done(j) \in Handles
    BY <1>1, <2>1, TailType, HandleTypes DEF Runs
  <2>3. /\ MovesTo(j, "raised") /\ errored' = [errored EXCEPT ![j] = TRUE]
        /\ ready' \in Seq(Handles) /\ UNCHANGED <<args, store, errCounter, shutdown>>
    BY <1>1, <2>1, <2>2, MoveTaskMoves DEF Crashes, Pcs
  <2>4. TypeOK' /\ StoreFollowsArgs' /\ ThresholdFreezes' /\ StoppedByMain'
    BY <2>1, <2>3 DEF IInv, TypeOK, StoreFollowsArgs, ThresholdFreezes, StoppedByMain, MovesTo
  <2>5. InstancesMatchRuns' /\ RunsAreDue' /\ ResetIsBrief'
    BY <2>1, <2>3, JobSchedulingAssumption
       DEF IInv, InstancesMatchRuns, RunsAreDue, ResetIsBrief, AtWork, MovesTo, Ids
  <2>6. FrozenJobsRest' /\ FrozenJobsAreReported'
    BY <2>3 DEF IInv, TypeOK, FrozenJobsRest, FrozenJobsAreReported, AtWork, MovesTo, Ids
  <2>7. RunsSettleBeforeStop'
    BY <2>1, <2>3 DEF IInv, RunsSettleBeforeStop, MovesTo
  <2>8. \A k \in Jobs : Queued(Done(k), ready) => Queued(Done(k), Tail(ready))
    BY <1>1, <2>1, RunningKeeps, HandleKinds DEF Ids
  <2>9. RaisedIsQueued'
    <3> SUFFICES ASSUME NEW k \in Jobs, task'[k].pc = "raised"
                 PROVE  errored'[k] /\ Queued(Done(k), ready')
      BY DEF RaisedIsQueued
    <3>1. ready' = Append(Tail(ready), Done(j)) /\ Done(k) \in Handles
      BY <2>1, HandleTypes DEF Crashes, Ids
    <3>2. CASE k = j
      BY <1>1, <2>2, <2>3, <3>1, <3>2, AppendKeeps DEF TypeOK
    <3>3. CASE k # j
      <4>1. errored[k] /\ Queued(Done(k), Tail(ready))
        BY <2>3, <2>8, <3>3 DEF RaisedIsQueued, MovesTo, Ids
      <4> QED
        BY <1>1, <2>2, <2>3, <3>1, <3>3, <4>1, AppendKeeps DEF TypeOK
    <3> QED
      BY <3>2, <3>3
  <2> QED
    BY <2>4, <2>5, <2>6, <2>7, <2>9 DEF IInv
<1> QED
  BY <1>2, <1>3, <1>4 DEF ClosingHandle

-----------------------------------------------------------------------------
(* The invariant of the process. *)

(* The invariant holds as run_app begins. *)
LEMMA LifeInitInv == LifeInit => LifeInv
<1> SUFFICES ASSUME LifeInit PROVE LifeInv
  OBVIOUS
<1>1. IInv
  BY InitInv DEF LifeInit
<1>2. \A j \in Jobs : errored[j] = FALSE /\ task[j].pc = "idle"
  BY DEF LifeInit, Init, NoRun, Ids
<1> QED
  BY <1>1, <1>2
     DEF LifeInit, LifeInv, RaisedIsQueued, LifeTypeOK, BootIsClean, CodesAreOfExits,
         FailuresExitOne, NoCode

(* The process is gone with 0 only after a graceful stop of jobs that never failed. *)
LEMMA ExitKeeps ==
  ASSUME LifeInv, Exit, UNCHANGED <<vars, complete>>,
         phase # "boot" => ready = <<>>
  PROVE  LifeInv'
<1>1. IInv' /\ RaisedIsQueued' /\ LifeTypeOK' /\ BootIsClean' /\ CodesAreOfExits'
  BY NextInv, NextKeeps
     DEF LifeInv, LifeTypeOK, Exit, CodeOfShutdown, BootIsClean, CodesAreOfExits
<1>2. ASSUME NEW j \in Jobs, errored[j]
      PROVE  shutdown = "fatal"
  <2>1. task[j].pc # "raised"
    BY <1>2 DEF LifeInv, BootIsClean, RaisedIsQueued, Queued
  <2> QED
    BY <1>2, <2>1 DEF LifeInv, IInv, FrozenJobsAreReported
<1>3. FailuresExitOne'
  BY <1>2 DEF Exit, CodeOfShutdown, FailuresExitOne, vars, jobVars
<1> QED
  BY <1>1, <1>3 DEF LifeInv

(* Steps that leave jobs and process where they are, ... *)
LEMMA StayKeeps ==
  ASSUME LifeInv, IInv', RaisedIsQueued', UNCHANGED <<errored, phase, exitCode>>,
         complete' \in BOOLEAN
  PROVE  LifeInv'
BY DEF LifeInv, LifeTypeOK, BootIsClean, CodesAreOfExits, FailuresExitOne

(* ... and steps of a process that goes on: they leave no exit code. *)
LEMMA StepKeeps ==
  ASSUME LifeInv, IInv', RaisedIsQueued', phase' \in {"loop", "closing"},
         complete' \in BOOLEAN, UNCHANGED exitCode, phase # "exited"
  PROVE  LifeInv'
BY DEF LifeInv, LifeTypeOK, BootIsClean, CodesAreOfExits, FailuresExitOne, NoCode

(* Every step of the process keeps the invariant, action by action. *)
LEMMA LifeNextInv == LifeInv /\ [LifeNext]_allVars => LifeInv'
<1> SUFFICES ASSUME LifeInv, [LifeNext]_allVars PROVE LifeInv'
  OBVIOUS
<1>t. IInv /\ RaisedIsQueued /\ complete \in BOOLEAN /\ TypeOK /\ ready \in Seq(Handles)
  BY DEF LifeInv, LifeTypeOK, IInv, TypeOK
<1>1. CASE InLoop(Next)
  <2>1. IInv' /\ RaisedIsQueued'
    BY <1>1, <1>t, NextInv, NextKeeps DEF InLoop
  <2> QED
    BY <1>1, <1>t, <2>1, StepKeeps DEF InLoop, lifeVars
<1>2. CASE ClosingHandle
  <2>1. IInv' /\ RaisedIsQueued'
    BY <1>2, <1>t, ClosingKeeps
  <2>2. CASE \E j \in Jobs : BeginsTooLate(j)
    BY <1>t, <2>1, <2>2, StepKeeps DEF BeginsTooLate, lifeVars
  <2>3. CASE MainCancelled \/ \E j \in Jobs : RunInterrupted(j)
    BY <1>t, <2>1, <2>3, StayKeeps DEF MainCancelled, RunInterrupted, lifeVars, jobVars
  <2> QED
    BY <1>2, <2>2, <2>3 DEF ClosingHandle
<1>3. CASE ShutdownInBoot
  <2>1. IInv'
    BY <1>3, <1>t, QuietKeeps DEF ShutdownInBoot
  <2>2. RaisedIsQueued'
    BY <1>3, <1>t DEF ShutdownInBoot, RaisedIsQueued, jobVars
  <2> QED
    BY <1>3, <2>1, <2>2
       DEF ShutdownInBoot, LifeInv, LifeTypeOK, BootIsClean, CodesAreOfExits,
           FailuresExitOne, lifeVars, jobVars
<1>4. CASE Booted
  <2>1. ready' \in {ready, Append(ready, Main)} /\ Main \in Handles
    BY <1>4, HandleTypes DEF Booted, AwaitsShutdown
  <2>2. IInv'
    <3>1. ready' \in Seq(Handles)
      BY <1>t, <2>1, AppendType
    <3>2. /\ UNCHANGED <<clock, jobVars, instances, task, scheduler, timer>>
          /\ main' = main /\ shutdown' = shutdown
          /\ shutdown \in {"none", "graceful", "fatal"}
      BY <1>4, <1>t DEF Booted, processVars, TypeOK
    <3> QED
      BY <1>t, <3>1, <3>2, QuietKeeps
  <2>3. RaisedIsQueued'
    <3>1. \A j \in Jobs : ~errored[j]
      BY <1>4 DEF Booted, LifeInv, BootIsClean
    <3> QED
      BY <1>4, <1>t, <3>1 DEF Booted, RaisedIsQueued, jobVars
  <2> QED
    BY <1>4, <1>t, <2>2, <2>3, StepKeeps DEF Booted
<1>5. CASE NudgeInBoot
  BY <1>5, ExitKeeps DEF NudgeInBoot
<1>6. CASE TeardownEnds
  <2>1. IInv' /\ RaisedIsQueued'
    BY <1>6, <1>t, NextInv, NextKeeps DEF TeardownEnds
  <2> QED
    BY <1>6, <2>1, StayKeeps DEF TeardownEnds, vars, jobVars
<1>7. CASE MainReturns
  BY <1>7, <1>t, MainReturnsKeeps, StepKeeps DEF MainReturns
<1>8. CASE Nudge
  BY <1>8, <1>t, NudgeKeeps, StepKeeps DEF Nudge
<1>9. CASE Closed
  BY <1>9, ExitKeeps DEF Closed, LoopIdle
<1>10. CASE UNCHANGED allVars
  <2>1. IInv' /\ RaisedIsQueued'
    BY <1>10, <1>t, NextInv, NextKeeps DEF allVars
  <2> QED
    BY <1>10, <1>t, <2>1, StayKeeps DEF allVars, lifeVars, vars, jobVars
<1> QED
  BY <1>1, <1>2, <1>3, <1>4, <1>5, <1>6, <1>7, <1>8, <1>9, <1>10 DEF LifeNext

(* The invariant holds in every reachable state. *)
LEMMA LifeInvariance == LifeSpec => []LifeInv
BY LifeInitInv, LifeNextInv, PTL DEF LifeSpec

-----------------------------------------------------------------------------
(* run_app, the teardown and the exit code are well-typed, and leave JobScheduling's
   variables so, whatever is cancelled or interrupted.                               *)
THEOREM LifeTypeCorrect == LifeSpec => [](LifeTypeOK /\ TypeOK)
<1>1. LifeInv => LifeTypeOK /\ TypeOK
  BY DEF LifeInv, IInv
<1> QED
  BY <1>1, LifeInvariance, PTL

(* __main__.py's exit code forgets no failed run, though the run fails between an
   operator's stop and the close of the loop.                                     *)
THEOREM NoFailureExitsZero == LifeSpec => []FailuresExitOne
<1>1. LifeInv => FailuresExitOne
  BY DEF LifeInv
<1> QED
  BY <1>1, LifeInvariance, PTL

(* A settled run asks for a fatal shutdown as it freezes its job. *)
LEMMA SettlesFatally ==
  ASSUME IInv, NEW j \in Jobs, NEW outcome, NEW queue, Settles(j, outcome, queue),
         shutdown # "fatal", shutdown' = "fatal"
  PROVE  errored'[j]
BY DEF Settles, EndsClean, Abandons, RetriesLater, Freezes, Crashes, IInv, TypeOK

(* The executor's callback and run_job make a shutdown fatal for a failed run only;
   the nudge's KeyboardInterrupt in a running job does not.                         *)
THEOREM FatalNeedsFailure == LifeSpec => OnlyFailuresAreFatal
<1>1. ASSUME LifeInv, [LifeNext]_allVars, shutdown # "fatal", shutdown' = "fatal"
      PROVE  phase = "boot" \/ \E j \in Jobs : errored'[j]
  <2>1. CASE ShutdownInBoot
    BY <2>1 DEF ShutdownInBoot
  <2>2. ASSUME NEW j \in Jobs, ResumeThreaded(j) \/ InlineEnds(j)
        PROVE  errored'[j]
    <3>1. \E outcome, queue : Settles(j, outcome, queue)
      BY <2>2 DEF ResumeThreaded, InlineEnds
    <3> QED
      BY <1>1, <3>1, SettlesFatally DEF LifeInv
  <2>3. ASSUME NEW j \in Jobs, RunRaised(j)
        PROVE  errored'[j]
    BY <1>1, <2>3 DEF RunRaised, LifeInv, RaisedIsQueued, jobVars
  <2>4. CASE Next
    BY <1>1, <2>2, <2>3, <2>4
       DEF Next, LoopStep, BodyStep, ProcessJobs, ProcessNothing, TimerFires, Tick,
           RequestShutdown, SkipFrozen, BeginBody, ResumeInline, ThreadEnds, InlineAwaits,
           SubprocessEnds, RunReturned, RunCancelled, ResetSchedules, ResetMissed, MainWakes,
           MainFreezes, SchedulerStops, processVars
  <2>5. CASE LifeNext /\ ~InLoop(Next)
    BY <1>1, <2>1, <2>5
       DEF LifeNext, ClosingHandle, MainCancelled, RunInterrupted, InterruptIsNoFailure,
           BeginsTooLate, Crashes, Booted, NudgeInBoot, TeardownEnds, MainReturns, Nudge,
           Closed, processVars, vars
  <2> QED
    BY <1>1, <2>4, <2>5 DEF InLoop, allVars, vars, processVars
<1> QED
  BY <1>1, LifeInvariance, PTL DEF LifeSpec, OnlyFailuresAreFatal
-----------------------------------------------------------------------------
(* No body begins beside the teardown: once main() has frozen the scheduler, its
   stop is queued, and a closing loop starts nothing before that stop has run.
   A run has one start in the queue, while it is created or cancelled.            *)

Waiting == {"created", "cancelled"}

StartsAreOwed ==
  \A i \in 1..Len(ready) : \A id \in Ids :
    ready[i] = Start(id) =>
      /\ task[id].pc \in Waiting
      /\ \A k \in 1..Len(ready) : ready[k] = Start(id) => k = i

StopIsQueued == main = "complete" /\ scheduler # "stopped" => Queued(Stop, ready)

ClosingIsFrozen == phase = "closing" => main \in {"complete", "cancelled"}

StopGoesFirst ==
  phase = "closing" /\ main = "complete" =>
    \A i \in 1..Len(ready) : \A id \in Ids :
      ready[i] = Start(id) /\ task[id].pc = "created" =>
        \E m \in 1..(i - 1) : ready[m] = Stop

CloseInv ==
  /\ LifeInv
  /\ StartsAreOwed
  /\ StopIsQueued
  /\ ClosingIsFrozen
  /\ StopGoesFirst

(* The queue is `base' and handles queued behind it, no start among them. *)
Grows(queue, base) ==
  /\ queue \in Seq(Handles) /\ base \in Seq(Handles)
  /\ Len(base) <= Len(queue)
  /\ \A i \in 1..Len(base) : queue[i] = base[i]
  /\ \A i \in 1..Len(queue) : i > Len(base) => queue[i].do # "start"

(* Queueing and telling let a queue grow. *)
LEMMA Growing ==
  ASSUME NEW base \in Seq(Handles)
  PROVE  /\ Grows(base, base)
         /\ \A queue : Grows(queue, base) =>
              /\ \A h \in Handles : h.do # "start" => Grows(Append(queue, h), base)
              /\ Grows(TellMain(queue), base) /\ Grows(Woken(queue), base)
<1>1. Grows(base, base)
  BY DEF Grows
<1>2. ASSUME NEW queue, Grows(queue, base), NEW h \in Handles, h.do # "start"
      PROVE  Grows(Append(queue, h), base)
  <2>1. queue \in Seq(Handles) /\ Len(base) \in Nat /\ Len(queue) \in Nat
    BY <1>2 DEF Grows
  <2>2. /\ Append(queue, h) \in Seq(Handles) /\ Len(Append(queue, h)) = Len(queue) + 1
        /\ \A i \in 1..Len(queue) : Append(queue, h)[i] = queue[i]
        /\ Append(queue, h)[Len(queue) + 1] = h
    BY <1>2, <2>1
  <2> QED
    BY <1>2, <2>1, <2>2 DEF Grows
<1>3. {Main, Process} \subseteq Handles /\ Main.do # "start" /\ Process.do # "start"
  BY HandleTypes, HandleKinds
<1> QED
  BY <1>1, <1>2, <1>3 DEF TellMain, Woken

(* What waits still waits when the queue has grown. *)
LEMMA GrowthKeeps ==
  ASSUME NEW queue, NEW base, NEW handle, Grows(queue, base), Queued(handle, base)
  PROVE  Queued(handle, queue)
BY DEF Grows, Queued

(* A step that starts no run: the queue grows, its head gone or not; a run whose
   start waits goes on waiting; main() and the stop are not undone.                *)
StartsNone ==
  /\ \A id \in Ids : task'[id].pc = "created" => task[id].pc = "created"
  /\ \/ /\ Grows(ready', ready)
        /\ \A id \in Ids : task[id].pc \in Waiting => task'[id].pc \in Waiting
     \/ /\ ready # <<>> /\ Grows(ready', Tail(ready))
        /\ \A id \in Ids :
             task[id].pc \in Waiting => task'[id].pc \in Waiting \/ Head(ready) = Start(id)
        /\ Head(ready) = Stop => scheduler' = "stopped" \/ main' # "complete"
  /\ scheduler = "stopped" => scheduler' = "stopped"
  /\ main' = "complete" => main = "complete" \/ Queued(Stop, ready')
  /\ main \in {"complete", "cancelled"} => main' = main

(* It keeps the starts owed. *)
LEMMA StartsStayOwed ==
  ASSUME TypeOK, StartsAreOwed, StartsNone
  PROVE  StartsAreOwed'
<1> SUFFICES ASSUME NEW i \in 1..Len(ready'), NEW id \in Ids, ready'[i] = Start(id)
             PROVE  /\ task'[id].pc \in Waiting
                    /\ \A k \in 1..Len(ready') : ready'[k] = Start(id) => k = i
  BY DEF StartsAreOwed
<1>1. Start(id).do = "start" /\ ready \in Seq(Handles)
  BY HandleKinds DEF TypeOK
<1>2. CASE Grows(ready', ready) /\ \A k \in Ids : task[k].pc \in Waiting => task'[k].pc \in Waiting
  <2>1. \A k \in 1..Len(ready') :
          ready'[k] = Start(id) => k \in 1..Len(ready) /\ ready[k] = Start(id)
    BY <1>1, <1>2 DEF Grows
  <2> QED
    BY <1>2, <2>1 DEF StartsAreOwed
<1>3. CASE /\ ready # <<>> /\ Grows(ready', Tail(ready))
           /\ \A k \in Ids :
                task[k].pc \in Waiting => task'[k].pc \in Waiting \/ Head(ready) = Start(k)
  <2>1. /\ Len(Tail(ready)) = Len(ready) - 1 /\ Len(ready) \in Nat \ {0}
        /\ \A k \in 1..(Len(ready) - 1) : Tail(ready)[k] = ready[k + 1]
        /\ Head(ready) = ready[1]
    BY <1>1, <1>3
  <2>2. \A k \in 1..Len(ready') :
          ready'[k] = Start(id) => k + 1 \in 1..Len(ready) /\ ready[k + 1] = Start(id)
    BY <1>1, <1>3, <2>1 DEF Grows
  <2>3. i + 1 \in 1..Len(ready) /\ ready[i + 1] = Start(id) /\ i + 1 # 1
    BY <2>2
  <2>4. /\ task[id].pc \in Waiting
        /\ \A k \in 1..Len(ready) : ready[k] = Start(id) => k = i + 1
    BY <2>3 DEF StartsAreOwed
  <2>5. Head(ready) # Start(id)
    BY <2>1, <2>3, <2>4
  <2>6. \A k \in 1..Len(ready') : ready'[k] = Start(id) => k = i
    BY <2>2, <2>4
  <2> QED
    BY <1>3, <2>4, <2>5, <2>6
<1> QED
  BY <1>2, <1>3 DEF StartsNone

(* It keeps the stop queued, and ahead of the starts. *)
LEMMA StopStaysFirst ==
  ASSUME CloseInv, LifeInv', StartsNone,
         phase' = "closing" =>
           \/ phase = "closing"
           \/ main' \in {"complete", "cancelled"} /\ \A id \in Ids : task'[id].pc # "created"
  PROVE  CloseInv'
<1>0. /\ TypeOK /\ ready \in Seq(Handles)
      /\ scheduler' = "stopped" => \A id \in Ids : task'[id].pc # "created"
  BY DEF CloseInv, LifeInv, IInv, TypeOK, RunsSettleBeforeStop
<1>1. StartsAreOwed'
  BY <1>0, StartsStayOwed DEF CloseInv
<1>2. StopIsQueued'
  <2> SUFFICES ASSUME main' = "complete", scheduler' # "stopped"
               PROVE  Queued(Stop, ready')
    BY DEF StopIsQueued
  <2>1. CASE main = "complete"
    <3>1. Queued(Stop, ready)
      BY <2>1 DEF CloseInv, StopIsQueued, StartsNone
    <3>2. CASE Grows(ready', ready)
      BY <3>1, <3>2, GrowthKeeps
    <3>3. CASE ready # <<>> /\ Grows(ready', Tail(ready)) /\ Head(ready) # Stop
      BY <1>0, <3>1, <3>3, TailKeeps, GrowthKeeps
    <3> QED
      BY <3>2, <3>3 DEF StartsNone
  <2>2. CASE main # "complete"
    BY <2>2 DEF StartsNone
  <2> QED
    BY <2>1, <2>2
<1>3. ClosingIsFrozen'
  BY DEF CloseInv, ClosingIsFrozen, StartsNone
<1>4. StopGoesFirst'
  <2> SUFFICES ASSUME phase' = "closing", main' = "complete",
                      NEW i \in 1..Len(ready'), NEW id \in Ids,
                      ready'[i] = Start(id), task'[id].pc = "created"
               PROVE  \E m \in 1..(i - 1) : ready'[m] = Stop
    BY DEF StopGoesFirst
  <2>1. phase = "closing" /\ main = "complete" /\ task[id].pc = "created"
    BY DEF StartsNone, CloseInv, ClosingIsFrozen
  <2>2. scheduler' # "stopped" /\ Start(id).do = "start"
    BY <1>0, HandleKinds
  <2>3. \A k \in 1..Len(ready) :
          ready[k] = Start(id) => \E m \in 1..(k - 1) : ready[m] = Stop
    BY <2>1 DEF CloseInv, StopGoesFirst
  <2>4. CASE Grows(ready', ready)
    <3>1. i \in 1..Len(ready) /\ ready[i] = Start(id)
      BY <1>0, <2>2, <2>4 DEF Grows
    <3>2. PICK m \in 1..(i - 1) : ready[m] = Stop
      BY <2>3, <3>1
    <3>3. ready'[m] = Stop
      BY <1>0, <2>4, <3>1, <3>2 DEF Grows
    <3> QED
      BY <3>3
  <2>5. CASE ready # <<>> /\ Grows(ready', Tail(ready)) /\ Head(ready) # Stop
    <3>1. /\ Len(Tail(ready)) = Len(ready) - 1 /\ Len(ready) \in Nat \ {0}
          /\ \A k \in 1..(Len(ready) - 1) : Tail(ready)[k] = ready[k + 1]
          /\ Head(ready) = ready[1]
      BY <1>0, <2>5
    <3>2. i + 1 \in 1..Len(ready) /\ ready[i + 1] = Start(id)
      BY <2>2, <2>5, <3>1 DEF Grows
    <3>3. PICK m \in 1..i : ready[m] = Stop
      BY <2>3, <3>2
    <3>4. m # 1
      BY <2>5, <3>1, <3>3
    <3>5. m - 1 \in 1..(i - 1) /\ ready'[m - 1] = Tail(ready)[m - 1]
      BY <2>5, <3>1, <3>2, <3>4 DEF Grows
    <3>6. Tail(ready)[m - 1] = ready[m]
      BY <3>1, <3>2, <3>4
    <3> QED
      BY <3>3, <3>5, <3>6
  <2> QED
    BY <2>1, <2>2, <2>4, <2>5 DEF StartsNone
<1> QED
  BY <1>1, <1>2, <1>3, <1>4 DEF CloseInv

(* One run may move on, the one whose start has just run, or one beyond its start. *)
PassesOn(handle) ==
  \A id \in Ids :
    \/ task'[id].pc = task[id].pc
    \/ /\ task'[id].pc # "created"
       /\ task[id].pc \notin Waiting \/ task'[id].pc \in Waiting \/ handle = Start(id)

(* The loop runs a handle that is not the scheduler's stop. *)
LEMMA HandleStartsNone ==
  ASSUME TypeOK, NEW handle, Runs(handle), handle # Stop,
         Grows(ready', Tail(ready)), PassesOn(handle),
         UNCHANGED <<scheduler, main>>
  PROVE  StartsNone
BY DEF Runs, PassesOn, StartsNone

(* Something is queued, or nothing. *)
LEMMA QueueingStartsNone ==
  ASSUME TypeOK, Grows(ready', ready), PassesOn(Process), UNCHANGED <<scheduler, main>>
  PROVE  StartsNone
<1>1. \A id \in Ids : Process # Start(id)
  BY HandleKinds
<1> QED
  BY <1>1 DEF PassesOn, StartsNone

(* The rest of the queue behind the handle that runs. *)
LEMMA BehindHandle ==
  ASSUME TypeOK, NEW handle, Runs(handle)
  PROVE  /\ Tail(ready) \in Seq(Handles) /\ Grows(Tail(ready), Tail(ready))
         /\ ready # <<>> /\ Head(ready) = handle
BY TailType, Growing DEF Runs, TypeOK

(* The steps that leave the tasks alone. *)
LEMMA TasklessStartsNone ==
  ASSUME IInv,
         \/ ProcessNothing \/ TimerFires \/ Tick \/ RequestShutdown
         \/ MainWakes \/ MainFreezes
  PROVE  StartsNone
<1>1. /\ TypeOK /\ ready \in Seq(Handles) /\ StoppedByMain
      /\ {Process, Main, Freeze, Stop} \subseteq Handles
      /\ Process.do # "start" /\ Freeze.do # "start" /\ Stop.do # "start"
      /\ Process # Stop /\ Main # Stop /\ Freeze # Stop
  BY HandleTypes, HandleKinds DEF IInv, TypeOK
<1>2. task' = task
  BY DEF ProcessNothing, TimerFires, Tick, RequestShutdown, MainWakes, MainFreezes
<1>3. \A handle : PassesOn(handle)
  BY <1>2 DEF PassesOn
<1>4. CASE ProcessNothing
  BY <1>1, <1>3, <1>4, BehindHandle, HandleStartsNone DEF ProcessNothing
<1>5. CASE TimerFires
  <2>1. ready = <<>> /\ ready' = Append(<<>>, Process)
    BY <1>5 DEF TimerFires, LoopIdle
  <2> QED
    BY <1>1, <1>3, <1>5, <2>1, Growing, QueueingStartsNone DEF TimerFires
<1>6. CASE Tick
  BY <1>1, <1>3, <1>6, Growing, QueueingStartsNone DEF Tick, processVars
<1>7. CASE RequestShutdown
  BY <1>1, <1>3, <1>7, Growing, QueueingStartsNone DEF RequestShutdown
<1>8. CASE MainWakes
  <2>1. Grows(ready', Tail(ready)) /\ ready # <<>> /\ Head(ready) = Main
    BY <1>1, <1>8, BehindHandle, Growing DEF MainWakes
  <2> QED
    BY <1>1, <1>2, <1>8, <2>1 DEF MainWakes, StartsNone
<1>9. CASE MainFreezes
  <2>1. /\ Tail(ready) \in Seq(Handles) /\ ready' = Append(Tail(ready), Stop)
        /\ ready # <<>> /\ Head(ready) = Freeze
    BY <1>1, <1>9, BehindHandle DEF MainFreezes
  <2>2. Grows(ready', Tail(ready)) /\ Queued(Stop, ready')
    BY <1>1, <2>1, Growing, AppendKeeps
  <2> QED
    BY <1>1, <1>2, <1>9, <2>1, <2>2 DEF MainFreezes, StartsNone, StoppedByMain
<1> QED
  BY <1>4, <1>5, <1>6, <1>7, <1>8, <1>9

(* The scheduler's stop. *)
LEMMA SchedulerStopsStartsNone ==
  ASSUME IInv, SchedulerStops
  PROVE  StartsNone
<1>1. TypeOK /\ Runs(Stop) /\ ready' = Tail(ready) /\ scheduler' = "stopped" /\ main' = main
  BY DEF IInv, SchedulerStops
<1>2. ready # <<>> /\ Grows(ready', Tail(ready))
  BY <1>1, BehindHandle
<1>3. \A id \in Ids : /\ task'[id].pc # "created"
                      /\ task[id].pc \in Waiting => task'[id].pc \in Waiting
  BY <1>1 DEF SchedulerStops, TypeOK, Pending, Waiting
<1> QED
  BY <1>1, <1>2, <1>3 DEF StartsNone

(* The steps of one run. *)
LEMMA MovingStartsNone ==
  ASSUME IInv, NEW j \in Jobs,
         \/ SkipFrozen(j) \/ BeginBody(j) \/ ThreadEnds(j)
         \/ InlineAwaits(j) \/ SubprocessEnds(j) \/ ResumeInline(j)
  PROVE  StartsNone
<1>1. /\ TypeOK /\ ready \in Seq(Handles) /\ j \in Ids
      /\ {Done(j), Resume(j)} \subseteq Handles
      /\ Done(j).do # "start" /\ Resume(j).do # "start"
      /\ Start(j) # Stop /\ Resume(j) # Stop
  BY HandleTypes, HandleKinds DEF IInv, TypeOK, Ids
<1>2. UNCHANGED <<scheduler, main>>
  BY DEF SkipFrozen, BeginBody, ThreadEnds, InlineAwaits, SubprocessEnds, ResumeInline, processVars
<1> DEFINE Ways == {"returned", "inline", "thread", "awaiting", "finished", "tail"}
<1>3. PICK pc \in Ways : task'[j].pc = pc /\ \A id \in Ids \ {j} : task'[id] = task[id]
  <2>1. CASE ThreadEnds(j)
    BY <1>1, <2>1 DEF ThreadEnds, TypeOK
  <2>2. CASE ~ThreadEnds(j)
    <3>1. PICK pc \in Ways : MoveTask(j, pc) \/ Leaves(j, pc)
      BY <2>2 DEF SkipFrozen, BeginBody, InlineAwaits, SubprocessEnds, ResumeInline
    <3>2. MovesTo(j, pc)
      BY <1>1, <3>1, MoveTaskMoves DEF Pcs
    <3> QED
      BY <3>1, <3>2 DEF MovesTo
  <2> QED
    BY <2>1, <2>2
<1>4. CASE SkipFrozen(j) \/ BeginBody(j)
  <2>1. PassesOn(Start(j))
    BY <1>3 DEF PassesOn
  <2>2. Runs(Start(j)) /\ Grows(ready', Tail(ready))
    BY <1>1, <1>4, BehindHandle, Growing DEF SkipFrozen, BeginBody
  <2> QED
    BY <1>1, <1>2, <2>1, <2>2, HandleStartsNone
<1>5. CASE ~(SkipFrozen(j) \/ BeginBody(j))
  <2>1. task[j].pc \notin Waiting
    BY <1>5 DEF ThreadEnds, InlineAwaits, SubprocessEnds, ResumeInline, Waiting
  <2>2. \A handle : PassesOn(handle)
    BY <1>3, <2>1 DEF PassesOn
  <2>3. CASE ResumeInline(j)
    BY <1>1, <1>2, <2>2, <2>3, BehindHandle, HandleStartsNone DEF ResumeInline
  <2>4. CASE ~ResumeInline(j)
    BY <1>1, <1>2, <1>5, <2>2, <2>4, Growing, QueueingStartsNone
       DEF ThreadEnds, InlineAwaits, SubprocessEnds
  <2> QED
    BY <2>3, <2>4
<1> QED
  BY <1>4, <1>5

(* However a run is settled. *)
LEMMA SettlingGrows ==
  ASSUME TypeOK, NEW j \in Jobs, NEW outcome, NEW queue \in Seq(Handles),
         Settles(j, outcome, queue), task[j].pc \notin Waiting
  PROVE  Grows(ready', queue) /\ \A handle : PassesOn(handle)
<1>1. Done(j) \in Handles /\ Done(j).do # "start" /\ j \in Ids
  BY HandleTypes, HandleKinds DEF Ids
<1>2. ready' \in {Append(queue, Done(j)), Append(Woken(queue), Done(j)),
                  Append(TellMain(queue), Done(j))}
  BY DEF Settles, EndsClean, Abandons, RetriesLater, Freezes, Crashes
<1>3. Grows(ready', queue)
  BY <1>1, <1>2, Growing
<1>4. Leaves(j, "returned") \/ Leaves(j, "raised")
  BY DEF Settles, EndsClean, Abandons, RetriesLater, Freezes, Crashes
<1>5. MovesTo(j, "returned") \/ MovesTo(j, "raised")
  BY <1>1, <1>4, MoveTaskMoves DEF Pcs
<1>6. \A handle : PassesOn(handle)
  BY <1>5 DEF MovesTo, PassesOn
<1> QED
  BY <1>3, <1>6

(* A run that ends, on the loop or resumed. *)
LEMMA EndingStartsNone ==
  ASSUME IInv, NEW j \in Jobs, ResumeThreaded(j) \/ InlineEnds(j)
  PROVE  StartsNone
<1>1. TypeOK /\ ready \in Seq(Handles) /\ Resume(j) # Stop
  BY HandleKinds DEF IInv, TypeOK, Ids
<1>2. CASE ResumeThreaded(j)
  <2>1. Runs(Resume(j)) /\ Tail(ready) \in Seq(Handles)
    BY <1>1, <1>2, BehindHandle DEF ResumeThreaded
  <2>2. Grows(ready', Tail(ready)) /\ PassesOn(Resume(j))
    BY <1>1, <1>2, <2>1, SettlingGrows DEF ResumeThreaded, Waiting
  <2> QED
    BY <1>1, <1>2, <2>1, <2>2, HandleStartsNone DEF ResumeThreaded
<1>3. CASE InlineEnds(j)
  <2>1. Grows(ready', ready) /\ PassesOn(Process)
    BY <1>1, <1>3, SettlingGrows DEF InlineEnds, Waiting
  <2> QED
    BY <1>1, <1>3, <2>1, QueueingStartsNone DEF InlineEnds
<1> QED
  BY <1>2, <1>3

(* The callbacks of runs, a cancelled run, and the re-registration. *)
LEMMA CallbackStartsNone ==
  ASSUME IInv,
         \/ \E id \in Ids : RunReturned(id) \/ RunCancelled(id) \/ (id \in Jobs /\ RunRaised(id))
         \/ ResetSchedules \/ ResetMissed
  PROVE  StartsNone
<1>1. TypeOK /\ ready \in Seq(Handles)
  BY DEF IInv, TypeOK
<1>2. ASSUME NEW id \in Ids, RunReturned(id) \/ (id \in Jobs /\ RunRaised(id))
      PROVE  StartsNone
  <2>1. Runs(Done(id)) /\ Done(id) # Stop /\ UNCHANGED <<scheduler, main>>
    BY <1>2, HandleKinds DEF RunReturned, RunRaised, processVars
  <2>2. Grows(ready', Tail(ready))
    BY <1>1, <1>2, <2>1, BehindHandle, Growing DEF RunReturned, RunRaised
  <2>3. /\ task[id].pc \notin Waiting /\ task'[id].pc # "created"
        /\ \A other \in Ids \ {id} : task'[other] = task[other]
    BY <1>1, <1>2 DEF RunReturned, RunRaised, MoveTask, NoRun, TypeOK, Waiting
  <2>4. PassesOn(Done(id))
    BY <2>3 DEF PassesOn
  <2> QED
    BY <1>1, <2>1, <2>2, <2>4, HandleStartsNone
<1>3. ASSUME NEW id \in Ids, RunCancelled(id)
      PROVE  StartsNone
  <2>1. PICK handle : Runs(handle) /\ handle # Stop
    BY <1>3, HandleKinds DEF RunCancelled
  <2>2. ready' = Tail(ready) /\ PassesOn(handle) /\ UNCHANGED <<scheduler, main>>
    BY <1>3 DEF RunCancelled, PassesOn, processVars
  <2> QED
    BY <1>1, <2>1, <2>2, BehindHandle, HandleStartsNone
<1>4. CASE ResetSchedules \/ ResetMissed
  <2>1. /\ Reset \in Ids /\ Start(Reset) # Stop /\ {Process, Done(Reset)} \subseteq Handles
        /\ Process.do # "start" /\ Done(Reset).do # "start"
    BY HandleTypes, HandleKinds DEF Ids
  <2>2. Runs(Start(Reset)) /\ task[Reset].pc = "created" /\ Leaves(Reset, "returned")
    BY <1>4 DEF ResetSchedules, ResetMissed
  <2>3. MovesTo(Reset, "returned")
    BY <1>1, <2>1, <2>2, MoveTaskMoves DEF Pcs
  <2>4. PassesOn(Start(Reset))
    BY <2>3 DEF MovesTo, PassesOn
  <2>5. Grows(ready', Tail(ready)) /\ ready # <<>> /\ Head(ready) = Start(Reset)
    <3>1. /\ Tail(ready) \in Seq(Handles) /\ Grows(Tail(ready), Tail(ready))
          /\ ready # <<>> /\ Head(ready) = Start(Reset)
      BY <1>1, <2>2, BehindHandle
    <3>2. Tail(ready) \o <<Process, Done(Reset)>>
            = Append(Append(Tail(ready), Process), Done(Reset))
      BY <2>1, <3>1
    <3>3. ready' \in {Append(Tail(ready), Done(Reset)),
                      Append(Append(Tail(ready), Process), Done(Reset))}
      BY <1>4, <3>2 DEF ResetSchedules, ResetMissed
    <3> QED
      BY <2>1, <3>1, <3>3, Growing
  <2>6. scheduler # "stopped"
    BY <2>1, <2>2 DEF IInv, RunsSettleBeforeStop
  <2>7. main' = main
    BY <1>4 DEF ResetSchedules, ResetMissed, processVars
  <2> QED
    BY <2>1, <2>4, <2>5, <2>6, <2>7 DEF PassesOn, StartsNone
<1> QED
  BY <1>2, <1>3, <1>4

(* The runs of what is due are started behind the stop, if it is queued. *)
LEMMA ProcessJobsCloses ==
  ASSUME CloseInv, LifeInv', ProcessJobs, phase' = phase
  PROVE  CloseInv'
<1> DEFINE submitted == {id \in Due : Admits(id)}
           n == Cardinality(submitted)
           rest == Tail(ready)
<1>1. PICK order \in SubmissionOrders(submitted) :
        /\ task' = [id \in Ids |->
                      IF id \in submitted
                        THEN [pc |-> "created", outcome |-> "ok",
                              sched |-> DueFire(store[id].trigger, clock)]
                        ELSE task[id]]
        /\ ready' = rest \o [i \in 1..n |-> Start(order[i])]
  BY DEF ProcessJobs
<1>2. /\ TypeOK /\ InstancesMatchRuns /\ Runs(Process) /\ Process # Stop
      /\ scheduler # "stopped" /\ UNCHANGED <<scheduler, main>> /\ ready \in Seq(Handles)
  BY HandleKinds DEF CloseInv, LifeInv, IInv, ProcessJobs, TypeOK
<1>3. n \in Nat
  <2>1. IsFiniteSet(Ids)
    BY JobSchedulingAssumption, FS_AddElement DEF Ids
  <2>2. IsFiniteSet(submitted)
    BY <2>1, FS_Subset DEF Due
  <2> QED
    BY <2>2, FS_CardinalityType
<1>4. /\ \A i \in 1..n : order[i] \in submitted
      /\ \A i, k \in 1..n : order[i] = order[k] => i = k
  BY <1>3 DEF SubmissionOrders
<1>5. /\ \A id \in submitted : id \in Ids /\ task[id].pc \notin Waiting /\ task'[id].pc = "created"
      /\ \A id \in Ids \ submitted : task'[id] = task[id]
  BY <1>1, <1>2 DEF InstancesMatchRuns, Admits, Due, Waiting
<1> HIDE DEF submitted, n
<1>6. /\ rest \in Seq(Handles) /\ Len(rest) \in Nat /\ Len(ready) = Len(rest) + 1
      /\ \A k \in 1..Len(rest) : rest[k] = ready[k + 1]
      /\ Head(ready) = ready[1] /\ Head(ready) = Process /\ ready # <<>>
  BY <1>2 DEF Runs
<1> HIDE DEF rest
<1>7. [i \in 1..n |-> Start(order[i])] \in Seq(Handles)
  BY <1>3, <1>4, <1>5, HandleTypes
<1>8. /\ Len(ready') = Len(rest) + n
      /\ \A i \in 1..Len(rest) : ready'[i] = ready[i + 1]
      /\ \A i \in 1..Len(ready') : i > Len(rest) =>
           i - Len(rest) \in 1..n /\ ready'[i] = Start(order[i - Len(rest)])
  BY <1>1, <1>3, <1>6, <1>7
<1>9. \A a, b \in Ids : Start(a) = Start(b) => a = b
  BY DEF Start
<1>10. \A i \in 1..Len(ready'), id \in Ids : ready'[i] = Start(id) =>
         \/ /\ i \in 1..Len(rest) /\ i + 1 \in 1..Len(ready)
            /\ ready[i + 1] = Start(id) /\ id \notin submitted
         \/ i > Len(rest) /\ i - Len(rest) \in 1..n /\ id = order[i - Len(rest)] /\ id \in submitted
  <2> SUFFICES ASSUME NEW i \in 1..Len(ready'), NEW id \in Ids, ready'[i] = Start(id)
               PROVE  \/ /\ i \in 1..Len(rest) /\ i + 1 \in 1..Len(ready)
                         /\ ready[i + 1] = Start(id) /\ id \notin submitted
                      \/ /\ i > Len(rest) /\ i - Len(rest) \in 1..n
                         /\ id = order[i - Len(rest)] /\ id \in submitted
    OBVIOUS
  <2>1. CASE i \in 1..Len(rest)
    <3>1. i + 1 \in 1..Len(ready) /\ ready[i + 1] = Start(id)
      BY <1>6, <1>8, <2>1
    <3>2. id \notin submitted
      BY <1>5, <3>1 DEF CloseInv, StartsAreOwed
    <3> QED
      BY <2>1, <3>1, <3>2
  <2>2. CASE i > Len(rest)
    <3>1. i - Len(rest) \in 1..n /\ Start(order[i - Len(rest)]) = Start(id)
      BY <1>8, <2>2
    <3> QED
      BY <1>4, <1>5, <1>9, <2>2, <3>1
  <2> QED
    BY <1>6, <2>1, <2>2
<1>11. StartsAreOwed'
  <2> SUFFICES ASSUME NEW i \in 1..Len(ready'), NEW id \in Ids, ready'[i] = Start(id)
               PROVE  /\ task'[id].pc \in Waiting
                      /\ \A k \in 1..Len(ready') : ready'[k] = Start(id) => k = i
    BY DEF StartsAreOwed
  <2>1. CASE id \in submitted
    <3>1. /\ i - Len(rest) \in 1..n /\ order[i - Len(rest)] = id
          /\ \A k \in 1..Len(ready') : ready'[k] = Start(id) =>
               k - Len(rest) \in 1..n /\ order[k - Len(rest)] = id
      BY <1>10, <2>1
    <3>2. \A k \in 1..Len(ready') : ready'[k] = Start(id) => k - Len(rest) = i - Len(rest)
      BY <1>4, <3>1
    <3>3. \A k \in 1..Len(ready') : ready'[k] = Start(id) => k = i
      BY <1>6, <3>2
    <3> QED
      BY <1>5, <2>1, <3>3 DEF Waiting
  <2>2. CASE id \notin submitted
    <3>1. /\ i + 1 \in 1..Len(ready) /\ ready[i + 1] = Start(id)
          /\ \A k \in 1..Len(ready') : ready'[k] = Start(id) =>
               k + 1 \in 1..Len(ready) /\ ready[k + 1] = Start(id)
      BY <1>10, <2>2
    <3>2. /\ task[id].pc \in Waiting
          /\ \A k \in 1..Len(ready') : ready'[k] = Start(id) => k + 1 = i + 1
      BY <3>1 DEF CloseInv, StartsAreOwed
    <3>3. task'[id] = task[id]
      BY <1>5, <2>2
    <3>4. \A k \in 1..Len(ready') : ready'[k] = Start(id) => k = i
      BY <3>2
    <3> QED
      BY <3>2, <3>3, <3>4
  <2> QED
    BY <2>1, <2>2
<1>12. main = "complete" => Queued(Stop, rest)
  BY <1>2, <1>6, TailKeeps DEF CloseInv, StopIsQueued, rest
<1>13. StopIsQueued'
  BY <1>1, <1>2, <1>6, <1>7, <1>12, ConcatKeeps DEF StopIsQueued
<1>14. StopGoesFirst'
  <2> SUFFICES ASSUME phase' = "closing", main' = "complete",
                      NEW i \in 1..Len(ready'), NEW id \in Ids,
                      ready'[i] = Start(id), task'[id].pc = "created"
               PROVE  \E m \in 1..(i - 1) : ready'[m] = Stop
    BY DEF StopGoesFirst
  <2>1. CASE id \in submitted
    <3>1. PICK m \in 1..Len(rest) : rest[m] = Stop
      BY <1>2, <1>12 DEF Queued
    <3>2. i > Len(rest) /\ ready'[m] = Stop
      BY <1>6, <1>8, <1>10, <2>1, <3>1
    <3>3. m \in 1..(i - 1)
      BY <1>6, <3>1, <3>2
    <3> QED
      BY <3>2, <3>3
  <2>2. CASE id \notin submitted
    <3>1. /\ i \in 1..Len(rest) /\ i + 1 \in 1..Len(ready) /\ ready[i + 1] = Start(id)
          /\ task[id].pc = "created"
      BY <1>5, <1>10, <2>2
    <3>2. PICK m \in 1..i : ready[m] = Stop
      BY <1>2, <3>1 DEF CloseInv, StopGoesFirst
    <3>3. m # 1
      BY <1>2, <1>6, <3>2
    <3>4. m - 1 \in 1..(i - 1) /\ m - 1 \in 1..Len(rest) /\ (m - 1) + 1 = m
      BY <1>6, <3>1, <3>2, <3>3
    <3>5. ready'[m - 1] = ready[(m - 1) + 1]
      BY <1>8, <3>4
    <3> QED
      BY <3>2, <3>4, <3>5
  <2> QED
    BY <2>1, <2>2
<1>15. ClosingIsFrozen'
  BY <1>2 DEF CloseInv, ClosingIsFrozen
<1> QED
  BY <1>11, <1>13, <1>14, <1>15 DEF CloseInv

(* No other step of JobScheduling starts a run. *)
LEMMA NextStartsNone ==
  ASSUME IInv, [Next]_vars
  PROVE  StartsNone \/ ProcessJobs
<1>1. CASE UNCHANGED vars
  <2>1. ready \in Seq(Handles) /\ ready' = ready /\ task' = task /\ UNCHANGED <<scheduler, main>>
    BY <1>1 DEF vars, processVars, IInv, TypeOK
  <2> QED
    BY <2>1, Growing DEF StartsNone
<1>2. CASE ProcessNothing \/ TimerFires \/ Tick \/ RequestShutdown \/ MainWakes \/ MainFreezes
  BY <1>2, TasklessStartsNone
<1>3. CASE SchedulerStops
  BY <1>3, SchedulerStopsStartsNone
<1>4. ASSUME NEW j \in Jobs,
             \/ SkipFrozen(j) \/ BeginBody(j) \/ ResumeThreaded(j) \/ ResumeInline(j)
             \/ BodyStep(j)
      PROVE  StartsNone
  BY <1>4, MovingStartsNone, EndingStartsNone DEF BodyStep
<1>5. ASSUME NEW j \in Jobs, RunRaised(j)
      PROVE  StartsNone
  <2>1. \E id \in Ids : id \in Jobs /\ RunRaised(id)
    BY <1>5 DEF Ids
  <2> QED
    BY <2>1, CallbackStartsNone
<1>6. CASE \E id \in Ids : RunReturned(id) \/ RunCancelled(id)
  BY <1>6, CallbackStartsNone
<1>7. CASE ResetSchedules \/ ResetMissed
  BY <1>7, CallbackStartsNone
<1> QED
  BY <1>1, <1>2, <1>3, <1>4, <1>5, <1>6, <1>7 DEF Next, LoopStep

(* Nor does what the closing loop cancels, refuses or interrupts. *)
LEMMA ClosingStartsNone ==
  ASSUME IInv, ClosingHandle
  PROVE  StartsNone
<1>1. TypeOK
  BY DEF IInv
<1>2. CASE MainCancelled
  <2>1. PICK handle : Runs(handle) /\ handle # Stop
    BY <1>2, HandleKinds DEF MainCancelled
  <2> QED
    BY <1>1, <1>2, <2>1, BehindHandle, HandleStartsNone DEF MainCancelled, PassesOn, processVars
<1>3. ASSUME NEW j \in Jobs, RunInterrupted(j)
      PROVE  StartsNone
  <2>1. Runs(Done(j)) /\ Done(j) # Stop
    BY <1>3, HandleKinds DEF RunInterrupted, Ids
  <2> QED
    BY <1>1, <1>3, <2>1, BehindHandle, HandleStartsNone DEF RunInterrupted, PassesOn
<1>4. ASSUME NEW j \in Jobs, BeginsTooLate(j)
      PROVE  StartsNone
  <2>1. /\ j \in Ids /\ Runs(Start(j)) /\ Start(j) # Stop
        /\ Done(j) \in Handles /\ Done(j).do # "start"
    BY <1>4, HandleTypes, HandleKinds DEF BeginsTooLate, Ids
  <2>2. Leaves(j, "raised") /\ ready' = Append(Tail(ready), Done(j)) /\ UNCHANGED <<scheduler, main>>
    BY <1>4 DEF BeginsTooLate, Crashes
  <2>3. MovesTo(j, "raised")
    BY <1>1, <2>1, <2>2, MoveTaskMoves DEF Pcs
  <2>4. PassesOn(Start(j))
    BY <2>3 DEF MovesTo, PassesOn
  <2>5. Grows(ready', Tail(ready))
    BY <1>1, <2>1, <2>2, BehindHandle, Growing
  <2> QED
    BY <1>1, <2>1, <2>2, <2>4, <2>5, HandleStartsNone
<1> QED
  BY <1>2, <1>3, <1>4 DEF ClosingHandle

(* The loop begins to close: what was created is cancelled. *)
LEMMA ClosingCancels ==
  ASSUME IInv, MainReturns \/ Nudge
  PROVE  /\ StartsNone
         /\ main' \in {"complete", "cancelled"} /\ \A id \in Ids : task'[id].pc # "created"
<1> DEFINE Tasks == [pc : Pcs, outcome : Outcomes, sched : Instants]
           cancelled == [id \in Ids |-> Cancelled(task[id])]
<1>1. task \in [Ids -> Tasks] /\ ready \in Seq(Handles)
  BY DEF IInv, TypeOK
<1>2. \A id \in Ids : /\ cancelled[id].pc # "created" /\ cancelled[id] \in Tasks
                      /\ task[id].pc \in Waiting => cancelled[id].pc \in Waiting
  <2> SUFFICES ASSUME NEW id \in Ids
               PROVE  /\ cancelled[id].pc # "created" /\ cancelled[id] \in Tasks
                      /\ task[id].pc \in Waiting => cancelled[id].pc \in Waiting
    OBVIOUS
  <2>1. cancelled[id] = Cancelled(task[id]) /\ task[id] \in Tasks
    BY <1>1
  <2>2. task[id].pc = "created" => Cancelled(task[id]).pc = "cancelled"
    BY <2>1 DEF Cancelled, Pending
  <2> QED
    BY <2>1, <2>2, CancelledTask DEF Waiting
<1>3. main' \in {"complete", "cancelled"} /\ scheduler' = scheduler
      /\ (main' = "complete" => main = "complete")
      /\ (main \in {"complete", "cancelled"} => main' = main)
  BY DEF MainReturns, Nudge, processVars
<1>4. /\ Grows(ready', ready) /\ \A id \in Ids : task'[id].pc # "created"
      /\ \A id \in Ids : task[id].pc \in Waiting => task'[id].pc \in Waiting
  <2>1. CASE task' = cancelled /\ ready' = ready
    BY <1>1, <1>2, <2>1, Growing
  <2>2. ASSUME NEW j \in Jobs, task[j].pc \in {"inline", "tail"},
               task' = [cancelled EXCEPT ![j].pc = "interrupted"],
               ready' = Append(ready, Done(j))
        PROVE  /\ Grows(ready', ready) /\ \A id \in Ids : task'[id].pc # "created"
               /\ \A id \in Ids : task[id].pc \in Waiting => task'[id].pc \in Waiting
    <3>1. j \in Ids /\ Done(j) \in Handles /\ Done(j).do # "start" /\ task[j].pc \notin Waiting
      BY <2>2, HandleTypes, HandleKinds DEF Ids, Waiting
    <3>2. /\ task'[j].pc = "interrupted"
          /\ \A id \in Ids \ {j} : task'[id] = cancelled[id]
      BY <1>2, <2>2, <3>1
    <3> QED
      BY <1>1, <1>2, <2>2, <3>1, <3>2, Growing
  <2> QED
    BY <2>1, <2>2 DEF MainReturns, Nudge
<1> QED
  BY <1>3, <1>4 DEF StartsNone

(* Every step keeps it. *)
LEMMA CloseInvKeeps == CloseInv /\ [LifeNext]_allVars => CloseInv'
<1> SUFFICES ASSUME CloseInv, [LifeNext]_allVars PROVE CloseInv'
  OBVIOUS
<1>1. LifeInv' /\ IInv /\ ready \in Seq(Handles)
  BY LifeNextInv DEF CloseInv, LifeInv, IInv, TypeOK
<1>2. CASE InLoop(Next)
  <2>1. phase' = phase /\ (StartsNone \/ ProcessJobs)
    BY <1>1, <1>2, NextStartsNone DEF InLoop, lifeVars
  <2> QED
    BY <1>1, <2>1, StopStaysFirst, ProcessJobsCloses
<1>3. CASE ClosingHandle
  <2>1. phase' = phase
    BY <1>3 DEF ClosingHandle, MainCancelled, RunInterrupted, BeginsTooLate, lifeVars
  <2> QED
    BY <1>1, <1>3, <2>1, ClosingStartsNone, StopStaysFirst
<1>4. CASE ShutdownInBoot \/ Booted \/ NudgeInBoot \/ TeardownEnds \/ Closed \/ UNCHANGED allVars
  <2>1. Grows(ready', ready)
    <3>1. Main \in Handles /\ Main.do # "start"
      BY HandleTypes, HandleKinds
    <3> QED
      BY <1>1, <1>4, <3>1, Growing
         DEF ShutdownInBoot, Booted, AwaitsShutdown, NudgeInBoot, TeardownEnds, Closed, allVars,
             vars
  <2>2. task' = task /\ UNCHANGED <<scheduler, main>>
    BY <1>4 DEF ShutdownInBoot, Booted, NudgeInBoot, TeardownEnds, Closed, allVars, vars, processVars
  <2>3. phase' = "closing" => phase = "closing"
    BY <1>4 DEF ShutdownInBoot, Booted, NudgeInBoot, TeardownEnds, Closed, Exit, allVars, lifeVars
  <2>4. StartsNone
    BY <2>1, <2>2 DEF StartsNone
  <2> QED
    BY <1>1, <2>3, <2>4, StopStaysFirst
<1>5. CASE MainReturns \/ Nudge
  BY <1>1, <1>5, ClosingCancels, StopStaysFirst
<1> QED
  BY <1>2, <1>3, <1>4, <1>5 DEF LifeNext

(* However a run is settled, the runs of the other jobs stay as they are. *)
LEMMA SettlingMoves ==
  ASSUME TypeOK, NEW j \in Jobs, NEW outcome, NEW queue, Settles(j, outcome, queue)
  PROVE  MovesTo(j, "returned") \/ MovesTo(j, "raised")
<1>1. Leaves(j, "returned") \/ Leaves(j, "raised")
  BY DEF Settles, EndsClean, Abandons, RetriesLater, Freezes, Crashes
<1> QED
  BY <1>1, MoveTaskMoves DEF Pcs, Ids

(* A body begins in its task's first step only, which the loop runs from the queue. *)
LEMMA BodyBeginsAtStart ==
  ASSUME TypeOK, Next, NEW j \in Jobs,
         task[j].pc = "created", task'[j].pc \in {"inline", "thread"}
  PROVE  Runs(Start(j))
<1>1. j \in Ids
  BY DEF Ids
<1>2. ASSUME NEW id \in Ids, NEW pc \in Pcs \ {"inline", "thread"}
      PROVE  ~MovesTo(id, pc)
  BY <1>1, <1>2 DEF MovesTo
<1>3. ~ProcessJobs /\ ~SchedulerStops
  <2>1. ASSUME ProcessJobs PROVE FALSE
    <3>1. task'[j].pc = "created" \/ task'[j] = task[j]
      BY <1>1, <2>1 DEF ProcessJobs
    <3> QED
      BY <3>1
  <2>2. ASSUME SchedulerStops PROVE FALSE
    <3>1. task'[j] = [task[j] EXCEPT !.pc = "cancelled"]
      BY <1>1, <2>2 DEF SchedulerStops, Pending
    <3>2. task[j] \in [pc : Pcs, outcome : Outcomes, sched : Instants]
      BY <1>1 DEF TypeOK
    <3> QED
      BY <3>1, <3>2
  <2> QED
    BY <2>1, <2>2
<1>4. ASSUME NEW k \in Jobs
      PROVE  ~(ResumeThreaded(k) \/ InlineEnds(k))
  <2>1. k \in Ids /\ {"returned", "raised"} \subseteq Pcs \ {"inline", "thread"}
    BY DEF Ids, Pcs
  <2>2. ASSUME NEW outcome, NEW queue
        PROVE  ~Settles(k, outcome, queue)
    BY <1>2, <2>1, <2>2, SettlingMoves
  <2> QED
    BY <2>2 DEF ResumeThreaded, InlineEnds
<1>5. ASSUME NEW id \in Ids, NEW pc \in Pcs \ {"inline", "thread"}
      PROVE  ~(MoveTask(id, pc) \/ Leaves(id, pc))
  BY <1>2, MoveTaskMoves
<1>6. ASSUME NEW k \in Jobs
      PROVE  /\ ~(SkipFrozen(k) \/ ResumeInline(k) \/ RunRaised(k))
             /\ ~(InlineAwaits(k) \/ SubprocessEnds(k))
  BY <1>5 DEF SkipFrozen, ResumeInline, RunRaised, InlineAwaits, SubprocessEnds, Pcs, Ids
<1>7. ASSUME NEW k \in Jobs
      PROVE  ~ThreadEnds(k)
  BY <1>1 DEF ThreadEnds, TypeOK, Ids
<1>8. ASSUME NEW id \in Ids
      PROVE  ~(RunReturned(id) \/ RunCancelled(id))
  BY <1>1 DEF RunReturned, RunCancelled, NoRun, TypeOK
<1>9. ~(ResetSchedules \/ ResetMissed)
  BY <1>5 DEF ResetSchedules, ResetMissed, Pcs, Ids
<1>10. ~(\/ ProcessNothing \/ TimerFires \/ Tick \/ RequestShutdown \/ MainWakes \/ MainFreezes)
  BY DEF ProcessNothing, TimerFires, Tick, RequestShutdown, MainWakes, MainFreezes
<1>11. PICK k \in Jobs : BeginBody(k)
  BY <1>3, <1>4, <1>6, <1>7, <1>8, <1>9, <1>10 DEF Next, LoopStep, BodyStep
<1>12. k = j
  <2>1. PICK pc \in Pcs : MoveTask(k, pc)
    BY <1>11 DEF BeginBody, Pcs
  <2>2. MovesTo(k, pc)
    BY <2>1, MoveTaskMoves DEF Ids
  <2> QED
    BY <1>1, <2>2 DEF MovesTo
<1> QED
  BY <1>11, <1>12 DEF BeginBody

(* No body begins on a stopped scheduler, nor in the close of the loop: a start that
   is still queued when main() has returned stands behind the scheduler's stop, which
   cancels it.  Starts ahead of the stop may begin between the freeze and the stop,
   and a main() that the nudge cut short left no stop behind: NoBodyIntoTheClose
   speaks of neither.                                                                 *)
THEOREM NoJobIntoTheClose == LifeSpec => NoBodyIntoTheClose
<1>1. LifeInit => CloseInv
  <2> SUFFICES ASSUME LifeInit PROVE CloseInv
    OBVIOUS
  <2>1. LifeInv /\ main = "shutdown" /\ phase = "boot" /\ ready = <<Process>>
    BY LifeInitInv DEF LifeInit, Init
  <2>2. \A i \in 1..Len(ready), id \in Ids : ready[i] # Start(id)
    BY <2>1, HandleKinds
  <2> QED
    BY <2>1, <2>2 DEF CloseInv, StartsAreOwed, StopIsQueued, ClosingIsFrozen, StopGoesFirst
<1>2. ASSUME CloseInv, [LifeNext]_allVars, NEW j \in Jobs,
             task[j].pc = "created", task'[j].pc \in {"inline", "thread"}
      PROVE  scheduler # "stopped" /\ (phase # "loop" => main = "cancelled")
  <2>1. TypeOK /\ RunsSettleBeforeStop /\ j \in Ids
    BY <1>2 DEF CloseInv, LifeInv, IInv, Ids
  <2>2. scheduler # "stopped"
    BY <1>2, <2>1 DEF RunsSettleBeforeStop
  <2>3. ~ClosingHandle
    <3>1. \A k \in Jobs : ~BeginsTooLate(k)
      <4> SUFFICES ASSUME NEW k \in Jobs, BeginsTooLate(k) PROVE FALSE
        OBVIOUS
      <4>1. MovesTo(k, "raised")
        BY <2>1, MoveTaskMoves DEF BeginsTooLate, Crashes, Pcs, Ids
      <4> QED
        BY <1>2, <2>1, <4>1 DEF MovesTo
    <3> QED
      BY <1>2, <3>1 DEF ClosingHandle, MainCancelled, RunInterrupted
  <2>4. ~MainReturns /\ ~Nudge
    <3>1. Cancelled(task[j]).pc = "cancelled"
      <4>1. task[j] \in [pc : Pcs, outcome : Outcomes, sched : Instants]
        BY <2>1 DEF TypeOK
      <4> QED
        BY <1>2, <4>1 DEF Cancelled, Pending
    <3>2. \A k \in Jobs \ {j} :
            [[id \in Ids |-> Cancelled(task[id])] EXCEPT ![k].pc = "interrupted"][j]
              = Cancelled(task[j])
      BY <2>1
    <3> QED
      BY <1>2, <2>1, <3>1, <3>2 DEF MainReturns, Nudge
  <2>5. InLoop(Next)
    BY <1>2, <2>3, <2>4
       DEF LifeNext, ShutdownInBoot, Booted, NudgeInBoot, TeardownEnds, Closed, allVars, vars
  <2>6. ready # <<>> /\ Head(ready) = Start(j)
    BY <1>2, <2>1, <2>5, BodyBeginsAtStart DEF InLoop, Runs
  <2>7. ASSUME phase = "closing", main = "complete"
        PROVE  FALSE
    <3>1. 1 \in 1..Len(ready) /\ ready[1] = Start(j)
      BY <2>1, <2>6 DEF TypeOK
    <3>2. \E m \in 1..(1 - 1) : ready[m] = Stop
      BY <1>2, <2>1, <2>7, <3>1 DEF CloseInv, StopGoesFirst
    <3> QED
      BY <3>2
  <2> QED
    BY <1>2, <2>2, <2>5, <2>7 DEF InLoop, CloseInv, ClosingIsFrozen
<1>3. CloseInv /\ [LifeNext]_allVars =>
        [\A j \in Jobs : task[j].pc = "created" /\ task'[j].pc \in {"inline", "thread"}
           => /\ scheduler # "stopped"
              /\ phase # "loop" => main = "cancelled"]_allVars
  BY <1>2
<1> QED
  BY <1>1, <1>3, CloseInvKeeps, PTL DEF LifeSpec, NoBodyIntoTheClose

-----------------------------------------------------------------------------
(* Each job lives as JobLife promises, in the process too.                          *)

(* A body that no thread takes any more fails its job before it has begun. *)
LEMMA TooLateIsLived ==
  ASSUME TypeOK, NEW k \in Jobs, BeginsTooLate(k), NEW j \in Jobs
  PROVE  [Life(j)!Next]_(Life(j)!vars)
<1>1. MovesTo(k, "raised") /\ k \in Ids
  BY MoveTaskMoves DEF BeginsTooLate, Crashes, Pcs, Ids
<1>2. /\ UNCHANGED <<clock, args, store, errCounter>>
      /\ errored' = [errored EXCEPT ![k] = TRUE]
      /\ ~errored[k] /\ task[k].pc = "created"
  BY DEF BeginsTooLate, Crashes
<1>3. CASE j = k
  <2>1. errored'[j] = TRUE /\ Stage(task[j].pc) = "waiting" /\ Stage(task'[j].pc) = "over"
    BY <1>1, <1>2, <1>3 DEF TypeOK, MovesTo, Stage
  <2>2. Life(j)!Refused
    BY <1>2, <1>3, <2>1 DEF Life!Refused, Life!RunEnds
  <2> QED
    BY <2>2 DEF Life!Next
<1>4. CASE j # k
  <2>1. errored'[j] = errored[j] /\ task'[j] = task[j]
    BY <1>1, <1>2, <1>4 DEF TypeOK, MovesTo, Ids
  <2> QED
    BY <1>2, <2>1 DEF Life!vars
<1> QED
  BY <1>3, <1>4

(* A step of the process around the loop ends a job's run at most. *)
LEMMA ProcessIsLived ==
  ASSUME IInv, ResetAtMidnight, [LifeNext]_allVars, NEW j \in Jobs
  PROVE  [Life(j)!Next]_(Life(j)!vars)
<1>1. TypeOK /\ j \in Ids
  BY DEF IInv, Ids
<1>2. CASE InLoop(Next)
  BY <1>2, NextIsLived DEF InLoop
<1>3. CASE MainReturns \/ Nudge
  <2>1. UNCHANGED <<clock, jobVars>>
    BY <1>3 DEF MainReturns, Nudge
  <2>2. \/ task'[j] = task[j]
        \/ /\ task[j].pc \in AtWork \cup {"created"}
           /\ task'[j].pc \in {"cancelled", "interrupted"}
    BY <1>1, <1>3, EndOnlyCancels
  <2>3. \/ Stage(task'[j].pc) = Stage(task[j].pc)
        \/ Stage(task[j].pc) \in {"waiting", "working"} /\ Stage(task'[j].pc) = "over"
    BY <2>2 DEF AtWork, Stage
  <2> QED
    BY <2>1, <2>3, RunGoesOn
<1>4. CASE \E k \in Jobs : BeginsTooLate(k)
  BY <1>1, <1>4, TooLateIsLived
<1>5. CASE \/ MainCancelled \/ (\E k \in Jobs : RunInterrupted(k)) \/ ShutdownInBoot \/ Booted
           \/ NudgeInBoot \/ TeardownEnds \/ Closed \/ UNCHANGED allVars
  <2>1. UNCHANGED <<clock, jobVars, task>>
    BY <1>5 DEF MainCancelled, RunInterrupted, ShutdownInBoot, Booted, NudgeInBoot,
                TeardownEnds, Closed, allVars, vars
  <2> QED
    BY <2>1, RunGoesOn
<1> QED
  BY <1>2, <1>3, <1>4, <1>5 DEF LifeNext, ClosingHandle

(* reschedule_jobs stays due at midnight. *)
LEMMA ProcessKeepsMidnight ==
  ASSUME IInv, ResetAtMidnight, [LifeNext]_allVars
  PROVE  ResetAtMidnight'
<1>1. TypeOK /\ Reset \in Ids /\ \A j \in Jobs : j # Reset
  BY JobSchedulingAssumption DEF IInv, Ids
<1>2. CASE InLoop(Next)
  BY <1>2, MidnightStays DEF InLoop
<1>3. CASE MainReturns \/ Nudge
  <2>1. task'[Reset].sched = task[Reset].sched
    BY <1>1, <1>3, EndOnlyCancels
  <2> QED
    BY <1>3, <2>1 DEF MainReturns, Nudge, jobVars, ResetAtMidnight
<1>4. ASSUME NEW k \in Jobs, BeginsTooLate(k)
      PROVE  ResetAtMidnight'
  <2>1. MovesTo(k, "raised")
    BY <1>1, <1>4, MoveTaskMoves DEF BeginsTooLate, Crashes, Pcs, Ids
  <2>2. task'[Reset] = task[Reset]
    BY <1>1, <2>1 DEF MovesTo
  <2> QED
    BY <1>4, <2>2 DEF BeginsTooLate, Crashes, ResetAtMidnight
<1>5. CASE UNCHANGED <<jobVars, task>>
  BY <1>5 DEF jobVars, ResetAtMidnight
<1> QED
  BY <1>2, <1>3, <1>4, <1>5
     DEF LifeNext, ClosingHandle, MainCancelled, RunInterrupted, ShutdownInBoot, Booted,
         NudgeInBoot, TeardownEnds, Closed, allVars, vars

(* From boot to exit, through shutdowns, the nudge that interrupts a body and the close
   that cancels runs or refuses them a thread, each job lives as JobLife promises: a
   retry, a freeze or a registration comes only as JobBase makes it.                  *)
THEOREM EachJobLivesInTheProcess == LifeSpec => LivesAsPromised
<1>1. LifeInit => ResetAtMidnight /\ \A j \in Jobs : Life(j)!Init
  BY MidnightBegins, LifeBegins DEF LifeInit
<1>2. LifeInv => IInv
  BY DEF LifeInv
<1>3. IInv /\ ResetAtMidnight /\ [LifeNext]_allVars => ResetAtMidnight'
  BY ProcessKeepsMidnight
<1>4. IInv /\ ResetAtMidnight /\ [LifeNext]_allVars =>
        [\A j \in Jobs : [Life(j)!Next]_(Life(j)!vars)]_vars
  BY ProcessIsLived
<1> QED
  BY <1>1, <1>2, <1>3, <1>4, LifeInvariance, PTL DEF LifeSpec, LivesAsPromised
=============================================================================
