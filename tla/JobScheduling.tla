---------------------------- MODULE JobScheduling ----------------------------
(***************************************************************************)
(* The report jobs on the APScheduler event loop: how a due job becomes a   *)
(* task, how JobBase.run_job settles the end of its body, how a failed run  *)
(* moves the job's schedule, the weekly re-registration of every schedule,  *)
(* and the stop of the scheduler once a shutdown is requested.              *)
(*                                                                         *)
(* One event loop thread runs `ready', asyncio's FIFO of handles.  A handle *)
(* takes no time, except that the body of an `async def' job (TimeclockJob) *)
(* runs on the loop and holds it; other bodies run in worker threads.       *)
(***************************************************************************)
EXTENDS CronSlots, Sequences, FiniteSets

CONSTANTS
  Jobs,       \* the job classes of startup.jobs, each one main_job
  Inline,     \* those whose main_job is `async def'
  Reset,      \* the id "reschedule_jobs" of the weekly re-registration
  Orig,       \* startup.jobs: the slot each job is registered with
  MayEnd,     \* how the body of each job can end
  Threshold,  \* err_max_threshold
  Grace,      \* misfire_grace_time of "reschedule_jobs", in slots
  Horizon     \* bound: the clock stops at this instant

(* The ways main_job ends, as run_job tells them apart: it returns; it raises
   CanRescheduleJobError uncounted; counted, or OSError / SSHException; JobError;
   PoolClosedError; any other exception.                                        *)
Outcomes == {"ok", "resched", "error", "joberror", "poolclosed", "crash"}

ASSUME JobSchedulingAssumption ==
  /\ IsFiniteSet(Jobs)
  /\ Inline \subseteq Jobs
  /\ Reset \notin Jobs
  /\ Orig \in [Jobs -> Slots]
  /\ MayEnd \in [Jobs -> SUBSET Outcomes]
  /\ Threshold \in Nat \ {0}
  /\ Grace \in 0..(WeekLen - 1)
  /\ Horizon \in Instants

Ids == Jobs \cup {Reset}

VARIABLES
  clock,       \* the current instant
  args,        \* main_cron_args of each job
  store,       \* the stored job of each id: its trigger and next_run_time
  instances,   \* the executor's count of running instances of each id
  task,        \* the task of each id's run
  errCounter,  \* err_counter
  errored,     \* errored
  scheduler,   \* the scheduler's state; "stopped" has emptied the stores
  timer,       \* the scheduler's call_later handle
  shutdown,    \* SHUTDOWN.kind
  main,        \* what main() awaits: SHUTDOWN, its heartbeat, SHUTDOWN_COMPLETE;
               \* or "cancelled" (Lifecycle)
  ready        \* the loop's queue of handles

jobVars == <<args, store, errCounter, errored>>

processVars == <<scheduler, timer, shutdown, main>>

vars == <<clock, jobVars, instances, task, processVars, ready>>

(* "inline": on the loop, up to the first await; "awaiting": waiting for the
   subprocess; "tail": on the loop, after it; "thread": in a worker thread;
   "finished": subprocess or thread are done, the task not resumed; "returned" and
   "raised": the task is done, its callback is queued; "lost": the callback
   met the exception; "cancelled": by the executor's shutdown; "interrupted": by
   the exit nudge (Lifecycle).                                               *)
Pcs == {"idle", "created", "inline", "awaiting", "tail", "thread", "finished",
        "returned", "raised", "lost", "cancelled", "interrupted"}

Handles == [do : {"process", "main", "freeze", "stop"}]
             \cup [do : {"start", "resume", "done"}, of : Ids]

Process    == [do |-> "process"]
Main       == [do |-> "main"]
Freeze     == [do |-> "freeze"]
Stop       == [do |-> "stop"]
Start(id)  == [do |-> "start", of |-> id]
Resume(id) == [do |-> "resume", of |-> id]
Done(id)   == [do |-> "done", of |-> id]

NoRun   == [pc |-> "idle", outcome |-> "ok", sched |-> At(0, 0)]
NoTimer == [armed |-> FALSE, at |-> At(0, 0)]

-----------------------------------------------------------------------------
(* The loop *)

LoopHeld == \E j \in Jobs : task[j].pc \in {"inline", "tail"}

LoopIdle == ~LoopHeld /\ ready = <<>>

(* The loop runs handle h next. *)
Runs(h) == ~LoopHeld /\ ready # <<>> /\ Head(ready) = h

TimerDue == timer.armed /\ NotAfter(timer.at, clock)

(* Mutant: the new job waits for the timer armed before it was added. *)
NotWoken(queue) == queue

(* _real_add_job and resume() end in wakeup(), in the running state only. *)
Woken(queue) ==
  IF scheduler = "running" THEN Append(queue, Process) ELSE queue

(* Mutant: a shutdown request that main() is not told of. *)
Silently(queue) == queue

(* run_shutdown resolves SHUTDOWN, which main() awaits, the first time. *)
TellMain(queue) ==
  IF shutdown = "none" THEN Append(queue, Main) ELSE queue

(* The task of id moves to pc. *)
MoveTask(id, pc) == task' = [task EXCEPT ![id].pc = pc]

-----------------------------------------------------------------------------
(* Scheduler.wakeup: hand out what is due, arm the timer for the next one *)

Due == {id \in Ids : NotAfter(store[id].next, clock)}

(* Mutant: max_instances is 2. *)
AdmitsAnother(id) == instances[id] <= 1

(* BaseExecutor.submit_job: max_instances is 1. *)
Admits(id) == instances[id] = 0

(* The order in which due jobs are submitted: the "default" store, which holds
   every report job, before "system_jobs"; in a store, by next_run_time.       *)
SubmissionOrders(due) ==
  {q \in [1..Cardinality(due) -> due] :
     \A i, k \in 1..Cardinality(due) : i < k =>
       /\ q[i] # q[k]
       /\ q[i] # Reset
       /\ q[k] # Reset => NotAfter(store[q[i]].next, store[q[k]].next)}

NextRuns(due) ==
  [id \in Ids |->
     IF id \in due
       THEN [store[id] EXCEPT !.next = FollowingFire(store[id].trigger, clock)]
       ELSE store[id]]

(* A due job is submitted unless its last run still occupies its instance; its
   next run is set to follow the clock either way.                            *)
ProcessJobs ==
  /\ Runs(Process)
  /\ scheduler = "running"
  /\ LET submitted == {id \in Due : Admits(id)} IN
     \E order \in SubmissionOrders(submitted) :
       /\ instances' = [id \in Ids |-> IF id \in submitted THEN 1 ELSE instances[id]]
       /\ task' = [id \in Ids |->
                     IF id \in submitted
                       THEN [pc |-> "created", outcome |-> "ok",
                             sched |-> DueFire(store[id].trigger, clock)]
                       ELSE task[id]]
       /\ ready' = Tail(ready) \o [i \in 1..Cardinality(submitted) |-> Start(order[i])]
  /\ store' = NextRuns(Due)
  /\ \E id \in Ids :
       /\ \A other \in Ids : NotAfter(store'[id].next, store'[other].next)
       /\ timer' = [armed |-> TRUE, at |-> store'[id].next]
  /\ UNCHANGED <<clock, args, errCounter, errored, scheduler, shutdown, main>>

(* A wakeup of a paused or stopped scheduler only cancels the timer. *)
ProcessNothing ==
  /\ Runs(Process)
  /\ scheduler # "running"
  /\ timer' = NoTimer
  /\ ready' = Tail(ready)
  /\ UNCHANGED <<clock, jobVars, instances, task, scheduler, shutdown, main>>

(* The timer's callback runs when the loop is free. *)
TimerFires ==
  /\ LoopIdle
  /\ TimerDue
  /\ ready' = <<Process>>
  /\ timer' = NoTimer
  /\ UNCHANGED <<clock, jobVars, instances, task, scheduler, shutdown, main>>

-----------------------------------------------------------------------------
(* run_job: how the end of a body is settled.  `queue' is the loop's queue
   without the handle that is running.                                        *)

(* Mutant: the first run is taken from the arguments before the shift. *)
RegisteredStale(j, slot) == [trigger |-> slot, next |-> NextFire(args[j], clock)]

(* schedule_registered_jobs: add_job with replace_existing. *)
Registered(j, slot) == [trigger |-> slot, next |-> NextFire(slot, clock)]

(* The run of id is settled. *)
Leaves(id, pc) ==
  task' = [task EXCEPT ![id] = [pc |-> pc, outcome |-> "ok", sched |-> @.sched]]

EndsClean(j, queue) ==
  /\ errCounter' = [errCounter EXCEPT ![j] = 0]
  /\ Leaves(j, "returned")
  /\ ready' = Append(queue, Done(j))
  /\ UNCHANGED <<args, store, errored, shutdown>>

(* PoolClosedError: nothing but the end of the run. *)
Abandons(j, queue) ==
  /\ Leaves(j, "returned")
  /\ ready' = Append(queue, Done(j))
  /\ UNCHANGED <<jobVars, shutdown>>

(* error_reschedule below the threshold: reschedule_self cancels the job and
   adds it again at its own arguments plus the delay.  cancel_self finds the
   job in the store (RunsSettleBeforeStop).                                   *)
RetriesLater(j, count, queue) ==
  /\ errCounter' = [errCounter EXCEPT ![j] = count]
  /\ args' = [args EXCEPT ![j] = ShiftSlot(args[j])]
  /\ store' = [store EXCEPT ![j] = Registered(j, ShiftSlot(args[j]))]
  /\ Leaves(j, "returned")
  /\ ready' = Append(Woken(queue), Done(j))
  /\ UNCHANGED <<errored, shutdown>>

(* JobError, or error_reschedule at the threshold. *)
Freezes(j, count, queue) ==
  /\ errCounter' = [errCounter EXCEPT ![j] = count]
  /\ errored' = [errored EXCEPT ![j] = TRUE]
  /\ shutdown' = "fatal"
  /\ Leaves(j, "returned")
  /\ ready' = Append(TellMain(queue), Done(j))
  /\ UNCHANGED <<args, store>>

(* Any other exception leaves the task. *)
Crashes(j, queue) ==
  /\ errored' = [errored EXCEPT ![j] = TRUE]
  /\ Leaves(j, "raised")
  /\ ready' = Append(queue, Done(j))
  /\ UNCHANGED <<args, store, errCounter, shutdown>>

(* Mutant: the count is compared one failure late. *)
ReachesThresholdLate(j) == errCounter[j] >= Threshold

ReachesThreshold(j) == errCounter[j] + 1 >= Threshold

Settles(j, outcome, queue) ==
  \/ outcome = "ok" /\ EndsClean(j, queue)
  \/ outcome = "poolclosed" /\ Abandons(j, queue)
  \/ outcome = "resched" /\ RetriesLater(j, errCounter[j], queue)
  \/ outcome = "error" /\ ~ReachesThreshold(j) /\ RetriesLater(j, errCounter[j] + 1, queue)
  \/ outcome = "error" /\ ReachesThreshold(j) /\ Freezes(j, errCounter[j] + 1, queue)
  \/ outcome = "joberror" /\ Freezes(j, errCounter[j], queue)
  \/ outcome = "crash" /\ Crashes(j, queue)

(* PoolClosedError comes from the shutdown's teardown of the FTP pool. *)
CanEnd(j, outcome) ==
  /\ outcome \in MayEnd[j]
  /\ outcome = "poolclosed" => shutdown # "none"

-----------------------------------------------------------------------------
(* A run, from the first step of its task to its callback *)

(* An errored job returns at once. *)
SkipFrozen(j) ==
  /\ Runs(Start(j))
  /\ task[j].pc = "created"
  /\ errored[j]
  /\ Leaves(j, "returned")
  /\ ready' = Append(Tail(ready), Done(j))
  /\ UNCHANGED <<clock, jobVars, instances, processVars>>

BeginBody(j) ==
  /\ Runs(Start(j))
  /\ task[j].pc = "created"
  /\ ~errored[j]
  /\ MoveTask(j, IF j \in Inline THEN "inline" ELSE "thread")
  /\ ready' = Tail(ready)
  /\ UNCHANGED <<clock, jobVars, instances, processVars>>

(* The body of a threaded job ends; to_thread's future wakes the task. *)
ThreadEnds(j) ==
  /\ task[j].pc = "thread"
  /\ \E outcome \in MayEnd[j] :
       /\ CanEnd(j, outcome)
       /\ task' = [task EXCEPT ![j] = [pc |-> "finished", outcome |-> outcome,
                                       sched |-> @.sched]]
  /\ ready' = Append(ready, Resume(j))
  /\ UNCHANGED <<clock, jobVars, instances, processVars>>

ResumeThreaded(j) ==
  /\ j \notin Inline
  /\ Runs(Resume(j))
  /\ task[j].pc = "finished"
  /\ Settles(j, task[j].outcome, Tail(ready))
  /\ UNCHANGED <<clock, instances, scheduler, timer, main>>

(* An inline body awaits its subprocess, ... *)
InlineAwaits(j) ==
  /\ task[j].pc = "inline"
  /\ MoveTask(j, "awaiting")
  /\ UNCHANGED <<clock, jobVars, instances, processVars, ready>>

SubprocessEnds(j) ==
  /\ task[j].pc = "awaiting"
  /\ MoveTask(j, "finished")
  /\ ready' = Append(ready, Resume(j))
  /\ UNCHANGED <<clock, jobVars, instances, processVars>>

(* ... and holds the loop again after it. *)
ResumeInline(j) ==
  /\ j \in Inline
  /\ Runs(Resume(j))
  /\ task[j].pc = "finished"
  /\ MoveTask(j, "tail")
  /\ ready' = Tail(ready)
  /\ UNCHANGED <<clock, jobVars, instances, processVars>>

(* Before the subprocess it downloads the report, after it reads the manifest
   and mails: only the first part waits for a file or uses the FTP pool.       *)
InlineEnds(j) ==
  /\ task[j].pc \in {"inline", "tail"}
  /\ \E outcome \in MayEnd[j] :
       /\ CanEnd(j, outcome)
       /\ task[j].pc = "inline" => outcome # "ok"
       /\ task[j].pc = "tail" => outcome \notin {"resched", "poolclosed"}
       /\ Settles(j, outcome, ready)
  /\ UNCHANGED <<clock, instances, scheduler, timer, main>>

(* Mutant: a failed run gives its instance back without driving a shutdown. *)
ReportsNothing == shutdown

(* handle_fatal_exc_sync drives a fatal shutdown. *)
ReportsFatal == "fatal"

(* The task's done callback. *)
RunReturned(id) ==
  /\ Runs(Done(id))
  /\ task[id].pc = "returned"
  /\ instances' = [instances EXCEPT ![id] = @ - 1]
  /\ task' = [task EXCEPT ![id] = NoRun]
  /\ ready' = Tail(ready)
  /\ UNCHANGED <<clock, jobVars, processVars>>

RunRaised(j) ==
  /\ Runs(Done(j))
  /\ task[j].pc = "raised"
  /\ shutdown' = ReportsFatal
  /\ MoveTask(j, "lost")
  /\ ready' = TellMain(Tail(ready))
  /\ UNCHANGED <<clock, jobVars, instances, scheduler, timer, main>>

(* The next step of a cancelled task raises CancelledError, which the callback
   lets pass.                                                                  *)
RunCancelled(id) ==
  /\ Runs(Start(id)) \/ Runs(Resume(id))
  /\ task[id].pc = "cancelled"
  /\ ready' = Tail(ready)
  /\ UNCHANGED <<clock, jobVars, instances, task, processVars>>

-----------------------------------------------------------------------------
(* startup.reschedule_jobs, on Sunday at midnight *)

Misfires(id) == Before(Later(task[id].sched, Grace), clock)

(* Every job is registered again at the slot of startup.jobs, with the scheduler
   paused; "general_jobs", which it empties first, holds none of them.           *)
ResetSchedules ==
  /\ Runs(Start(Reset))
  /\ task[Reset].pc = "created"
  /\ ~Misfires(Reset)
  /\ args' = Orig
  /\ store' = [id \in Ids |-> IF id \in Jobs THEN Registered(id, Orig[id]) ELSE store[id]]
  /\ scheduler' = "running"
  /\ Leaves(Reset, "returned")
  /\ ready' = Tail(ready) \o <<Process, Done(Reset)>>
  /\ UNCHANGED <<clock, instances, errCounter, errored, timer, shutdown, main>>

ResetMissed ==
  /\ Runs(Start(Reset))
  /\ task[Reset].pc = "created"
  /\ Misfires(Reset)
  /\ Leaves(Reset, "returned")
  /\ ready' = Append(Tail(ready), Done(Reset))
  /\ UNCHANGED <<clock, jobVars, instances, processVars>>

-----------------------------------------------------------------------------
(* startup.main after `await SHUTDOWN' *)

(* An operator's stop: a signal. *)
RequestShutdown ==
  /\ shutdown = "none"
  /\ shutdown' = "graceful"
  /\ ready' = TellMain(ready)
  /\ UNCHANGED <<clock, jobVars, instances, task, scheduler, timer, main>>

(* main() cancels the heartbeat and awaits it. *)
MainWakes ==
  /\ Runs(Main)
  /\ main = "shutdown"
  /\ main' = "heartbeat"
  /\ ready' = Append(Tail(ready), Freeze)
  /\ UNCHANGED <<clock, jobVars, instances, task, scheduler, timer, shutdown>>

(* Mutant: the scheduler is stopped at once, the executor's tasks later. *)
StopsAtOnce ==
  /\ Runs(Freeze)
  /\ main = "heartbeat"
  /\ main' = "complete"
  /\ scheduler' = "stopped"
  /\ ready' = Append(Tail(ready), Stop)
  /\ UNCHANGED <<clock, jobVars, instances, task, timer, shutdown>>

(* scheduler.pause(); scheduler.shutdown(wait=False) is queued on the loop. *)
MainFreezes ==
  /\ Runs(Freeze)
  /\ main = "heartbeat"
  /\ main' = "complete"
  /\ scheduler' = "paused"
  /\ ready' = Append(Tail(ready), Stop)
  /\ UNCHANGED <<clock, jobVars, instances, task, timer, shutdown>>

(* Mutant: only the tasks whose body is at work are cancelled. *)
PendingAtWork == {"awaiting", "thread"}

(* The tasks the executor finds not done. *)
Pending == {"created", "awaiting", "thread", "finished"}

SchedulerStops ==
  /\ Runs(Stop)
  /\ main = "complete"
  /\ scheduler' = "stopped"
  /\ timer' = NoTimer
  /\ task' = [id \in Ids |->
                IF task[id].pc \in Pending THEN [task[id] EXCEPT !.pc = "cancelled"]
                                           ELSE task[id]]
  /\ ready' = Tail(ready)
  /\ UNCHANGED <<clock, jobVars, instances, shutdown, main>>

-----------------------------------------------------------------------------
(* Time passes while the loop has nothing to do, or is held by a body. *)
Tick ==
  /\ LoopHeld \/ (LoopIdle /\ ~TimerDue)
  /\ scheduler # "stopped"
  /\ Before(clock, Horizon)
  /\ clock' = Later(clock, 1)
  /\ UNCHANGED <<jobVars, instances, task, processVars, ready>>

(* The loop runs its next handle. *)
LoopStep ==
  \/ ProcessJobs
  \/ ProcessNothing
  \/ \E j \in Jobs :
       SkipFrozen(j) \/ BeginBody(j) \/ ResumeThreaded(j) \/ ResumeInline(j) \/ RunRaised(j)
  \/ \E id \in Ids : RunReturned(id) \/ RunCancelled(id)
  \/ ResetSchedules
  \/ ResetMissed
  \/ MainWakes
  \/ MainFreezes
  \/ SchedulerStops

(* The slots of startup.py: midnight of Sunday for "reschedule_jobs". *)
BootSlot(id) == IF id = Reset THEN 0 ELSE Orig[id]

(* Boot: reschedule_jobs(), "reschedule_jobs" itself, scheduler.start(). *)
Init ==
  /\ clock \in [week : {0}, slot : Slots]
  /\ args = Orig
  /\ store = [id \in Ids |->
                [trigger |-> BootSlot(id), next |-> NextFire(BootSlot(id), clock)]]
  /\ instances = [id \in Ids |-> 0]
  /\ task = [id \in Ids |-> NoRun]
  /\ errCounter = [j \in Jobs |-> 0]
  /\ errored = [j \in Jobs |-> FALSE]
  /\ scheduler = "running"
  /\ timer = NoTimer
  /\ shutdown = "none"
  /\ main = "shutdown"
  /\ ready = <<Process>>

(* Work of a body, on the loop or beside it. *)
BodyStep(j) == ThreadEnds(j) \/ InlineAwaits(j) \/ SubprocessEnds(j) \/ InlineEnds(j)

Next ==
  \/ LoopStep
  \/ TimerFires
  \/ Tick
  \/ RequestShutdown
  \/ \E j \in Jobs : BodyStep(j)

(* The loop keeps running its handles.  Bodies may go on for ever: the processor
   subprocess is awaited, and Sheets asked, without a timeout.                 *)
Fairness == WF_vars(LoopStep)

Spec == Init /\ [][Next]_vars /\ Fairness
-----------------------------------------------------------------------------
TypeOK ==
  /\ clock \in Instants
  /\ args \in [Jobs -> Slots]
  /\ store \in [Ids -> [trigger : Slots, next : Instants]]
  /\ instances \in [Ids -> 0..1]
  /\ task \in [Ids -> [pc : Pcs, outcome : Outcomes, sched : Instants]]
  /\ errCounter \in [Jobs -> 0..Threshold]
  /\ errored \in [Jobs -> BOOLEAN]
  /\ scheduler \in {"running", "paused", "stopped"}
  /\ timer \in [armed : BOOLEAN, at : Instants]
  /\ shutdown \in {"none", "graceful", "fatal"}
  /\ main \in {"shutdown", "heartbeat", "complete", "cancelled"}
  /\ ready \in Seq(Handles)

(* A run that is still to be settled never meets a stopped scheduler, whose
   stores are empty: error_reschedule's cancel_self would raise JobLookupError
   there, and the retry would be lost.  The stop and the run are queued on the
   loop in either order.                                                       *)
RunsSettleBeforeStop ==
  scheduler = "stopped" =>
    \A id \in Ids :
      task[id].pc \notin {"created", "inline", "awaiting", "tail", "thread", "finished"}

(* A job that refuses to run again (errored) never does so unseen: a fatal
   shutdown is requested, or its exception is on its way to the callback.   *)
FrozenJobsAreReported ==
  \A j \in Jobs : errored[j] => shutdown = "fatal" \/ task[j].pc = "raised"

(* A job's stored schedule is the one its JobBase believes in, through retries
   and weekly re-registrations in the middle of runs.                         *)
StoreFollowsArgs ==
  /\ \A j \in Jobs : store[j].trigger = args[j]
  /\ \A id \in Ids : store[id].next.slot = store[id].trigger

(* While the scheduler runs, the next wakeup, queued or on the timer, comes no
   later than any stored run: a retry added before the armed timer is not
   overslept.                                                                  *)
WakesForEveryRun ==
  \/ scheduler # "running"
  \/ \E i \in 1..Len(ready) : ready[i] = Process
  \/ timer.armed /\ \A id \in Ids : NotAfter(timer.at, store[id].next)

(* No body begins once the scheduler is stopped: RunsSettleBeforeStop implies it. *)
NoBodyAfterStop ==
  [][\A j \in Jobs : task'[j].pc \in {"inline", "thread"} /\ task[j].pc = "created"
       => scheduler # "stopped"]_vars

(* A failed run that ends before its retry time, and whose job was not
   registered anew meanwhile, has its retry one delay after its own time, over
   the end of the week too.                                                    *)
RetryKeepsPace ==
  [][\A j \in Jobs :
       /\ task[j].pc \in {"finished", "inline", "tail"}
       /\ task'[j].pc = "returned"
       /\ args'[j] # args[j]
       /\ args[j] = task[j].sched.slot
       /\ NotAfter(clock, Later(task[j].sched, Delay))
       => store'[j].next = Later(task[j].sched, Delay)]_vars

(* A due run is dropped at the instance limit only behind a run that took its
   instance the retry delay or longer ago: no retry, and no week's run after a
   re-registration, is lost to a run that it follows.                           *)
OnlyLongRunsCostASlot ==
  [][\A j \in Jobs :
       Runs(Process) /\ store'[j].next # store[j].next /\ task'[j] = task[j]
       => NotAfter(Later(task[j].sched, Delay), clock)]_vars

(* How far the run of a job is, to someone who sees neither the loop nor threads. *)
Stage(pc) ==
  IF pc = "idle" THEN "none"
  ELSE IF pc = "created" THEN "waiting"
  ELSE IF pc \in {"inline", "awaiting", "tail", "thread", "finished"} THEN "working"
  ELSE "over"

Life(j) ==
  INSTANCE JobLife WITH
    Main <- Orig[j], slot <- args[j], next <- store[j].next,
    failures <- errCounter[j], frozen <- errored[j], run <- Stage(task[j].pc)

(* Beside the other jobs, on a loop that may be held, with threads, wakeups that
   hand out several jobs and re-registrations in the middle of runs, each job lives
   as JobLife promises: this is Life(j)!Spec for every job.                        *)
LivesAsPromised ==
  /\ \A j \in Jobs : Life(j)!Init
  /\ [][\A j \in Jobs : [Life(j)!Next]_(Life(j)!vars)]_vars

(* The body of id's run goes on, or another that keeps the loop from it. *)
BodyGoesOn(id) ==
  LoopHeld \/ task[id].pc \in {"awaiting", "thread"}

(* A run gives its instance back, or the process goes down: an instance held for
   good would silently skip the job every week.  Only a body that never ends, its
   own or one that holds the loop, holds it for good.                          *)
InstancesAreReleased ==
  \A id \in Ids :
    \/ instances[id] = 1 ~> instances[id] = 0 \/ shutdown # "none"
    \/ <>[]BodyGoesOn(id)

(* What the code promises and does not keep: reschedule_jobs "runs at boot and
   again weekly" (startup.py): each run of it registers the jobs.              *)
ResetRunsWeekly ==
  [][task[Reset].pc = "created" /\ task'[Reset].pc = "returned" => args' = Orig]_vars
=============================================================================
