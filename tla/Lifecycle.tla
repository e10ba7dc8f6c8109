------------------------------ MODULE Lifecycle ------------------------------
(***************************************************************************)
(* The life of the process around JobScheduling: run_app's `initialize' and *)
(* import of startup, run(main()), aeth_ext's teardown pass, which resolves *)
(* SHUTDOWN_COMPLETE, and its exit nudge, a simulated SIGINT, asyncio's      *)
(* Runner.close, and the exit code.                                         *)
(*                                                                         *)
(* Until the import is done the state of JobScheduling is that of its Init. *)
(***************************************************************************)
EXTENDS JobScheduling

VARIABLES
  phase,       \* run_app: "boot", "loop" is run(main()), "closing" its Runner.close
  complete,    \* SHUTDOWN_COMPLETE is resolved
  exitCode     \* of run_app's SystemExit

NoCode == 2

lifeVars == <<phase, complete, exitCode>>

allVars == <<vars, lifeVars>>

-----------------------------------------------------------------------------
(* run_app *)

(* Mutant: `kind > FATAL', which no kind is. *)
CodeOfGraceful == 0

(* Mutant: the nudge's KeyboardInterrupt is not caught. *)
CodeOfInterrupt == 130

(* SHUTDOWN.kind >= ShutdownKind.FATAL *)
CodeOfShutdown == IF shutdown = "fatal" THEN 1 ELSE 0

Exit ==
  /\ phase' = "exited"
  /\ exitCode' = CodeOfShutdown

(* The central log server rejects the program's configuration, or a signal
   comes, before there is a loop.                                            *)
ShutdownInBoot ==
  /\ phase = "boot"
  /\ shutdown = "none"
  /\ shutdown' \in {"graceful", "fatal"}
  /\ UNCHANGED <<clock, jobVars, instances, task, scheduler, timer, main, ready, lifeVars>>

(* Mutant: main() waits for a request that is still to come. *)
AwaitsTheNext == ready

(* SHUTDOWN may be resolved before main() awaits it. *)
AwaitsShutdown == IF shutdown = "none" THEN ready ELSE Append(ready, Main)

Booted ==
  /\ phase = "boot"
  /\ phase' = "loop"
  /\ ready' = AwaitsShutdown
  /\ UNCHANGED <<clock, jobVars, instances, task, processVars, complete, exitCode>>

NudgeInBoot ==
  /\ phase = "boot"
  /\ shutdown # "none"
  /\ Exit
  /\ UNCHANGED <<vars, complete>>

-----------------------------------------------------------------------------
(* The loop's end *)

TeardownEnds ==
  /\ phase \in {"boot", "loop"}
  /\ shutdown # "none"
  /\ ~complete
  /\ complete' = TRUE
  /\ UNCHANGED <<vars, phase, exitCode>>

(* Runner.close cancels what is pending. *)
Cancelled(run) == IF run.pc \in Pending THEN [run EXCEPT !.pc = "cancelled"] ELSE run

(* main() returns.  The scheduler's stop, queued before, runs first. *)
MainReturns ==
  /\ phase = "loop"
  /\ main = "complete"
  /\ complete
  /\ ~LoopHeld
  /\ \A i \in 1..Len(ready) : ready[i] # Stop
  /\ phase' = "closing"
  /\ task' = [id \in Ids |-> Cancelled(task[id])]
  /\ UNCHANGED <<clock, jobVars, instances, processVars, ready, complete, exitCode>>

(* main() is slower than the shutdown's budget: the nudge raises
   KeyboardInterrupt in the body that holds the loop, or in the loop's wait.
   The interrupted task stores it, which queues its callback.                *)
Nudge ==
  /\ phase = "loop"
  /\ shutdown # "none"
  /\ phase' = "closing"
  /\ main' = IF main = "complete" THEN main ELSE "cancelled"
  /\ \/ /\ LoopIdle
        /\ task' = [id \in Ids |-> Cancelled(task[id])]
        /\ UNCHANGED ready
     \/ \E j \in Jobs :
          /\ task[j].pc \in {"inline", "tail"}
          /\ task' = [[id \in Ids |-> Cancelled(task[id])] EXCEPT ![j].pc = "interrupted"]
          /\ ready' = Append(ready, Done(j))
  /\ UNCHANGED <<clock, jobVars, instances, scheduler, timer, shutdown, complete, exitCode>>

-----------------------------------------------------------------------------
(* Runner.close runs the loop until what it cancelled is done, then waits for
   the worker threads.                                                        *)

(* main() is cancelled before it has stopped the scheduler. *)
MainCancelled ==
  /\ phase = "closing"
  /\ main = "cancelled"
  /\ Runs(Main) \/ Runs(Freeze)
  /\ ready' = Tail(ready)
  /\ UNCHANGED <<clock, jobVars, instances, task, processVars, lifeVars>>

(* Mutant: the callback has no arm for KeyboardInterrupt. *)
InterruptIsFatal == "fatal"

(* The executor's callback returns at KeyboardInterrupt, before it gives the
   instance back.                                                             *)
InterruptIsNoFailure == shutdown

RunInterrupted(j) ==
  /\ Runs(Done(j))
  /\ task[j].pc = "interrupted"
  /\ shutdown' = InterruptIsNoFailure
  /\ ready' = Tail(ready)
  /\ UNCHANGED <<clock, jobVars, instances, task, scheduler, timer, main, lifeVars>>

(* to_thread refuses a body once the executor for threads is shut down. *)
BeginsTooLate(j) ==
  /\ phase = "closing"
  /\ j \notin Inline
  /\ Runs(Start(j))
  /\ task[j].pc = "created"
  /\ ~errored[j]
  /\ Crashes(j, Tail(ready))
  /\ UNCHANGED <<clock, instances, scheduler, timer, main, lifeVars>>

(* A nudge in the wait for the worker threads ends it the same way. *)
Closed ==
  /\ phase = "closing"
  /\ LoopIdle
  /\ Exit
  /\ UNCHANGED <<vars, complete>>

-----------------------------------------------------------------------------
LifeInit ==
  /\ Init
  /\ phase = "boot"
  /\ complete = FALSE
  /\ exitCode = NoCode

(* The loop runs on in Runner.close. *)
InLoop(A) == phase \in {"loop", "closing"} /\ A /\ UNCHANGED lifeVars

(* The handles that only a closing loop meets. *)
ClosingHandle ==
  \/ MainCancelled
  \/ \E j \in Jobs : RunInterrupted(j) \/ BeginsTooLate(j)

LifeNext ==
  \/ InLoop(Next)
  \/ ClosingHandle
  \/ ShutdownInBoot
  \/ Booted
  \/ NudgeInBoot
  \/ TeardownEnds
  \/ MainReturns
  \/ Nudge
  \/ Closed

(* As in JobScheduling; the import, the teardown pass, which has a budget, and
   run_app go on.  The nudge comes when the budget of a shutdown is spent, to a body
   that holds the loop on and on: without such a body main() has to return by itself. *)
LifeFairness ==
  /\ WF_allVars(InLoop(LoopStep) \/ ClosingHandle)
  /\ WF_allVars(LoopHeld /\ Nudge)
  /\ WF_allVars(Booted)
  /\ WF_allVars(TeardownEnds)
  /\ WF_allVars(MainReturns)
  /\ WF_allVars(Closed)

LifeSpec == LifeInit /\ [][LifeNext]_allVars /\ LifeFairness
-----------------------------------------------------------------------------
LifeTypeOK ==
  /\ phase \in {"boot", "loop", "closing", "exited"}
  /\ complete \in BOOLEAN
  /\ exitCode \in {0, 1, NoCode}

(* "The exit code says how we stopped" (__main__.py): no failed run is forgotten
   by an exit with 0, though the run may fail between an operator's stop and the
   exit, and its callback runs when the loop is being closed.                   *)
FailuresExitOne == exitCode = 0 => \A j \in Jobs : ~errored[j]

(* Nothing but a failed run, or a shutdown in the boot, makes a shutdown fatal:
   an operator's stop that lands in a running job, whose task then holds the
   nudge's KeyboardInterrupt, stays "a clean operator stop"
   (scheduler_config.py).                                                       *)
OnlyFailuresAreFatal ==
  [][shutdown # "fatal" /\ shutdown' = "fatal"
       => phase = "boot" \/ \E j \in Jobs : errored'[j]]_allVars

(* No body begins on a stopped scheduler, nor in the close of a loop whose main()
   was not cut short by the nudge: no new job "fires into a process that is going
   away" (startup.py).  A run that was handed out before the freeze may still begin
   up to the stop.                                                              *)
NoBodyIntoTheClose ==
  [][\A j \in Jobs :
       task[j].pc = "created" /\ task'[j].pc \in {"inline", "thread"}
       => /\ scheduler # "stopped"
          /\ phase # "loop" => main = "cancelled"]_allVars

(* A requested shutdown ends the process, whatever the jobs are doing and however
   long their bodies go on.                                                     *)
ShutdownExits == shutdown # "none" ~> phase = "exited"

(* A frozen job takes the process down with the code of a failure.  Only a body that
   never gives the loop back can keep the failure from being reported.           *)
FreezeExitsOne ==
  \/ \A j \in Jobs : errored[j] ~> exitCode = 1
  \/ <>[](LoopHeld /\ shutdown = "none")
=============================================================================
