# ScheduledReportAggregator in TLA+

Specifications of the scheduled report jobs and of the process they run in, checked with TLC and,
for the most part, proved with TLAPS. Paths are relative to the repository; `jobs/…`, `startup.py`
and so on are under `src/scheduled_report_aggregator/`.

## The system

One process runs an asyncio event loop with an APScheduler scheduler on it. `__main__`'s `run_app`
boots it and ends it with an exit code. `startup.main` registers the job classes of
`startup.jobs`, each a singleton `JobBase` with one cron schedule, and waits for a shutdown to be
requested.

| Part | State | Operations | Correct when |
|---|---|---|---|
| `JobBase` (`jobs/base.py`) | `main_cron_args`, `active_jobs`, `err_counter`, `errored` | `run_job` wrapper, `error_reschedule`, `reschedule_self`, `cancel_self`, `schedule_registered_jobs`, `init_job`, `shift_cron_args` | every end of a body is settled once: retried ten minutes on, frozen and reported, or done; the stored schedule is the one the job believes in |
| `Scheduler`, `CustomAsyncIOExecutor` (`scheduler_config.py`) | job stores, timer, instance counts, pending futures | `_real_add_job`, `_do_submit_job` and its callback, `run_coroutine_job`, APScheduler's wakeups | every due run is submitted or dropped for a reason; instances are given back |
| `main`, `reschedule_jobs` (`startup.py`) | what `main` awaits | boot, weekly re-registration (Sunday 00:00), freeze and stop | schedules go back to their own slot every week; a requested shutdown stops the scheduler |
| `run_app` (`__main__.py`) with `aeth_ext`'s shutdown | whether it boots, runs the loop or closes it; `SHUTDOWN.kind`, `SHUTDOWN_COMPLETE` | `initialize`, import of `startup`, `run(main())`, teardown pass, exit nudge, exit code | the process ends when asked to, with 1 exactly if something failed |
| `BalanceSheetJob` (`jobs/bal_sheet_job.py`) | downloaded files, `late_alerts_sent` | look for the RYO and SAS files, alert late ones, merge, mail | each week ends with a report or with someone told; the report is of this week's files |
| its `assemble_report` | none | read the two files row by row, merge them by store | no store, no money and no mistake is lost |
| filename patterns (`bal_sheet_job.py`, `timeclock_job/__init__.py`), `check_if_this_week` | none | build a pattern from today's date, check a timestamp | this week's names are taken, others are not |
| `FlipSheetJob` (`timeclock_job/flip_sheet_job.py`) | the shared spreadsheet | make a week's tab, hide old ones | every week gets its tab; nobody's hours are lost |
| `TimeclockJob` (`timeclock_job/__init__.py`), `AllottedHoursModel` | working files | blocking download, awaited subprocess, hours read tab by tab, comparison, mails | it finds the tabs it reads; it reports only stores that are off; it does not starve the loop for long |
| `EmployeeDiscountsJob` (`jobs/employee_disc_job.py`), commented out in `startup.jobs` | the spreadsheet of its tabs | download, parse, upload in three calls, mail; daily | each day's report is complete in its tab |
| taxes job | none | a stub | not modelled |
| settings, types, logging | configuration | read at import | not modelled |

How they interact: the scheduler's timer runs a wakeup on the loop; the wakeup submits due jobs as
tasks; a task runs `run_job`'s wrapper, which runs an `async def` body on the loop and any other
in a worker thread; the end of the body is settled on the loop, where it may take the job out of
the store and add it again, which wakes the scheduler; the task's done callback gives the instance
back or drives a fatal shutdown; a shutdown, wherever it comes from, resolves `SHUTDOWN`, and
`main` freezes and stops the scheduler, waits for the teardown pass and returns. The
re-registration runs as one more task among these. FlipSheetJob, TimeclockJob and the people who
enter hours share the tabs of a spreadsheet.

What is hard: the order of handles on the loop (a retry's wakeup against the done callback, the
stop against the end of a run, a failed run's callback against the close of the loop); schedules
that are moved by retries, in fields, over midnight and the end of the week; a re-registration in
the middle of a run, or missed because a body holds the loop; failures that are counted, not
counted or final; dates read at different moments of a run; external servers whose answers are
lost, between the calls of one upload too; tabs that other jobs make, hide and replace and people
fill in and delete; files written by hand.

## Modules

| Module | Models |
|---|---|
| `CronSlots` | a week of slots, instants, CronTrigger's next match, and the shift of a slot by the retry delay. Pure; used by all schedule modules |
| `CronShift` | `shift_cron_args` on day of the week, hour and minute, and chains of retries. Refers to `CronSlots` by `INSTANCE`, a minute to a slot |
| `EmployeeDiscounts` | extends `CronShift` with the daily job: its four steps, the three calls of the upload, the day's tabs |
| `JobScheduling` | the core: event loop, scheduler, executor, `run_job`, retries, re-registration, stop |
| `JobLife` | what `JobBase` and the scheduler promise of one job: the abstract specification that `JobScheduling` and `Lifecycle` implement for each of their jobs, `BalanceSheet` and `FlipSheet` for the one they follow |
| `Lifecycle` | extends `JobScheduling` with the process around it: boot, teardown, exit nudge, close of the loop, exit code |
| `RetrySchedule` | the schedule of one job with the loop free: the part of `JobScheduling` that a job's own story needs. Operators, which the jobs' modules make their specifications of |
| `BalanceSheet` | extends `RetrySchedule` with the balance sheet job's body, its servers and mails |
| `BalanceMerge` | `assemble_report`'s merge of two files of any rows |
| `FlipSheet` | extends `RetrySchedule` with the flip of the spreadsheet's tabs |
| `Timeclock` | extends `FlipSheet` with the run of TimeclockJob that reads those tabs, and the row model |
| `FilenamePatterns` | the three patterns and the week check over a real calendar |
| `JobSchedulingProofs`, `LifecycleProofs`, `EmployeeDiscountsProofs` (`CronShift` first), `BalanceSheetProofs`, `TimeclockProofs` (`FlipSheet` first), `BalanceMergeProofs`, `FilenamePatternsProofs` | theorems. `Lifecycle`'s, `EmployeeDiscounts`' and `Timeclock`'s rest on those of the module theirs extends |
| `RetryScheduleProofs` | lemmas on `RetrySchedule`'s operators, for the proofs of the modules that extend it |
| `MC…` | constants for TLC |

### JobScheduling and the code

`ready` is asyncio's FIFO of handles; an action that runs on the loop requires its handle at the
head and the loop not held. A handle takes no time. Only the body of an `Inline` job
(`async def`, TimeclockJob) holds the loop, twice: before its subprocess (`inline`) and after it
(`tail`). A threaded body ends on its own and queues the resumption of its task.

| Code | Action or operator |
|---|---|
| APScheduler wakeup, `_process_jobs` (external) with `_do_submit_job` | `ProcessJobs`, `ProcessNothing`, `TimerFires` |
| `run_job` wrapper: errored, body, ends | `SkipFrozen`, `BeginBody`, `ThreadEnds`, `InlineAwaits`, `SubprocessEnds`, `ResumeInline`, `InlineEnds`, `ResumeThreaded` with `Settles` |
| clean / `PoolClosedError` / `CanRescheduleJobError`, `OSError` / `JobError`, threshold / other | `EndsClean` / `Abandons` / `RetriesLater` / `Freezes` / `Crashes` |
| the future's callback | `RunReturned`, `RunRaised`, `RunCancelled`; `RunInterrupted` in `Lifecycle` |
| `reschedule_jobs`, misfire check | `ResetSchedules`, `ResetMissed` |
| `main` after `await SHUTDOWN` | `MainWakes`, `MainFreezes`, `SchedulerStops` |

`add_job` is given no job store, so the report jobs live in "default", and the
`remove_all_jobs("general_jobs")` of `reschedule_jobs` removes nothing. Submission follows the
order of the stores: report jobs before `reschedule_jobs`.

Abstractions. A slot is one retry delay or more; a time within a slot has no order beyond that of
the steps. `Grace = 0` slots stands for the 60 seconds of misfire grace, less than a slot. The
program is the production one (`python -O`): the `__debug__` run of every job at boot, and
`trigger_shutdown` being a no-op then, are left out. Report jobs have no misfire grace limit.

### JobLife, the abstract specification

A job by itself has its slot (`main_cron_args`), its next run, its failures, whether it is frozen,
and the stage of its run: `none`, `waiting` for its first step, `working`, `over` with the instance
still taken. It is handed out when due, and loses that turn if the last run is not yet given back.
A run ends well, is abandoned (a frozen job's, a cancelled one, a closed pool), is retried one delay
behind the job's slot while the count is below the threshold, or freezes the job, at once or by the
count that reaches the threshold; one that is refused a thread freezes it before it has begun
(`Refused`, only in a closing loop). The slot moves back to that of `startup.jobs` at the begin of
the week only. There is no queue, no thread, no other job and no scheduler state in it.

`JobScheduling`'s `Life(j)` maps to it: the registration's next run, the arguments, the count and
the flag are those of `j`, and `Stage` forgets where on the loop, in a thread or on its way between
the two a run is. `LivesAsPromised` says that every step of the whole is a step of each job's life
or none. It does not speak of progress: that is `InstancesAreReleased`.

`BalanceSheet` and `FlipSheet` have a `Life` too, of their one job: its run is `waiting` until the
body's first step and `working` until `Settle`, which gives the instance back at once (`RunEnds`
allows both). Where the job and `reschedule_jobs` are due together, `HandsOut` is one step for both,
and so is `Reregistered`. That they implement the same promise as `JobScheduling` is what justifies
the simple schedule they are built on: with the loop free, nothing happens to the job that the
engine would not do to it.

### Lifecycle and the code

`phase` is where `run_app` is: `boot` until `startup` is imported and there is a loop, `loop` in
`run(main())`, `closing` in asyncio's `Runner.close`, `exited`. A shutdown may be requested in
every phase; one of the boot is resolved before `main` awaits it (`ShutdownInBoot`,
`AwaitsShutdown`). `TeardownEnds` is `aeth_ext`'s teardown pass resolving `SHUTDOWN_COMPLETE`.
`MainReturns` waits for both the freeze and that. The exit nudge, a simulated SIGINT when the
shutdown's budget is spent, may come at any moment after a request: in the boot it ends `run_app`
(`NudgeInBoot`), in the loop (`Nudge`) it interrupts the body that holds the loop, whose task then
stores KeyboardInterrupt, or the loop's wait. `Runner.close` cancels what is pending and runs the
loop until its queue is empty: handles that were queued still run, so a failed run may still
report itself, an inline body may still begin after a nudge, and a threaded one is refused
(`BeginsTooLate`). `Exit` reads `SHUTDOWN.kind` last, as `__main__.py` does.

`aeth_ext` is not in the repository: that the teardown is run once per shutdown and that the nudge
follows a spent budget are taken from `__main__.py`'s and `startup.py`'s comments and calls.

### RetrySchedule, BalanceSheet, FlipSheet and the code

`HandsOut`, `Settles` and `TimePasses` are the schedule: what is due is handed out before time
passes, and the re-registration is not missed (JobScheduling's `ResetRunsWeekly` shows when it
is). Once errored, nothing is handed out and time stops: the process is going down (Lifecycle's
`FreezeExitsOne`). A shutdown by the operator is not part of these modules.

In `BalanceSheet` a file is the week its name says, or `Misnamed`. `download_file` is `FindsFile`,
`FileTransferred` or `MissesFile` (with `alert_if_past_deadline`); `download_all_files` is the walk
over `Sources`, then `LacksFiles` or `HasFiles`, or `ServerFails`; `main_job` goes on with
`Assembles` or `CannotAssemble`, and `Emails` or `EmailFails`; `run_job` is `Settle`. Every step
reads the clock for itself, as the code does. `Lookalikes` says which other weeks' names a week's
pattern lets through; `FilenamePatterns` shows that they are at least twenty days older or
younger. `Typos` is what people may mistype. `assemble_report` is one step here.

In `FlipSheet` a tab is the week that its Sunday begins. A run on Sunday (`OnSunday`) makes the
tab of the week before, a run from Monday on that of the present week: this is what
`todays_date`, a week ago, and the `SU(+1)` after it come to. `Fetches` and `Updates` are the
metadata request and the atomic batch; `UpdateRefused` is the batch that names a tab that people
deleted in between. Sheet ids and the protected header are left out.

### Timeclock and the code

`main_job` is `Begins` (the report is there), `ProcessorEnds` (`run_processor`, the manifest),
`ReadsTab` once per week of the manifest, `Calculates`, `Mails`; each has the failures of its
part, counted (`FailsCounted`, which at the threshold goes down) or final (`FailsForGood`). A week
without a tab is refused by the API, which nothing catches (`TabIsMissing`). The run is composed
with `FlipSheet`'s: the steps interleave, and nothing but the tabs is shared. One store stands for
all of them, as rows are read, validated and compared one by one. A cell is empty, a whole number,
a fraction or a text: `Valid` and `TrainingIn` are what pydantic and `zero_if_err` make of them.
TimeclockJob's own schedule is JobScheduling's matter; here a run may come at any slot from
Thursday on until one is clean, but ends in its week (`OverWeekEnd`). The weeks of a report are
those of the last two Sundays' tabs, or one of them.

### BalanceMerge and the code

People and SAS write rows (`RyoLists`, `SasDrafts`), then `assemble_report` merges them in one
step, as nothing can come between. A cell is what `parse_amount` tells apart: plain, accounting
(a negative amount in parentheses), dash, blank, text. `extract_storenums` makes a key of a name:
its number, or the name itself. `Group`, `sum_amounts`, `Matched`, `Unmatched` and `Merged` are
the groupby over keys (`dropna=False`), the total, and the outer join. Error notes are kept as
sets: which note is on which row, not its wording.

### EmployeeDiscounts and the code

The job runs daily; its retries move `CronShift`'s arguments. `main_job` is `_download_files`,
`_process_report`, `AddsTab`, `WritesValues`, `Formats` (`_upload_to_sheets`: the structural
batch, the values, the formats) and `SendsEmail`; `StepFails` is any failure, which `main_job`
wraps as a counted one, whatever the step said. A failing run that outlasts the delay has its
retry on the next day (`lapsed`). `startup.reschedule_jobs` puts the schedule back on Sundays;
people may start a stopped process again.

### FilenamePatterns and the code

Names are dates, for SAS with the hour; minutes and finer are unrestricted by the patterns. The
patterns are translated with their cross products and, for SAS, with the positions that
`dates[1:-1]` cuts out. The days of the week's two ends are put into the SAS pattern as bare numbers,
the days between them with two digits as in the names: `Bare` says which days' names a bare number
matches, those of 10 and later. The time zone is US Eastern, as the names `start_est`, `end_est` have
it.

## What is checked

| Run | Bounds | Question |
|---|---|---|
| `JobScheduling_safety` | Timeclock (inline, slot 3) and BalanceSheet (slot 2), week of 5 slots, delay 1, threshold 2, any boot slot of week 0, until week 1 slot 3 | `TypeOK`; no run is left to settle on a stopped scheduler; frozen jobs are reported; the store follows the arguments; no stored run is overslept; a retry comes one delay after its run; a due run is dropped only behind a long run; each job lives as `JobLife` promises |
| `Lifecycle_exit` | Timeclock (inline, slot 2) and FlipSheet (slot 3), week of 4 slots, threshold 2, until week 1 slot 0; shutdown, teardown and nudge at any moment | no failed run exits with 0 and nothing but a failure makes a shutdown fatal; no body begins into the close that `main` returned to; an instance comes back unless a body never ends; a requested shutdown ends the process whatever bodies do, and a frozen job with 1 unless a body keeps the loop from reporting it |
| `JobScheduling_missed_reset` | one inline job | `ResetRunsWeekly` fails |
| `CronShift_retries` | Sunday 23:59, daily 23:55, and EmployeeDiscountsJob daily 05:00 with threshold 3, 2 days kept, 5 days; failures up to six days apart, all 1008 shifts around a week | shifts add up, and are `CronSlots`'; no day is skipped; only a gap bars an upload's retry |
| `BalanceSheet_weeks` | week of 6 slots, two weeks, three files to a server, runs over at most one slot's border, threshold 2 | no silent week; a source is missing only when its file is; reports are fresh; repeats have a cause |
| `BalanceSheet_long_run`, `_typo`, `_midnight` | as above, with runs up to two slots, with mistyped names, and as above | `NoWeekInSilence`, `OnlyMissingFilesDelay`, `HalvesOfOneWeek` fail |
| `BalanceMerge_files` | every RYO file of up to 2 and SAS file of up to 3 rows, over two spellings of a store, a name without number, the blank name, the warehouse under either name, and 3 and 4 kinds of cells | every store has a row; SAS's money adds up; a row without notes is complete; no store is split |
| `FlipSheet_weeks` | week of 4 slots of which Sunday is two and Thursday the last, five weeks, threshold 2; hours worked 36 or 60 against 40 allotted, one week's allotted hours typed as a fraction, another's training hours as a word | three weeks are shown; only a tab made ahead of time loses hours; a report finds every tab that was made; no store is reported without a cause |
| `FlipSheet_late_retry` | as above, without reports | `EachWeekHasItsTab` fails |
| `FilenamePatterns_years` | every day of 2026 to 2028 | the week's names match, none of the weeks around it; SAS misses files of the week's two ends only, and which |

Why the bounds are enough: the interesting events of a schedule are a run, its retries, the
re-registration and the next run, and the horizons let each of them follow each other once. Two
jobs meet each other at the loop, the scheduler and the stop in every order; a third adds no new
pair. Threshold 2 has both a counted failure that is retried and one that freezes; the upload's
threshold 3 lets a retry fail once more over the tab the first attempt left. The deadline of
RYO lies before the first run and that of SAS after it, as on Monday and Wednesday. Four flips
hide a tab, and the last Thursday reads beside it. Five days pass the two that are kept, with a
gap of as many. Two RYO rows have a store twice, or two spellings of it; three invoices make a
group of two beside another. Three years hold the turns of a leap year and of ordinary ones, and
the shifts of daylight saving.

The bounds stop the clock, so `CHECK_DEADLOCK` is off where there is one.

`OnlyLongRunsCostASlot` takes the slots of `startup.jobs` as they are: they keep clear of the
re-registration (`SlotsAreClear`, under "What is proved"). `SasAddsUp` is stated for files that list
a store once.

Assumed of the outside: a gspread batch is applied whole or not at all, and Sheets does not let
the last visible tab be deleted; people delete hidden tabs only.

### Fairness

`JobScheduling` assumes weak fairness of `LoopStep` alone: the loop runs the handle at its head
when no body holds it. Nothing is assumed of the bodies. The processor's subprocess is awaited with
no timeout (`timeclock_job/__init__.py:376-378`) and the gspread clients are authorized with none
(`timeclock_job/__init__.py:262-265`, `flip_sheet_job.py:44-47`), so a body may go on for ever.
`Lifecycle` assumes the same of the closing loop's handles, and that the import of the boot, the
teardown pass (which has a budget), the return of `main` and the end of `run_app` are not put off
for ever. Nothing is assumed of the clock, the timer or an operator. Of the exit nudge it is assumed
that it comes to a body that holds the loop on and on after a shutdown was requested: by
`__main__.py:37-42` it is unconditional once the shutdown's budget is spent. Where the loop is free
nothing is assumed of it, as `main` then returns by itself.

What follows without any body ending: `ShutdownExits` holds outright. `InstancesAreReleased` has an
excuse for each job, that its body or one that holds the loop goes on for ever (`BodyGoesOn`), and
`FreezeExitsOne` one for a body that never gives the loop back although no shutdown is requested.
Neither holds without its excuse, and that is what the code does: a hung body has its job's later
runs skipped at the instance limit, week after week, and one that hangs on the loop between a
failure and its callback keeps the failure unreported.

The close of the loop waits for worker threads no longer than `Runner.close`'s own timeout, so
`Closed` does not wait for them, and `exited` is `run_app`'s `SystemExit`: that the interpreter may
still wait for a hung worker thread behind it is not modelled. The liveness properties start from a
held instance, a requested shutdown or a frozen job.

### Disagreements found

1. `NoWeekInSilence`: the delay of `reschedule_delay_minutes` counts from the run's own time. A
   run that fails later than that is retried in a week, and the week of the balance sheet may have
   neither a report nor an alert.
2. `ResetRunsWeekly`: the weekly re-registration is dropped when a body holds the loop over Sunday
   midnight.
3. `OnlyMissingFilesDelay`: a younger file with a mistyped date may hide this week's.
4. `HalvesOfOneWeek`: a run over Saturday midnight merges two weeks.
5. `EachWeekHasItsTab`: the retry of the flip is on Monday and makes another week's tab. The tab
   TimeclockJob looks for on Thursday is then not there, which takes the process down.

A sixth is within what a passing run checks: the SAS pattern has the days of the week's two ends,
both Sundays in UTC, without the leading zero that names have (`bal_sheet_job.py:161`, against line
151 for the days between). No file of a Sunday of day 1 to 9 is matched. `SasMissesTheEndsOnly` has
this as a conjunct, of files that a run never accepts.

`SasMissesTheEndsOnly` says exactly which SAS files a run does not take, of the ones made in its week.
Files of the last hours of Saturday, which is Sunday in UTC, are matched if that Sunday's day has two
digits, and then fail `check_if_this_week`: as the newest match such a file hides the right one, with
no name mistyped. Files of the UTC Saturday of the week daylight saving begins, and of the week's own
Sunday of day 1 to 9, match nothing. SAS delivers on Wednesday by the comment at
`bal_sheet_job.py:297`, which none of these is; `BalanceSheet` takes it so, and would not hold
`OnlyMissingFilesDelay` otherwise.

An alert is taken as delivered once it is given to `aeth_ext`'s `alert()`. The code marks the week as
alerted before that (`bal_sheet_job.py:391`, `402`), so an alert that is lost is not repeated, and
`NoWeekInSilence` would not see it. `NoDayIsSkipped` excuses the days a late retry lapses: what it
says is of the failures between the calls of an upload.

`today()` of `aeth_ext` is taken to be the start of the current day: `check_if_this_week` counts
the week from it.

## What is proved

Each theorem is for all values of the constants that satisfy the named assumptions of its module
and of those it extends.

`JobSchedulingProofs`, for any finite set of jobs, slots, ways to end, thresholds and horizons:

- `TypeCorrect`, `StoreFollows`, `FrozenReported`, `SettledBeforeStop`, `NothingOverslept`: the
  invariants of the safety run;
- `RetriesKeepPace`, `LongRunsCostASlot`: its action properties;
- `BodiesBeginBeforeStop`: no body begins once the scheduler is stopped, which follows from
  `SettledBeforeStop`;
- `EachJobLivesAsPromised`: it implements `JobLife` for each of its jobs.

Three more theorems show `JobLife` implemented: `EachJobLivesInTheProcess` (`LifecycleProofs`) from
boot to exit, `BalanceSheetLives` (`BalanceSheetProofs`) and `FlipSheetLives` (`TimeclockProofs`)
through the bodies of the two jobs, and `FlipSheetLivesBesideReports` for the latter with
TimeclockJob at work beside it (`ReportsLeaveTheSheet`: the composition implements FlipSheet alone).

The inductive invariant is `IInv`, which `InitInv` and `NextInv` show to hold in the initial states
and to be kept by every action. The properties are not inductive as they stand. `TypeOK` needs
`InstancesMatchRuns` (an instance is taken exactly while a task is not over), as a count must not
fall below zero, and `ThresholdFreezes` with `FrozenJobsRest` (a job at the threshold is frozen,
and a frozen one begins no body), as the count of failures must not pass it. `RunsSettleBeforeStop`
needs `StoppedByMain`: the scheduler stops once, at the end of `main`, with the tasks it finds;
`ResetIsBrief` and `RunsAreDue` carry the rest. The proof goes action by action; what a shift, a
fire and the queue do are lemmas. `WakesForEveryRun` is inductive by itself, given the types: a
queued wakeup leaves the queue only by running, and running it arms the timer for the first of the
stored runs; whoever adds an earlier run queues a wakeup.

`LongRunsCostASlot` needs `SlotsAreClear`: no slot of `startup.jobs` is within the re-registration's
grace and one delay of its midnight, and none so late that its first retry is in the next week. The
code's slots are on Sunday (a second before Monday), Wednesday and Thursday, the grace is a minute,
the delay ten. `PaceInv` says that a job's next run is a delay or more behind the one that has its
instance (`NextIsLater`). A retry keeps that as long as a run shifts its own slot; a re-registration
in the middle of it makes it shift the slot of `startup.jobs`, which in that week is clear of it
(`ShiftsAhead`, `ResetIsEarly`). No bound on how far chains of retries wander is needed.

`EachJobLivesAsPromised` needs of `IInv` that an instance is taken exactly while there is a run
(`InstancesMatchRuns`: the abstract job is handed out by its run's stage, the code by the count of
instances), that the stored trigger is that of the arguments (`StoreFollowsArgs`), and that a job at
work is below its threshold and not frozen (`ThresholdFreezes`, `FrozenJobsRest`). That a
re-registration comes within the grace of midnight needs its own invariant, `ResetAtMidnight`, with
`RunsAreDue`. `RunGoesOn` has the steps in which a run moves and its registration stays,
`SettlesLife` its end, and `ProcessJobsLife` and `ResetSchedulesLife` the two steps that every job
takes part in at once. What the calendar of the abstract specification computes is the same
(`OneCalendar`).

`LifecycleProofs`: `LifeTypeCorrect`, `NoFailureExitsZero`, `FatalNeedsFailure`. JobScheduling's
`IInv` survives the steps of the process (`CancelsKeep`: what is cancelled or interrupted is at
work or not begun). It says that a job's failure is reported or on its way; that the exit code
cannot overtake it needs `RaisedIsQueued`: the callback of a run that raised is in the queue, and
the close ends with an empty one. That is kept by every action of JobScheduling too: a handle
leaves the queue only by running.

`LifecycleProofs` also has `NoJobIntoTheClose`. The property is of a step; the invariant behind it,
`CloseInv`, is of the queue: a start that is queued is that of a run not yet begun or cancelled, and
there only once (`StartsAreOwed`); from the freeze on, the stop is queued or done
(`StopIsQueued`); in a closing loop the scheduler is frozen unless `main` was cancelled
(`ClosingIsFrozen`), and a start that could still begin a body stands behind the stop
(`StopGoesFirst`). Only a wakeup queues starts, and it queues them last; every other step keeps the
order (`Grows`, `StartsNone`).

`EachJobLivesInTheProcess` takes the steps of `JobScheduling` from `NextIsLived`. Of the process's
own, main's return and the nudge end runs at most (`EndOnlyCancels`), and `BeginsTooLate` freezes a
job whose run has not begun (`TooLateIsLived`): in the loop's life proper no job freezes from
`waiting`, so the abstract specification needs `Refused` for the close.

`EmployeeDiscountsProofs`, on `CronShift`: `ShiftIsShiftSlot` shows, for all weekly arguments and
any day, that `shift_cron_args` on the fields is the shift of the slot that the other modules use,
with its carry over midnight and over the end of the week; `ShiftsFollowCronSlots` is that for every
step of `CronShift`, and `TypeCorrect` its type invariant. The argument: the base instant is some
week's occurrence of the slot, reading the fields of an instant and putting them together loses only
the week, and the week cancels. `FailuresAddUp` is the sum over a chain of any length, for weekly
and daily schedules; it needs that a schedule stays of its kind (`SameKind`).

And on the job itself: `DiscountsTypeCorrect`, `DiscountsAddUp`, `EachDayHasItsTab`,
`OnlyGapsBar`, for any threshold, number of days kept and last day. `NoDayIsSkipped` is of days
that are over; the invariant adds what a run in progress has reached (`TodaysTab`), that no tab is
ahead of its day and the last days' are shown (`LastDaysShown`), and `TallyBelow`.

`BalanceSheetProofs`: `TypeCorrect`, `WhatIsMailedIsFresh`, for any names on the servers, deadlines
and week. `ReportsAreFresh` speaks of the moment of mailing, hours after the
files were found. `IInv` adds `Found` (a source the run is through with is missing, or what it found
there is of a week it was at work in), `InWalk` (where in its two sources it is) and `RunInTime`: a
run lasts less than a week, so these are the weeks of its begin and of its end at most. The
schedule's part is `RetryScheduleProofs`, one lemma per operator of `RetrySchedule`.

Three more theorems need something of the constants, and say so in their `ASSUME`:

- `OnlyMissingFilesAreMissed`: nobody mistypes a name (`Typos = {}`, and old files are old). A
  pattern may let names of other weeks through, but on a server without typos the newest match is
  this week's when it is there. `BalanceSheet_typo` shows what happens otherwise.
- `RepeatsAreExplained`: a run is over before the slot of the week's own run (`RunLimit < Main`).
  The job's slot is days into the week and a run takes minutes. The invariant is `RepeatsInv`:
  the stored run is that of the arguments and lies ahead (`Punctual`), it is in a later
  week while a run of this week is at work (`NextIsLater`), and a week whose report was mailed
  without a failure, at the job's slot or later, has no run left (`WeekIsDone`).
- `NoWeekIsForgotten`: a run is also no longer than the retry delay (`RunsAreShort`), and the job's
  slot and every source's deadline leave the week room for a run and `Threshold` retries
  (`RetriesFit`): ten minutes each, against days. The invariant `OnTrack` says that a week
  still silent has its run ahead, with room for the failures left (`RunIsAhead`), or at work
  (`RunIsOn`), or one of the week before is, behind which its own run is stored (`RunIsOld`).
  A missing file is not counted and is retried without a bound, but from its deadline on it is
  alerted; counted failures end at the threshold with a stop. `RunMails` says what a clean end
  means. `BalanceSheet_long_run` has a run of two slots against a delay of one:
  there `RunsAreShort` is false, and so is the property.

With the constants of `BalanceSheet_weeks` all three hypotheses hold.

`BalanceSheetLives` needs no hypothesis. From `IInv` it takes that a run that settles is below the
threshold and not of a frozen job, and from `Punctual` that a wakeup comes at the slot of what it
hands out, so that the re-registration is at the begin of the week (`HandsOutInTime`);
`WakeupIsLived`, `BodyIsLived`, `SettleIsLived` and `TickIsLived` are the kinds of step.
`FlipSheetLives` goes the same way.

`TimeclockProofs` has three parts. The first is of `FlipSheet`: `TypeCorrect` and `ThreeWeeksShown`,
for any week, slot and threshold. `ShowsThreeWeeks` is not inductive: a batch hides what its run
found in the metadata, which is stale when the batch is sent. `IInv` adds `KnowsWhatIsShown`
(whatever is shown is still in that metadata, as people may delete hidden tabs but only the job
shows one), and for the types `WeeksBegan`, `ThresholdFreezes` and `FrozenIsIdle` (a run that
settles counts below the threshold).

The second part is of `Timeclock`: `ReportsTypeCorrect`, `TabsOutlast`, `AlarmsAreDeserved`, for any
hours and cells. Over FlipSheet's `IInv`: the week a flip is for never goes back with the date
(`TargetGrows`), so no tab was made for a later one (`TabsInTime`, `RunInTime`), and what is hidden
is more than two weeks older (`HiddenIsOld`), while a report reads the last two (`ReadsLastWeeks`).
`ReadRight` keeps what was read until the comparison. `ThreeWeeksBesideReports` is the first part's
theorem with the report beside the flips.

`OnTimeTabsKeepHours` needs `FlipEndsInWeek`: the job's slot is not the week's first, and the week
has room behind it for Sunday's run, its `Threshold - 1` counted retries of ten minutes each and the
last one's run. Otherwise a retry wrapped into the next Sunday could run before that Sunday's own
run and again after it, and replace a tab made on time. It holds of `FlipSheet_weeks`. The invariant
is `FlipInv`: one run per week reads the date on a Sunday (`SundayRunsOnce`, with `SundayIsFree` and
`RetriesStayInWeek` for the schedule); tabs made on time are of weeks before the present
(`OnTimeIsOld`); so a tab that a run finds in its way was made early (`TargetIsEarly`), by a
Monday's retry: disagreement 5 above.

`BalanceMergeProofs`: `StoresAreAllThere`, `CleanRowsCanBeReliedOn`, `SidesMeet`, for any files,
names and cells. The invariant is that the report, once there, is the outer join of what the files
hold; most of the rest is about one row of it. `NoMoneyIsLost` (`SasAddsUp`) is about all rows at
once, and `TypeCorrect` needs that totals are numbers. `Total` is a fold of the community modules, a
function defined by recursion on the subsets of its domain. That this function exists is shown for
subsets of up to n members, n by n (`SumsOfSmallSets`), and what it adds up to by a smallest subset
of which it would not hold (`SmallestSet`), as the library's induction theorems cannot be used: the
order does not matter (`AnyCanBeLast`), two parts add up to the whole (`SumOfTwoParts`), and so do
groups (`SumByGroups`). Each readable invoice is in the group of exactly one row
(`StoresHaveOneRow`, which needs that RYO lists a store once).

`FilenamePatternsProofs`: `TypeCorrect`, `NamesOfTheWeekMatch`, `NeighboursNeverMatch`,
`SasMissesNothingElse`, for every date of every year where the run has three. A pattern takes any
year, any month and any day of its week, in all combinations. A week reaches over the end of one
month at most, and a month has 28 days or more: so a date within twenty days that has a month of
the week and a day of the week is in the week (`Shifted`, one step over a month's end). For SAS the
dates are those of the week's ends in UTC, four or five hours later; `SasMissesNothingElse` says which
names are taken and which are not, for which it needs that the days between the ends differ from
those of the ends and from each other (`DaysDiffer`, `MidDaysAre`).

Only model-checked: the liveness properties `InstancesAreReleased`, `ShutdownExits` and
`FreezeExitsOne`, as liveness under fairness is out of the prover's reach.

## Not modelled

- Of `TimeclockJob`: the queue over which the processor sends its log, the folders and links of
  its playground, the helpers for testing; that its fixed port may still be taken.
- Of `assemble_report`: the dates of the header, encodings, the order of the rows, the CSV. Of
  `EmployeeDiscountsJob`: the parsing of the report's sections, one step that succeeds or fails,
  and a missed re-registration.
- The taxes stub, a placeholder without behaviour; settings and types, read at import and without
  state afterwards; the logging configuration; `print_jobs`, which only logs.
- Cron fields of the year, month and day, string fields and sub-jobs: nothing uses them.
- `aeth_ext`'s threads themselves, which are not in the repository: their effects on the program
  are, in `Lifecycle`.

## Plan

1. `EmployeeDiscounts`' daily job as an implementation of `JobLife`, which needs slots of a day.
2. `RangePattern` as a range.
