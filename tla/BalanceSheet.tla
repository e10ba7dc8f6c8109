---------------------------- MODULE BalanceSheet ----------------------------
(***************************************************************************)
(* BalanceSheetJob over the weeks: people and servers put the RYO and SAS   *)
(* draft files on their FTP servers; a run looks for this week's file of    *)
(* each source, reports a late one once a week, and mails the merged report *)
(* when it has both; a failed run is tried again one delay later.           *)
(*                                                                         *)
(* The body runs in a worker thread, one step per exchange with a server;   *)
(* its schedule is RetrySchedule's.                                          *)
(***************************************************************************)
EXTENDS RetrySchedule, Sequences, FiniteSets

CONSTANTS
  Deadline,    \* FileVars.deadline of each source, from the start of the week
  Misnamed,    \* the name of a file no pattern matches
  Lookalikes,  \* <<w, k>>: names of week w are also matched by the pattern of week k
  Typos,       \* <<w, k>>: a file uploaded in week k may be named for week w
  OldFiles,    \* the names that are on the servers at boot
  MaxFiles,    \* bound: files in a server's folder
  RunLimit     \* bound: slots a run may last

(* file_details, in its order. *)
Sources == <<"ryo", "sas">>

SourceKeys == {"ryo", "sas"}

(* A file is the week its name's timestamp falls in. *)
Names == Nat \cup {Misnamed}

ASSUME BalanceSheetAssumption ==
  /\ Deadline \in [SourceKeys -> Slots]
  /\ Misnamed \notin Nat
  /\ Lookalikes \subseteq Nat \X Nat
  /\ Typos \subseteq Nat \X Nat
  /\ OldFiles \in Seq(Names)
  /\ MaxFiles \in Nat
  /\ RunLimit \in 0..(WeekLen - 1)

VARIABLES
  boot,     \* when the process was started
  remote,   \* the folder of each source, in the order of the uploads
  local,    \* the files in each local_holding_folder
  alerted,  \* late_alerts_sent
  sent,     \* the reports mailed
  run       \* the run in progress

vars == <<boot, clock, scheduleVars, remote, local, alerted, sent, run>>

Pcs == {"idle", "looking", "transferring", "downloaded", "assembling", "emailing", "ended"}

(* `at' is the place in Sources, `got' the file of each source so far. *)
Runs ==
  [pc : Pcs, began : Instants, at : 1..(Len(Sources) + 1),
   got : [SourceKeys -> Names], missing : SUBSET SourceKeys, outcome : Outcomes]

NoFiles == [s \in SourceKeys |-> Misnamed]

NewRun(pc) ==
  [pc |-> pc, began |-> clock, at |-> 1, got |-> NoFiles, missing |-> {}, outcome |-> "ok"]

NoRun == [NewRun("idle") EXCEPT !.began = At(0, 0)]

ThisWeek == clock.week

-----------------------------------------------------------------------------
(* A run is skipped while the last one is still at work. *)
Wakeup ==
  /\ HandsOut
  /\ run' = IF JobDue /\ run.pc = "idle" THEN NewRun("looking") ELSE run
  /\ UNCHANGED <<boot, remote, local, alerted, sent>>

-----------------------------------------------------------------------------
(* download_all_files and download_file, for the source `Looking' *)

Looking == Sources[run.at]

(* Mutant: the first match is taken. *)
Oldest(matching) ==
  CHOOSE i \in matching : \A k \in matching : i <= k

Youngest(matching) ==
  CHOOSE i \in matching : \A k \in matching : k <= i

(* The pattern is built for this week. *)
Matching(s) ==
  {i \in DOMAIN remote[s] :
     remote[s][i] = ThisWeek \/ <<remote[s][i], ThisWeek>> \in Lookalikes}

(* Mutant: the newest match is taken whatever its week. *)
HasFileAny(s) == Matching(s) # {}

(* The newest match is of this week. *)
HasFile(s) ==
  /\ Matching(s) # {}
  /\ remote[s][Youngest(Matching(s))] = ThisWeek

(* The loop of download_all_files goes on, or is over. *)
Onward(r) ==
  [r EXCEPT !.at = r.at + 1,
            !.pc = IF r.at = Len(Sources) THEN "downloaded" ELSE "looking"]

Ended(r, outcome) == [NewRun("ended") EXCEPT !.began = r.began, !.outcome = outcome]

FindsFile ==
  /\ run.pc = "looking"
  /\ HasFile(Looking)
  /\ LET name == remote[Looking][Youngest(Matching(Looking))] IN
     /\ run' = [run EXCEPT !.pc = "transferring", !.got[Looking] = name]
     /\ local' = [local EXCEPT ![Looking] = @ \cup {name}]
  /\ UNCHANGED <<boot, clock, scheduleVars, remote, alerted, sent>>

(* Mutant: the week of an alert is forgotten, one alert is all there is. *)
AlertedOnce(s) ==
  IF Before(clock, At(ThisWeek, Deadline[s])) \/ \E a \in alerted : a[1] = s
    THEN alerted
    ELSE alerted \cup {<<s, ThisWeek>>}

(* alert_if_past_deadline *)
AlertedLate(s) ==
  IF Before(clock, At(ThisWeek, Deadline[s]))
    THEN alerted
    ELSE alerted \cup {<<s, ThisWeek>>}

MissesFile ==
  /\ run.pc = "looking"
  /\ ~HasFile(Looking)
  /\ alerted' = AlertedLate(Looking)
  /\ run' = [Onward(run) EXCEPT !.missing = @ \cup {Looking}]
  /\ UNCHANGED <<boot, clock, scheduleVars, remote, local, sent>>

FileTransferred ==
  /\ run.pc = "transferring"
  /\ run' = Onward(run)
  /\ UNCHANGED <<boot, clock, scheduleVars, remote, local, alerted, sent>>

(* The downloaded files of the given sources are unlinked. *)
Without(keys) ==
  [s \in SourceKeys |-> IF s \in keys THEN local[s] \ {run.got[s]} ELSE local[s]]

(* The server fails, while it is asked or in a transfer, whose file then stays. *)
ServerFails ==
  /\ run.pc \in {"looking", "transferring"}
  /\ \E outcome \in {"error", "crash"} : run' = Ended(run, outcome)
  /\ local' = Without({Sources[i] : i \in 1..(run.at - 1)})
  /\ UNCHANGED <<boot, clock, scheduleVars, remote, alerted, sent>>

(* A source is missing: the others' files are deleted. *)
LacksFiles ==
  /\ run.pc = "downloaded"
  /\ run.missing # {}
  /\ local' = Without(SourceKeys)
  /\ run' = Ended(run, "resched")
  /\ UNCHANGED <<boot, clock, scheduleVars, remote, alerted, sent>>

HasFiles ==
  /\ run.pc = "downloaded"
  /\ run.missing = {}
  /\ run' = [run EXCEPT !.pc = "assembling"]
  /\ UNCHANGED <<boot, clock, scheduleVars, remote, local, alerted, sent>>

-----------------------------------------------------------------------------
(* main_job: assemble_report and email_report *)

Assembles ==
  /\ run.pc = "assembling"
  /\ run' = [run EXCEPT !.pc = "emailing"]
  /\ UNCHANGED <<boot, clock, scheduleVars, remote, local, alerted, sent>>

(* JobError *)
CannotAssemble ==
  /\ run.pc = "assembling"
  /\ run' = Ended(run, "joberror")
  /\ UNCHANGED <<boot, clock, scheduleVars, remote, local, alerted, sent>>

(* `failed': run_job takes the mailing for a failure. *)
Report(failed) ==
  [ryo |-> run.got["ryo"], sas |-> run.got["sas"], on |-> clock, failed |-> failed]

Emails ==
  /\ run.pc = "emailing"
  /\ sent' = Append(sent, Report(FALSE))
  /\ run' = Ended(run, "ok")
  /\ UNCHANGED <<boot, clock, scheduleVars, remote, local, alerted>>

(* An error on the way to the mail server; the report may have gone out. *)
EmailFails ==
  /\ run.pc = "emailing"
  /\ sent' \in {sent, Append(sent, Report(TRUE))}
  /\ run' = Ended(run, "error")
  /\ UNCHANGED <<boot, clock, scheduleVars, remote, local, alerted>>

(* run_job *)
Settle ==
  /\ run.pc = "ended"
  /\ run' = NoRun
  /\ Settles(run.outcome)
  /\ UNCHANGED <<boot, clock, remote, local, alerted, sent>>

-----------------------------------------------------------------------------
(* The world *)

(* A file is put on a server: rightly named, misnamed, or named for another week. *)
Upload(s) ==
  /\ Len(remote[s]) < MaxFiles
  /\ \E name \in {ThisWeek, Misnamed} \cup {p[1] : p \in {q \in Typos : q[2] = ThisWeek}} :
       remote' = [remote EXCEPT ![s] = Append(@, name)]
  /\ UNCHANGED <<boot, clock, scheduleVars, local, alerted, sent, run>>

Tick ==
  /\ TimePasses
  /\ run.pc # "ended"
  /\ run.pc # "idle" => Before(clock, Later(run.began, RunLimit))
  /\ UNCHANGED <<boot, remote, local, alerted, sent, run>>

Init ==
  /\ Boots
  /\ boot = clock
  /\ remote = [s \in SourceKeys |-> OldFiles]
  /\ local = [s \in SourceKeys |-> {}]
  /\ alerted = {}
  /\ sent = <<>>
  /\ run = NoRun

RunStep ==
  \/ FindsFile
  \/ MissesFile
  \/ FileTransferred
  \/ ServerFails
  \/ LacksFiles
  \/ HasFiles
  \/ Assembles
  \/ CannotAssemble
  \/ Emails
  \/ EmailFails
  \/ Settle

Next ==
  \/ Wakeup
  \/ RunStep
  \/ \E s \in SourceKeys : Upload(s)
  \/ Tick

Spec == Init /\ [][Next]_vars
-----------------------------------------------------------------------------
TypeOK ==
  /\ ScheduleTypeOK
  /\ boot \in Instants
  /\ remote \in [SourceKeys -> Seq(Names)]
  /\ local \in [SourceKeys -> SUBSET Names]
  /\ alerted \subseteq SourceKeys \X Nat
  /\ sent \in Seq([ryo : Nat, sas : Nat, on : Instants, failed : BOOLEAN])
  /\ run \in Runs

(* A week whose scheduled run the process was up for ends with its report mailed,
   with an alert for a late source, or with the process stopped and alerting: no
   week passes in silence.  A late week is marked before its alert is handed to
   aeth_ext, and the alert is taken as delivered.                                *)
NoWeekInSilence ==
  \A week \in 1..(clock.week - 1) :
    NotAfter(boot, At(week, Main)) =>
      \/ errored
      \/ \E i \in DOMAIN sent : sent[i].on.week = week
      \/ \E s \in SourceKeys : <<s, week>> \in alerted

(* A source counts as missing only when no file named for this week is there. *)
OnlyMissingFilesDelay ==
  [][\A s \in run'.missing \ run.missing :
       \A i \in DOMAIN remote[s] : remote[s][i] # ThisWeek]_vars

(* The two halves of a mailed report are of the same week. *)
HalvesOfOneWeek == \A i \in DOMAIN sent : sent[i].ryo = sent[i].sas

(* A mailed report's files are of the week it is mailed in, or of the week before
   when the run outlasted that week.                                             *)
ReportsAreFresh ==
  [][sent' # sent =>
       LET report == sent'[Len(sent')] IN
       {report.ryo, report.sas} \subseteq {run.began.week, ThisWeek}]_vars

(* The same week's report is mailed twice only when the first mailing looked failed,
   or was made before the week's own run, by a retry from the week before.         *)
RepeatsHaveCause ==
  \A i, k \in DOMAIN sent :
    i < k /\ sent[i].on.week = sent[k].on.week =>
      sent[i].failed \/ sent[i].on.slot < Main

(* How far the run is, to someone who sees neither the folders nor the steps. *)
Stage ==
  IF run.pc = "idle" THEN "none"
  ELSE IF run.pc = "looking" /\ run.at = 1 THEN "waiting"
  ELSE "working"

Life ==
  INSTANCE JobLife WITH
    slot <- args, failures <- errCounter, frozen <- errored, run <- Stage, Grace <- 0

(* Through what the body does, late files, failures and retries, the job lives as
   JobBase promises of every job.                                                 *)
LivesAsPromised == Life!Spec
=============================================================================
