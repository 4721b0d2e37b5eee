------------------------------- MODULE Export -------------------------------
(***************************************************************************)
(* Data-export tasks of internal/app (export_jobs.go, export_worker.go,    *)
(* export_api.go, export_reader.go): jobs in a table, one worker that      *)
(* claims them oldest first and writes a file under a temporary name, and  *)
(* the requests that race with it: submit, cancel, download, user          *)
(* deletion, policy changes, a crash.                                      *)
(*                                                                         *)
(* No lock spans a job's life.  What keeps it together is that every       *)
(* UPDATE of a status names the status it expects, and that the file is    *)
(* renamed into place before the row says 'done'.  One action is one SQL   *)
(* statement or transaction, one change of the directory or of the map of  *)
(* cancel functions.                                                       *)
(***************************************************************************)
EXTENDS Integers, Sequences, FiniteSets, FiniteSetsExt

CONSTANTS
  Jobs,        \* ids, as the tie-breaker of the claim order
  Users,       \* requesters
  Readers,     \* users who go through the reader endpoints; the others are administrators
  MaxRows,     \* bound on the rows of one export
  DailyQuota,  \* export_daily_quota of the readers
  MaxDay,      \* bound on the days that pass
  MaxCrashes,  \* bound on process crashes
  OpMixes      \* the sets of requests and faults an instance combines

ASSUME ExportAssumption ==
  /\ IsFiniteSet(Jobs) /\ Jobs \subseteq Nat \ {0}
  /\ IsFiniteSet(Users) /\ Users # {} /\ Readers \subseteq Users
  /\ {MaxRows, MaxDay} \subseteq Nat \ {0} /\ {DailyQuota, MaxCrashes} \subseteq Nat

None   == 0
Status == {"absent", "queued", "running", "done", "failed", "canceled", "expired", "gone"}
Ended  == {"done", "failed", "canceled", "expired"}
Ages   == <<"new", "hour", "week", "quarter">>

VARIABLES
  ops,       \* the requests and faults of this behaviour
  st,        \* export_jobs.status
  owner,     \* requested_by, meaningful from the submission on
  created,   \* created_at, as the day it falls on
  estimate,  \* rows_estimate (for a reader, what it was charged and may write)
  rowsDone,  \* rows_done
  age,       \* time since the job ended, as the sweep tells it apart: index in Ages
  part,      \* <id>.part is in the directory
  final,     \* <id>.<ext> is in the directory
  accounts,  \* users that exist
  allowed,   \* export_allowed, as the policy resolves it for readers
  today,     \* the panel's civil day
  boot,      \* "up", or "recover" before exportRecover
  pc, wj, rows, err,  \* exportLoop: where it is, its job, its counter, its error
  dead,      \* the context of the running job is cancelled
  cancels,   \* exportRuntime.cancels: jobs with a registered cancel function
  todo,      \* jobs the sweep has read as expired
  canceler,  \* apiExportCancel on each job: what it has read
  reader,    \* serveExportFile on each job: what it has read
  submit,    \* apiReaderExportCreate on each job: the stamped day, or None
  purge,     \* jobs of a deleted user whose files are still to be removed
  crashes

table   == <<st, owner, created, estimate, rowsDone, age>>
files   == <<part, final>>
world   == <<accounts, allowed, today>>
worker  == <<pc, wj, rows, err, dead, cancels, todo>>
request == <<canceler, reader, submit, purge>>
bounds  == <<ops, crashes>>
vars    == <<table, files, world, boot, worker, request, bounds>>

IsReader(j) == owner[j] \in Readers
Exists(j)   == st[j] \notin {"absent", "gone"}

(* UPDATE ... SET status=to WHERE id=j AND status=from *)
Move(j, from, to) == [st EXCEPT ![j] = IF @ = from THEN to ELSE @]

(* What one job counts against its owner's day. *)
Charge(j) == IF st[j] \in {"queued", "running"} THEN estimate[j] ELSE rowsDone[j]
(* exportUsage. *)
Usage(u, day) ==
  MapThenSumSet(Charge, {j \in Jobs : owner[j] = u /\ Exists(j) /\ created[j] = day})

-----------------------------------------------------------------------------
Init ==
  /\ ops \in OpMixes
  /\ st = [j \in Jobs |-> "absent"] /\ owner \in [Jobs -> {CHOOSE u \in Users : TRUE}]
  /\ created = [j \in Jobs |-> 1]
  /\ estimate = [j \in Jobs |-> 0] /\ rowsDone = [j \in Jobs |-> 0]
  /\ age = [j \in Jobs |-> 1]
  /\ part = [j \in Jobs |-> FALSE] /\ final = [j \in Jobs |-> FALSE]
  /\ accounts = Users /\ allowed = TRUE /\ today = 1
  /\ boot = "up"
  /\ pc = "idle" /\ wj = None /\ rows = 0 /\ err = FALSE /\ dead = FALSE
  /\ cancels = {} /\ todo = {}
  /\ canceler = [j \in Jobs |-> "none"] /\ reader = [j \in Jobs |-> "none"]
  /\ submit = [j \in Jobs |-> None] /\ purge = {}
  /\ crashes = 0

-----------------------------------------------------------------------------
(* Submission. *)

(* apiExportCreate: an administrator's job is counted and inserted. *)
Create(j, u, n) ==
  /\ boot = "up" /\ st[j] = "absent" /\ submit[j] = None /\ u \in accounts \ Readers
  /\ owner' = [owner EXCEPT ![j] = u]
  /\ st' = [st EXCEPT ![j] = "queued"]
  /\ created' = [created EXCEPT ![j] = today]
  /\ estimate' = [estimate EXCEPT ![j] = n]
  /\ UNCHANGED <<rowsDone, age, files, world, boot, worker, request, bounds>>

(* apiReaderExportCreate: the gate, the count and the stamp of created_at. *)
ReaderStamp(j, u, n) ==
  /\ boot = "up" /\ st[j] = "absent" /\ submit[j] = None
  /\ u \in accounts \cap Readers /\ allowed /\ n > 0
  /\ owner' = [owner EXCEPT ![j] = u]
  /\ submit' = [submit EXCEPT ![j] = today]
  /\ estimate' = [estimate EXCEPT ![j] = n]
  /\ UNCHANGED <<st, created, rowsDone, age, files, world, boot, worker, canceler, reader, purge, bounds>>

(* Mutant of Fits: only ended jobs count. *)
FitsEnded(j, day) ==
  MapThenSumSet(LAMBDA k : rowsDone[k], {k \in Jobs : owner[k] = owner[j] /\ Exists(k) /\ created[k] = day})
    + estimate[j] <= DailyQuota
(* The quota check of submitReaderExport. *)
Fits(j, day) == Usage(owner[j], day) + estimate[j] <= DailyQuota

(* submitReaderExport: the day's bounds, then one transaction that proves  *)
(* the account, adds up its usage and inserts the job.                     *)
ReaderSubmit(j) ==
  /\ submit[j] # None
  /\ IF owner[j] \in accounts /\ Fits(j, today)
     THEN /\ st' = [st EXCEPT ![j] = "queued"]
          /\ created' = [created EXCEPT ![j] = submit[j]]
     ELSE UNCHANGED <<st, created>>
  /\ submit' = [submit EXCEPT ![j] = None]
  /\ UNCHANGED <<owner, estimate, rowsDone, age, files, world, boot, worker, canceler, reader, purge, bounds>>

-----------------------------------------------------------------------------
(* exportRunNext. *)

(* claimNextExportJob reads the oldest queued job. *)
Pick(j) ==
  /\ boot = "up" /\ pc = "idle" /\ st[j] = "queued"
  /\ \A k \in Jobs : st[k] = "queued" =>
       created[j] < created[k] \/ (created[j] = created[k] /\ j <= k)
  /\ pc' = "picked" /\ wj' = j
  /\ UNCHANGED <<table, files, world, boot, rows, err, dead, cancels, todo, request, bounds>>

(* Mutant of Claim: the UPDATE does not ask for the status. *)
ClaimBlind ==
  /\ pc = "picked"
  /\ st' = [st EXCEPT ![wj] = IF @ = "gone" THEN @ ELSE "running"]
  /\ rowsDone' = [rowsDone EXCEPT ![wj] = 0] /\ pc' = "claimed"
  /\ UNCHANGED <<owner, created, estimate, age, files, world, boot, wj, rows, err, dead, cancels, todo, request, bounds>>
(* The conditional UPDATE is the claim; a job that is no longer queued is skipped. *)
Claim ==
  /\ pc = "picked" /\ st' = Move(wj, "queued", "running")
  /\ IF st[wj] = "queued"
     THEN pc' = "claimed" /\ rowsDone' = [rowsDone EXCEPT ![wj] = 0] /\ UNCHANGED wj
     ELSE pc' = "idle" /\ wj' = None /\ UNCHANGED rowsDone
  /\ UNCHANGED <<owner, created, estimate, age, files, world, boot, rows, err, dead, cancels, todo, request, bounds>>

(* The cancel function is registered; a row that is gone ends the claim. *)
Register ==
  /\ pc = "claimed"
  /\ IF st[wj] = "gone" THEN pc' = "idle" /\ wj' = None /\ UNCHANGED cancels
     ELSE pc' = "recheck" /\ cancels' = cancels \cup {wj} /\ UNCHANGED wj
  /\ UNCHANGED <<table, files, world, boot, rows, err, dead, todo, request, bounds>>

(* The status is read again, now that a cancel can reach this job. *)
Recheck ==
  /\ pc = "recheck" /\ pc' = (IF st[wj] = "running" THEN "start" ELSE "leave")
  /\ UNCHANGED <<table, files, world, boot, wj, rows, err, dead, cancels, todo, request, bounds>>

(* exportExecute: the reader's policy as it is now, then the .part file. *)
Start ==
  /\ pc = "start" /\ rows' = 0
  /\ IF IsReader(wj) /\ ~(allowed /\ owner[wj] \in accounts)
     THEN pc' = "ended" /\ err' = TRUE /\ UNCHANGED part
     ELSE pc' = "scan" /\ err' = FALSE /\ part' = [part EXCEPT ![wj] = TRUE]
  /\ UNCHANGED <<table, final, world, boot, wj, dead, cancels, todo, request, bounds>>

(* A reader's job stops at the number it was charged for. *)
MayWrite(j, n) == n < MaxRows /\ (IsReader(j) => n < estimate[j])

(* One batch: rows, the progress update, then a look at the context. *)
Batch ==
  /\ pc = "scan" /\ ~dead /\ MayWrite(wj, rows)
  /\ rows' = rows + 1
  /\ rowsDone' = [rowsDone EXCEPT ![wj] = IF st[wj] = "running" THEN rows' ELSE @]
  /\ UNCHANGED <<st, owner, created, estimate, age, files, world, boot, pc, wj, err, dead, cancels, todo, request, bounds>>

(* The context is cancelled, or a query or a write fails: the .part goes. *)
Stop ==
  /\ pc \in {"scan", "close"}
  /\ (pc = "scan" /\ dead) \/ "writeError" \in ops
  /\ pc' = "ended" /\ err' = TRUE /\ part' = [part EXCEPT ![wj] = FALSE]
  /\ UNCHANGED <<table, final, world, boot, wj, rows, dead, cancels, todo, request, bounds>>

(* exportExecuteSafe recovers a panic; the count of rows is lost with it. *)
Panic ==
  /\ "panic" \in ops /\ pc \in {"start", "scan", "close"}
  /\ pc' = "ended" /\ err' = TRUE /\ rows' = 0
  /\ UNCHANGED <<table, files, world, boot, wj, dead, cancels, todo, request, bounds>>

(* The last row is written, the file flushed and closed. *)
Close ==
  /\ pc = "scan" /\ ~dead /\ pc' = "close"
  /\ UNCHANGED <<table, files, world, boot, wj, rows, err, dead, cancels, todo, request, bounds>>

(* os.Rename fails when a user deletion has removed the .part. *)
Rename ==
  /\ pc = "close" /\ pc' = "ended" /\ err' = ~part[wj]
  /\ part' = [part EXCEPT ![wj] = FALSE]
  /\ final' = [final EXCEPT ![wj] = @ \/ part[wj]]
  /\ age' = [age EXCEPT ![wj] = IF part[wj] THEN 1 ELSE @]
  /\ UNCHANGED <<st, owner, created, estimate, rowsDone, world, boot, wj, rows, dead, cancels, todo, request, bounds>>

(* Mutant of Decide: a late cancel cleans up and the job still counts as done. *)
DecideFallsThrough ==
  /\ pc = "ended" /\ pc' = (IF err THEN "failed" ELSE "done")
  /\ part' = [part EXCEPT ![wj] = @ /\ ~dead /\ ~err]
  /\ final' = [final EXCEPT ![wj] = @ /\ ~dead /\ ~err]
  /\ UNCHANGED <<table, world, boot, wj, rows, err, dead, cancels, todo, request, bounds>>
(* The switch on ctx.Err() and err: without success both files go first. *)
Decide ==
  /\ pc = "ended" /\ pc' = (IF dead THEN "canceled" ELSE IF err THEN "failed" ELSE "done")
  /\ part' = [part EXCEPT ![wj] = @ /\ pc' = "done"]
  /\ final' = [final EXCEPT ![wj] = @ /\ pc' = "done"]
  /\ UNCHANGED <<table, world, boot, wj, rows, err, dead, cancels, todo, request, bounds>>

(* The outcome, conditional on 'running'; completion that finds the row    *)
(* closed has a file to discard.                                           *)
Record ==
  /\ pc \in {"canceled", "failed", "done"} /\ st' = Move(wj, "running", pc)
  /\ rowsDone' = [rowsDone EXCEPT ![wj] = IF st[wj] = "running" THEN rows ELSE @]
  /\ pc' = (IF pc = "done" /\ st[wj] # "running" THEN "discard" ELSE "leave")
  /\ UNCHANGED <<owner, created, estimate, age, files, world, boot, wj, rows, err, dead, cancels, todo, request, bounds>>

(* Mutant of Discard: the file is left where it is. *)
DiscardNothing ==
  /\ pc = "discard" /\ pc' = "leave"
  /\ UNCHANGED <<table, files, world, boot, wj, rows, err, dead, cancels, todo, request, bounds>>
Discard ==
  /\ pc = "discard" /\ pc' = "leave" /\ final' = [final EXCEPT ![wj] = FALSE]
  /\ UNCHANGED <<table, part, world, boot, wj, rows, err, dead, cancels, todo, request, bounds>>

(* Mutant of Leave: the cancel function stays registered. *)
LeaveRegistered ==
  /\ pc = "leave" /\ pc' = "idle" /\ wj' = None /\ dead' = FALSE /\ err' = FALSE /\ rows' = 0
  /\ UNCHANGED <<table, files, world, boot, cancels, todo, request, bounds>>
(* The deferred part: the cancel function is unregistered. *)
Leave ==
  /\ pc = "leave" /\ pc' = "idle"
  /\ cancels' = cancels \ {wj} /\ wj' = None /\ dead' = FALSE /\ err' = FALSE /\ rows' = 0
  /\ UNCHANGED <<table, files, world, boot, todo, request, bounds>>

-----------------------------------------------------------------------------
(* exportSweep, in the same goroutine. *)

SweepRead ==
  /\ boot = "up" /\ pc = "idle" /\ pc' = "sweep"
  /\ todo' = {j \in Jobs : st[j] = "done" /\ Ages[age[j]] \in {"week", "quarter"}}
  /\ UNCHANGED <<table, files, world, boot, wj, rows, err, dead, cancels, request, bounds>>

(* An expired file is removed, then its row marked. *)
SweepRemove(j) ==
  /\ pc = "sweep" /\ j \in todo /\ pc' = "mark" /\ wj' = j
  /\ final' = [final EXCEPT ![j] = FALSE]
  /\ UNCHANGED <<table, part, world, boot, rows, err, dead, cancels, todo, request, bounds>>
SweepMark ==
  /\ pc = "mark" /\ pc' = "sweep" /\ wj' = None /\ todo' = todo \ {wj}
  /\ st' = Move(wj, "done", "expired")
  /\ UNCHANGED <<owner, created, estimate, rowsDone, age, files, world, boot, rows, err, dead, cancels, request, bounds>>

(* Rows past the retention window go with their files. *)
SweepOld ==
  /\ pc = "sweep" /\ todo = {} /\ pc' = "orphans"
  /\ LET old == {j \in Jobs : st[j] \in Ended /\ Ages[age[j]] = "quarter"}
     IN  /\ st' = [j \in Jobs |-> IF j \in old THEN "gone" ELSE st[j]]
         /\ final' = [j \in Jobs |-> final[j] /\ j \notin old]
  /\ UNCHANGED <<owner, created, estimate, rowsDone, age, part, world, boot, wj, rows, err, dead, cancels, todo, request, bounds>>

(* Mutant of SweepOrphans: files without a row are left. *)
SweepOrphansNever ==
  /\ pc = "orphans" /\ pc' = "idle"
  /\ UNCHANGED <<table, files, world, boot, wj, rows, err, dead, cancels, todo, request, bounds>>
(* Files no row owns go once they are an hour old. *)
SweepOrphans ==
  /\ pc = "orphans" /\ pc' = "idle"
  /\ final' = [j \in Jobs |-> final[j] /\ ~(st[j] = "gone" /\ Ages[age[j]] # "new")]
  /\ UNCHANGED <<table, part, world, boot, wj, rows, err, dead, cancels, todo, request, bounds>>

-----------------------------------------------------------------------------
(* apiExportCancel: the status is read, then each path checks again. *)

CancelRead(j) ==
  /\ "cancel" \in ops /\ boot = "up" /\ canceler[j] = "none" /\ st[j] \in {"queued", "running"}
  /\ canceler' = [canceler EXCEPT ![j] = st[j]]
  /\ UNCHANGED <<table, files, world, boot, worker, reader, submit, purge, bounds>>

(* The conditional UPDATE; a job the worker claimed first is read again. *)
CancelQueued(j) ==
  /\ canceler[j] = "queued" /\ st' = Move(j, "queued", "canceled")
  /\ canceler' = [canceler EXCEPT ![j] = IF st[j] = "running" THEN "running" ELSE "none"]
  /\ UNCHANGED <<owner, created, estimate, rowsDone, age, files, world, boot, worker, reader, submit, purge, bounds>>

(* cancelRunning; without a registered worker the row is closed next. *)
CancelRunning(j) ==
  /\ canceler[j] = "running"
  /\ dead' = (dead \/ (j \in cancels /\ wj = j))
  /\ canceler' = [canceler EXCEPT ![j] = IF j \in cancels THEN "none" ELSE "close"]
  /\ UNCHANGED <<table, files, world, boot, pc, wj, rows, err, cancels, todo, reader, submit, purge, bounds>>
CancelClose(j) ==
  /\ canceler[j] = "close" /\ st' = Move(j, "running", "canceled")
  /\ canceler' = [canceler EXCEPT ![j] = "none"]
  /\ UNCHANGED <<owner, created, estimate, rowsDone, age, files, world, boot, worker, reader, submit, purge, bounds>>

-----------------------------------------------------------------------------
(* serveExportFile: a job read as done is opened or, past its time, expired. *)

DownloadRead(j) ==
  /\ "download" \in ops /\ boot = "up" /\ reader[j] = "none" /\ st[j] = "done"
  /\ IsReader(j) => allowed
  /\ reader' = [reader EXCEPT ![j] = IF Ages[age[j]] \in {"week", "quarter"} THEN "expire" ELSE "open"]
  /\ UNCHANGED <<table, files, world, boot, worker, canceler, submit, purge, bounds>>
(* A file that is not there marks the row expired. *)
DownloadOpen(j) ==
  /\ reader[j] = "open" /\ reader' = [reader EXCEPT ![j] = IF final[j] THEN "none" ELSE "mark"]
  /\ UNCHANGED <<table, files, world, boot, worker, canceler, submit, purge, bounds>>
DownloadExpire(j) ==
  /\ reader[j] = "expire" /\ reader' = [reader EXCEPT ![j] = "mark"]
  /\ final' = [final EXCEPT ![j] = FALSE]
  /\ UNCHANGED <<table, part, world, boot, worker, canceler, submit, purge, bounds>>
DownloadMark(j) ==
  /\ reader[j] = "mark" /\ reader' = [reader EXCEPT ![j] = "none"]
  /\ st' = Move(j, "done", "expired")
  /\ UNCHANGED <<owner, created, estimate, rowsDone, age, files, world, boot, worker, canceler, submit, purge, bounds>>

-----------------------------------------------------------------------------
(* The rest of the world. *)

(* DeleteUser: one transaction takes the account and its jobs; the files follow. *)
DeleteUser(u) ==
  /\ "deleteUser" \in ops /\ boot = "up" /\ u \in accounts
  /\ accounts' = accounts \ {u}
  /\ st' = [j \in Jobs |-> IF owner[j] = u /\ Exists(j) THEN "gone" ELSE st[j]]
  /\ purge' = purge \cup {j \in Jobs : owner[j] = u /\ Exists(j)}
  /\ UNCHANGED <<owner, created, estimate, rowsDone, age, files, allowed, today, boot, worker, canceler, reader, submit, bounds>>
PurgeFiles ==
  /\ purge # {} /\ purge' = {}
  /\ part' = [j \in Jobs |-> part[j] /\ j \notin purge]
  /\ final' = [j \in Jobs |-> final[j] /\ j \notin purge]
  /\ UNCHANGED <<table, world, boot, worker, canceler, reader, submit, bounds>>

(* apiAdminExportPolicySave. *)
SetPolicy ==
  /\ "policy" \in ops /\ boot = "up" /\ allowed' = ~allowed
  /\ UNCHANGED <<table, files, accounts, today, boot, worker, request, bounds>>

(* The clock: files and rows age, the day turns. *)
GrowOlder(j) ==
  /\ "age" \in ops /\ st[j] \in Ended \cup {"gone"} /\ age[j] < Len(Ages)
  /\ age' = [age EXCEPT ![j] = @ + 1]
  /\ UNCHANGED <<st, owner, created, estimate, rowsDone, files, world, boot, worker, request, bounds>>
Midnight ==
  /\ today < MaxDay
  /\ "midnight" \in ops \/ ("day" \in ops /\ \A j \in Jobs : submit[j] = None)
  /\ today' = today + 1
  /\ UNCHANGED <<table, files, accounts, allowed, boot, worker, request, bounds>>

(* The process dies; exportRecover then requeues and removes partial files. *)
Crash ==
  /\ "crash" \in ops /\ crashes < MaxCrashes /\ crashes' = crashes + 1 /\ boot' = "recover"
  /\ pc' = "idle" /\ wj' = None /\ rows' = 0 /\ err' = FALSE /\ dead' = FALSE
  /\ cancels' = {} /\ todo' = {}
  /\ canceler' = [j \in Jobs |-> "none"] /\ reader' = [j \in Jobs |-> "none"]
  /\ submit' = [j \in Jobs |-> None] /\ purge' = {}
  /\ UNCHANGED <<table, files, world, ops>>
(* Mutant of Recover: interrupted jobs stay as they are. *)
RecoverFilesOnly ==
  /\ boot = "recover" /\ boot' = "up" /\ part' = [j \in Jobs |-> FALSE]
  /\ UNCHANGED <<table, final, world, worker, request, bounds>>
Recover ==
  /\ boot = "recover" /\ boot' = "up"
  /\ st' = [j \in Jobs |-> IF st[j] = "running" THEN "queued" ELSE st[j]]
  /\ rowsDone' = [j \in Jobs |-> IF st[j] = "running" THEN 0 ELSE rowsDone[j]]
  /\ part' = [j \in Jobs |-> FALSE]
  /\ UNCHANGED <<owner, created, estimate, age, final, world, worker, request, bounds>>

-----------------------------------------------------------------------------
Worker ==
  \/ (\E j \in Jobs : Pick(j)) \/ Claim \/ Register \/ Recheck \/ Start \/ Batch \/ Stop
  \/ Panic \/ Close \/ Rename \/ Decide \/ Record \/ Discard \/ Leave
Sweep  == SweepRead \/ (\E j \in Jobs : SweepRemove(j)) \/ SweepMark \/ SweepOld \/ SweepOrphans
Handler(j) ==
  \/ CancelQueued(j) \/ CancelRunning(j) \/ CancelClose(j) \/ ReaderSubmit(j)
  \/ DownloadOpen(j) \/ DownloadExpire(j) \/ DownloadMark(j)

Next ==
  \/ Worker \/ Sweep \/ PurgeFiles \/ SetPolicy \/ Midnight \/ Crash \/ Recover
  \/ \E u \in Users : DeleteUser(u)
  \/ \E j \in Jobs :
       \/ Handler(j) \/ CancelRead(j) \/ DownloadRead(j) \/ GrowOlder(j)
       \/ \E u \in Users, n \in 0..MaxRows : Create(j, u, n) \/ ReaderStamp(j, u, n)

Spec == Init /\ [][Next]_vars

(***************************************************************************)
(* exportLoop drains the queue before it waits, so the worker is not       *)
(* overtaken by sweeps for ever; its poll and sweep tickers keep firing;   *)
(* started handlers finish; time passes.                                   *)
(***************************************************************************)
FairSpec ==
  /\ Spec
  /\ SF_vars(Worker) /\ WF_vars(Sweep) /\ WF_vars(PurgeFiles) /\ WF_vars(Recover)
  /\ \A j \in Jobs : WF_vars(Handler(j)) /\ WF_vars(GrowOlder(j))

-----------------------------------------------------------------------------
(* Columns, locals and maps hold values of their kind; only the job the    *)
(* worker is on has a cancel function or a partial file.                   *)
TypeOK ==
  /\ ops \in OpMixes
  /\ st \in [Jobs -> Status] /\ owner \in [Jobs -> Users] /\ created \in [Jobs -> 1..MaxDay]
  /\ estimate \in [Jobs -> 0..MaxRows] /\ rowsDone \in [Jobs -> 0..MaxRows]
  /\ age \in [Jobs -> 1..Len(Ages)]
  /\ part \in [Jobs -> BOOLEAN] /\ final \in [Jobs -> BOOLEAN]
  /\ accounts \subseteq Users /\ allowed \in BOOLEAN /\ today \in 1..MaxDay
  /\ boot \in {"up", "recover"}
  /\ pc \in {"idle", "picked", "claimed", "recheck", "start", "scan", "close", "ended", "canceled",
             "failed", "done", "discard", "leave", "sweep", "mark", "orphans"}
  /\ wj \in Jobs \cup {None} /\ (wj = None <=> pc \in {"idle", "sweep", "orphans"})
  /\ rows \in 0..MaxRows /\ err \in BOOLEAN /\ dead \in BOOLEAN
  /\ cancels \subseteq {wj} \cap Jobs /\ todo \subseteq Jobs
  /\ boot = "up" => \A j \in Jobs : part[j] => wj = j
  /\ canceler \in [Jobs -> {"none", "queued", "running", "close"}]
  /\ reader \in [Jobs -> {"none", "open", "expire", "mark"}]
  /\ submit \in [Jobs -> 0..MaxDay] /\ purge \subseteq Jobs /\ crashes \in 0..MaxCrashes

(* A job that says 'done' has its complete file in place until it expires: *)
(* no cancel, deletion, sweep or download of another job takes it away.    *)
DoneHasFile ==
  \A j \in Jobs : st[j] = "done" /\ Ages[age[j]] \in {"new", "hour"} => final[j]

(* Once the worker has left a job that did not succeed, or whose owner was *)
(* deleted, neither its file nor its partial file is on disk.  Only a      *)
(* crash can leave one behind, for the sweep to remove (FilesGo).          *)
NoStrayFiles ==
  \A j \in Jobs :
    st[j] \in {"canceled", "failed", "expired", "gone"} /\ wj # j /\ j \notin purge /\ crashes = 0
      => ~final[j] /\ ~part[j]

(* A running job has a worker that will record its end: after a restart    *)
(* none is left running.                                                   *)
RunningHasWorker ==
  boot = "up" => \A j \in Jobs : st[j] = "running" => wj = j /\ pc \notin {"picked", "discard", "leave"}

(* Rows, files and the worker agree: a done job has its file, an ended one *)
(* has none, a running one has the worker.                                 *)
FilesMatchRows == TypeOK /\ DoneHasFile /\ NoStrayFiles /\ RunningHasWorker

(* What a reader's exports of one day are charged never exceeds the quota: *)
(* concurrent submits, refunds, retries after a crash and reports that     *)
(* arrive meanwhile included.                                              *)
QuotaRespected ==
  \A u \in Readers, d \in 1..MaxDay : Usage(u, d) <= DailyQuota

(* An ended job stays ended: a cancel is never undone by the worker. *)
EndIsFinal ==
  [][\A j \in Jobs :
       st[j] \in Ended => st'[j] \in {st[j], "gone"} \cup (IF st[j] = "done" THEN {"expired"} ELSE {})]_vars

(* A canceled job stops within one batch. *)
CancelStopsScan ==
  [][pc = "scan" /\ rows' = rows + 1 => st[wj] # "canceled"]_vars

(* Every queued export ends, across crashes. *)
EveryExportEnds ==
  \A j \in Jobs : st[j] = "queued" ~> st[j] \notin {"queued", "running"}

(* A finished file expires, and nothing of a deleted job stays on disk. *)
FilesGo ==
  \A j \in Jobs : /\ final[j] ~> ~final[j]
                  /\ st[j] = "gone" ~> ~final[j] /\ ~part[j]
=============================================================================
