------------------------------ MODULE RunQueue ------------------------------
(***************************************************************************)
(* The run queue of internal/app (batch_run.go, batch_store.go and the     *)
(* queue handlers of batch_api.go): jobs made of rows, a scheduler that    *)
(* admits rows up to a global budget, one goroutine per admitted row, the  *)
(* cancel / retry / reconcile / delete requests, and the recovery of rows  *)
(* a crash left in flight.                                                 *)
(*                                                                         *)
(* Persisted state (survives Crash): jobS, window, overrun, prio, occ,     *)
(* itemS, started, ref.  Everything else is memory of the server process.  *)
(* One action is one SQL statement or transaction, or one step on          *)
(* in-memory state; the scheduler and finalizeJob hold schedMu across      *)
(* several of them, request handlers and run goroutines do not take it.    *)
(* What a run does on Dify, its retries included, is the contract of       *)
(* RunOutcome, which DifyRun is shown to meet.                             *)
(***************************************************************************)
EXTENDS QueueAdmit, RunOutcome

CONSTANTS
  Jobs,         \* ids of the jobs that may be submitted
  Items,        \* ids of their rows (row_index order within a job)
  JobOf,        \* the job of each row
  Concurrency,  \* batch_jobs.concurrency, the in-flight window of each job
  Urgent,       \* priority value from which a job counts as urgent
  Prios,        \* the priority values in use
  InitPrio,     \* the priority each job is submitted with
  Budget,       \* batch_budget: runs allowed at once
  Reserved,     \* batch_reserved
  RetrySets,    \* sets of row statuses a retry request may name (the handler takes any)
  Slots,        \* bound: goroutines of one row alive at the same time
  MaxCrashes,   \* bound on process crashes
  MaxRetries,   \* bound on retry requests
  OpMixes       \* mixes of requests and faults; a behaviour draws on one of them

ASSUME QueueAssumption ==
  /\ IsFiniteSet(Jobs) /\ Jobs \subseteq Nat \ {0}
  /\ IsFiniteSet(Items) /\ Items \subseteq Nat \ {0}
  /\ IsFiniteSet(Slots) /\ Slots \subseteq Nat \ {0} /\ Slots # {}
  /\ JobOf \in [Items -> Jobs]
  /\ Concurrency \in [Jobs -> Nat]
  /\ Prios \subseteq Int /\ Urgent \in Int /\ InitPrio \in [Jobs -> Prios]
  /\ Budget \in Nat \ {0} /\ Reserved \in Nat
  /\ RetrySets \subseteq SUBSET ({"queued", "running", "cancelled"} \cup Outcomes)
  /\ MaxCrashes \in Nat /\ MaxRetries \in Nat

None == 0
Runs == Items \X Slots
Rows(j) == {i \in Items : JobOf[i] = j}

ItemStatus  == {"absent", "queued", "running", "cancelled", "gone"} \cup Outcomes
JobStatus   == {"absent", "queued", "running", "cancelling", "finished",
                "cancelled", "expired", "gone"}
Windows     == {"asap", "later", "before", "open", "closed"}
SubmitKinds == {"asap", "later", "before"}
Overruns    == {"cancel", "next", "continue"}
TaskKinds   == {"tick", "finalize", "afterItem", "abort", "setAsap",
                "setLater", "setBefore", "delete"}

VARIABLES
  jobS,         \* batch_jobs.status
  window,       \* run_at and run_preset, as admission reads them
  overrun,      \* on_overrun in the preset snapshot of the job
  prio,         \* batch_jobs.priority
  occ,          \* completion recorded for the job's current notification cycle
  itemS,        \* batch_items.status
  started,      \* batch_items.dify_started_at is stamped
  ref,          \* Dify handle on the row: "none", "task" or "run" (run/conversation id)
  scope,        \* Server.jobRuns: "none", "live", or "dead" (cancelled, still in the map)
  itemCancels,  \* Server.itemCancels: the slot whose cancel func is stored, or None
  wk,           \* goroutines of startItem
  rs,           \* goroutines of reconcileResumedItem
  rc,           \* manual reconcile requests waiting for Dify
  muPc, plan, cur, todo, fin,  \* the holder of schedMu
  tasks,        \* calls a handler or goroutine still has to make
  boot,         \* progress of the process start
  posts,        \* history: runs Dify accepted for the row since its last (re)queue
  recalled,     \* history: rows a retry that named 'running' took out of flight
  crashes, retries,
  ops           \* the mix this behaviour draws on

persisted == <<jobS, window, overrun, prio, occ, itemS, started, ref>>
memory    == <<scope, itemCancels, wk, rs, rc, muPc, plan, cur, todo, fin, tasks, boot>>
vars      == <<persisted, memory, posts, recalled, crashes, retries, ops>>

(* The parts of the state, for UNCHANGED. *)
jobVars  == <<jobS, window, overrun, prio, occ>>
rowVars  == <<itemS, started, ref>>
ctxVars  == <<scope, itemCancels, wk, rs>>
lockVars == <<muPc, plan, cur, todo, fin>>
bounds   == <<recalled, crashes, retries, ops>>

IdleRes == [pc |-> "idle", dead |-> FALSE]
NoFin   == [job |-> None, cancelled |-> FALSE, back |-> "free"]

-----------------------------------------------------------------------------
(* Queries of the store. *)

RowsIn(j, sts)    == {i \in Rows(j) : itemS[i] \in sts}
RunningItems      == {i \in Items : itemS[i] = "running"}
Existing(j)       == jobS[j] \notin {"absent", "gone"}
ResumableJobIDs   == {j \in Jobs : jobS[j] \in {"running", "cancelling"}}

(* Mutant of Schedulable: only deleted and cancelled jobs are left out. *)
SchedulableLoose(js) == {j \in Jobs : js[j] \notin {"absent", "gone", "cancelling", "cancelled"}}
(* SchedulableJobs. *)
Schedulable(js) == {j \in Jobs : js[j] \in {"queued", "running"}}

(* Mutant of Unreconcilable: a task id alone is not taken for evidence. *)
UnreconcilableStampOnly(i) == itemS[i] = "running" /\ ref[i] = "none" /\ started[i]

(* The three classes resumeBatchJobs sorts orphaned rows into. *)
Reconcilable(i)   == itemS[i] = "running" /\ ref[i] = "run"
Unreconcilable(i) == itemS[i] = "running" /\ ref[i] # "run" /\ (ref[i] = "task" \/ started[i])
NoEvidence(i)     == itemS[i] = "running" /\ ref[i] = "none" /\ ~started[i]

Live(r)  == wk[r].pc \in {"go", "acc", "open", "ret"}

(* Mutant of FinishRow: an upsert, which writes a deleted row again. *)
FinishRowUpserts(i, st) == [itemS EXCEPT ![i] = st]
(* FinishItem / FinishItemCancelled: unconditional on the row's status; a  *)
(* deleted row is not matched by the UPDATE.                               *)
FinishRow(i, st) == [itemS EXCEPT ![i] = IF @ = "gone" THEN "gone" ELSE st]

(* Cancelling a job's scope cancels the context of every goroutine of the job. *)
KillRuns(j) == [r \in Runs |-> [wk[r] EXCEPT !.dead = @ \/ (JobOf[r[1]] = j /\ Live(r))]]
KillRes(j)  == [i \in Items |-> [rs[i] EXCEPT !.dead = @ \/ (JobOf[i] = j /\ rs[i].pc # "idle")]]

(* Mutant of ScopeFor: a fresh scope that is never stored in the map. *)
ScopeForUnstored(j) == scope[j]
(* jobRunFor: the job's scope, created on first use. *)
ScopeFor(j) == IF scope[j] = "none" THEN "live" ELSE scope[j]

(* Mutant of StoreCancel: the row's cancel func is not stored. *)
StoreCancelSkipped(i, s) == itemCancels
StoreCancel(i, s) == [itemCancels EXCEPT ![i] = s]

(* Mutant of RecordOccurrence: no evidence is written. *)
RecordOccurrenceSkipped(o, st) == o
(* recordJobNotificationOccurrence: one evidence row per cycle, the first stays. *)
RecordOccurrence(o, st) == IF o = "none" THEN st ELSE o

Task(k, j) == [kind |-> k, job |-> j]
TickTask   == Task("tick", None)

-----------------------------------------------------------------------------
Init ==
  /\ jobS = [j \in Jobs |-> "absent"]
  /\ window = [j \in Jobs |-> "asap"]
  /\ overrun = [j \in Jobs |-> "cancel"]
  /\ prio = InitPrio
  /\ occ = [j \in Jobs |-> "none"]
  /\ itemS = [i \in Items |-> "absent"]
  /\ started = [i \in Items |-> FALSE]
  /\ ref = [i \in Items |-> "none"]
  /\ scope = [j \in Jobs |-> "none"]
  /\ itemCancels = [i \in Items |-> None]
  /\ wk = [r \in Runs |-> IdleRun]
  /\ rs = [i \in Items |-> IdleRes]
  /\ rc = [i \in Items |-> FALSE]
  /\ muPc = "free" /\ plan = {} /\ cur = None /\ todo = {} /\ fin = NoFin
  /\ tasks = {} /\ boot = "up"
  /\ posts = [i \in Items |-> 0] /\ recalled = {}
  /\ crashes = 0 /\ retries = 0 /\ ops \in OpMixes

-----------------------------------------------------------------------------
(* Submission, scheduling and priority requests. *)

(* apiBatchJobCreate: the job and its rows are one transaction; its window *)
(* or start time is a second statement; then it ticks.                     *)
CreateJob(j, how) ==
  /\ boot = "up" /\ jobS[j] = "absent" /\ how \in {"asap"} \cup (ops \cap {"later", "before"})
  /\ jobS' = [jobS EXCEPT ![j] = "queued"]
  /\ itemS' = [i \in Items |-> IF JobOf[i] = j THEN "queued" ELSE itemS[i]]
  /\ tasks' = tasks \cup {CASE how = "asap" -> TickTask [] how = "later" -> Task("setLater", j)
                              [] how = "before" -> Task("setBefore", j)}
  /\ UNCHANGED <<window, overrun, prio, occ, started, ref, ctxVars, rc, lockVars, boot, posts, bounds>>

(* SetJobWindow / ScheduleJob of a submission or of apiBatchJobSchedule; a *)
(* preset window comes with its overrun policy.                            *)
WriteWindow(t, o) ==
  /\ t \in tasks /\ t.kind \in {"setAsap", "setLater", "setBefore"}
  /\ window' = [window EXCEPT ![t.job] =
       CASE t.kind = "setAsap" -> "asap" [] t.kind = "setLater" -> "later" [] t.kind = "setBefore" -> "before"]
  /\ overrun' = [overrun EXCEPT ![t.job] = o]
  /\ (t.kind # "setBefore" => o = overrun[t.job])
  /\ tasks' = (tasks \ {t}) \cup {TickTask}
  /\ UNCHANGED <<jobS, prio, occ, rowVars, ctxVars, rc, lockVars, boot, posts, bounds>>

(* apiBatchJobSchedule reads the status, then writes. *)
Reschedule(j, k) ==
  /\ "schedule" \in ops /\ boot = "up" /\ jobS[j] = "queued"
  /\ k \in {"setAsap", "setLater"}
  /\ tasks' = tasks \cup {Task(k, j)}
  /\ UNCHANGED <<persisted, ctxVars, rc, lockVars, boot, posts, bounds>>

(* apiBatchJobReprioritize: SetJobPriority, then a tick. *)
Reprioritize(j, p) ==
  /\ "prio" \in ops /\ boot = "up" /\ Existing(j) /\ p \in Prios /\ p # prio[j]
  /\ prio' = [prio EXCEPT ![j] = p]
  /\ tasks' = tasks \cup {TickTask}
  /\ UNCHANGED <<jobS, window, overrun, occ, rowVars, ctxVars, rc, lockVars, boot, posts, bounds>>

(* The clock: a start time passes, a preset window opens and closes. *)
TimePasses(j) ==
  /\ Existing(j) /\ window[j] \in {"later", "before", "open"}
  /\ window' = [window EXCEPT ![j] =
       CASE @ = "later" -> "asap" [] @ = "before" -> "open" [] @ = "open" -> "closed"]
  /\ UNCHANGED <<jobS, overrun, prio, occ, rowVars, memory, posts, bounds>>

-----------------------------------------------------------------------------
(* scheduleTick, under schedMu. *)

(* Mutant of Overran: the sweep does not look at the status. *)
OverranAnyStatus(j) == Existing(j) /\ window[j] = "closed"
(* sweepPresetWindowsLocked: a still-queued job whose window closed.  A    *)
(* preset with another interval in the same period behaves as "next".      *)
Overran(j)   == jobS[j] = "queued" /\ window[j] = "closed"
SweptJobS    == [j \in Jobs |-> IF Overran(j) /\ overrun[j] = "cancel" THEN "expired" ELSE jobS[j]]
SweptWindow  == [j \in Jobs |->
  IF ~Overran(j) \/ overrun[j] = "cancel" THEN window[j]
  ELSE IF overrun[j] = "next" THEN "before" ELSE "asap"]

(* Mutant of Share: rows in flight are not subtracted. *)
ShareIgnoresRunning(j) == IF Concurrency[j] < 1 THEN 1 ELSE Concurrency[j]
(* What is left of the job's in-flight window. *)
Share(j) ==
  (IF Concurrency[j] < 1 THEN 1 ELSE Concurrency[j]) - Cardinality(RowsIn(j, {"running"}))

(* itemCandidates: the first rows of each due job that fit its in-flight   *)
(* window.  invertBlocksNow, which holds back the rows of a job with an    *)
(* inverted preset while the time is inside one of its blocks, is left     *)
(* out: the model starts every row the code starts, and those earlier too. *)
Candidates(js, win) ==
  {i \in Items :
     LET j == JobOf[i]
     IN  /\ j \in Schedulable(js) /\ win[j] \notin {"later", "before"}
         /\ itemS[i] = "queued"
         /\ Cardinality({k \in RowsIn(j, {"queued"}) : k < i}) < Share(j)}

(* Mutant of Admit: the rows already in flight are not counted. *)
AdmitIgnoresInFlight(S, js, win) ==
  Admitted(S, Candidates(js, win), [i \in Items |-> prio[JobOf[i]]],
           [i \in Items |-> prio[JobOf[i]] >= Urgent], 0, Budget, Reserved)
(* queue.Admit applied to the candidates, each with the score of its job. *)
Admit(S, js, win) ==
  Admitted(S, Candidates(js, win), [i \in Items |-> prio[JobOf[i]]],
           [i \in Items |-> prio[JobOf[i]] >= Urgent],
           Cardinality(RunningItems), Budget, Reserved)

(* What the backstop passes look at: jobs with no live rows, cancelling jobs. *)
Leftover(js) ==
  {j \in Schedulable(js) : RowsIn(j, {"queued", "running"}) = {}}
    \cup {j \in Jobs : js[j] = "cancelling"}

(* The reads of a tick: sweep, count, candidates, plan; with nothing to    *)
(* admit it goes straight to the backstop, with nothing there it is over.  *)
ReadPlan ==
  /\ muPc = "free"
  /\ jobS' = SweptJobS /\ window' = SweptWindow
  /\ \E S \in SUBSET Candidates(SweptJobS, SweptWindow) :
       Admit(S, SweptJobS, SweptWindow) /\ plan' = S
  /\ todo' = (IF plan' = {} THEN Leftover(SweptJobS) ELSE {})
  /\ muPc' = (IF plan' # {} THEN "admit" ELSE IF todo' # {} THEN "sweep" ELSE "free")
  /\ UNCHANGED <<overrun, prio, occ, rowVars, ctxVars, rc, cur, fin, boot, posts, bounds>>

TickBegin == TickTask \in tasks /\ tasks' = tasks \ {TickTask} /\ ReadPlan
TimerTick == boot = "up" /\ ReadPlan /\ UNCHANGED tasks

(* MarkItemRunning on the next planned row, best rank first; a row that is *)
(* no longer queued is skipped.                                            *)
MarkItemRunning ==
  /\ muPc = "admit"
  /\ \E i \in plan :
       /\ \A k \in plan : ~Outranks(k, i, [x \in Items |-> prio[JobOf[x]]])
       /\ plan' = plan \ {i}
       /\ IF itemS[i] = "queued"
          THEN itemS' = [itemS EXCEPT ![i] = "running"] /\ cur' = i /\ muPc' = "markJob"
          ELSE UNCHANGED <<itemS, cur, muPc>>
  /\ UNCHANGED <<jobVars, started, ref, ctxVars, rc, todo, fin, tasks, boot, posts, bounds>>

(* MarkJobRunning: queued -> running, a no-op on any other status. *)
MarkJobRunning ==
  /\ muPc = "markJob" /\ muPc' = "start"
  /\ jobS' = [jobS EXCEPT ![JobOf[cur]] = IF @ = "queued" THEN "running" ELSE @]
  /\ UNCHANGED <<window, overrun, prio, occ, rowVars, ctxVars, rc, plan, cur, todo, fin, tasks, boot, posts, bounds>>

(* startItem: the job's scope (jobRunFor), the row's cancel func, the goroutine. *)
StartItem ==
  /\ muPc = "start"
  /\ \E s \in Slots :
       /\ wk[<<cur, s>>].pc = "idle" /\ \A t \in Slots : wk[<<cur, t>>].pc = "idle" => s <= t
       /\ scope' = [scope EXCEPT ![JobOf[cur]] = ScopeFor(JobOf[cur])]
       /\ itemCancels' = StoreCancel(cur, s)
       /\ wk' = [wk EXCEPT ![<<cur, s>>] =
            [IdleRun EXCEPT !.pc = "go", !.dead = scope[JobOf[cur]] = "dead"]]
  /\ muPc' = "admit" /\ cur' = None
  /\ UNCHANGED <<persisted, rs, rc, plan, todo, fin, tasks, boot, posts, bounds>>

(* Every planned row is dealt with: the backstop reads its jobs. *)
AdmitDone ==
  /\ muPc = "admit" /\ plan = {}
  /\ todo' = Leftover(jobS)
  /\ muPc' = (IF todo' = {} THEN "free" ELSE "sweep")
  /\ UNCHANGED <<persisted, ctxVars, rc, plan, cur, fin, tasks, boot, posts, bounds>>

-----------------------------------------------------------------------------
(* finalizeLocked: read the job and its counts, then FinishJob. *)

(* Mutant of Closable: waiting rows do not keep a job open. *)
ClosableWithWaiting(j) ==
  /\ jobS[j] \notin {"absent", "gone", "finished", "cancelled"}
  /\ RowsIn(j, {"running"}) = {}
(* Mutant of Closable: a cancelling job waits for its queued rows too. *)
ClosableOnlyDrained(j) ==
  /\ jobS[j] \notin {"absent", "gone", "finished", "cancelled"}
  /\ RowsIn(j, {"running", "queued"}) = {}
(* Mutant of Closable: a job none of whose rows was started is not closed. *)
ClosableStarted(j) ==
  /\ jobS[j] \in {"running", "cancelling"}
  /\ RowsIn(j, {"running"}) = {}
  /\ RowsIn(j, {"queued"}) # {} => jobS[j] = "cancelling"
(* An open job without rows in flight, nor waiting ones unless it is cancelling. *)
Closable(j) ==
  /\ jobS[j] \notin {"absent", "gone", "finished", "cancelled"}
  /\ RowsIn(j, {"running"}) = {}
  /\ RowsIn(j, {"queued"}) # {} => jobS[j] = "cancelling"

FinalizeRead(j, back) ==
  IF Closable(j)
  THEN muPc' = "finish" /\ fin' = [job |-> j, cancelled |-> jobS[j] = "cancelling", back |-> back]
  ELSE muPc' = back /\ UNCHANGED fin

(* The backstop, one job at a time in id order; each is read again. *)
SweepFinalize ==
  /\ muPc = "sweep"
  /\ \E j \in todo :
       /\ \A m \in todo : j <= m
       /\ todo' = todo \ {j}
       /\ FinalizeRead(j, IF todo = {j} THEN "free" ELSE "sweep")
  /\ UNCHANGED <<persisted, ctxVars, rc, plan, cur, tasks, boot, posts, bounds>>

(* finalizeJob called by a handler, or by afterItem (which then ticks). *)
FinalizeJob(t) ==
  /\ t \in tasks /\ t.kind \in {"finalize", "afterItem"} /\ muPc = "free"
  /\ FinalizeRead(t.job, "free")
  /\ tasks' = (tasks \ {t}) \cup (IF t.kind = "afterItem" THEN {TickTask} ELSE {})
  /\ UNCHANGED <<persisted, ctxVars, rc, plan, cur, todo, boot, posts, bounds>>

(* FinishJob and the completion evidence commit together (one evidence row *)
(* per cycle, the first one stays); the scope is then dropped and          *)
(* cancelled.  A job deleted meanwhile fails the transaction.              *)
FinishJob ==
  /\ muPc = "finish"
  /\ LET j == fin.job
         st == IF fin.cancelled THEN "cancelled" ELSE "finished"
     IN  IF jobS[j] = "gone" THEN UNCHANGED <<jobS, occ, scope, wk, rs>>
         ELSE /\ jobS' = [jobS EXCEPT ![j] = st]
              /\ occ' = [occ EXCEPT ![j] = RecordOccurrence(@, st)]
              /\ scope' = [scope EXCEPT ![j] = "none"]
              /\ wk' = (IF scope[j] = "none" THEN wk ELSE KillRuns(j))
              /\ rs' = (IF scope[j] = "none" THEN rs ELSE KillRes(j))
  /\ muPc' = fin.back /\ fin' = NoFin
  /\ UNCHANGED <<window, overrun, prio, rowVars, itemCancels, rc, plan, cur, todo, tasks, boot, posts, bounds>>

-----------------------------------------------------------------------------
(* The goroutine of startItem and what Dify does to it. *)

(* Dify accepts the request: from here on the run is charged. *)
Accept(r) ==
  /\ wk[r].pc = "go" /\ ~wk[r].dead
  /\ wk' = [wk EXCEPT ![r].pc = "acc"]
  /\ posts' = [posts EXCEPT ![r[1]] = @ + 1]
  /\ UNCHANGED <<persisted, scope, itemCancels, rs, rc, lockVars, tasks, boot, bounds>>

(* The stream opens: MarkItemDifyStarted. *)
StreamOpen(r) ==
  /\ wk[r].pc = "acc" /\ ~wk[r].dead
  /\ wk' = [wk EXCEPT ![r].pc = "open"]
  /\ started' = [started EXCEPT ![r[1]] = @ \/ itemS[r[1]] # "gone"]
  /\ UNCHANGED <<jobVars, itemS, ref, scope, itemCancels, rs, rc, lockVars, tasks, boot, posts, bounds>>

(* An event carries a task id, or the id a run is reconciled by: SaveItemDifyRef. *)
SaveRef(r, g) ==
  /\ wk[r].pc = "open" /\ ~wk[r].dead /\ wk[r].got # "run" /\ g \in {"task", "run"} /\ g # wk[r].got
  /\ wk' = [wk EXCEPT ![r].got = g]
  /\ ref' = [ref EXCEPT ![r[1]] = IF itemS[r[1]] = "gone" \/ @ = "run" THEN @ ELSE g]
  /\ UNCHANGED <<jobVars, itemS, started, scope, itemCancels, rs, rc, lockVars, tasks, boot, posts, bounds>>

(* RunItem returns: RunOutcomes says with what, all its attempts included. *)
Return(r, out) ==
  /\ wk[r].pc \in {"go", "acc", "open"} /\ out \in RunOutcomes(wk[r])
  /\ wk' = [wk EXCEPT ![r] = [@ EXCEPT !.pc = "ret", !.out = out]]
  /\ UNCHANGED <<persisted, scope, itemCancels, rs, rc, lockVars, tasks, boot, posts, bounds>>

(* itemCtx.Err() decides between 'cancelled' and the run's own outcome. *)
Recorded(w) == IF w.dead THEN "cancelled" ELSE w.out

PersistOutcome(r) ==
  /\ wk[r].pc = "ret"
  /\ itemS' = FinishRow(r[1], Recorded(wk[r]))
  /\ wk' = [wk EXCEPT ![r].pc = "clean"]
  /\ UNCHANGED <<jobVars, started, ref, scope, itemCancels, rs, rc, lockVars, tasks, boot, posts, bounds>>

(* recover(): the goroutine lost track of the run, the row is untracked. *)
Panic(r) ==
  /\ "panic" \in ops /\ wk[r].pc \in {"go", "acc", "open"}
  /\ itemS' = FinishRow(r[1], "untracked")
  /\ wk' = [wk EXCEPT ![r].pc = "clean"]
  /\ UNCHANGED <<jobVars, started, ref, scope, itemCancels, rs, rc, lockVars, tasks, boot, posts, bounds>>

(* The provider cannot be built: failed, whether or not the row was cancelled. *)
NoProvider(r) ==
  /\ wk[r].pc = "go"
  /\ itemS' = FinishRow(r[1], "failed")
  /\ wk' = [wk EXCEPT ![r].pc = "clean"]
  /\ UNCHANGED <<jobVars, started, ref, scope, itemCancels, rs, rc, lockVars, tasks, boot, posts, bounds>>

(* The deferred part: itemCancels.Delete, itemCancel, then afterItem. *)
Cleanup(r) ==
  /\ wk[r].pc = "clean"
  /\ itemCancels' = [itemCancels EXCEPT ![r[1]] = None]
  /\ wk' = [wk EXCEPT ![r] = IdleRun]
  /\ tasks' = tasks \cup {Task("afterItem", JobOf[r[1]])}
  /\ UNCHANGED <<persisted, scope, rs, rc, lockVars, boot, posts, bounds>>

-----------------------------------------------------------------------------
(* Requests on a job or a row. *)

(* CancelBatchJob: a queued job is cancelled outright, its completion      *)
(* recorded in the same transaction; a running one is asked to stop.  On a *)
(* closed job with no scope the request changes nothing.                   *)
CancelJob(j) ==
  /\ "cancel" \in ops /\ boot = "up" /\ Existing(j)
  /\ jobS[j] \notin {"finished", "cancelled"} \/ scope[j] # "none"
  /\ jobS' = [jobS EXCEPT ![j] =
       IF @ = "queued" THEN "cancelled" ELSE IF @ = "running" THEN "cancelling" ELSE @]
  /\ occ' = [occ EXCEPT ![j] = IF jobS[j] = "queued" THEN RecordOccurrence(@, "cancelled") ELSE @]
  /\ tasks' = tasks \cup {Task("abort", j)}
  /\ UNCHANGED <<window, overrun, prio, rowVars, ctxVars, rc, lockVars, boot, posts, bounds>>

(* cancelRunningJob, then finalizeJob. *)
AbortScope(t) ==
  /\ t \in tasks /\ t.kind = "abort"
  /\ IF scope[t.job] = "none" THEN UNCHANGED <<scope, wk, rs>>
     ELSE /\ scope' = [scope EXCEPT ![t.job] = "dead"]
          /\ wk' = KillRuns(t.job) /\ rs' = KillRes(t.job)
  /\ tasks' = (tasks \ {t}) \cup {Task("finalize", t.job)}
  /\ UNCHANGED <<persisted, itemCancels, rc, lockVars, boot, posts, bounds>>

(* Mutant of CancelItem: a running row is marked cancelled by the request. *)
CancelItemEager(i) ==
  /\ "cancelItem" \in ops /\ boot = "up" /\ itemS[i] \in {"queued", "running"}
  /\ itemS' = [itemS EXCEPT ![i] = "cancelled"]
  /\ tasks' = tasks \cup {Task("finalize", JobOf[i])}
  /\ UNCHANGED <<jobVars, started, ref, ctxVars, rc, lockVars, boot, posts, bounds>>
(* apiBatchItemsCancel: a queued row is skipped, a running one aborted. *)
CancelItem(i) ==
  /\ "cancelItem" \in ops /\ boot = "up"
  /\ \/ itemS[i] = "queued" /\ itemS' = [itemS EXCEPT ![i] = "cancelled"] /\ UNCHANGED wk
     \/ /\ itemS[i] = "running"
        /\ wk' = (IF itemCancels[i] = None THEN wk
                  ELSE [wk EXCEPT ![<<i, itemCancels[i]>>].dead = @ \/ Live(<<i, itemCancels[i]>>)])
        /\ UNCHANGED itemS
  /\ tasks' = tasks \cup {Task("finalize", JobOf[i])}
  /\ UNCHANGED <<jobVars, started, ref, scope, itemCancels, rs, rc, lockVars, boot, posts, bounds>>

(* Mutant of Requeued: rows still in flight are requeued with the rest. *)
RequeuedInFlight(j, sts) == RowsIn(j, sts \cup {"running"})
(* The rows a retry moves back to the queue. *)
Requeued(j, sts) == RowsIn(j, sts)

(* RequeueItems, one transaction whatever the job's status and whatever    *)
(* row statuses the request names, then a tick.  A row in flight that is   *)
(* named is queued again under the goroutine that runs it.  The            *)
(* stream-open stamp is not among the columns the statement clears.        *)
Retry(j, sts) ==
  /\ "retry" \in ops /\ boot = "up" /\ Existing(j) /\ retries < MaxRetries
  /\ LET again == Requeued(j, sts)
     IN  /\ itemS' = [i \in Items |-> IF i \in again THEN "queued" ELSE itemS[i]]
         /\ ref' = [i \in Items |-> IF i \in again THEN "none" ELSE ref[i]]
         /\ posts' = [i \in Items |-> IF i \in again THEN 0 ELSE posts[i]]
  /\ jobS' = [jobS EXCEPT ![j] = "queued"]
  /\ occ' = [occ EXCEPT ![j] = "none"]
  /\ tasks' = tasks \cup {TickTask}
  /\ recalled' = recalled \cup RowsIn(j, sts \cap {"running"})
  /\ retries' = retries + 1
  /\ UNCHANGED <<window, overrun, prio, started, ctxVars, rc, lockVars, boot, crashes, ops>>

(* apiBatchItemReconcile: refused without a handle, or when the row is     *)
(* running with a cancel func here.                                        *)
ReconcileBegin(i) ==
  /\ "reconcile" \in ops /\ boot = "up" /\ ~rc[i]
  /\ itemS[i] \notin {"absent", "gone"} /\ ref[i] = "run"
  /\ ~(itemCancels[i] # None /\ itemS[i] = "running")
  /\ rc' = [rc EXCEPT ![i] = TRUE]
  /\ UNCHANGED <<persisted, ctxVars, lockVars, tasks, boot, posts, bounds>>

(* Dify answered: FinishItem and afterItem.  Dify does not take back a success. *)
ReconcileAnswer(i, out) ==
  /\ rc[i] /\ out \in {"succeeded", "failed"} /\ (itemS[i] = "succeeded" => out = "succeeded")
  /\ itemS' = FinishRow(i, out)
  /\ rc' = [rc EXCEPT ![i] = FALSE]
  /\ tasks' = tasks \cup {Task("afterItem", JobOf[i])}
  /\ UNCHANGED <<jobVars, started, ref, ctxVars, lockVars, boot, posts, bounds>>

(* Still running on Dify after the wait, or an error: the row is left alone. *)
ReconcileGiveUp(i) ==
  /\ rc[i] /\ rc' = [rc EXCEPT ![i] = FALSE]
  /\ UNCHANGED <<persisted, ctxVars, lockVars, tasks, boot, posts, bounds>>

(* apiBatchJobDelete / apiBatchClearFinished: the status is read first, *)
(* then DeleteBatchJob removes the job and its rows.                     *)
DeleteRequest(j) ==
  /\ "delete" \in ops /\ boot = "up" /\ jobS[j] \in {"finished", "cancelled"}
  /\ tasks' = tasks \cup {Task("delete", j)}
  /\ UNCHANGED <<persisted, ctxVars, rc, lockVars, boot, posts, bounds>>

DeleteJob(t) ==
  /\ t \in tasks /\ t.kind = "delete"
  /\ jobS' = [jobS EXCEPT ![t.job] = "gone"]
  /\ itemS' = [i \in Items |-> IF JobOf[i] = t.job THEN "gone" ELSE itemS[i]]
  /\ occ' = [occ EXCEPT ![t.job] = "none"]
  /\ tasks' = tasks \ {t}
  /\ UNCHANGED <<window, overrun, prio, started, ref, ctxVars, rc, lockVars, boot, posts, bounds>>

-----------------------------------------------------------------------------
(* Crash and resumeBatchJobs. *)

(* The process dies: memory is lost.  A run Dify accepted before the       *)
(* stream-open stamp was written left no trace and is not counted.         *)
Crash ==
  /\ "crash" \in ops /\ crashes < MaxCrashes
  /\ scope' = [j \in Jobs |-> "none"]
  /\ itemCancels' = [i \in Items |-> None]
  /\ wk' = [r \in Runs |-> IdleRun]
  /\ rs' = [i \in Items |-> IdleRes]
  /\ rc' = [i \in Items |-> FALSE]
  /\ muPc' = "free" /\ plan' = {} /\ cur' = None /\ todo' = {} /\ fin' = NoFin
  /\ tasks' = {} /\ boot' = "reconcile"
  /\ posts' = [i \in Items |-> IF ref[i] = "none" /\ ~started[i] THEN 0 ELSE posts[i]]
  /\ crashes' = crashes + 1
  /\ UNCHANGED <<persisted, recalled, retries, ops>>

(* A background reconcile per row that kept a run or conversation id. *)
ResumeReconcile ==
  /\ boot = "reconcile" /\ boot' = "stuck"
  /\ rs' = [i \in Items |-> IF Reconcilable(i) THEN [IdleRes EXCEPT !.pc = "poll"] ELSE rs[i]]
  /\ scope' = [j \in Jobs |-> IF \E i \in Rows(j) : Reconcilable(i) THEN "live" ELSE scope[j]]
  /\ UNCHANGED <<persisted, itemCancels, wk, rc, lockVars, tasks, posts, bounds>>

(* Mutant of ResumeStuck: such a row is queued again. *)
ResumeStuckRequeues ==
  /\ boot = "stuck" /\ boot' = "reset"
  /\ itemS' = [i \in Items |-> IF Unreconcilable(i) THEN "queued" ELSE itemS[i]]
  /\ UNCHANGED <<jobVars, started, ref, ctxVars, rc, lockVars, tasks, posts, bounds>>
(* Started, nothing to poll: untracked, never re-run. *)
ResumeStuck ==
  /\ boot = "stuck" /\ boot' = "reset"
  /\ itemS' = [i \in Items |-> IF Unreconcilable(i) THEN "untracked" ELSE itemS[i]]
  /\ UNCHANGED <<jobVars, started, ref, ctxVars, rc, lockVars, tasks, posts, bounds>>

(* ResetInFlightItems, then scheduleTick. *)
ResumeReset ==
  /\ boot = "reset" /\ boot' = "tick"
  /\ itemS' = [i \in Items |-> IF NoEvidence(i) THEN "queued" ELSE itemS[i]]
  /\ tasks' = tasks \cup {TickTask}
  /\ UNCHANGED <<jobVars, started, ref, ctxVars, rc, lockVars, posts, bounds>>

(* The tick is over: finalizeJob for every job that was mid-flight, and the *)
(* server starts its timers and serves requests.                            *)
ResumeFinalize ==
  /\ boot = "tick" /\ TickTask \notin tasks /\ muPc = "free" /\ boot' = "up"
  /\ tasks' = tasks \cup {Task("finalize", j) : j \in ResumableJobIDs}
  /\ UNCHANGED <<persisted, ctxVars, rc, lockVars, posts, bounds>>

(* reconcileResumedItem: the outcome Dify reports; any error, the job's    *)
(* cancel included, is a failure; a panic is untracked.  "fastReconcile"   *)
(* lets the answer come before the start has finished its own statements.  *)
ResumeAnswer(i, out) ==
  /\ rs[i].pc = "poll"
  /\ boot # "up" => "fastReconcile" \in ops
  /\ out \in (IF rs[i].dead THEN {"failed"} ELSE {"succeeded", "failed"})
             \cup (IF "panic" \in ops THEN {"untracked"} ELSE {})
  /\ itemS' = FinishRow(i, out)
  /\ rs' = [rs EXCEPT ![i] = IdleRes]
  /\ tasks' = tasks \cup {Task("afterItem", JobOf[i])}
  /\ UNCHANGED <<jobVars, started, ref, scope, itemCancels, wk, rc, lockVars, boot, posts, bounds>>

-----------------------------------------------------------------------------
Scheduler == MarkItemRunning \/ MarkJobRunning \/ StartItem \/ AdmitDone
             \/ SweepFinalize \/ FinishJob
Resume    == ResumeReconcile \/ ResumeStuck \/ ResumeReset \/ ResumeFinalize
Run(r)    == \/ NoProvider(r) \/ Accept(r) \/ StreamOpen(r) \/ PersistOutcome(r) \/ Cleanup(r)
             \/ \E g \in {"task", "run"} : SaveRef(r, g)
             \/ \E out \in Outcomes : Return(r, out)
RunTask(t) == (\E o \in Overruns : WriteWindow(t, o)) \/ AbortScope(t) \/ DeleteJob(t)

Next ==
  \/ TickBegin \/ TimerTick \/ Scheduler \/ Resume \/ Crash
  \/ \E t \in tasks : RunTask(t) \/ FinalizeJob(t)
  \/ \E r \in Runs : Run(r) \/ Panic(r)
  \/ \E j \in Jobs :
       \/ \E how \in SubmitKinds : CreateJob(j, how)
       \/ CancelJob(j) \/ DeleteRequest(j) \/ TimePasses(j)
       \/ \E k \in {"setAsap", "setLater"} : Reschedule(j, k)
       \/ \E p \in Prios : Reprioritize(j, p)
       \/ \E sts \in RetrySets : Retry(j, sts)
  \/ \E i \in Items :
       \/ CancelItem(i) \/ ReconcileBegin(i) \/ ReconcileGiveUp(i)
       \/ \E out \in Outcomes : ReconcileAnswer(i, out) \/ ResumeAnswer(i, out)

Spec == Init /\ [][Next]_vars

(***************************************************************************)
(* Fairness.  The holder of schedMu, a started handler and the process     *)
(* start keep running; the 30 s timer keeps firing; a run returns because  *)
(* the HTTP client and the reconcile loop are bounded by the run timeout;  *)
(* sync.Mutex hands a waiting goroutine the lock (its starvation mode), so *)
(* a pending finalizeJob or tick is not overtaken for ever.  Requests,     *)
(* crashes and the clock owe nothing.                                      *)
(***************************************************************************)
TaskSet == [kind : TaskKinds, job : Jobs \cup {None}]
Fairness ==
  /\ WF_vars(Scheduler) /\ WF_vars(Resume) /\ SF_vars(TickBegin) /\ WF_vars(TimerTick)
  /\ \A j \in Jobs :
       /\ WF_vars(\E t \in tasks : t.job = j /\ RunTask(t))
       /\ SF_vars(\E t \in tasks : t.job = j /\ FinalizeJob(t))
  /\ \A r \in Runs : WF_vars(Run(r))
  /\ \A i \in Items : WF_vars(\E out \in Outcomes : ResumeAnswer(i, out))

FairSpec == Spec /\ Fairness

-----------------------------------------------------------------------------
(* Safety. *)

RunType == [pc : {"idle", "go", "acc", "open", "ret", "clean"}, dead : BOOLEAN,
            got : {"none", "task", "run"}, out : Outcomes]
ResType == [pc : {"idle", "poll"}, dead : BOOLEAN]
FinType == [job : Jobs \cup {None}, cancelled : BOOLEAN, back : {"free", "sweep"}]

(* Every variable holds a value of its column, map or local variable; the  *)
(* lock holder's locals are set exactly in the steps that use them.        *)
TypeOK ==
  /\ jobS \in [Jobs -> JobStatus]
  /\ window \in [Jobs -> Windows]
  /\ overrun \in [Jobs -> Overruns]
  /\ prio \in [Jobs -> Prios]
  /\ occ \in [Jobs -> {"none", "finished", "cancelled"}]
  /\ itemS \in [Items -> ItemStatus]
  /\ started \in [Items -> BOOLEAN]
  /\ ref \in [Items -> {"none", "task", "run"}]
  /\ scope \in [Jobs -> {"none", "live", "dead"}]
  /\ itemCancels \in [Items -> Slots \cup {None}]
  /\ wk \in [Runs -> RunType]
  /\ rs \in [Items -> ResType]
  /\ rc \in [Items -> BOOLEAN]
  /\ muPc \in {"free", "admit", "markJob", "start", "sweep", "finish"}
  /\ plan \in SUBSET Items
  /\ cur \in Items \cup {None}
  /\ todo \in SUBSET Jobs
  /\ fin \in FinType
  /\ cur # None <=> muPc \in {"markJob", "start"}
  /\ plan # {} => muPc \in {"admit", "markJob", "start"}
  /\ IF muPc = "finish" THEN fin.job \in Jobs ELSE fin = NoFin
  /\ tasks \in SUBSET TaskSet
  /\ \A t \in tasks : t.kind # "tick" => t.job \in Jobs
  /\ boot \in {"up", "reconcile", "stuck", "reset", "tick"}
  /\ posts \in [Items -> Nat] /\ recalled \in SUBSET Items
  /\ crashes \in Nat /\ retries \in Nat /\ ops \in OpMixes

(* A row is deleted with its job and only with it: a run, an answer or a   *)
(* request that comes late brings no row of a deleted job back.            *)
RowsEndWithJob == \A i \in Items : itemS[i] = "gone" <=> jobS[JobOf[i]] = "gone"

(* The tables and the maps are well formed, and no row outlives its job. *)
StoreSound == TypeOK /\ RowsEndWithJob

(* At most Budget rows are 'running' at any time, whatever ticks, retries, *)
(* cancels and restarts do: a tick counts and marks under schedMu only.    *)
BudgetRespected == Cardinality(RunningItems) <= Budget

(* No job has more rows in flight than its concurrency window. *)
WindowRespected ==
  \A j \in Jobs : Cardinality(RowsIn(j, {"running"})) <= (IF Concurrency[j] < 1 THEN 1 ELSE Concurrency[j])

(* Once the process is up, a 'running' row has someone who will settle it: *)
(* a run goroutine, a resume goroutine, or the tick about to start it.     *)
(* A row without one would hold its slot of the budget for ever.           *)
RunningHasOwner ==
  boot = "up" =>
    \A i \in RunningItems :
      cur = i \/ rs[i].pc = "poll" \/ \E s \in Slots : Live(<<i, s>>)

(* A run goroutine holds one slot of the budget for its whole lifetime:    *)
(* while it has not recorded an outcome, its row is 'running'.             *)
SlotForLifetime == \A r \in Runs : Live(r) => itemS[r[1]] \in {"running", "gone"}

(* One row, one runner: two goroutines never run the same row at a time,   *)
(* unless a retry named 'running' and recalled the row from a goroutine.   *)
OneRunnerPerRow ==
  \A i \in Items \ recalled : Cardinality({s \in Slots : Live(<<i, s>>)}) <= 1

(* The money guard: between two explicit retries Dify accepts a row's run  *)
(* at most once, a run lost in the crash window before the stream-open     *)
(* stamp and the rows recalled in flight excepted.                         *)
NeverRunTwice == \A i \in Items \ recalled : posts[i] <= 1

(* Cancelling the job reaches each of its live runs: the run's context is  *)
(* a child of the scope that is in the map.                                *)
JobCancelReachesRuns ==
  \A r \in Runs : Live(r) /\ ~wk[r].dead => scope[JobOf[r[1]]] = "live"

(* Cancelling a single row reaches its live run. *)
ItemCancelReachesRun == \A r \in Runs : Live(r) => itemCancels[r[1]] = r[2]

(* A row in flight is held from both ends: a running row has someone who   *)
(* will settle it, and a live run has its slot and its cancel function.    *)
RunsAreHeld == RunningHasOwner /\ SlotForLifetime /\ ItemCancelReachesRun

(* A finished job has nothing left to run. *)
FinishedIsDrained ==
  \A j \in Jobs : jobS[j] = "finished" => RowsIn(j, {"queued", "running"}) = {}

(* 'expired' means the job never began: its window closed first. *)
ExpiredNeverRan ==
  \A j \in Jobs : jobS[j] = "expired" =>
    \A i \in Rows(j) : posts[i] = 0 /\ itemS[i] \in {"queued", "cancelled"}

(* A row that was not recalled in flight is run by one goroutine at a time, *)
(* and a row of an expired job by none.                                      *)
RunOnceOrNever == OneRunnerPerRow /\ ExpiredNeverRan

(* A job cannot be closed without the evidence its notification is sent from. *)
CompletionRecorded ==
  \A j \in Jobs : jobS[j] \in {"finished", "cancelled"} => occ[j] # "none"

(* The recorded completion says what the job ended as. *)
CompletionTellsTruth ==
  \A j \in Jobs : jobS[j] \in {"finished", "cancelled"} => occ[j] = jobS[j]

-----------------------------------------------------------------------------
(* Action properties: what one step may never do. *)

Starts(i) == itemS[i] = "queued" /\ itemS'[i] = "running"

(* No row is started for a job that has finished, expired or is deleted,   *)
(* although those are written while a tick may hold a plan: FinishJob and  *)
(* the window sweep take schedMu, and a deletion needs a closed job.       *)
ClosedJobsNeverStart ==
  [][\A i \in Items : Starts(i) => jobS[JobOf[i]] \notin {"finished", "expired", "gone"}]_vars

(* No row of a cancelled job is started: cancelling a queued job is final. *)
CancelledNeverStarts ==
  [][\A i \in Items : Starts(i) => jobS[JobOf[i]] # "cancelled"]_vars

(* A row is not started while its submission has yet to write its start    *)
(* time (in a mix without reschedule requests).                            *)
StartsOnlyAsSubmitted ==
  [][\A i \in Items : Starts(i) => Task("setLater", JobOf[i]) \notin tasks]_vars

(* A retry revives finished rows only: rows a cancel abandoned stay put. *)
RetryRevivesOnlyFinishedRows ==
  [][\A i \in Items :
       /\ jobS[JobOf[i]] = "cancelled" /\ jobS'[JobOf[i]] = "queued"
       => ~(itemS[i] = "queued" /\ itemS'[i] = "queued")]_vars

(* An outcome read from Dify is not replaced, except by a retry or deletion. *)
SucceededSticks ==
  [][\A i \in Items : itemS[i] = "succeeded" => itemS'[i] \in {"succeeded", "queued", "gone"}]_vars

(* A row whose run has started on Dify is not queued to run again while it *)
(* is in flight.                                                           *)
StartedIsNotRequeued ==
  [][\A i \in Items : itemS[i] = "running" /\ started[i] => itemS'[i] # "queued"]_vars

(* A run that returned success before any cancel keeps that outcome. *)
FinishedKeepsOutcome ==
  [][\A r \in Runs :
       wk[r].pc = "ret" /\ wk[r].out = "succeeded" /\ wk'[r].pc = "clean"
         => itemS'[r[1]] \in {"succeeded", "gone"}]_vars

(* At a restart, a row is written off as untracked only if Dify had accepted it. *)
UntrackedHadReachedDify ==
  [][\A i \in Items :
       boot = "stuck" /\ boot' = "reset" /\ itemS[i] = "running" /\ itemS'[i] = "untracked"
         => posts[i] > 0]_vars

-----------------------------------------------------------------------------
(* Liveness, under FairSpec. *)

Settled == {"finished", "cancelled", "expired", "gone"}

(* A job that is cancelling ends: its runs drain and a finalize closes it. *)
CancelSettles == \A j \in Jobs : jobS[j] = "cancelling" ~> jobS[j] # "cancelling"

(* A running row settles: its slot of the budget is given back. *)
SlotIsReturned == \A i \in Items : itemS[i] = "running" ~> itemS[i] # "running"

(* A due job reaches a terminal status even when it waits behind others. *)
EveryJobSettles ==
  \A j \in Jobs : (jobS[j] \in {"queued", "running"} /\ window[j] = "asap")
                    ~> (jobS[j] \in Settled \/ window[j] # "asap")
(* Every job settles: a due one starts and ends, a cancelling one closes. *)
JobsSettle == CancelSettles /\ EveryJobSettles
=============================================================================
