# Report Portal: TLA+ models, model checking and proofs

The portal is one Go program over one database. Users submit batches of
research runs to Dify workflows; the portal queues them, runs them, stores the
reports and notifies people. It also exports data, evaluates forecasts, sends
notifications and manages accounts. This directory models the parts in which the
order of events decides whether the program is right: what is paid for once, what
is cancelled, what survives a crash, what is charged to a quota, what is sent once,
what a late or partial vendor answer may do.

Conventions. A name in `code type` with a Go file is a place under
`src/internal/app` unless a path is given. An operator introduced as "Mutant of X"
is a plausible mistake in X; it is used only to see that a property notices it.

## 1. Inventory

Concurrency in this program comes from HTTP handlers (one goroutine each), the
background loops started in `server.go:278-294`, and one goroutine per run. The
database is SQLite, opened with a single connection (`store.go:136`), or Postgres. The
models take one SQL statement, or one transaction, as atomic, with statements of
different goroutines interleaving freely: SQLite with its single connection guarantees
it, and anomalies that weaker isolation adds under Postgres are not modelled. Locks in
memory (`schedMu`, sync.Maps) do not cover the statements of handlers. That is the grain
of every model here. The locks also assume one process, and so do all models but
`Forecast`, whose writes the code guards against a second instance on the same database.

| Component | State | Operations | What is hard |
|---|---|---|---|
| Run queue (`batch_run.go`, `batch_store.go`, `batch_api.go`, `notification_job.go`) | `batch_jobs`, `batch_items`, the completion occurrences; in memory `schedMu`, `jobRuns`, `itemCancels`, run goroutines | submit, schedule, reprioritise, tick, start, run, cancel a job or a row, retry, reconcile, delete, expire, restart | handlers do not take `schedMu`; a run costs money once Dify accepts it; a crash between any two statements |
| Admission (`internal/queue`) | none (pure) | `Score`, `Admit`, `Ahead` | counters that cross zero, the reserve, starvation |
| Dify run (`dify_provider.go`, `internal/dify`, `internal/batch`) | locals of one run; the run at Dify | send, stream, reconcile by polling, stop, retry | telling a run that started from one that did not |
| Data export (`export_*.go`) | `export_jobs`, the files, the map of cancel functions | submit with quota, claim, scan, rename, cancel, download, sweep, recover | no lock spans a job; files and rows change separately |
| Notifications (`notification_*.go`, `internal/notification`) | completion evidence, events, inbox, deliveries with leases and attempts, channels, rules | capture, claim, check, begin, attempt, finish, recover, replay, review, test, delete, sweep | a lease that expires under a slow send, uncertain outcomes, everything deleted under a worker |
| Submission (`batch_api.go`, `tickets.go`, `run_quota.go`, `run_preset.go`) | jobs, ticket balances, presets | submit with cap, quota, ticket and window; balance; clear | read-modify-write without a lock, windows that wrap |
| Recurring runs (`recurring*.go`, `cadence.go`) | tasks with a last-fired stamp | tick, fire, edit, run now | one submission per day across edits and restarts |
| Chat sessions (`chat_*.go`) | a concurrency gate, sessions | open, stream, close | gate released on every path |
| Vendor scheduler (`vendor_scheduler.go`, `vendor_policy.go`, `vendorfetch.go`) | a queue, spacing, cooldown and probe per source, under a mutex | acquire, sleep, wake, expire, finish, configure | missed wake-ups, a late answer of a cooling source, priorities at a full queue |
| Quote cache (`quote_*.go`) | caches, breaker of the ledger walk | fetch, share, expire | shared fetches |
| Forecast settlement (`forecast_settle.go`, `forecast_schedule.go`, `forecast_eval*.go`, `forecast_ops.go`) | `prediction_sets`, `prediction_marks`, the pass under way | wake, find the start, settle, refuse, end, purge, switch | late and partial vendor data, overlapping passes, a start that is fixed once |
| Organisation units and policy (`ou_*.go`) | a graph of groups, grants | move, merge, delete, resolve | the graph stays a forest under concurrent edits |
| Report revisions (`report_revision_*.go`, `report_edit_*.go`) | revisions | edit, restore | optimistic concurrency |
| Sessions, throttle, second factors, SSO | sessions, counters, one-time tokens | log in, revoke, verify | single use, races with revocation |
| Cleanup, backup, migration | retention cursors, schema version | sweep, restore, step | resumable steps |
| The rest (rendering, mail, geo, CRUD, the web client) | tables or none | single statements, conversions | little that a model would add |

`PROJECT.json` lists every component with its files. The properties that make each
modelled component correct are in section 3; the hazards they answer to, with the
line each one bites at, are under `hazards` in `PROJECT.json`.

How the components meet. The scheduler asks `internal/queue` which rows to start and
starts one goroutine per row; the goroutine calls `RunItem`, which calls the Dify
provider, which reports ids back through callbacks that write the row. Closing a job
records a completion occurrence, from which the notification worker later builds
deliveries. Submits and recurring tasks put jobs in the queue. The forecast evaluator
fetches its bodies as a background caller of the vendor scheduler. Deleting a user takes its export jobs and, after the transaction, its
export files. Restart re-reads the tables: `resumeBatchJobs` and `exportRecover` run
before the loops and the listener start.

## 2. Modules

| Module | Models | Composes |
|---|---|---|
| `QueueAdmit` | the decision of `queue.Admit`, as the loop (`AdmitLoop`) and as a condition on the chosen set (`Admitted`) | |
| `Admission` | the sequence of decisions: arrivals, ageing, ticks, a changing budget; scores of `priority.go` | `QueueAdmit` |
| `RunOutcome` | what a run may end as, by how far it got on Dify | |
| `RunQueue` | the run queue | `QueueAdmit`, `RunOutcome` |
| `RunQueueProofs` | theorems about `RunQueue` and the decision of `QueueAdmit` | `RunQueue`, `SumLemmas` |
| `RunContract` | one run as `RunQueue` sees it, as a specification of its own | `RunOutcome` |
| `DifyRun` | `RunItem`, `difyProvider.Run` and the stream readers against an external Dify; shown to implement `RunContract` | `RunOutcome`, `RunContract` |
| `Export` | data-export tasks | |
| `RunPreset` | the occurrence of a low-peak window that a submit is scheduled into; when a cadence is due | |
| `Submission` | the submit endpoint, ticket balance, recurring tasks | `RunPreset` |
| `Notification` | capture and delivery of notifications | |
| `VendorScheduler` | the request scheduler of one market-data source | |
| `Forecast` | settlement of one prediction set | |
| `SumLemmas` | least elements, and sums over finite sets, for the proofs | |
| `ForecastProofs` | theorems about `Forecast` | `Forecast`, `SumLemmas` |
| `ExportProofs` | theorems about `Export` | `Export`, `SumLemmas` |
| `SubmissionProofs` | theorems about `Submission` | `Submission`, `SumLemmas` |
| `VendorSchedulerProofs` | theorems about `VendorScheduler` | `VendorScheduler`, `SumLemmas` |
| `DifyRunProofs` | theorems about `DifyRun`, its refinement of `RunContract` among them | `DifyRun` |
| `NotificationProofs` | theorems about `Notification` | `Notification`, `SumLemmas` |
| `MCAdmission`, `MCRunQueue`, `MCDifyRun`, `MCSubmission`, `MCNotification`, `MCVendorScheduler`, `MCForecast` | values for TLC | |

### RunQueue

Persisted variables are columns: `jobS` (`batch_jobs.status`), `window` and `overrun`
(`run_at`, the preset snapshot and its overrun policy, reduced to what admission and
the sweep tell apart), `prio`, `occ` (the completion occurrence of the current cycle),
`itemS` (`batch_items.status`), `started` (`dify_started_at`), `ref` (the best handle
stored: none, a task id, or an id a run can be reconciled by). Memory: `scope`
(`jobRuns`), `itemCancels`, `wk` (goroutines of `startItem`), `rs` (goroutines of
`reconcileResumedItem`), `rc` (manual reconciles waiting for Dify), the locals of the
holder of `schedMu` (`muPc`, `plan`, `cur`, `todo`, `fin`), `tasks` (calls a handler
has still to make after its first statement), `boot` (where the start-up is).
`posts` is history: how often Dify accepted the row since it was last queued; so is
`recalled`: the rows that a retry naming "running" took out of flight.

One action is one statement, transaction or step in memory. `TickBegin` and
`TimerTick` read and plan; `MarkItemRunning`, `MarkJobRunning`, `StartItem` and
`AdmitDone` admit; `SweepFinalize`, `FinalizeJob` and `FinishJob` close;
`Accept` … `Cleanup` are a run; `CancelJob`/`AbortScope`, `CancelItem`, `Retry`,
`ReconcileBegin`/`Answer`/`GiveUp`, `DeleteRequest`/`DeleteJob`, `Reschedule`,
`Reprioritize` are the requests; `Crash` and `Resume*` the restart.

Abstractions. "succeeded" stands for the outcomes Ok and Partial. Two pending tasks of
the same kind and job are one. The reads of a tick happen in one step: they are under
`schedMu`, and the statements that do not take it are allowed before and after. The
API opens with `ResumeFinalize`, a moment before the real listener. A retry names any of
the statuses a request can name, as the handler checks none of them (`RetrySets`); from
"running" follow two runs of a row (section 5), so `NeverRunTwice` and `OneRunnerPerRow`
speak of rows that were not recalled in flight, and `NeverRunTwice` counts from the last
retry. Scores are the priority of the job; ageing and fair share are
in `Admission`. A preset with another interval in its period behaves as the policy
"next". `Candidates` leaves out `invertBlocksNow` (`batch_run.go:547`), which holds back
the rows of a job with an inverted preset inside one of its blocks: the model starts every
row the code starts, and those earlier too. A failing SQL statement is not modelled. A run Dify accepted in the instant
before the stream-open stamp is written leaves no trace when the process dies there;
`docs/adr/0015` accepts that, and `Crash` does not count such a run.

### DifyRun, RunContract, RunOutcome

`RunQueue` needs to know only how far a run got and what it may return.
`RunOutcomes` says so, `RunContract` is a state machine with that promise, and
`DifyRun` (retry loop, stream, drop, poll, cancel) is checked to implement it with the
refinement mapping `Contract`. `mode` says what is run: workflow or chat, streamed or
polled, how many retries, which faults. `dify` is external: what became of the run of
each attempt. `MeetsContract` is checked across two retries, and across the two faults
when there is nothing to retry; with both a retry and a fault the code may pay twice
(section 5).

### Admission, QueueAdmit

`queue` holds the waiting runs in id order. Factors are small integers; `Boost` stands
for 1e9. `Tick` computes the loop of `Admit`; `LoopMatchesSpec` says that `Admitted`,
the condition `RunQueue` uses and the proofs reason with, describes exactly the set the
loop returns. `tag` marks one run so that its fate can be followed.

### Export

Variables are the columns of `export_jobs`, the two file names of a job (`part`,
`final`), accounts and the readers' policy, the day, the locals of the worker and its
cancel functions, and what each concurrent request has read so far. `age` is the time
since a job ended, as far as the sweep tells it apart; the code measures the retention
of the row from its creation, which for an ended job is later in the model by the time
it ran.

### RunPreset, Submission

An instant is an hour; the calendar (hours of a day, days of a week, lengths of months)
is a parameter. `NextInterval` is the arithmetic of `nextInterval`, clamping and
wrap-around included (yearly presets are left out); `WindowIsNext` compares it with the set of hours a preset covers.
`Submit` … `SetJobWindow` are the statements of `apiBatchJobCreate` in order, `req` its
locals. An urgent submit reads its clock (`ReadClock`) before it takes `ticketMu`
(`SpendTicket`), so a refill may be for a clock that the period in the row has overtaken;
`late` and `lost` remember that a submit or a balance request did that; `ReadTickets` and `SaveTickets` the two halves of `TicketStatus`;
`EnabledRecurringTasks`, `MarkRecurringFired`, `FireRecurringTask`, `EndTick` the minute
tick of recurring tasks. `FinishJob` stands for the whole run queue. All requests are of
one account, for every limit is per account.

### Notification

`src` is the completion evidence of a job (the `occ` of `RunQueue`), `events`, `inbox`
and `row` the stored notification, `chan`, `route` and `acct` what a worker checks in
separate reads before it begins an attempt, `snd` the locals of workers and of manual
tests, `capt` those of a sweep over pending completions (`ReadEvidence`, `Route`,
`Capture`, in the order of the completions; one that cannot be resolved or does not fit
the queue ends the sweep for those behind it). `broken` says that targets cannot be
resolved: one Boolean for every such reason, a rule or secret in error and the limits on
rules, accounts and recipients (`ChangeSettings`). Clock comparisons are Booleans of a row (`fresh`: its
lease lasts; `due`; `old`: expired) that time may change. A worker holds one claim at a
time and every claim draws a token, so a worker stands for its token. `got` is history:
how often the destination took the message in an attempt that it did not answer with an
error, `denied` how often in one that it, or a proxy before it, did answer with an error.
The portal retries a 429 and every 5xx (`notification/http.go:49`), so the destination may
take one delivery twice; what the code bounds, and `AtMostOnce` says, is `got` by one and
both together by the attempts allowed. What the destination did is a choice of `Attempts`.

Abstractions. A sweep takes all pending completions, the code up to 100 at a time. Left out are
transient errors of single statements, which end a sweep like `broken`, the legacy webhook
channels, and settings that change between the single reads of one `Route`.

### VendorScheduler

The state under the mutex is `queue`, `next`, `nextBackground`, `coolingUntil`,
`streak`, `probing`; `req` holds the locals of each request. `Acquire`, `Wake`,
`Expire` are one pass of the loop of `acquire` each, `Finish` its release function with
what the vendor answered, `Notified` the closing of the channel. The clock is in units
of the fastest spacing. `coolingUntil` compares with the clock as the code does; a
request in flight lasts at most the client's timeout, which is shorter than any cooldown
(`SchedulerAssumption`).

### Forecast

`set` and `marks` are the columns the evaluator owns, `pass` what each instance has read
since its pass began. Reading and writing are two steps: `Begin` reads the set,
`Evaluate` (or `FetchFails`, `WakeOnly`) computes a plan from bodies that may be late,
unstamped or revised and applies it in one transaction, `Abandon` drops it. Operators
carry the names of the Go functions: `PredBaseCheck`, `StartBar`, `SettleMark`,
`SettleMarks`, `FindStart`, `EvaluateSet`, `ApplyPlan`.

Abstractions. Time is in half days, the halves of a day parting where its bars can be
used; waits of minutes or hours become the next half day or the slot they end in. A price
is the day the stock traded and the edition of the body. `failures` is history.
Attempts are counted up to `predFinalMinAttempts`. The index omits no past session; a
calendar that does is the source fault `calendar_bad`, which `FetchFails` covers. A body
stamped *t* holds all that was printed up to *t*; the wide look-back brings a body of the
same moment. The gate of a benchmark is folded into the mode. The progress cache lets a
later pass reuse bodies for some hours, which here is a body that lags. Returns, prices,
benchmark returns, the corporate-action flag, the marks no schedule can ever place, the
quarantine of bad windows and the one-shot repair are left out.

## 3. What the runs check

A run combines several **mixes** of requests and faults (`OpMixes`, `Mixes`): a
behaviour draws its requests and faults from one mix. That keeps each instance small
without giving up any single combination the property is about. `queue_live` keeps a job
cancel and a crash apart, as liveness is expensive; for its three safety properties
`WindowSafe`, `FinishedHasNothingLeft` and `HeldFromBothEnds` (section 4) cover them together.

| Run | Properties | What it shows |
|---|---|---|
| `admission` | `AdmissionSound`, `LoopMatchesSpec`, `UrgentServed` | three waiting runs of any class, base, age and usage; the budget moves between 1 and 2, so it is also lowered below what runs |
| `queue_requests` | `StoreSound`, `BudgetRespected`, `JobCancelReachesRuns`, `CompletionRecorded`, `NeverRunTwice`, `RunOnceOrNever`, `ClosedJobsNeverStart` | one slot, two rows: cancel of a job or a row and delete; retries, of failed rows or of rows in flight; later starts, preset windows and reschedules; priorities; one crash anywhere with cancels and panics, or with a cancel and manual reconciles |
| `queue_live` | `WindowRespected`, `RunsAreHeld`, `FinishedIsDrained`, `JobsSettle`, `SlotIsReturned` | two slots, a window of one: a job cancel, or one crash anywhere with a row cancel, a panic or a manual reconcile; who owns a running row, and liveness |
| `dify` | `OutcomeCanBeTrusted`, `MeetsContract`, `Returns` | every kind of run; the refinement of `RunContract` |
| `export` | `FilesMatchRows`, `QuotaRespected`, `EndIsFinal` | cancels, deletion, policy, failed writes, panics, downloads, expiry, a crash, a change of day |
| `export_live` | `EveryExportEnds`, `FilesGo` | liveness of a job and its files across a crash |
| `submission` | `AllowancesHold`, `FiredOncePerDay`, `WindowIsNext` | racing submits, balance requests, clearing, days that pass; recurring ticks, edits and crashes; every preset of the small calendar at every hour |
| `notification` | `DeliverySound`, `NotInherited`, `WorkersObeyDeletion` | two workers, panics, crashes, error answers, and the deletion or change of all they check |
| `notification_live` | `EveryDeliverySettles`, `EveryCompletionCaptured` | liveness: three completions behind one another for a queue with room for one delivery, settings that become unresolvable; a delivery whose worker panics or dies, or whose channel or dispatch is paused |
| `vendor` | `SourceProtected`, `NoMissedWakeup`, `StartsAsAllowed`, `ReadersFirst`, `EveryRequestAnswered` | up to four requests of all four priorities, cancels, refusals, cooldowns, policy changes |
| `forecast` | `MeasuredRight`, `FinalIsExhausted`, `ConclusionsStand`, `EveryMarkConcludes` | eleven calendars and fault mixes; halts, a holiday, two instances, reports received before the open or without a price |
| `queue_late_cancel` | `FinishedKeepsOutcome` | a disagreement between the code and what is said of it (section 5) |

Some properties are conjunctions whose parts are defined, with a comment each, in the
same module: `AdmissionSound` (`TypeOK`, `AdmitsByRank`, `WorkConserving`,
`IdleRunsLast`), `StoreSound` (`TypeOK`, `RowsEndWithJob`), `RunsAreHeld` (`RunningHasOwner`, `SlotForLifetime`,
`ItemCancelReachesRun`), `RunOnceOrNever` (`OneRunnerPerRow`, `ExpiredNeverRan`),
`JobsSettle` (`CancelSettles`, `EveryJobSettles`), `OutcomeCanBeTrusted` (`TypeOK`,
`StartedNeverRerun`, `FailedIsTrue`), `FilesMatchRows` (`TypeOK`, `DoneHasFile`,
`NoStrayFiles`, `RunningHasWorker`), `DeliverySound` (`TypeOK`, `AtMostOnce`,
`RecordTellsTruth`, `OneLeasePerChannel`), `WorkersObeyDeletion`
(`NoAttemptAfterDeletion`, `ClosedStaysClosed`), `AllowancesHold` (with
`TicketsSpentOnce`, `OverrunByRacersOnly`).

Bounds, and why they are enough for what is asked.

- *Rows and jobs.* One job of two rows. Two rows are what it takes for one to run while
  the other waits, for a plan of two to be half carried out, and for a job to be closed
  by one row while the other is touched. Rows of different jobs meet only in the budget
  and in the rank; both are proved for any jobs and rows, and `Admission` runs the rank.
- *Budget and window.* 1 and 2, so that both are reached and both can be exceeded.
- *Goroutines of one row* (`Slots`): 2 where retries are allowed, for a row can be
  started again before the goroutine of its last run has cleaned up; 1 otherwise.
- *Crashes, retries:* 1. A second crash starts from a state the first could have
  reached: recovery leaves nothing in memory.
- *Admission:* three waiting runs: one that is admitted, one held back by the reserve
  and one it is held for. Ageing saturates after one step there.
- *DifyRun:* two retries, so that the loop runs in the middle and at its limit.
- *Submission:* two racing submits against a quota and a cap of two, one ticket a period
  of a day, three days. The calendar has 3 hours, 2 weekdays and months of 2 and 1 days,
  so every anchor wraps and some name a day the month lacks.
- *Notification:* one channel, up to two targets and two workers, two attempts, one
  replay; of requests and faults each mix allows at most three. One completion for safety,
  as rows of different completions meet only in the lease of a channel and the room of the
  queue, and the theorems hold for any number; three for
  `EveryCompletionCaptured`, with a channel's share of one, so that the queue is full, and
  is full again for the completion behind. `EveryDeliverySettles` is checked on the mixes
  of `notification_live` only: requests, once used up, leave nothing that could keep a
  delivery alive.
- *VendorScheduler:* four requests against two slots and a queue of two; a cooldown of 3
  or 4 units, a request of 2, waits of 2; two policies.
- *Forecast:* two checkpoints one and two sessions after the start; finality after two
  sessions and three attempts, a halt confirmed by one session of silence; bodies up to
  a day and a half old. From `well` on fetches succeed, and the rest of the eight days
  is enough for a mark to settle or to be given up.
- *Export:* two jobs, each a reader's or an administrator's, one row per batch, a quota
  of one: two submits that fit one by one do not fit together. `export_live` follows
  one job, since the single worker takes them in turn.

Deadlock is checked in the admission run only: elsewhere the program may really have
nothing left to do once every job, delivery, request or mark is closed and the bounds
are used up.

### Fairness

- Queue. The holder of `schedMu` and a started handler keep running (weak fairness);
  the 30 s ticker keeps firing (weak, `TimerTick`); a pending `finalizeJob` or tick gets
  the lock in the end although the lock is taken again and again (strong): `sync.Mutex`
  hands the lock to a goroutine that has waited for a millisecond. A run returns (weak)
  because the HTTP client and the reconcile loop are bounded by the run timeout, which
  `DifyRun`'s `Returns` checks. Nothing is assumed of requests, crashes or the clock.
- Dify. Only the portal's own steps are fair; Dify may never answer.
- Export. Strong fairness for the worker: `exportLoop` drains the queue before it waits,
  so sweeps do not overtake it. Weak fairness for the sweep, started handlers, recovery,
  and the passing of time.
- Notification. Recovery of leases, the steps of the 15 s sweep over pending completions
  as a whole (its next step, not the one for a given completion), and time (leases run
  out, deliveries expire) are weakly fair. `EveryCompletionCaptured` is about settings that
  are resolvable for good from some time on. Workers owe nothing: one may panic,
  stop, or wait for a destination until its lease is gone.
- Vendor scheduler. Time, a return of a request in flight (its client's timeout) and the
  wake-up of a reader whose channel, timer, deadline or context is ready are weakly fair.
  Nothing is assumed of the vendor, cancels or the policy.
- Forecast. The minute loop begins passes (weak) and a pass ends (weak: its context has
  two minutes), time goes on and an operator leaves the switch on in the end (strong).
  `EveryMarkConcludes` is about a vendor that answers after the slot `well`.
- Admission. Ticks, ends of runs and time are weakly fair; arrivals owe nothing.

## 4. What is proved

`RunQueueProofs`, checked by TLAPS for every set of jobs and rows, every assignment of
rows to jobs, every budget, window, priority and mix of requests, without a bound on
goroutines, crashes or retries other than those constants. The assumptions are
`QueueAssumption`: finite sets of positive ids, a budget of at least 1; a retry may name
any statuses.

| Theorem | Statement |
|---|---|
| `StoreStaysSound` | `Spec => []StoreSound` |
| `BudgetSafe` | `Spec => []BudgetRespected` |
| `CancelReaches` | `Spec => []JobCancelReachesRuns` |
| `CompletionEvidence` | `Spec => []CompletionRecorded` |
| `WindowSafe` | `Spec => []WindowRespected` |
| `NoStartAfterClose` | `Spec => ClosedJobsNeverStart` |
| `FinishedHasNothingLeft` | `Spec => []FinishedIsDrained`, under `NoRetries` |
| `MoneyGuard` | `Spec => []NeverRunTwice`, under `RequestsApart` |
| `HeldFromBothEnds` | `Spec => []RunsAreHeld`, under `RequestsApart` and `NoRetries` |
| `OnceOrNever` | `Spec => []RunOnceOrNever`, under `RequestsApart` and `NoRetriedWindows` |
| `LoopDecides` | the sets that are `Admitted` are one, what `AdmitLoop` returns |
| `BestAreAdmitted` | if urgent runs outscore the others, an `Admitted` set holds the best-ranked runs and fills the slots |
| `TicksPlanTheBest` | `Spec => [][ReadPlan => ...]_vars`: a tick plans `LoopsChoice`, by rank, and leaves no slot unused |

`FinishedHasNothingLeft`, `MoneyGuard`, `HeldFromBothEnds` and `OnceOrNever` have hypotheses on the mixes of requests, because the code breaks the
property outside them, and section 5 has the trace: a retry between the count and the
status of a finalize, or before the deferred cleanup of the first run (`NoRetries`,
`RunQueueRetry.cfg`); an answer that overtakes the start-up (`RunQueueStartRace.cfg`) or a
manual reconcile whose answer meets a retried row (`SlotForLifetime` in
`RunQueueRetry.cfg`; with a second retry there Dify accepts two runs), which
`RequestsApart` excludes; a retry in a job with a preset window (`NoRetriedWindows`,
`ExpiredNeverRan` in `RunQueueRetry.cfg`). A retry that names "running" is in the mixes of
`MoneyGuard` and `OnceOrNever`; what it breaks is the row it recalls, and the two theorems
speak of the others. Crashes, cancels of jobs and rows, panics, deletions,
priorities and reschedules are in every mix; retries are in those of `MoneyGuard`, and
reconciles in those of the other three. The runs
`queue_live` and `queue_requests` check the four under mixes that meet the hypotheses.

`TypeOK`, `RowsEndWithJob` and `JobCancelReachesRuns` are inductive together with the shape
of the lock holder's locals. `CompletionRecorded` is inductive given the type invariant:
every action that sets a closing status records the occurrence in the same step, and the
two that clear it (retry, deletion) leave the status open or the job gone.

`BudgetRespected` is not inductive: it says nothing of a tick that has planned rows it
has not marked yet. `BudgetInv` says that the running rows and the planned rows together
fit the budget. Only a tick plans rows and only `MarkItemRunning` makes one running
(`OnlyTicksAdd`); the tick's plan fits the free slots by the definition of `Admitted`
(`TickBudget`); marking a row moves it from one count to the other, and a row that was
cancelled meanwhile just leaves the plan (`MarkBudget`). Facts on cardinalities of finite
sets carry the arithmetic. `WindowInv` is the same count per job; a tick plans the first
rows that fit, and elements of a finite set with fewer than n smaller ones are at most n
(`FirstsAreFew`).

`PlanOpen` says that no row a plan still holds belongs to a closed job: what closes a job
needs the lock the tick holds, or takes the rows with it (`OnlyTheseClose`), and what
queues a row opens its job (`OnlyTheseQueue`). `DrainInv` says what the holder of the lock
knows between the count and the status: the job it is about to finish is drained, and only
a submission or a retry adds a row to a drained job.

Nothing a row says of itself tells whether it may be started: that depends on goroutines
that may still hold it and on answers about it under way. `RowsInv` relates them, row by
row: a row that waits was not sent since it was queued, has no live goroutine, no handle
and no question open (`FreshRow`); a row in flight has one live goroutine, which sends it
once (`OneRun`); what Dify is asked about has a run id and no goroutine here (`Answers`);
the start-up finds the rows of a crash without goroutines and sorts them, and those it
queues again were not sent (`Sorted`); without retries a row has one goroutine in the
life of the process, whose cancel function is the one stored (`OneGoroutine`). It needs
`StartUpAlone`: no task and no lock holder before the start-up has sorted the rows. Most
steps leave a row as it was (`SameRow`); the steps of a goroutine are of four kinds
(`Steps`), and every other action has a lemma. `OnceOrNever` adds `Unbegun`: without
retries, a row of a job that is absent, queued or expired is untouched by any run, or is
the one the tick is marking, or is one a crash left between the two marks.

`RunQueue` uses the admission decision as a condition on the chosen set (`Admitted`), the
code is a loop with two counters. `LoopDecides` says for every input what
`LoopMatchesSpec` checks on small queues. Rank is a strict total order, so every run has a
position of its own and every position a run (`AheadIs`, `EveryPosition`: an injection of
n runs into n positions is onto). `LoopState` is the loop's invariant: what it has seen is
decided as `Admitted` decides it, and while slots are left no urgent run it has seen
waits, which is why its counter and the count of urgent runs behind agree (`TurnKeeps`).
Two sets that are `Admitted` would differ in a best-ranked run, on which the runs before it
decide (`OneDecision`). `RunQueue` reduces the score to a priority of which the urgent ones
are the highest, so `TicksPlanTheBest` needs no hypothesis; in the code the weights must
not outgrow the boost (`AdmissionWeights.cfg`).

`ForecastProofs` proves the safety of forecast settlement for any number of instances, any
checkpoints, any calendar and trading days, and any late, unstamped, revised or failed
answer. `ForecastAssumption` asks for finite sets, sessions and trades that are days, a
positive deadline and silence, and at least the three attempts the backoff table has.

| Theorem | Statement |
|---|---|
| `ConclusionsStandForEver` | `Spec => ConclusionsStand` |
| `MeasuredFromOneStart` | `Spec => []OneStart`, a part of `MeasuredRight` |
| `OutagesEndNothing` | `Spec => []FailedEnough`, a part of `FinalIsExhausted` |
| `MarksMeasuredRight` | `Spec => []MeasuredRight` |
| `GivenUpIsExhausted` | `Spec => []FinalIsExhausted` |

None of these is inductive: they speak of stored rows, and a pass writes them from rows it
read earlier, while another instance may have written in between. Three invariants carry
the argument. `StartInv`: a pass that read a start read the stored one, so a plan settles
only from the start that is stored or from the one it is the first to write (`PlanOK`,
`Raced`), and a set that was given up has no open mark. `CountInv`: the attempts a pass
has read are no more than the failures there were, and it has read every mark still
open; so a mark, or a whole set, that it ends has failed often enough. `DateInv`: the
start is the first session of the whole calendar, and what ended was late enough by it.
The last rests on the calendar: what an early or stale body shows of it is a prefix
(`CompletedPrefix`), the first session and the n-th session of a prefix are those of the
whole (`StartStable`, `DueStable`), sessions past due only grow (`PastDueGrows`), and a
body that proves its session current holds the last price the stock had by then
(`CurrentIsLast`). Every operator that makes a plan has a lemma for each of the three.

`ExportProofs` holds for any users, jobs, quota, row limit, days and number of crashes
(`ExportAssumption`).

| Theorem | Statement |
|---|---|
| `RowsAndFilesAgree` | `Spec => []FilesMatchRows` |
| `EndsAreFinal` | `Spec => EndIsFinal` |
| `ChargedWithinQuota` | `Spec => []QuotaRespected`, under `NoLateMidnight` |

Rows, files and the worker's locals change in separate steps, so neither is inductive.
`ExportInv` adds what each party knows between its steps: the status of the worker's job
fits the step the worker is at (`OnItsJob`); a running row or a partial file is that of
the job the worker holds (`Holding`); after a crash nothing runs before the recovery
(`Recovering`); what a download, the sweep or a deletion read before its write still
holds (`Requested`); the file is in place before the row can say done (`Placed`); and as
long as nothing has crashed, no job without a claim to it has a file (`Clean`).
`ExportNext` has one case per action. `NoLateMidnight` excludes the mixes in which
midnight passes inside a submit, after which the code does exceed the quota
(`ExportMidnight.cfg`, section 5). Under it, a job that no longer runs is charged the
rows it wrote, never more than the estimate it was admitted with (`WithinEstimate`), so no
step but a submit makes a day dearer (`NoDearer`), and a submit was compared with the sum
it adds to (`SubmitFits`).

`VendorSchedulerProofs` holds for any finite set of requests, any priorities and policies,
any ceiling and queue limit, and any cooldowns longer than the client's timeout
(`SchedulerAssumption`).

| Theorem | Statement |
|---|---|
| `SourceIsProtected` | `Spec => []SourceProtected` |
| `StartsAreAllowed` | `Spec => StartsAsAllowed` |
| `ReadersGoFirst` | `Spec => ReadersFirst` |
| `WakeUpsArrive` | `Spec => []NoMissedWakeup` |

`SourceProtected` is not inductive: it does not say why no request is in flight when the
probe goes out. `Flights` does: while the source cools, every flight that is not the
probe will have timed out before the cooldown ends, because every step of the ladder is
longer than a flight (`CooldownOutlasts`, `RefusalCools`); and the end of the cooldown is
never before the latest moment a refusal asked for, which also gives `StartsAsAllowed`.
The spacing is the last start plus the policy in force, across changes of policy
(`ConfigureKeeps`). `Queued` says that the queue holds every sleeper once
(`QueueJoined`, `QueueLeft`); `TurnIsBest` then gives `ReadersFirst`: the best priority
of the living has a first holder (`LeastNat`), and only the holder has its turn.
`NoMissedWakeup` follows from `Awaits`: a sleeper that has not been told waits for a timer
that fires no later than the spacing ends, for a slot, for its turn, or for a reader whose
context ended to leave the queue. Whatever ends one of these tells every sleeper; the
steps that tell nobody (`Quiet`) leave the queue alone, give no slot back and only put the
spacing off (`SleepsOn`).

`DifyRunProofs` holds for any retries, and for the faults "lost_reply" and "reset" where
there are none: `RetriesAreSafe` names these modes beside `DifyAssumption`, for outside
them the money guard fails (section 5).

| Theorem | Statement |
|---|---|
| `TrustedOutcome` | `Spec => []OutcomeCanBeTrusted` |
| `ImplementsContract` | `Spec => MeetsContract`, the refinement of `RunContract` |

The invariant under both is that only the attempt under way can have a run on Dify, and
that an attempt that waits or has not been sent has none (`OneAttemptCounts`). Then the
runs Dify accepted are that attempt or none (`AcceptedIsCurrent`), so the step that sends
the next attempt follows a refusal. `RefinesNext` maps each action to a step of the
contract or to a stutter.

`NotificationProofs` holds for any channels, targets, occurrences (at least one), workers,
attempts, capacity and generations, with every mix of requests and faults at once
(`NotificationAssumption`).

| Theorem | Statement |
|---|---|
| `Soundness` | `Spec => []DeliverySound` |
| `NothingInherited` | `Spec => []NotInherited` |
| `DeletionIsFinal` | `Spec => WorkersObeyDeletion` |

That a message is taken at most once, apart from attempts answered with an error
(`OnWireOnce`), looks at what the destination got, and nothing in it says why a claim cannot
repeat one. `Honest` does: a row the destination may have heard of, or may still,
says so (`Admits`: leased and sending, accepted, uncertain, or canceled with a reason), or
retention has taken its whole family while the event stays. A row that waits, or is leased
and not sending, therefore was never sent, or got an error for an answer (`FreshRow`). `Sending` ties the locals of a
worker to its row for as long as the row carries its token, which is what
`FinishNotification` and `BeginNotificationAttempt` check; `Checked` keeps what it has
looked at in place under that token, because every deletion takes the token away.
Most actions do not move a worker, and change rows in one of two ways: `Calm` (a request,
the clock or the recovery; `CalmKeeps`) or `Queued` (a capture or a replay;
`NewRowsKeep`). The actions of a worker change one row (`OneRow`) or none
(`LookKeeps`, `StopKeeps`). A replay's generation is free by `NextIsFree`. The bound on
all that the destination took, error answers included, is a second invariant, `Counted`:
no more than the attempts the row counts, one less while a sender is on the wire
(`AttemptsBound`).

`SubmissionProofs` holds for any requests, tasks, presets, cadences, calendar, quota, cap
and allocation, and any mixes (`SubmissionAssumption`, `CalendarAssumption`). Presets are
as `normalizePreset` stores them: at least one interval, of anchors that resolve; and the
calendar goes on for two months after the last submit (`PresetAssumption`).

| Theorem | Statement |
|---|---|
| `OneFireADay` | `Spec => []FiredOncePerDay` |
| `AllowancesRespected` | `Spec => []AllowancesHold` |
| `WindowsAreNext` | `Spec => []WindowIsNext` |

None is inductive. `StampedFirst`: a task that fired today carries today's stamp, or was
deleted; `ListedOnce`: what the tick still has in hand has not fired today and is in hand
once. An edit that was opened before the fire does not write the stamp column, so the stamp
stays. `Covers` says that what is left of a ticket period and what was spent of it fit the
allocation, and that nothing was spent from later periods, until a refill is made for a
clock the period has overtaken or a balance request saves over a changed row; any other
refill only goes to a later period (`NewPeriod`). `CapInv` counts a
request that the cap has let pass as if its job were there; so at most the others that
were past it at the same time come on top. `QuotaInv` is about rows: of the requests past
the quota, one fits on top of what is stored with room for the largest row count of every
other one (`FitsOnTop`). It is that one, or any that remain when it has become a job, that
carries the invariant through the steps; jobs that fail or are cleared only take rows away
(`KeptJobs`), and at midnight the stored rows count for the day that is over
(`CountedToday`).

For `WindowsAreNext` the step part is small: `WindowsInv` says that the locals of a request
hold what `ResolvePresetWindow` gave at its submit. The rest is about that operator. The
occurrences of an interval form a `Series` (`Occ`, by an index that does not depend on the
instant one counts from): starts and ends never go back from one occurrence to the next
(`InOrder`), `WindowAt` finds them (`Found`), and the ones around an instant are at most
one before where it counts from (`Nearby`). `Periodic` gives this for days and weeks;
`MonthlySeries` for months of any lengths, with the clamped days. So the occurrence
`NextInterval` returns is the first to end after the instant (`NextIsFirst`): the search
from one period back misses none. The union takes the one that ends first
(`NextWindowIs`), and an eligible hour skipped before its start lies in an occurrence that
ends later and starts before: the interval is nested, which the property exempts
(`ResolvedIsNext`). An inverted preset waits for the end of an occurrence it is in
(`BlockEndIs`).

`SumLemmas` carries the arithmetic of the two quotas. A sum over a set is a fold, whose
value is chosen from the functions that satisfy its equation; such a function exists on
every finite set, by induction on its size (`TotalsExist`; `NatInduct` states induction of
a set of numbers, from `LeastNat`), and then adding, removing and comparing terms follow
(`TotalAdd`, `TotalRemove`, `TotalLeq`, `TotalMono`).

Only model-checked: everything about liveness; `EveryMarkConcludes` of `Forecast`; and
`AdmissionSound` and `LoopMatchesSpec` of `Admission`. What they say of a single decision
is proved for every set of candidates and integer scores: `LoopDecides` is the equation of
`LoopMatchesSpec`, `BestAreAdmitted` the ranking and the full slots of `AdmissionSound`,
and `TicksPlanTheBest` carries both over the steps of `RunQueue`. As an invariant of
`Admission`, `AdmissionSound` depends on the weights: idle runs come last, and urgent runs
first, only while the fixed boost exceeds what the weights can add, and these are free
settings (section 5, `AdmissionWeights.cfg`), so it is no theorem for all constants.

## 5. Where the code and its own words disagree

Each row is a configuration under which TLC produces a trace. The first is a run of the
project. The others are kept as configurations, run with `tlc -config <cfg> <module>`;
where rows share a configuration, `tlc -workers 1 -continue` goes on to the next.

| Configuration | Module | Property | Where | What |
|---|---|---|---|---|
| `RunQueueLateCancel.cfg` | `MCRunQueue` | `FinishedKeepsOutcome` | `batch_run.go:704` | After RunItem returns the code tests itemCtx.Err() before it looks at the result, so a cancel that arrives after the run succeeded turns the row into cancelled and drops the outcome. The comment just above it, src/internal/app/batch_run.go:702-703, says "A run that actually finished keeps its real outcome even if a cancel raced in just after." The run shows a succeeded run recorded as cancelled. |
| `RunQueueRetryRunning.cfg` | `MCRunQueue` | `StartedIsNotRequeued` | `batch_store.go:696` | apiBatchJobRetry (src/internal/app/batch_api.go:999) hands the statuses of the request body unchecked to RequeueItems, whose UPDATE sets every row of those statuses to queued and clears its run ids; a request that names running requeues a row whose run Dify is executing, and the next tick starts it again. docs/adr/0015-reconcile-not-retry-untracked.md:22 says "A run that has **started on Dify is never re-run.**", and src/internal/app/batch_store.go:678 "RequeueItems moves finished items of the given statuses back to queued". The run shows a running row put back into the queue. |
| `SubmissionRollover.cfg` | `MCSubmission` | `SubmitsShareTickets` | `batch_run.go:236` | urgentAllowed evaluates time.Now() for SpendTicket before SpendTicket takes ticketMu, and ticketRefill (src/internal/app/tickets.go:19) grants the full allocation again when now is before the stored period start. Of two urgent submits that race the first use or a rollover, the one that read the earlier clock and gets the lock second is refilled again. The comment at src/internal/app/tickets.go:91-92 says "two concurrent urgent submits must not both read the same remaining and each spend it (single-binary, so an in-process lock is sufficient and driver-agnostic)". The run shows two urgent runs in one period with an allocation of one, and no balance request. |
| `AdmissionStarvation.cfg` | `MCAdmission` | `NormalServed` | `internal/queue/scheduler.go:70` | Admit takes an urgent run for any free slot, and the urgent boost puts urgent runs first, so the "reserved" count only ever holds slots back from normal runs; nothing holds a slot for them. The comment at src/internal/queue/scheduler.go:40-41 says "the lower-priority items still drain through the non-reserved slots, so they don't starve" and docs/adr/0008-multifactor-priority.md:34 says of age "A long-waiting job climbs to 1, so nothing starves". The run shows a normal run that waits for ever at full age. |
| `AdmissionWeights.cfg` | `MCAdmission` | `UrgentOutranksNormal` | `internal/queue/priority.go:44` | Score adds a fixed 1e9 for an urgent run while the weights are any non-negative admin setting (src/internal/app/batch_api.go:216-223 checks only v >= min). The comment at src/internal/queue/priority.go:30-31 says "urgentBoost dominates any non-urgent score, so a 加急 run outranks every normal run regardless of weights". The run shows a weight for which it does not. |
| `RunQueueCancel.cfg` | `MCRunQueue` | `CancelledNeverStarts` | `batch_run.go:524` | CancelBatchJob takes no schedMu: a job that is still queued is set to cancelled while a tick already holds its row in the plan, and MarkItemRunning checks the row, not the job, so the row is started under a cancelled job. The comment at src/internal/app/batch_store.go:646-647 says "A still-queued job is cancelled outright (nothing is dispatching it)". The run shows the row of the cancelled job being marked running. |
| `RunQueueRetry.cfg` | `MCRunQueue` | `FinishedIsDrained` | `batch_run.go:745` | finalizeLocked reads the counts, then FinishJob sets the terminal status without a condition; RequeueItems takes no schedMu and can commit in between. The comment at src/internal/app/batch_store.go:690-691 names what must not happen: "would leave requeued items under a terminal job that the scheduler never re-admits". The run shows exactly that state. |
| `RunQueueRetry.cfg` | `MCRunQueue` | `RetryRevivesOnlyFinishedRows` | `batch_store.go:703` | Closing a cancelled job leaves its waiting rows in status queued, and RequeueItems sets the job back to queued, so those rows run again as well. The comment at src/internal/app/batch_api.go:991-992 says retry "relaunches the job to process just those rows", and src/internal/app/batch_store.go:678-679 "so the engine can resume just those rows". The run shows an abandoned row in the queue of the revived job. |
| `RunQueueStartRace.cfg` | `MCRunQueue` | `NeverRunTwice` | `batch_run.go:795` | reconcileResumedItem runs in the background and its afterItem ticks; ResetInFlightItems then requeues every running row without evidence, including a row that tick has just started in this process, and it is started a second time. The comment at src/internal/app/batch_run.go:761-762 says resume splits the rows "so a started (charged) run is never duplicated". The run shows Dify accepting a row twice. |
| `RunQueueReconcileRace.cfg` | `MCRunQueue` | `SucceededSticks` | `batch_run.go:843` | reconcileResumedItem registers no cancel func, so the manual reconcile of a row it is polling is not refused; when the resume reconcile then errs (its deadline, or the job's cancel) it writes failed over the success the manual one recorded. The comment at src/internal/app/batch_api.go:874-876 says the handler refuses "a row currently running here (its own drop-reconcile owns the outcome)". The run shows succeeded overwritten by failed. |
| `RunQueueStaleStamp.cfg` | `MCRunQueue` | `UntrackedHadReachedDify` | `batch_store.go:696` | RequeueItems clears the ids of a row but not dify_started_at. The comment at src/internal/app/batch_store.go:171-173 says of the stamp "this is the only evidence the run started, letting resume tell a started run (→ untracked, never re-run) from one that never reached Dify (→ safe to re-run)". The run shows a row that never reached Dify since its retry marked untracked at a restart. |
| `RunQueueEarlyStart.cfg` | `MCRunQueue` | `StartsOnlyAsSubmitted` | `batch_api.go:774` | apiBatchJobCreate commits the job as queued and writes run_at in a second statement; a timer tick or another run's afterItem in between sees a due job. The comment at src/internal/app/batch_api.go:774 says "hidden from admission until run_at passes". The run shows a row of a scheduled job started before its start time is written. |
| `RunQueueRetry.cfg` | `MCRunQueue` | `ItemCancelReachesRun` | `batch_run.go:674` | itemCancels is keyed by row and deleted without a check of whose function it holds: a row that is requeued and started again before the first goroutine's deferred Delete loses the new run's cancel func. The comment at src/internal/app/batch_run.go:658-659 says "cancelling the whole job OR just this row aborts this run". The run shows a live run that a row cancel no longer reaches. |
| `RunQueueCancel.cfg` | `MCRunQueue` | `CompletionTellsTruth` | `batch_run.go:745` | CancelBatchJob records the completion as cancelled without schedMu, between finalizeLocked's read and FinishJob, which then overwrites the status with finished while the evidence of the cycle stays. The comment at src/internal/app/batch_run.go:719-720 says a job is closed out "exactly once" and "Serialized by schedMu so two finishing runs can't double-finalize". The run shows a finished job whose evidence says cancelled. |
| `RunQueueRetry.cfg` | `MCRunQueue` | `SlotForLifetime` | `batch_api.go:920` | apiBatchItemReconcile checks that the row is not running here before it waits for Dify and writes the outcome afterwards without a check: a row that was retried and restarted meanwhile is marked settled, its slot is given away and its new run goes on. The comment at src/internal/app/batch_run.go:654-655 says a started run "holds one of the budget's slots for its whole lifetime". The run shows a live run whose row is no longer running. |
| `RunQueueRetry.cfg` | `MCRunQueue` | `ExpiredNeverRan` | `batch_run.go:473` | RequeueItems sets the job to queued and keeps its preset snapshot; the sweep takes queued for never begun. The comment at src/internal/app/batch_store.go:571-573 says ExpireJob "never touches a run that began inside the window" (see also src/internal/app/batch_run.go:469-470). The run shows a job whose rows ran, expired by the sweep. |
| `DifyRunReset.cfg` | `MCDifyRun` | `StartedNeverRerun` | `internal/dify/stream.go:163` | RunWorkflowStream and RunChatStream return the scanner's raw error when the open stream fails by a reset or the client timeout; Run recognises a started run without ids only by ErrStreamEnded, so the error is classified transient and RunItem fires the row again. The comment at src/internal/app/dify_provider.go:186-188 says "if the STREAM OPENED (Dify returned 2xx and accepted the request) ... mark Untracked — never re-run". The run shows Dify accepting a second run. |
| `DifyRunLostReply.cfg` | `MCDifyRun` | `StartedNeverRerun` | `dify_provider.go:195` | Any transport error or 5xx before the response is retried, including one after Dify took the request (a client timeout, a proxy's 502). The comment at src/internal/app/dify_provider.go:194 says "A genuine pre-stream failure (connection refused / non-2xx) → nothing started → safe to retry." and docs/adr/0015-reconcile-not-retry-untracked.md:22 "A run that has **started on Dify is never re-run.**". The run shows two accepted runs. |
| `DifyRunReset.cfg` | `MCDifyRun` | `CancelStopsRun` | `dify_provider.go:147` | When the context is cancelled during reconcile (poll mode, or after a dropped stream) Run returns Untracked without calling stop, although the task id is known. The comment at src/internal/app/dify_provider.go:153-154 says "Job cancelled: aborting the stream only stops OUR wait — Dify keeps executing the workflow until told to stop. Best-effort stop it". The run shows a cancelled row whose Dify run goes on. |
| `ExportMidnight.cfg` | `Export` | `QuotaRespected` | `export_reader.go:261` | apiReaderExportCreate stamps created_at (src/internal/app/export_reader.go:230) before submitReaderExport reads the clock again for the bounds of the day it checks: a submit across midnight is checked against the empty new day and charged to the old one. docs/adr/0046-reader-report-export.md:36 says the quota is the "most reports per user per panel-timezone day". The run shows a day charged beyond the quota. |
| `ExportLateClose.cfg` | `Export` | `CancelStopsScan` | `export_api.go:420` | cancelRunning finds no cancel function, the worker registers one and re-reads the status as running, and only then does the UPDATE close the row: nothing tells the worker. The comment at src/internal/app/export_api.go:417-419 says "closing it out is safe, since a registering worker aborts on seeing it closed" and docs/adr/0045-data-export-tasks.md:289 "A canceled running job stops within one batch and leaves no file." The run shows rows written after the row says canceled (the file is discarded at the end). |
| `SubmissionCounterexamples.cfg` | `MCSubmission` | `AllocationPerPeriod` | `tickets.go:75` | TicketStatus reads, refills and saves the row without ticketMu. The comment at src/internal/app/tickets.go:91-92 says "two concurrent urgent submits must not both read the same" of SpendTicket only, while docs/adr/0005-priority-tickets.md:17 says "refilled each period". The run shows two urgent runs in a period with one ticket. |
| `SubmissionCounterexamples.cfg` | `MCSubmission` | `WindowIsAlwaysNext` | `run_preset.go:170` | nextWindow takes the occurrence that ends first. The comment at src/internal/app/run_preset.go:160-161 says this is "the next moment the run". With nested sub-windows the run shows a start condition later than an hour at which the run was already eligible. |
| `ForecastStaleStart.cfg` | `MCForecast` | `StartIsTheClose` | `forecast_eval.go:948` | rangeBars drops a newest bar stamped before the close without marking it unverifiable, so predBaseCheck does not wait and resolveStartBar takes the bar before it. The comment at src/internal/app/forecast_eval.go:935-936 says "base_date is the stock's close on S0 when it traded". The run shows a stored start on an earlier day for a stock that traded on S0. |
| `ForecastHalts.cfg` | `MCForecast` | `HaltsSettle` | `forecast_eval.go:577` | The wide body is used only by the pass that resolves the base; the next pass settles from the reference window, where the stock has no bar before it resumes, and its marks end as no_bar. The comment at src/internal/app/forecast_settle.go:146-147 says "A resumed or delisted stock keeps the halt flag; it never stays refused". The run shows such a mark as refused_final. |


Two consequences for section 3. `queue_live` and `queue_requests` keep the
combinations of this table apart (retry with reconcile, retry with crash, a resume
answer before the start-up has finished), and `export` keeps the submit that spans
midnight apart; `dify` gives faults only to runs without retries. The properties are
shown for everything else. `NeverRunTwice` and `RunOnceOrNever` except rows that a retry
recalled in flight. `AllowancesHold` speaks of tickets as long as no submit was refilled
for a clock that the period had overtaken, and no balance request saved such a refill or
saved over a row that changed under it. `WindowIsNext` exempts nested intervals;
`MeasuredRight` measures a mark from the stored start, which the stale body of
`ForecastStaleStart.cfg` may have put a day early.

## 6. Not modelled, and why

The reasons per component are in `PROJECT.json`. In short: rendering, mail, vendored
SAML and the web client are input and output; filters, vendor parsers and forecast
statistics are data without an order of events; accounts, announcements, favourites and
most of the login flow are single statements, or protocol libraries; groups and access
are projections over tables, each computed from one read.

Within the modelled components these are left out: errors of single SQL statements,
request bodies and result parsing, listings, CSV input, the wording of errors, what a
user deletion does to batch jobs, the signature and schema of webhooks, the cache and
the breaker of the ledger walk behind the vendor scheduler, the heartbeat, alerts and
shadow requests of the forecast evaluator.

## 7. Plan

Done, in this order: admission, run queue, run contract and Dify, exports and the first
proofs; then notifications, submission with presets and recurring runs, the vendor
scheduler and forecast settlement.

1. Report revisions: optimistic edits against re-ingest and deletion.
2. Organisation units: the graph stays a forest; policies resolve along it.
3. Sessions and the login throttle: revocation against requests in flight.
4. The quote cache: shared fetches, stale reads and the breaker of the ledger walk,
   composed with `VendorScheduler`.
5. The forecast alert state and the shadow requests.
6. User deletion across the queue, exports and notifications.
