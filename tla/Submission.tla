----------------------------- MODULE Submission -----------------------------
(***************************************************************************)
(* What puts jobs in the run queue: the submit endpoint with its group     *)
(* limits, run quota, urgent tickets and preset windows (batch_api.go,     *)
(* run_quota.go, tickets.go), and recurring tasks (recurring*.go).         *)
(*                                                                         *)
(* All requests are of one account of a restricted unit: every limit is    *)
(* per account.  One step is one SQL statement or transaction; SpendTicket *)
(* is one step because it runs under ticketMu, TicketStatus is two.  Both  *)
(* get their clock from the caller, who reads it before.                   *)
(***************************************************************************)
EXTENDS RunPreset, Sequences

CONSTANTS
    Submitters,   \* concurrent submit requests
    Watchers,     \* concurrent requests for the ticket balance
    Tasks,        \* recurring_tasks
    Quota,        \* DailyRunQuota: rows a day
    Cap,          \* MaxQueued: active jobs
    Allocation,   \* urgent tickets a period
    PeriodDays,   \* ticket period
    RowCounts,    \* rows of a submit
    Presets,      \* run_presets a submit may name
    Cadences,     \* cadences a recurring task may have
    MaxJobs,      \* bound: jobs created
    Horizon,      \* bound: hours
    Modes         \* bound: the requests of a behaviour, how many at a time,
                  \* their rows, the jobs they may create

Ops == {"submit", "urgent", "preset", "status", "task", "edit", "runnow", "finish",
        "clear", "crash"}

ASSUME SubmissionAssumption ==
    /\ IsFiniteSet(Submitters) /\ Submitters # {}
    /\ {Quota, Cap, Allocation, PeriodDays, MaxJobs, Horizon} \subseteq Nat
    /\ RowCounts \subseteq Nat \ {0} /\ RowCounts # {} /\ IsFiniteSet(RowCounts)
    /\ Modes \subseteq [ops : SUBSET Ops, crew : SUBSET Submitters,
                        rows : SUBSET RowCounts, jobs : 0..MaxJobs]

\* What normalizePreset stores: at least one interval, of anchors that resolve
\* (yearly presets are not modelled).  The calendar goes on past the last submit.
Anchored(freq, a) ==
    /\ a.h \in 0..HoursPerDay - 1
    /\ freq = "weekly" => a.d \in 0..DaysPerWeek - 1
    /\ freq = "monthly" => a.d \in Nat \ {0}

ASSUME PresetAssumption ==
    /\ \A p \in Presets :
         /\ p.freq \in {"daily", "weekly", "monthly"} /\ p.invert \in BOOLEAN
         /\ IsFiniteSet(p.ivs) /\ p.ivs # {}
         /\ \A iv \in p.ivs : Anchored(p.freq, iv.start) /\ Anchored(p.freq, iv.stop)
    /\ MaxBack > 0
    /\ \E m \in Months : m + 1 \in Months /\ Day(Horizon) < MonthStart[m]

VARIABLES
    now,      \* hours in the panel time zone
    jobs,     \* batch_jobs in order of creation
    ticket,   \* the account's row of priority_tickets
    task,     \* recurring_tasks
    req,      \* locals of apiBatchJobCreate
    watch,    \* locals of TicketStatus: the row it read, the one it will save
    edit,     \* locals of apiRecurringUpdate: the row it read
    tick,     \* locals of recurringTick: the rows it listed, the one in hand
    spent,    \* history: tickets spent, by the start of the period in force
    lost,     \* history: a balance request saved over a row that had changed,
              \* or a refill for a clock that the row's period had overtaken
    late,     \* history: a submit was refilled for such a clock
    fires,    \* history: cadence fires of a task by day
    mode      \* the requests of this behaviour

vars == <<now, jobs, ticket, task, req, watch, edit, tick, spent, lost, late, fires, mode>>

NoTicket == [has |-> FALSE, rem |-> 0, start |-> 0]
IdleReq == [pc |-> "idle", rows |-> 0, urgent |-> FALSE, at |-> 0, from |-> 0, runAt |-> 0,
            until |-> 0, preset |-> {}, job |-> 0]
IdleTick == [pc |-> "idle", rows |-> {}, cur |-> 0]
Days == 0..Day(Horizon)
Racers == Cardinality(Submitters) - 1

-----------------------------------------------------------------------------
(* Tickets *)

\* Mutant: every access refills, whether or not the period has ended.
TicketRefillKeeps(t, at) ==
    LET period == PeriodDays * HoursPerDay IN
    IF ~t.has \/ at < t.start THEN [has |-> TRUE, rem |-> Allocation, start |-> at]
    ELSE IF period <= 0 THEN t
    ELSE [t EXCEPT !.rem = Allocation, !.start = @ + ((at - @) \div period) * period]

\* ticketRefill: whole periods are rolled over on access, on their cadence; a
\* clock from before the period begins another one, with the full allocation.
TicketRefill(t, at) ==
    LET period == PeriodDays * HoursPerDay IN
    IF ~t.has \/ at < t.start THEN [has |-> TRUE, rem |-> Allocation, start |-> at]
    ELSE IF period <= 0 \/ at - t.start < period THEN t
    ELSE [t EXCEPT !.rem = Allocation, !.start = @ + ((at - @) \div period) * period]

Overtaken(t, at) == t.has /\ at < t.start

\* TicketStatus: read, refill, save what changed - without ticketMu.  The
\* request read its clock some time before.
ReadTickets(q) == \E at \in 0..now :
    /\ "status" \in mode.ops
    /\ watch[q].pc = "idle"
    /\ ticket.has \/ Allocation > 0
    /\ TicketRefill(ticket, at) # ticket
    /\ watch' = [watch EXCEPT ![q] =
           [pc |-> "read", seen |-> ticket, new |-> TicketRefill(ticket, at)]]
    /\ UNCHANGED <<now, jobs, ticket, task, req, edit, tick, spent, lost, late, fires, mode>>

SaveTickets(q) ==
    /\ watch[q].pc = "read"
    /\ ticket' = watch[q].new
    /\ lost' = (lost \/ ticket # watch[q].seen \/ Overtaken(watch[q].seen, watch[q].new.start))
    /\ watch' = [watch EXCEPT ![q] = [pc |-> "idle", seen |-> NoTicket, new |-> NoTicket]]
    /\ UNCHANGED <<now, jobs, task, req, edit, tick, spent, late, fires, mode>>

-----------------------------------------------------------------------------
(* apiBatchJobCreate *)

ActiveJobCount == Cardinality({i \in 1..Len(jobs) : jobs[i].st = "live"})

Rows(S) == MapThenSumSet(LAMBDA i : jobs[i].rows, S)

\* RunsToday: rows of the jobs still stored, created since the civil midnight.
RunsToday == Rows({i \in 1..Len(jobs) : jobs[i].st # "gone" /\ Day(jobs[i].at) = Day(now)})

\* The request, with its preset resolved before anything is checked.
Submit(r) ==
    /\ "submit" \in mode.ops
    /\ req[r].pc = "idle" /\ Len(jobs) < mode.jobs
    /\ \E n \in mode.rows, u \in (IF "urgent" \in mode.ops THEN BOOLEAN ELSE {FALSE}) :
         \/ req' = [req EXCEPT ![r] = [IdleReq EXCEPT !.pc = "cap", !.rows = n, !.urgent = u]]
         \/ /\ "preset" \in mode.ops
            /\ \E p \in Presets : LET w == ResolvePresetWindow(p, now) IN
                 req' = [req EXCEPT ![r] = [IdleReq EXCEPT
                     !.pc = "cap", !.rows = n, !.urgent = u, !.from = now, !.runAt = w.runAt,
                     !.until = w.until, !.preset = {p}]]
    /\ UNCHANGED <<now, jobs, ticket, task, watch, edit, tick, spent, lost, late, fires, mode>>

Refuse(r) == req' = [req EXCEPT ![r] = IdleReq]
Go(r, pc) == req' = [req EXCEPT ![r].pc = pc]

CheckCap(r) ==
    /\ req[r].pc = "cap"
    /\ IF Cap > 0 /\ ActiveJobCount >= Cap THEN Refuse(r) ELSE Go(r, "quota")
    /\ UNCHANGED <<now, jobs, ticket, task, watch, edit, tick, spent, lost, late, fires, mode>>

\* Mutant: jobs are counted, not their rows.
RunQuotaCountsJobs(r) ==
    /\ req[r].pc = "quota"
    /\ IF Cardinality({i \in 1..Len(jobs) : Day(jobs[i].at) = Day(now)}) >= Quota
       THEN Refuse(r) ELSE Go(r, "ticket")
    /\ UNCHANGED <<now, jobs, ticket, task, watch, edit, tick, spent, lost, late, fires, mode>>

RunQuotaCheck(r) ==
    /\ req[r].pc = "quota"
    /\ IF Quota > 0 /\ RunsToday + req[r].rows > Quota THEN Refuse(r) ELSE Go(r, "ticket")
    /\ UNCHANGED <<now, jobs, ticket, task, watch, edit, tick, spent, lost, late, fires, mode>>

\* urgentAllowed: a normal run needs no ticket; for an urgent one time.Now() is
\* evaluated here, before SpendTicket takes ticketMu.
ReadClock(r) ==
    /\ req[r].pc = "ticket"
    /\ req' = IF req[r].urgent THEN [req EXCEPT ![r].pc = "spend", ![r].at = now]
              ELSE [req EXCEPT ![r].pc = "create"]
    /\ UNCHANGED <<now, jobs, ticket, task, watch, edit, tick, spent, lost, late, fires, mode>>

\* SpendTicket: out of tickets, the job runs at its base priority.
SpendTicket(r) ==
    /\ req[r].pc = "spend"
    /\ IF ~ticket.has /\ Allocation <= 0
       THEN /\ UNCHANGED <<ticket, spent, late>>
            /\ req' = [req EXCEPT ![r].pc = "create", ![r].urgent = FALSE]
       ELSE LET t == TicketRefill(ticket, req[r].at)
                over == Overtaken(ticket, req[r].at) IN
            /\ late' = (late \/ over)
            /\ IF t.rem <= 0
               THEN /\ ticket' = t /\ UNCHANGED spent
                    /\ req' = [req EXCEPT ![r].pc = "create", ![r].urgent = FALSE]
               ELSE /\ ticket' = [t EXCEPT !.rem = @ - 1]
                    /\ spent' = [spent EXCEPT ![IF over THEN ticket.start ELSE t.start] = @ + 1]
                    /\ Go(r, "create")
    /\ UNCHANGED <<now, jobs, task, watch, edit, tick, lost, fires, mode>>

\* CreateBatchJob; the window is a second statement, SetJobWindow.
Job(by, rows) == [at |-> now, rows |-> rows, st |-> "live", by |-> by, runAt |-> 0, until |-> 0]

CreateBatchJob(r) ==
    /\ req[r].pc = "create" /\ Len(jobs) < mode.jobs
    /\ jobs' = Append(jobs, Job("form", req[r].rows))
    /\ req' = IF req[r].preset = {} THEN [req EXCEPT ![r] = IdleReq]
              ELSE [req EXCEPT ![r].pc = "window", ![r].job = Len(jobs) + 1]
    /\ UNCHANGED <<now, ticket, task, watch, edit, tick, spent, lost, late, fires, mode>>

SetJobWindow(r) ==
    /\ req[r].pc = "window"
    /\ jobs' = [jobs EXCEPT ![req[r].job] =
           [@ EXCEPT !.runAt = req[r].runAt, !.until = req[r].until]]
    /\ Refuse(r)
    /\ UNCHANGED <<now, ticket, task, watch, edit, tick, spent, lost, late, fires, mode>>

\* A job ends in the queue (external to this module); an administrator clears
\* the finished jobs.
FinishJob(i) ==
    /\ "finish" \in mode.ops
    /\ jobs[i].st = "live"
    /\ jobs' = [jobs EXCEPT ![i].st = "done"]
    /\ UNCHANGED <<now, ticket, task, req, watch, edit, tick, spent, lost, late, fires, mode>>

ClearFinished ==
    /\ "clear" \in mode.ops
    /\ jobs' = [i \in 1..Len(jobs) |->
                   IF jobs[i].st = "done" THEN [jobs[i] EXCEPT !.st = "gone"] ELSE jobs[i]]
    /\ jobs' # jobs
    /\ UNCHANGED <<now, ticket, task, req, watch, edit, tick, spent, lost, late, fires, mode>>

-----------------------------------------------------------------------------
(* Recurring tasks *)

NeverFired == -1
NoTask == [st |-> "none", enabled |-> FALSE, cad |-> CHOOSE c \in Cadences : TRUE,
           last |-> NeverFired]
Stored(k) == task[k].st = "stored"

\* apiRecurringCreate.
CreateTask(k) == \E c \in Cadences :
    /\ "task" \in mode.ops
    /\ task[k] = NoTask
    /\ task' = [task EXCEPT ![k] = [st |-> "stored", enabled |-> TRUE, cad |-> c, last |-> NeverFired]]
    /\ UNCHANGED <<now, jobs, ticket, req, watch, edit, tick, spent, lost, late, fires, mode>>

\* apiRecurringUpdate reads the row to authorize the caller, then saves the
\* editable columns; apiRecurringEnable and apiRecurringDelete are one statement.
OpenTask(k) ==
    /\ "edit" \in mode.ops
    /\ edit.pc = "idle" /\ Stored(k)
    /\ edit' = [pc |-> "open", k |-> k, row |-> task[k]]
    /\ UNCHANGED <<now, jobs, ticket, task, req, watch, tick, spent, lost, late, fires, mode>>

\* Mutant: the whole row that was read is written back.
UpdateRecurringRow == \E c \in Cadences :
    /\ edit.pc = "open"
    /\ task' = [task EXCEPT ![edit.k] = IF @.st = "stored" THEN [edit.row EXCEPT !.cad = c] ELSE @]
    /\ edit' = [edit EXCEPT !.pc = "idle"]
    /\ UNCHANGED <<now, jobs, ticket, req, watch, tick, spent, lost, late, fires, mode>>

UpdateRecurringTask == \E c \in Cadences, on \in BOOLEAN :
    /\ edit.pc = "open"
    /\ task' = [task EXCEPT ![edit.k] = IF @.st = "stored" THEN [@ EXCEPT !.cad = c, !.enabled = on] ELSE @]
    /\ edit' = [edit EXCEPT !.pc = "idle"]
    /\ UNCHANGED <<now, jobs, ticket, req, watch, tick, spent, lost, late, fires, mode>>

SetRecurringEnabled(k) ==
    /\ "edit" \in mode.ops /\ Stored(k)
    /\ task' = [task EXCEPT ![k].enabled = ~@]
    /\ UNCHANGED <<now, jobs, ticket, req, watch, edit, tick, spent, lost, late, fires, mode>>

DeleteRecurringTask(k) ==
    /\ "edit" \in mode.ops /\ Stored(k)
    /\ task' = [task EXCEPT ![k].st = "deleted"]
    /\ UNCHANGED <<now, jobs, ticket, req, watch, edit, tick, spent, lost, late, fires, mode>>

\* recurringTick: the enabled tasks are listed, then each due one is stamped
\* and fired in turn, from the row as it was listed.
EnabledRecurringTasks ==
    /\ tick.pc = "idle"
    /\ tick' = [pc |-> "listed", rows |-> {<<k, task[k]>> : k \in
                   {j \in Tasks : Stored(j) /\ task[j].enabled
                                  /\ CadenceDue(task[j].cad, task[j].last, now)}}, cur |-> 0]
    /\ tick'.rows # {}
    /\ UNCHANGED <<now, jobs, ticket, task, req, watch, edit, spent, lost, late, fires, mode>>

\* A stamp that cannot be written skips the task until the next tick.
MarkRecurringFired == \E e \in tick.rows :
    /\ tick.pc = "listed"
    /\ \/ /\ task' = [task EXCEPT ![e[1]] = IF @.st = "stored" THEN [@ EXCEPT !.last = Day(now)] ELSE @]
          /\ tick' = [tick EXCEPT !.pc = "stamped", !.rows = @ \ {e}, !.cur = e[1]]
       \/ /\ UNCHANGED task
          /\ tick' = [tick EXCEPT !.rows = @ \ {e}]
    /\ UNCHANGED <<now, jobs, ticket, req, watch, edit, spent, lost, late, fires, mode>>

\* fireRecurringTask; a job that cannot be created is logged and lost.
FireRecurringTask ==
    /\ tick.pc = "stamped"
    /\ \/ /\ Len(jobs) < mode.jobs
          /\ jobs' = Append(jobs, Job("task", 1))
          /\ fires' = [fires EXCEPT ![tick.cur][Day(now)] = @ + 1]
       \/ UNCHANGED <<jobs, fires>>
    /\ tick' = [tick EXCEPT !.pc = "listed"]
    /\ UNCHANGED <<now, ticket, task, req, watch, edit, spent, lost, late, mode>>

EndTick ==
    /\ tick.pc = "listed" /\ tick.rows = {}
    /\ tick' = IdleTick
    /\ UNCHANGED <<now, jobs, ticket, task, req, watch, edit, spent, lost, late, fires, mode>>

\* apiRecurringRunNow: outside the cadence, without a stamp.
RunNow(k) ==
    /\ "runnow" \in mode.ops
    /\ Stored(k) /\ Len(jobs) < mode.jobs
    /\ jobs' = Append(jobs, Job("task", 1))
    /\ UNCHANGED <<now, ticket, task, req, watch, edit, tick, spent, lost, late, fires, mode>>

-----------------------------------------------------------------------------
\* An hour passes.  A tick takes less than a day: a fire is counted on the day
\* of its stamp.
Hours ==
    /\ now < Horizon
    /\ tick.pc = "idle" \/ Day(now + 1) = Day(now)
    /\ now' = now + 1
    /\ UNCHANGED <<jobs, ticket, task, req, watch, edit, tick, spent, lost, late, fires, mode>>

\* The process dies with the requests and the tick in hand.
Crash ==
    /\ "crash" \in mode.ops
    /\ req' = [r \in Submitters |-> IdleReq]
    /\ watch' = [q \in Watchers |-> [pc |-> "idle", seen |-> NoTicket, new |-> NoTicket]]
    /\ edit' = [edit EXCEPT !.pc = "idle"]
    /\ tick' = IdleTick
    /\ UNCHANGED <<now, jobs, ticket, task, spent, lost, late, fires, mode>>

Init ==
    /\ now = 0
    /\ jobs = <<>>
    /\ ticket = NoTicket
    /\ task = [k \in Tasks |-> NoTask]
    /\ req = [r \in Submitters |-> IdleReq]
    /\ watch = [q \in Watchers |-> [pc |-> "idle", seen |-> NoTicket, new |-> NoTicket]]
    /\ edit = [pc |-> "idle", k |-> CHOOSE k \in Tasks : TRUE,
               row |-> NoTask]
    /\ tick = IdleTick
    /\ spent = [s \in 0..Horizon |-> 0]
    /\ lost = FALSE
    /\ late = FALSE
    /\ fires = [k \in Tasks |-> [d \in Days |-> 0]]
    /\ mode \in Modes

Next ==
    \/ \E r \in mode.crew : \/ Submit(r) \/ CheckCap(r) \/ RunQuotaCheck(r) \/ ReadClock(r)
                            \/ SpendTicket(r) \/ CreateBatchJob(r) \/ SetJobWindow(r)
    \/ \E q \in Watchers : ReadTickets(q) \/ SaveTickets(q)
    \/ \E i \in 1..Len(jobs) : FinishJob(i)
    \/ ClearFinished
    \/ \E k \in Tasks : \/ CreateTask(k) \/ OpenTask(k) \/ SetRecurringEnabled(k)
                        \/ DeleteRecurringTask(k) \/ RunNow(k)
    \/ UpdateRecurringTask \/ EnabledRecurringTasks \/ MarkRecurringFired
    \/ FireRecurringTask \/ EndTick
    \/ Hours \/ Crash

Spec == Init /\ [][Next]_vars

-----------------------------------------------------------------------------
(* Properties *)

\* The urgent runs of a period never exceed the allocation, whichever submits
\* race each other, as long as none was refilled for a clock that the period had
\* overtaken when it took ticketMu, and no balance request saved such a refill or
\* saved over a row that changed since it read it.
TicketsSpentOnce == lost \/ late \/ \A s \in DOMAIN spent : spent[s] <= Allocation

\* What the comment in SpendTicket says: submits alone, however they race each
\* other and the rollover, do not spend one ticket twice.
SubmitsShareTickets == lost \/ \A s \in DOMAIN spent : spent[s] <= Allocation

\* What ADR 0005 promises without any exception.
AllocationPerPeriod == \A s \in DOMAIN spent : spent[s] <= Allocation

\* The quota and the cap are read before the job is inserted.  Requests that
\* race the check exceed them, but only by what the other requests in flight
\* carry: never by rows of one submit, by a job that failed, or at midnight.
FormRows(d) == Rows({i \in 1..Len(jobs) : jobs[i].by = "form" /\ jobs[i].st # "gone"
                                          /\ Day(jobs[i].at) = d})
OverrunByRacersOnly ==
    /\ Quota > 0 => \A d \in Days : FormRows(d) <= Quota + Racers * Max(RowCounts)
    /\ Cap > 0 /\ (\A i \in 1..Len(jobs) : jobs[i].by = "form") => ActiveJobCount <= Cap + Racers

\* What an account may submit is bounded in rows, in active jobs and in tickets.
AllowancesHold == TicketsSpentOnce /\ OverrunByRacersOnly

\* A recurring task is fired by its cadence at most once a day, through crashes
\* between the stamp and the job, failed stamps, edits that were opened before a
\* fire and saved after it, and tasks switched off and on.
FiredOncePerDay == \A k \in Tasks, d \in Days : fires[k][d] <= 1

\* A preset without nested intervals schedules a run into the next moment it may
\* run: from the submit on, no eligible hour comes before its start, the whole
\* occurrence is eligible, and it is not over.
Inside(p, t) == \E iv \in p.ivs, k \in -2..2 :
    /\ Expressible(p.freq, t, k)
    /\ WindowAt(p.freq, iv, t, k).s <= t /\ t < WindowAt(p.freq, iv, t, k).e
Nested(p, t) == \E v, w \in {NextInterval(p.freq, iv, t) : iv \in p.ivs} :
    v.s < w.s /\ w.e <= v.e
NextMoment(q, p) ==
    IF p.invert THEN \A t \in q.from..(q.runAt - 1) : Inside(p, t)
    ELSE /\ q.from < q.until
         /\ \A t \in q.from..(q.runAt - 1) : ~Inside(p, t)
         /\ \A t \in (IF q.runAt > q.from THEN q.runAt ELSE q.from)..(q.until - 1) : Inside(p, t)
WindowIsNext ==
    \A r \in Submitters : \A p \in req[r].preset :
       (~p.invert /\ Nested(p, req[r].from)) \/ NextMoment(req[r], p)

\* What the comment on nextWindow says of every union of intervals.
WindowIsAlwaysNext == \A r \in Submitters : \A p \in req[r].preset : NextMoment(req[r], p)
=============================================================================
