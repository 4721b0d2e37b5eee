------------------------------ MODULE Forecast ------------------------------
(***************************************************************************)
(* Settlement of one prediction set (forecast_eval.go, forecast_settle.go, *)
(* forecast_schedule.go, forecast_eval_store.go, forecast_ops.go): passes  *)
(* read the set, fetch the benchmark's and the stock's bars, and write a   *)
(* plan in one transaction.  The passes of one process exclude each other; *)
(* those of two instances over one database do not.                        *)
(*                                                                         *)
(* Time is counted in half days: slot 2*d is day d up to the moment its    *)
(* bars can be used, slot 2*d+1 the rest of it.  A price is known by the   *)
(* day the stock traded and the edition of the body that printed it.       *)
(***************************************************************************)
EXTENDS Integers, FiniteSets, FiniteSetsExt

CONSTANTS
  Evaluators,     \* instances of the program
  Checkpoints,    \* the checkpoints of a set,
  Nth,            \* and how many sessions after the start each one is
  Mixes,          \* [sessions, trades : days, made : the slot of the receipt, ops : SUBSET Ops,
                  \* preopen : it came before the open, priced : it named a price,
                  \* crew : the instances that run,
                  \* well : the slot from which every fetch succeeds]
  RetryTicks,     \* predRetryDeadlineTicks
  MinAttempts,    \* predFinalMinAttempts
  Silence,        \* the sessions of silence that confirm a halt
  Backoff,        \* predRetryBackoff in half days, by attempt
  Lags,           \* bound: half days a body may be old
  Horizon         \* bound: the last slot

Ops == {"purge", "mode", "unstamped", "revised", "fault", "lag", "adjust", "abandon"}
None == -100

Day(t) == t \div 2
Evening(t) == t % 2 = 1
CloseOf(d) == 2 * d + 1

ASSUME ForecastAssumption ==
  /\ IsFiniteSet(Evaluators) /\ IsFiniteSet(Checkpoints) /\ Checkpoints # {}
  /\ Nth \in [Checkpoints -> Nat \ {0}]
  /\ {RetryTicks, Silence} \subseteq Nat \ {0} /\ MinAttempts \in Nat /\ MinAttempts >= 3
  /\ Horizon \in Nat /\ Lags \subseteq Nat /\ 0 \in Lags
  /\ Backoff \in [1..3 -> Nat]
  /\ \A x \in Mixes :
       /\ {x.preopen, x.priced} \subseteq BOOLEAN /\ (x.preopen => ~Evening(x.made))
       /\ x.made \in 0..Horizon /\ x.ops \subseteq Ops /\ x.crew \subseteq Evaluators
       /\ x.sessions \subseteq 0..Day(Horizon) /\ x.trades \subseteq (None + 1)..Day(Horizon)

VARIABLES
  mix, now,
  mode,      \* forecast_auto, and for mode 1 the gate of the set's benchmark
  set,       \* the evaluator's columns of prediction_sets, and whether the row is there
  marks,     \* prediction_marks
  pass,      \* each instance: the pass it runs, with the rows the pass read
  failures   \* history: the failed attempts about a mark's own data

vars == <<mix, now, mode, set, marks, pass, failures>>

Open == {"pending", "refused"}            \* base_check that may still be written
Terminal == {"resolved", "refused_final"} \* statuses of a mark that may not
NoStart == [s0 |-> None, base |-> None, ed |-> 0]
NewMark == [status |-> "pending", code |-> "", attempts |-> 0, next |-> 0, session |-> None, bar |-> None,
            start |-> NoStart]
Idle == [on |-> FALSE]

Init ==
  /\ mix \in Mixes /\ now = mix.made /\ mode = "on"
  /\ set = [check |-> "pending", start |-> NoStart, here |-> TRUE]
  /\ marks = [m \in Checkpoints |-> NewMark]
  /\ pass = [p \in Evaluators |-> Idle]
  /\ failures = [m \in Checkpoints |-> 0]

-----------------------------------------------------------------------------
(* What a fetch brings.  A body holds what its source printed at body.at;  *)
(* one without a stamp is as of now.                                       *)
Last(S) == IF S = {} THEN None ELSE Max(S)
Printed(body) == {d \in mix.trades : d >= body.floor /\ d <= Day(body.at)}
(* newestBarFinal: the newest bar counts once its session has closed, by the stamp. *)
NewestFinal(body) ==
  \/ Last(Printed(body)) < (IF body.stamped THEN Day(body.at) ELSE Day(now))
  \/ body.stamped /\ Evening(body.at)
Bars(body) == IF NewestFinal(body) THEN Printed(body) ELSE Printed(body) \ {Last(Printed(body))}
Unverifiable(body) == IF ~body.stamped /\ Last(Printed(body)) = Day(now) THEN Day(now) ELSE None

LastBar(bars, d) == Last({x \in bars : x <= d})
ProvesCurrent(body, d) == body.stamped /\ (Day(body.at) > d \/ (Day(body.at) = d /\ Evening(body.at)))

(* completedSessions of an index body printed at slot t. *)
Completed(t) == {d \in mix.sessions : CloseOf(d) <= t}
PastDue(days, due) == Cardinality({d \in days : d > due})

-----------------------------------------------------------------------------
(* The schedule. *)
MadeOn == Day(mix.made)
PredS0(days) ==
  LET after == {d \in days : d > MadeOn \/ (d = MadeOn /\ ~Evening(mix.made))}
  IN  IF after = {} THEN None ELSE Min(after)
(* The session a checkpoint is due on, once the calendar shows it. *)
DueOn(days, s0, m) ==
  LET due == {d \in days : Cardinality({x \in days : s0 < x /\ x <= d}) = Nth[m] /\ d > s0}
  IN  IF s0 \in days /\ due # {} THEN Min(due) ELSE None

Least(a, b) == IF a < b THEN a ELSE b
(* The earliest moment a mark could be due if every weekday were a session. *)
WakeAt(row, m) ==
  LET s0 == IF row.start.s0 # None THEN row.start.s0 ELSE IF Evening(mix.made) THEN MadeOn + 1 ELSE MadeOn
      due == CloseOf(s0 + Nth[m])
  IN  IF row.check \in Open THEN Least(CloseOf(s0), due) ELSE due
(* predNotYetShown: ten minutes, or the next half day; rounded to the latter. *)
NotYetShown == now + 1
(* Attempts are counted as far as they matter: to the end, and to the longest backoff. *)
OneMore(n) == Least(n + 1, MinAttempts)
Waiting(m) == m.status = "refused" /\ now < m.next

-----------------------------------------------------------------------------
(* The price the report was written at: the last the market had printed, if any. *)
Emitted ==
  IF ~mix.priced THEN None ELSE LastBar(mix.trades, IF mix.preopen THEN MadeOn - 1 ELSE MadeOn)
Intraday == ~Evening(mix.made) /\ ~mix.preopen
KnownHoliday(days) == MadeOn \notin days /\ \E d \in days : d > MadeOn
Before(days, d) == Last({x \in days : x < d})

(* predBaseCheck: "wait" until the session of reference is complete and vouched for. *)
PredBaseCheck(bars, days, unver) ==
  LET inside == Intraday /\ ~KnownHoliday(days)
      ref == IF Evening(mix.made) THEN LastBar(days, MadeOn) ELSE Before(days, MadeOn)
      Prints(d) == d # None /\ Emitted # None /\ LastBar(bars, d) = Emitted
      inRange == MadeOn \in bars /\ Emitted = MadeOn
      undecided ==
        \/ inside /\ (MadeOn \notin days \/ unver = MadeOn)
        \/ Evening(mix.made) /\ MadeOn \notin days /\ ~KnownHoliday(days)
        \/ ~inside /\ ref # None /\ unver = ref
  IN  IF ~mix.priced THEN "mismatch"
      ELSE IF undecided THEN "wait"
      ELSE IF \/ Prints(Before(days, IF inside THEN MadeOn ELSE ref))
              \/ IF inside THEN inRange ELSE Prints(ref)
           THEN "match" ELSE "mismatch"

(* resolveStartBar: the close on S0, or the last one before it. *)
StartBar(bars, s0) == IF s0 \in bars THEN s0 ELSE LastBar(bars, s0)

-----------------------------------------------------------------------------
(* A plan: what one transaction writes.  .acts gives each mark that was    *)
(* read what happens to it: "wake", "source" or "mark" (a failed attempt   *)
(* of that class), "settle", "final", or "none".                           *)
Act == [kind |-> "none", at |-> 0, code |-> "", session |-> None, bar |-> None]
WakeUp(t) == [Act EXCEPT !.kind = "wake", !.at = t]
Refuse(class, code) == [Act EXCEPT !.kind = class, !.code = code]
Plan(start, acts) == [acts |-> acts, start |-> start, check |-> "", terminal |-> FALSE]
Read(p) == DOMAIN pass[p].marks

(* A delivery failed: what cannot be due yet is put off, the rest is no attempt. *)
SourceFailed(p) ==
  Plan(NoStart, [m \in Read(p) |-> LET wake == WakeAt(pass[p].set, m) IN
                   IF now < wake THEN WakeUp(wake) ELSE Refuse("source", "fetch_failed")])

(* The calendar, or the body, has not got to the day the start depends on. *)
NotDue(p) ==
  Plan(NoStart, [m \in Read(p) |-> LET wake == WakeAt(pass[p].set, m) IN
                   WakeUp(IF now < wake THEN wake ELSE NotYetShown)])

(* Nothing was traded at or before the start: an attempt of every mark, and the end of the set after enough. *)
NoBase(p, s0, days) ==
  [Plan(NoStart, [m \in Read(p) |-> Refuse("mark", "no_base")]) EXCEPT
     !.terminal = /\ PastDue(days, s0) >= RetryTicks
                  /\ \A m \in Read(p) : pass[p].marks[m].attempts + 1 >= MinAttempts]

(* Mutant of Exhausted: the deadline ends a mark whatever failed. *)
ExhaustedByClock(m, class, days, due) == PastDue(days, due) >= RetryTicks
Exhausted(m, class, days, due) ==
  class = "mark" /\ m.attempts + 1 >= MinAttempts /\ PastDue(days, due) >= RetryTicks

(* settleMark, for a mark due on session d. *)
SettleMark(d, start, days, index, body, adj, valve) ==
  LET bars == Bars(body)
      bar == LastBar(bars, d)
      unproven == bar < d /\ ~ProvesCurrent(body, d)
  IN  IF Unverifiable(body) = d THEN Refuse("mark", "unverifiable")
      ELSE IF bar < start.base THEN Refuse("mark", "no_bar")
      ELSE IF start.base \in bars /\ body.ed # start.ed THEN Refuse("mark", "anchor_mismatch")
      ELSE IF {x \in bars : start.base <= x /\ x <= d} \ index # {} THEN Refuse("mark", "calendar_mismatch")
      ELSE IF unproven /\ valve THEN Refuse("source", "calendar_lag")
      ELSE IF unproven /\ PastDue(days, d) < Silence THEN Refuse("mark", "stale_bar")
      ELSE IF adj = "missing" THEN Refuse("source", "fetch_failed")
      ELSE [Act EXCEPT !.kind = "settle", !.session = d, !.bar = bar]

(* The marks of a set whose start is known.  The adjusted closes are asked *)
(* for once, if one of the marks can settle.                               *)
SettleMarks(p, start, days, index, body, reply, valve) ==
  LET mark(c) == pass[p].marks[c]
      On(c) == DueOn(days, start.s0, c)
      due == {c \in Read(p) : ~Waiting(mark(c)) /\ On(c) # None}
      needAdj == start.base \in index /\ \E c \in due : LastBar(Bars(body), On(c)) >= start.base
      adj == IF needAdj THEN reply ELSE "ok"
      Settled(c) ==
        LET act == SettleMark(On(c), start, days, index, body, adj, valve) IN
        IF act.kind # "settle" /\ Exhausted(mark(c), act.kind, days, On(c)) THEN [act EXCEPT !.kind = "final"] ELSE act
      wake(c) == WakeAt([check |-> "match", start |-> start], c)
  IN  [c \in Read(p) |->
         IF c \in due THEN IF adj = "failed" THEN Refuse("source", "fetch_failed") ELSE Settled(c)
         ELSE IF adj = "failed" THEN Act
         ELSE IF Waiting(mark(c)) THEN WakeUp(mark(c).next)
         ELSE WakeUp(IF now < wake(c) THEN wake(c) ELSE NotYetShown)]

(* The first pass that knows the start of the set.  wide is what the       *)
(* look-back brings when the window holds no price: nothing, the stock's   *)
(* bars, or the benchmark's too.                                           *)
FindStart(p, days, body, wide, reply, valve) ==
  LET s0 == PredS0(days)
      check == PredBaseCheck(Bars(body), days, Unverifiable(body))
      looks == StartBar(Bars(body), s0) = None
      seen == IF looks THEN [body EXCEPT !.floor = None] ELSE body
      start == [s0 |-> s0, base |-> StartBar(Bars(seen), s0), ed |-> body.ed]
      index == IF looks /\ wide = "both" THEN days \cup {d \in mix.trades : d < 0} ELSE days
  IN  IF check = "wait" \/ s0 = None THEN NotDue(p)
      ELSE IF looks /\ wide = "none" THEN Plan(NoStart, [m \in Read(p) |-> Refuse("source", "fetch_failed")])
      ELSE IF start.base = None THEN NoBase(p, s0, days)
      ELSE [Plan(start, SettleMarks(p, start, days, index, seen, reply, valve)) EXCEPT !.check = check]

(* evaluateSet, with the calendar as it was printed at slot index. *)
EvaluateSet(p, index, body, wide, reply, valve) ==
  LET days == Completed(index)
      row == pass[p].set
  IN  IF Bars(body) = {} /\ Unverifiable(body) = None THEN SourceFailed(p)
      ELSE IF row.check \in Open THEN FindStart(p, days, body, wide, reply, valve)
      ELSE Plan(row.start, SettleMarks(p, row.start, days, days, body, reply, valve))

-----------------------------------------------------------------------------
(* ApplyForecastPlan.  Every write is guarded by the row it meets. *)

(* Mutant of Raced: the plan goes on when the start was not the one written. *)
RacedGoesOn(plan) == FALSE
(* Another pass has written the start since this one read the set. *)
Raced(plan) == plan.check # "" /\ set.check \notin Open

(* Mutant of Written: a conclusion may be written over another. *)
WrittenOver(m, act) ==
  LET row == marks[m]
      open == row.status \notin Terminal
  IN  CASE act.kind = "wake" /\ open -> [row EXCEPT !.next = act.at]
        [] act.kind = "source" /\ open -> [row EXCEPT !.status = "refused", !.code = act.code, !.next = now]
        [] act.kind = "mark" /\ open ->
             [row EXCEPT !.status = "refused", !.code = act.code, !.attempts = OneMore(@), !.next = now + act.at]
        [] act.kind = "final" ->
             [row EXCEPT !.status = "refused_final", !.code = act.code, !.attempts = OneMore(@)]
        [] act.kind = "settle" ->
             [row EXCEPT !.status = "resolved", !.code = "", !.session = act.session, !.bar = act.bar]
        [] OTHER -> row

(* A mark that has not ended is put off, refused, settled or ended. *)
Written(m, act) ==
  LET row == marks[m] IN
  IF row.status \in Terminal THEN row
  ELSE CASE act.kind = "wake" -> [row EXCEPT !.next = act.at]
         [] act.kind = "source" -> [row EXCEPT !.status = "refused", !.code = act.code, !.next = now]
         [] act.kind = "mark" ->
              [row EXCEPT !.status = "refused", !.code = act.code, !.attempts = OneMore(@), !.next = now + act.at]
         [] act.kind = "final" ->
              [row EXCEPT !.status = "refused_final", !.code = act.code, !.attempts = OneMore(@)]
         [] act.kind = "settle" ->
              [row EXCEPT !.status = "resolved", !.code = "", !.session = act.session, !.bar = act.bar]
         [] OTHER -> row

(* finishForecastBaselineTerminalTx ends every mark that has not ended. *)
GivenUp(row) == IF row.status \in Terminal THEN row ELSE [row EXCEPT !.status = "refused_final", !.code = "no_base"]

PutOff(p, m, act) ==
  IF act.kind = "mark" THEN [act EXCEPT !.at = Backoff[Least(pass[p].marks[m].attempts + 1, 3)]] ELSE act

ApplyPlan(p, plan) ==
  IF ~set.here \/ Raced(plan) THEN UNCHANGED <<set, marks, failures>>
  ELSE LET row(m) == IF m \in Read(p) THEN
                       LET new == Written(m, PutOff(p, m, plan.acts[m])) IN
                       IF plan.acts[m].kind = "settle" /\ new # marks[m] THEN [new EXCEPT !.start = plan.start] ELSE new
                     ELSE marks[m]
           counts(m) == m \in Read(p) /\ plan.acts[m].kind \in {"mark", "final"} /\ marks[m].status \notin Terminal
       IN  /\ set' = IF set.check \notin Open THEN set
                     ELSE IF plan.terminal THEN [set EXCEPT !.check = "refused_final"]
                     ELSE IF plan.check # "" THEN [set EXCEPT !.check = plan.check, !.start = plan.start]
                     ELSE set
           /\ marks' = [m \in Checkpoints |-> IF plan.terminal THEN GivenUp(row(m)) ELSE row(m)]
           /\ failures' = [m \in Checkpoints |-> IF counts(m) THEN OneMore(failures[m]) ELSE failures[m]]

-----------------------------------------------------------------------------
(* Mutant of Due: a refused mark is not taken up again. *)
DuePending(m) == m.status = "pending" /\ m.next <= now
Due(m) == m.status \notin Terminal /\ m.next <= now

HasWork == set.here /\ \E m \in Checkpoints : Due(marks[m])
Allowed(op) == op \in mix.ops /\ now < mix.well

(* step and runForecastNow: one pass of an instance at a time.  In mode 2  *)
(* (dry) only the manual one runs, and writes nothing.                     *)
Begin(p) ==
  /\ p \in mix.crew /\ ~pass[p].on /\ mode # "off" /\ HasWork
  /\ pass' = [pass EXCEPT ![p] = [on |-> TRUE, mode |-> mode, set |-> set,
        marks |-> [m \in {c \in Checkpoints : marks[c].status \notin Terminal} |-> marks[m]]]]
  /\ UNCHANGED <<mix, now, mode, set, marks, failures>>

Finish(p, plan) ==
  /\ pass' = [pass EXCEPT ![p] = Idle]
  /\ IF pass[p].mode = "on" THEN ApplyPlan(p, plan) ELSE UNCHANGED <<set, marks, failures>>
  /\ UNCHANGED <<mix, now, mode>>

(* wakeOnlyPlan: no mark that was read can be due, so nothing is fetched. *)
Future(p, m) ==
  LET row == pass[p].marks[m] IN
  IF row.status = "refused" THEN row.next ELSE WakeAt(pass[p].set, m)
AllFuture(p) == \A m \in Read(p) : now < Future(p, m)
WakeOnly(p) ==
  /\ pass[p].on /\ AllFuture(p)
  /\ Finish(p, Plan(NoStart, [m \in Read(p) |-> WakeUp(Future(p, m))]))

(* The benchmark or the stock was not delivered, or cannot be a calendar. *)
FetchFails(p) ==
  /\ pass[p].on /\ ~AllFuture(p) /\ Allowed("fault")
  /\ Finish(p, SourceFailed(p))

Ages == IF Allowed("lag") THEN {now - k : k \in Lags} ELSE {now}
Bodies ==
  [at : Ages, stamped : {TRUE}, ed : IF "revised" \in mix.ops THEN {0, 1} ELSE {0}, floor : {0}]
    \cup (IF Allowed("unstamped") THEN {[at |-> now, stamped |-> FALSE, ed |-> 0, floor |-> 0]} ELSE {})
Evaluate(p) ==
  /\ pass[p].on /\ ~AllFuture(p)
  /\ \E index \in Ages, body \in Bodies :
     \E wide \in IF Allowed("fault") THEN {"none", "stock", "both"} ELSE {"both"},
        reply \in IF Allowed("adjust") THEN {"ok", "missing", "failed"} ELSE {"ok"},
        valve \in IF Allowed("lag") THEN BOOLEAN ELSE {FALSE} :
       Finish(p, EvaluateSet(p, index, body, wide, reply, valve))

(* The vendor's scheduler defers a request, the pass runs out of time or   *)
(* panics, or the process dies: nothing of the plan is written.            *)
Abandon(p) ==
  /\ pass[p].on /\ Allowed("abandon")
  /\ pass' = [pass EXCEPT ![p] = Idle]
  /\ UNCHANGED <<mix, now, mode, set, marks, failures>>

(* The month's predictions are deleted. *)
Purge ==
  /\ "purge" \in mix.ops /\ set.here
  /\ set' = [set EXCEPT !.here = FALSE]
  /\ UNCHANGED <<mix, now, mode, marks, pass, failures>>

SetMode(x) ==
  /\ Allowed("mode") /\ x # mode /\ mode' = x
  /\ UNCHANGED <<mix, now, set, marks, pass, failures>>

(* A pass a minute: once all is well none is left behind by half a day. *)
Tick ==
  /\ now < Horizon
  /\ now + 1 >= mix.well => mode = "on"
  /\ now >= mix.well => ~HasWork /\ \A p \in Evaluators : ~pass[p].on
  /\ now' = now + 1
  /\ UNCHANGED <<mix, mode, set, marks, pass, failures>>

Next ==
  \/ Tick
  \/ Purge
  \/ \E x \in {"off", "dry", "on"} : SetMode(x)
  \/ \E p \in Evaluators : Begin(p) \/ WakeOnly(p) \/ FetchFails(p) \/ Evaluate(p) \/ Abandon(p)

Spec == Init /\ [][Next]_vars
(* The loop wakes every minute, a pass ends within two (its context), the  *)
(* operator leaves the switch on in the end.                               *)
Ends(p) == pass[p].on /\ pass' = [pass EXCEPT ![p] = Idle]
FairSpec ==
  /\ Spec /\ SF_vars(Tick) /\ SF_vars(SetMode("on"))
  /\ \A p \in Evaluators : WF_vars(Begin(p)) /\ WF_pass(Ends(p))

-----------------------------------------------------------------------------
Answered == {"match", "mismatch"}
NthSession(s0, m) == DueOn(mix.sessions, s0, m)

TypeOK ==
  /\ mix \in Mixes /\ now \in 0..Horizon /\ mode \in {"off", "dry", "on"}
  /\ set.check \in Open \cup Answered \cup {"refused_final"}
  /\ \A m \in Checkpoints : marks[m].status \in {"pending", "refused"} \cup Terminal
  /\ \A p \in Evaluators : pass[p].on => Read(p) \subseteq Checkpoints

(* Every mark of a set is measured from the one start that is stored. *)
OneStart ==
  \A m \in Checkpoints : marks[m].status = "resolved" =>
    set.check \in Answered /\ marks[m].start = set.start

(* A settled mark is measured from the start that is stored, on its own    *)
(* session of the calendar, after that session, and on the last price the  *)
(* stock had by then, unless nothing was heard of the stock for longer.    *)
MeasuredRight ==
  /\ TypeOK /\ OneStart
  /\ set.check \in Answered => set.start.s0 = PredS0(mix.sessions)
  /\ \A m \in Checkpoints : marks[m].status = "resolved" =>
       LET row == marks[m] IN
       /\ row.session = NthSession(set.start.s0, m) /\ CloseOf(row.session) <= now
       /\ \/ row.bar = LastBar(mix.trades, row.session)
          \/ PastDue(Completed(now), row.session) >= Silence

(* An outage never ends a mark: the attempts that end it failed on its own data. *)
FailedEnough == \A m \in Checkpoints : marks[m].status = "refused_final" => failures[m] >= MinAttempts

(* A mark is given up only after enough failed attempts about its own data *)
(* and enough sessions since it was due.                                   *)
FinalIsExhausted ==
  /\ FailedEnough
  /\ \A m \in Checkpoints : marks[m].status = "refused_final" =>
       LET s0 == PredS0(mix.sessions)
           due == IF marks[m].code = "no_base" THEN s0 ELSE NthSession(s0, m)
       IN  PastDue(Completed(now), due) >= RetryTicks

(* A conclusion stands, and so does the start it was measured from. *)
ConclusionsStand ==
  [][/\ \A m \in Checkpoints : marks[m].status \in Terminal => marks'[m] = marks[m]
     /\ set.check \notin Open => set'.check = set.check /\ set'.start = set.start]_vars

(* Once the vendor answers, every mark is settled or given up. *)
EveryMarkConcludes ==
  \A m \in Checkpoints : <>(~set.here \/ marks[m].status \in Terminal)

(* resolveStartBar: "base_date is the stock's close on S0 when it traded". *)
StartIsTheClose == set.check \in Answered /\ set.start.s0 \in mix.trades => set.start.base = set.start.s0

(* settleMark: "A resumed or delisted stock keeps the halt flag; it never stays refused". *)
HaltsSettle == \A m \in Checkpoints : marks[m].status = "refused_final" => marks[m].code # "no_bar"
=============================================================================
