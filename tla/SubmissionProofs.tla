-------------------------- MODULE SubmissionProofs --------------------------
(***************************************************************************)
(* Theorems of submission, tickets and recurring runs, for any number of   *)
(* requests and tasks, every quota, cap, allocation and calendar.          *)
(***************************************************************************)
EXTENDS Submission, SumLemmas, SequenceTheorems, TLAPS

-----------------------------------------------------------------------------
(* Days. *)

LEMMA CalendarFacts ==
  /\ HoursPerDay \in Nat /\ HoursPerDay > 0 /\ Horizon \in Nat
  /\ Day(0) = 0
  /\ \A t \in Nat : Day(t) \in Nat
  /\ \A t, s \in Nat : t <= s => Day(t) <= Day(s)
<1>1. HoursPerDay \in Nat /\ HoursPerDay > 0 /\ Horizon \in Nat
  BY CalendarAssumption, SubmissionAssumption
<1>2. \A t \in Nat : Day(t) \in Nat
  BY <1>1 DEF Day
<1>3. Day(0) = 0
  BY <1>1 DEF Day
<1>4. \A t, s \in Nat : t <= s => Day(t) <= Day(s)
  BY <1>1 DEF Day
<1> QED
  BY <1>1, <1>2, <1>3, <1>4

(* What a step does to one row of recurring_tasks. *)
TaskRow == [st : {"none", "stored", "deleted"}, enabled : BOOLEAN,
            cad : Cadences \cup {NoTask.cad}, last : Nat \cup {NeverFired}]

TasksTyped ==
  /\ now \in Nat /\ now <= Horizon
  /\ task \in [Tasks -> TaskRow]
  /\ fires \in [Tasks -> [Days -> Nat]]
  /\ tick.pc \in {"idle", "listed", "stamped"}
  /\ tick = [pc |-> tick.pc, rows |-> tick.rows, cur |-> tick.cur]
  /\ tick.pc # "idle" => \A e \in tick.rows : e[1] \in Tasks
  /\ tick.pc = "stamped" => tick.cur \in Tasks

(* Today, the task has not been fired. *)
Unfired(k) == fires[k][Day(now)] = 0

(* A task that fired today carries today's stamp, or it was deleted since. *)
StampedFirst ==
  /\ \A k \in Tasks, d \in Days : d > Day(now) => fires[k][d] = 0
  /\ \A k \in Tasks : Unfired(k) \/ task[k].st = "deleted" \/ (task[k].st = "stored" /\ task[k].last = Day(now))

(* What the tick has listed has not fired today, is listed once, and is    *)
(* still there unless it was deleted.                                      *)
ListedOnce ==
  /\ tick.pc # "idle" =>
       /\ \A e \in tick.rows : Unfired(e[1]) /\ task[e[1]].st # "none"
       /\ \A e, f \in tick.rows : e[1] = f[1] => e = f
  /\ tick.pc = "stamped" =>
       /\ Unfired(tick.cur)
       /\ task[tick.cur].st = "deleted" \/ (task[tick.cur].st = "stored" /\ task[tick.cur].last = Day(now))
       /\ \A e \in tick.rows : e[1] # tick.cur

TasksInv == TasksTyped /\ FiredOncePerDay /\ StampedFirst /\ ListedOnce

LEMMA TasksInit == Init => TasksInv
<1> SUFFICES ASSUME Init PROVE TasksInv
  OBVIOUS
<1>1. now = 0 /\ now \in Nat /\ now <= Horizon
  BY CalendarFacts DEF Init
<1>2. \A k \in Tasks : task[k] = NoTask /\ \A d \in Days : fires[k][d] = 0
  BY DEF Init
<1>3. NoTask \in TaskRow
  BY DEF NoTask, TaskRow, NeverFired
<1>4. task \in [Tasks -> TaskRow] /\ fires \in [Tasks -> [Days -> Nat]]
  BY <1>3 DEF Init
<1>5. tick.pc = "idle" /\ tick = [pc |-> tick.pc, rows |-> tick.rows, cur |-> tick.cur]
  BY DEF Init, IdleTick
<1>6. 0 \in Days
  BY <1>1, CalendarFacts DEF Days
<1>7. TasksTyped
  BY <1>1, <1>4, <1>5 DEF TasksTyped
<1>8. StampedFirst
  BY <1>1, <1>2, <1>6, CalendarFacts DEF StampedFirst, Unfired
<1>9. FiredOncePerDay
  BY <1>2 DEF FiredOncePerDay
<1>10. ListedOnce
  BY <1>5 DEF ListedOnce
<1> QED
  BY <1>7, <1>8, <1>9, <1>10 DEF TasksInv

(* The steps that touch neither the tasks nor the tick nor the clock. *)
Elsewhere == UNCHANGED <<now, task, fires, tick>>
LEMMA ElsewhereKeeps == ASSUME TasksInv, Elsewhere PROVE TasksInv'
<1> USE DEF Elsewhere
<1>1. TasksTyped' /\ FiredOncePerDay'
  BY DEF TasksInv, TasksTyped, FiredOncePerDay
<1>2. StampedFirst'
  BY DEF TasksInv, StampedFirst, Unfired
<1>3. ListedOnce'
  BY DEF TasksInv, ListedOnce, Unfired
<1> QED
  BY <1>1, <1>2, <1>3 DEF TasksInv

(* An edit keeps the stamp, and never brings back a task that was deleted. *)
Edited ==
  /\ UNCHANGED <<now, fires, tick>>
  /\ task' \in [Tasks -> TaskRow]
  /\ \A k \in Tasks : \/ task'[k].st = task[k].st /\ task'[k].last = task[k].last
                      \/ task[k].st = "none" /\ task'[k].st = "stored"
                      \/ task'[k].st = "deleted"
LEMMA EditedKeeps == ASSUME TasksInv, Edited PROVE TasksInv'
<1>1. now' = now /\ fires' = fires /\ tick' = tick
  BY DEF Edited
<1>2. TasksTyped' /\ FiredOncePerDay'
  BY <1>1 DEF TasksInv, TasksTyped, FiredOncePerDay, Edited
<1>3. \A k \in Tasks : Unfired(k)' <=> Unfired(k)
  BY <1>1 DEF Unfired
<1>4. StampedFirst'
  <2>1. ASSUME NEW k \in Tasks
        PROVE  Unfired(k) \/ task'[k].st = "deleted" \/ (task'[k].st = "stored" /\ task'[k].last = Day(now))
    BY DEF TasksInv, StampedFirst, Edited
  <2>2. \A k \in Tasks, d \in Days : d > Day(now) => fires[k][d] = 0
    BY DEF TasksInv, StampedFirst
  <2> QED
    BY <1>1, <1>3, <2>1, <2>2 DEF StampedFirst
<1>5. ListedOnce'
  <2>1. tick.pc # "idle" => \A e \in tick.rows : e[1] \in Tasks /\ Unfired(e[1])' /\ task'[e[1]].st # "none"
    BY <1>3 DEF TasksInv, TasksTyped, ListedOnce, Edited
  <2>2. tick.pc = "stamped" =>
          /\ tick.cur \in Tasks /\ Unfired(tick.cur)'
          /\ task'[tick.cur].st = "deleted" \/ (task'[tick.cur].st = "stored" /\ task'[tick.cur].last = Day(now))
    BY <1>3 DEF TasksInv, TasksTyped, ListedOnce, Edited
  <2>3. /\ tick.pc # "idle" => \A e, f \in tick.rows : e[1] = f[1] => e = f
        /\ tick.pc = "stamped" => \A e \in tick.rows : e[1] # tick.cur
    BY DEF TasksInv, ListedOnce
  <2>4. (tick.pc = "stamped" => Unfired(tick.cur))'
    BY <1>1, <2>2 DEF Unfired
  <2>5. (tick.pc # "idle" => \A e \in tick.rows : Unfired(e[1]) /\ task[e[1]].st # "none")'
    BY <1>1, <2>1
  <2>6. (tick.pc = "stamped" =>
           task[tick.cur].st = "deleted" \/ (task[tick.cur].st = "stored" /\ task[tick.cur].last = Day(now)))'
    BY <1>1, <2>2
  <2>7. (tick.pc # "idle" => \A e, f \in tick.rows : e[1] = f[1] => e = f)'
    BY <1>1, <2>3
  <2>8. (tick.pc = "stamped" => \A e \in tick.rows : e[1] # tick.cur)'
    BY <1>1, <2>3
  <2> QED
    BY <2>4, <2>5, <2>6, <2>7, <2>8 DEF ListedOnce
<1> QED
  BY <1>2, <1>4, <1>5 DEF TasksInv

LEMMA EditsAreEdited ==
  ASSUME TasksInv,
         UpdateRecurringTask \/ \E k \in Tasks : CreateTask(k) \/ SetRecurringEnabled(k) \/ DeleteRecurringTask(k)
  PROVE  Edited
<1>1. task \in [Tasks -> TaskRow]
  BY DEF TasksInv, TasksTyped
<1>2. CASE UpdateRecurringTask
  <2>1. PICK c \in Cadences, on \in BOOLEAN :
          task' = [task EXCEPT ![edit.k] = IF @.st = "stored" THEN [@ EXCEPT !.cad = c, !.enabled = on] ELSE @]
    BY <1>2 DEF UpdateRecurringTask
  <2>2. \A k \in Tasks : task[k] \in TaskRow
    BY <1>1
  <2>3. \A k \in Tasks : task'[k] = IF k = edit.k /\ task[k].st = "stored"
                                    THEN [task[k] EXCEPT !.cad = c, !.enabled = on] ELSE task[k]
    BY <1>1, <2>1
  <2>4. ASSUME NEW k \in Tasks
        PROVE  task'[k] \in TaskRow /\ task'[k].st = task[k].st /\ task'[k].last = task[k].last
    <3> DEFINE r == [task[k] EXCEPT !.cad = c, !.enabled = on]
    <3>1. task[k] \in TaskRow
      BY <2>2
    <3>2. r \in TaskRow
      BY <3>1 DEF TaskRow
    <3>3. r.st = task[k].st /\ r.last = task[k].last
      BY <3>1 DEF TaskRow
    <3>4. task'[k] = r \/ task'[k] = task[k]
      BY <2>3
    <3> QED
      BY <3>1, <3>2, <3>3, <3>4
  <2>5. task' = [k \in Tasks |-> task'[k]]
    BY <1>1, <2>1
  <2>6. task' \in [Tasks -> TaskRow]
    BY <2>4, <2>5
  <2> QED
    BY <1>2, <2>4, <2>6 DEF Edited, UpdateRecurringTask
<1>3. ASSUME NEW k \in Tasks, CreateTask(k) PROVE Edited
  BY <1>1, <1>3 DEF CreateTask, Edited, TaskRow, NoTask, NeverFired
<1>4. ASSUME NEW k \in Tasks, SetRecurringEnabled(k) PROVE Edited
  BY <1>1, <1>4 DEF SetRecurringEnabled, Edited, TaskRow
<1>5. ASSUME NEW k \in Tasks, DeleteRecurringTask(k) PROVE Edited
  BY <1>1, <1>5 DEF DeleteRecurringTask, Edited, TaskRow
<1> QED
  BY <1>2, <1>3, <1>4, <1>5
(* A due task has not fired today: its stamp would say so. *)
LEMMA ListingKeeps == ASSUME TasksInv, EnabledRecurringTasks PROVE TasksInv'
<1> DEFINE Due == {j \in Tasks : Stored(j) /\ task[j].enabled /\ CadenceDue(task[j].cad, task[j].last, now)}
           R == {<<k, task[k]>> : k \in Due}
<1>1. UNCHANGED <<now, task, fires>> /\ tick' = [pc |-> "listed", rows |-> R, cur |-> 0]
  BY DEF EnabledRecurringTasks
<1>2. ASSUME NEW k \in Due PROVE k \in Tasks /\ Unfired(k) /\ task[k].st = "stored"
  <2>1. k \in Tasks /\ task[k].st = "stored" /\ task[k].last # Day(now)
    BY DEF CadenceDue, Stored
  <2> QED
    BY <2>1 DEF TasksInv, StampedFirst
<1> HIDE DEF Due
<1>3. \A e \in R : e[1] \in Tasks /\ Unfired(e[1]) /\ task[e[1]].st # "none"
  BY <1>2
<1>4. \A e, f \in R : e[1] = f[1] => e = f
  OBVIOUS
<1> HIDE DEF R
<1>5. /\ tick'.pc = "listed" /\ tick'.rows = R
      /\ tick' = [pc |-> tick'.pc, rows |-> tick'.rows, cur |-> tick'.cur]
  BY <1>1
<1>6. TasksTyped' /\ FiredOncePerDay' /\ StampedFirst'
  BY <1>1, <1>3, <1>5 DEF TasksInv, TasksTyped, FiredOncePerDay, StampedFirst, Unfired
<1>7. ListedOnce'
  BY <1>1, <1>3, <1>4, <1>5 DEF ListedOnce, Unfired
<1> QED
  BY <1>6, <1>7 DEF TasksInv

(* The stamp is written before the task is fired, or the task is skipped. *)
LEMMA StampKeeps == ASSUME TasksInv, MarkRecurringFired PROVE TasksInv'
<1>1. PICK e \in tick.rows :
        /\ tick.pc = "listed"
        /\ \/ /\ task' = [task EXCEPT ![e[1]] = IF @.st = "stored" THEN [@ EXCEPT !.last = Day(now)] ELSE @]
              /\ tick' = [tick EXCEPT !.pc = "stamped", !.rows = @ \ {e}, !.cur = e[1]]
           \/ /\ UNCHANGED task
              /\ tick' = [tick EXCEPT !.rows = @ \ {e}]
  BY DEF MarkRecurringFired
<1>2. now' = now /\ fires' = fires
  BY DEF MarkRecurringFired
<1>3. /\ tick = [pc |-> tick.pc, rows |-> tick.rows, cur |-> tick.cur]
      /\ task \in [Tasks -> TaskRow] /\ now \in Nat /\ now <= Horizon /\ fires \in [Tasks -> [Days -> Nat]]
      /\ \A f \in tick.rows : f[1] \in Tasks /\ Unfired(f[1]) /\ task[f[1]].st # "none"
      /\ \A f, g \in tick.rows : f[1] = g[1] => f = g
      /\ \A k \in Tasks, d \in Days : d > Day(now) => fires[k][d] = 0
      /\ \A k \in Tasks : Unfired(k) \/ task[k].st = "deleted" \/ (task[k].st = "stored" /\ task[k].last = Day(now))
  BY <1>1 DEF TasksInv, TasksTyped, ListedOnce, StampedFirst
<1>4. \A k : Unfired(k)' <=> Unfired(k)
  BY <1>2 DEF Unfired
<1>5. FiredOncePerDay'
  BY <1>2 DEF TasksInv, FiredOncePerDay
<1>6. CASE /\ task' = [task EXCEPT ![e[1]] = IF @.st = "stored" THEN [@ EXCEPT !.last = Day(now)] ELSE @]
           /\ tick' = [tick EXCEPT !.pc = "stamped", !.rows = @ \ {e}, !.cur = e[1]]
  <2>1. /\ tick'.pc = "stamped" /\ tick'.rows = tick.rows \ {e} /\ tick'.cur = e[1]
        /\ tick' = [pc |-> tick'.pc, rows |-> tick'.rows, cur |-> tick'.cur]
    <3>1. tick' = [pc |-> "stamped", rows |-> tick.rows \ {e}, cur |-> e[1]]
      BY <1>3, <1>6
    <3> QED
      BY <3>1
  <2>2. \A k \in Tasks : task'[k] = IF k = e[1] /\ task[k].st = "stored"
                                    THEN [task[k] EXCEPT !.last = Day(now)] ELSE task[k]
    BY <1>3, <1>6
  <2>3. ASSUME NEW k \in Tasks
        PROVE  /\ task'[k] \in TaskRow /\ task'[k].st = task[k].st
               /\ k = e[1] /\ task[k].st = "stored" => task'[k].last = Day(now)
               /\ task'[k].last = task[k].last \/ task'[k].last = Day(now)
    <3> DEFINE r == [task[k] EXCEPT !.last = Day(now)]
    <3>1. task[k] \in TaskRow /\ Day(now) \in Nat
      BY <1>3, CalendarFacts
    <3>2. r \in TaskRow
      BY <3>1 DEF TaskRow
    <3>3. r.st = task[k].st /\ r.last = Day(now)
      BY <3>1 DEF TaskRow
    <3>4. task'[k] = r \/ task'[k] = task[k]
      BY <2>2
    <3>5. k = e[1] /\ task[k].st = "stored" => task'[k] = r
      BY <2>2
    <3> QED
      BY <3>1, <3>2, <3>3, <3>4, <3>5
  <2>4. task' \in [Tasks -> TaskRow]
    <3>1. task' = [k \in Tasks |-> task'[k]]
      BY <1>3, <1>6
    <3> QED
      BY <2>3, <3>1
  <2>5. TasksTyped'
    BY <1>2, <1>3, <2>1, <2>4 DEF TasksTyped
  <2>6. StampedFirst'
    <3>1. ASSUME NEW k \in Tasks
          PROVE  Unfired(k)' \/ task'[k].st = "deleted" \/ (task'[k].st = "stored" /\ task'[k].last = Day(now))
      BY <1>3, <1>4, <2>3
    <3> QED
      BY <1>2, <1>3, <3>1 DEF StampedFirst
  <2>7. ListedOnce'
    <3>1. (\A f \in tick.rows : Unfired(f[1]) /\ task[f[1]].st # "none")'
      BY <1>3, <1>4, <2>1, <2>3
    <3>2. (\A f, g \in tick.rows : f[1] = g[1] => f = g)'
      BY <1>3, <2>1
    <3>3. Unfired(e[1])' /\ e[1] \in Tasks
      BY <1>3, <1>4
    <3>4. Unfired(tick.cur)'
      BY <2>1, <3>3 DEF Unfired
    <3>5. task'[e[1]].st = "deleted" \/ (task'[e[1]].st = "stored" /\ task'[e[1]].last = Day(now))
      <4>1. task[e[1]].st \in {"stored", "deleted"}
        BY <1>3 DEF TaskRow
      <4> QED
        BY <2>3, <3>3, <4>1
    <3>6. (task[tick.cur].st = "deleted" \/ (task[tick.cur].st = "stored" /\ task[tick.cur].last = Day(now)))'
      BY <1>2, <2>1, <3>5
    <3>7. (\A f \in tick.rows : f[1] # tick.cur)'
      BY <1>3, <2>1
    <3> QED
      BY <2>1, <3>1, <3>2, <3>4, <3>6, <3>7 DEF ListedOnce
  <2> QED
    BY <1>5, <2>5, <2>6, <2>7 DEF TasksInv
<1>7. CASE UNCHANGED task /\ tick' = [tick EXCEPT !.rows = @ \ {e}]
  <2>1. /\ tick'.pc = "listed" /\ tick'.rows = tick.rows \ {e}
        /\ tick' = [pc |-> tick'.pc, rows |-> tick'.rows, cur |-> tick'.cur]
    <3>1. tick' = [pc |-> "listed", rows |-> tick.rows \ {e}, cur |-> tick.cur]
      BY <1>1, <1>3, <1>7
    <3> QED
      BY <3>1
  <2>2. TasksTyped'
    BY <1>2, <1>3, <1>7, <2>1 DEF TasksTyped
  <2>3. StampedFirst'
    BY <1>2, <1>3, <1>4, <1>7 DEF StampedFirst
  <2>4. ListedOnce'
    BY <1>3, <1>4, <1>7, <2>1 DEF ListedOnce
  <2> QED
    BY <1>5, <2>2, <2>3, <2>4 DEF TasksInv
<1> QED
  BY <1>1, <1>6, <1>7

(* The task in hand is fired for the first time today, or not at all. *)
LEMMA FireKeeps == ASSUME TasksInv, FireRecurringTask PROVE TasksInv'
<1>1. now' = now /\ task' = task /\ tick' = [tick EXCEPT !.pc = "listed"] /\ tick.pc = "stamped"
  BY DEF FireRecurringTask
<1>2. /\ tick'.pc = "listed" /\ tick'.rows = tick.rows
      /\ tick' = [pc |-> tick'.pc, rows |-> tick'.rows, cur |-> tick'.cur]
  <2>1. tick' = [pc |-> "listed", rows |-> tick.rows, cur |-> tick.cur]
    BY <1>1 DEF TasksInv, TasksTyped
  <2> QED
    BY <2>1
<1>3. /\ tick.cur \in Tasks /\ Unfired(tick.cur)
      /\ task[tick.cur].st = "deleted" \/ (task[tick.cur].st = "stored" /\ task[tick.cur].last = Day(now))
      /\ \A e \in tick.rows : e[1] \in Tasks /\ e[1] # tick.cur /\ Unfired(e[1]) /\ task[e[1]].st # "none"
      /\ \A e, f \in tick.rows : e[1] = f[1] => e = f
      /\ fires \in [Tasks -> [Days -> Nat]] /\ now \in Nat /\ now <= Horizon
      /\ task \in [Tasks -> TaskRow]
  BY <1>1 DEF TasksInv, TasksTyped, ListedOnce
<1>4. Day(now) \in Days
  BY <1>3, CalendarFacts DEF Days
<1>5. /\ \A k \in Tasks, d \in Days : d > Day(now) => fires[k][d] = 0
      /\ \A k \in Tasks : Unfired(k) \/ task[k].st = "deleted" \/ (task[k].st = "stored" /\ task[k].last = Day(now))
      /\ \A k \in Tasks, d \in Days : fires[k][d] <= 1
  BY DEF TasksInv, StampedFirst, FiredOncePerDay
<1>6. \/ fires' = fires
      \/ fires' = [fires EXCEPT ![tick.cur][Day(now)] = @ + 1]
  BY DEF FireRecurringTask
<1>7. /\ fires' \in [Tasks -> [Days -> Nat]]
      /\ \A k \in Tasks, d \in Days :
           fires'[k][d] = fires[k][d] \/ (k = tick.cur /\ d = Day(now) /\ fires'[k][d] = 1)
  <2>1. CASE fires' = fires
    BY <1>3, <2>1
  <2>2. CASE fires' = [fires EXCEPT ![tick.cur][Day(now)] = @ + 1]
    <3> DEFINE today == Day(now)
               one == [fires[tick.cur] EXCEPT ![today] = @ + 1]
    <3>1. fires[tick.cur] \in [Days -> Nat] /\ fires[tick.cur][today] = 0
      BY <1>3 DEF Unfired
    <3>2. fires' = [fires EXCEPT ![tick.cur] = one]
      BY <2>2
    <3> HIDE DEF today
    <3>3. today \in Days /\ today = Day(now)
      BY <1>4 DEF today
    <3>4. one \in [Days -> Nat] /\ one[today] = 1 /\ \A d \in Days : d # today => one[d] = fires[tick.cur][d]
      BY <3>1, <3>3
    <3> HIDE DEF one
    <3> QED
      BY <1>3, <3>2, <3>3, <3>4
  <2> QED
    BY <1>6, <2>1, <2>2
<1>8. \A k \in Tasks : k # tick.cur /\ Unfired(k) => Unfired(k)'
  <2> SUFFICES ASSUME NEW k \in Tasks, k # tick.cur, fires[k][Day(now)] = 0 PROVE Unfired(k)'
    BY DEF Unfired
  <2>1. fires'[k][Day(now)] = 0
    BY <1>4, <1>7
  <2> QED
    BY <1>1, <2>1 DEF Unfired
<1>9. TasksTyped'
  BY <1>1, <1>2, <1>3, <1>7 DEF TasksTyped
<1>10. FiredOncePerDay'
  BY <1>5, <1>7 DEF FiredOncePerDay
<1>11. StampedFirst'
  <2>1. ASSUME NEW k \in Tasks
        PROVE  Unfired(k)' \/ task[k].st = "deleted" \/ (task[k].st = "stored" /\ task[k].last = Day(now))
    BY <1>3, <1>5, <1>8
  <2>2. ASSUME NEW k \in Tasks, NEW d \in Days, d > Day(now) PROVE fires'[k][d] = 0
    <3>1. d # Day(now)
      BY <1>3, <2>2, CalendarFacts
    <3> QED
      BY <1>5, <1>7, <2>2, <3>1
  <2> QED
    BY <1>1, <2>1, <2>2 DEF StampedFirst
<1>12. ListedOnce'
  BY <1>1, <1>2, <1>3, <1>8 DEF ListedOnce
<1> QED
  BY <1>9, <1>10, <1>11, <1>12 DEF TasksInv

(* The tick ends, or dies with the process. *)
LEMMA TickEndKeeps ==
  ASSUME TasksInv, UNCHANGED <<now, task, fires>>, tick' = IdleTick PROVE TasksInv'
<1>1. tick'.pc = "idle" /\ tick' = [pc |-> tick'.pc, rows |-> tick'.rows, cur |-> tick'.cur]
  BY DEF IdleTick
<1>2. TasksTyped' /\ FiredOncePerDay'
  BY <1>1 DEF TasksInv, TasksTyped, FiredOncePerDay
<1>3. StampedFirst'
  BY DEF TasksInv, StampedFirst, Unfired
<1>4. ListedOnce'
  BY <1>1 DEF ListedOnce
<1> QED
  BY <1>2, <1>3, <1>4 DEF TasksInv

(* A new day has no fires, and no tick spans midnight. *)
LEMMA HoursKeep == ASSUME TasksInv, Hours PROVE TasksInv'
<1>1. /\ now' = now + 1 /\ UNCHANGED <<task, fires, tick>> /\ now < Horizon
      /\ tick.pc = "idle" \/ Day(now + 1) = Day(now)
  BY DEF Hours
<1>2. /\ now \in Nat /\ now + 1 \in Nat /\ now' <= Horizon
      /\ Day(now) <= Day(now + 1) /\ Day(now) \in Nat /\ Day(now + 1) \in Nat
      /\ Day(now + 1) \in Days
  BY <1>1, CalendarFacts DEF TasksInv, TasksTyped, Days
<1>3. TasksTyped' /\ FiredOncePerDay'
  BY <1>1, <1>2 DEF TasksInv, TasksTyped, FiredOncePerDay
<1>4. CASE Day(now + 1) = Day(now)
  <2>1. Day(now') = Day(now)
    BY <1>1, <1>4
  <2>2. StampedFirst'
    BY <1>1, <2>1 DEF TasksInv, StampedFirst, Unfired
  <2>3. ListedOnce'
    BY <1>1, <2>1 DEF TasksInv, ListedOnce, Unfired
  <2> QED
    BY <1>3, <2>2, <2>3 DEF TasksInv
<1>5. CASE Day(now + 1) # Day(now)
  <2>1. Day(now') > Day(now) /\ Day(now') \in Days
    BY <1>1, <1>2, <1>5
  <2>2. \A k \in Tasks, d \in Days : d > Day(now) => fires[k][d] = 0
    BY DEF TasksInv, StampedFirst
  <2>3. StampedFirst'
    <3>1. ASSUME NEW k \in Tasks, NEW d \in Days, d > Day(now') PROVE fires'[k][d] = 0
      <4>1. d \in Nat
        BY CalendarFacts DEF Days
      <4>2. d > Day(now)
        BY <1>1, <1>2, <2>1, <3>1, <4>1
      <4> QED
        BY <1>1, <2>2, <4>2
    <3>2. \A k \in Tasks : Unfired(k)'
      BY <1>1, <2>1, <2>2 DEF Unfired
    <3> QED
      BY <3>1, <3>2 DEF StampedFirst
  <2>4. ListedOnce'
    BY <1>1, <1>5 DEF ListedOnce
  <2> QED
    BY <1>3, <2>3, <2>4 DEF TasksInv
<1> QED
  BY <1>4, <1>5

LEMMA TasksNext == TasksInv /\ [Next]_vars => TasksInv'
<1> SUFFICES ASSUME TasksInv, [Next]_vars PROVE TasksInv'
  OBVIOUS
<1>1. CASE UpdateRecurringTask \/ \E k \in Tasks : CreateTask(k) \/ SetRecurringEnabled(k) \/ DeleteRecurringTask(k)
  BY <1>1, EditsAreEdited, EditedKeeps
<1>2. CASE EnabledRecurringTasks \/ MarkRecurringFired \/ FireRecurringTask \/ Hours
  BY <1>2, ListingKeeps, StampKeeps, FireKeeps, HoursKeep
<1>3. CASE EndTick \/ Crash
  BY <1>3, TickEndKeeps DEF EndTick, Crash
<1>4. ASSUME NEW r \in mode.crew,
             Submit(r) \/ CheckCap(r) \/ RunQuotaCheck(r) \/ ReadClock(r) \/ SpendTicket(r) \/ CreateBatchJob(r)
               \/ SetJobWindow(r)
      PROVE  TasksInv'
  <2>1. Elsewhere
    BY <1>4 DEF Submit, CheckCap, RunQuotaCheck, ReadClock, SpendTicket, CreateBatchJob, SetJobWindow, Elsewhere
  <2> QED
    BY <2>1, ElsewhereKeeps
<1>5. ASSUME NEW q \in Watchers, ReadTickets(q) \/ SaveTickets(q) PROVE TasksInv'
  BY <1>5, ElsewhereKeeps DEF ReadTickets, SaveTickets, Elsewhere
<1>6. ASSUME NEW i \in 1..Len(jobs), FinishJob(i) PROVE TasksInv'
  BY <1>6, ElsewhereKeeps DEF FinishJob, Elsewhere
<1>7. ASSUME NEW k \in Tasks, OpenTask(k) \/ RunNow(k) PROVE TasksInv'
  BY <1>7, ElsewhereKeeps DEF OpenTask, RunNow, Elsewhere
<1>8. CASE ClearFinished \/ UNCHANGED vars
  BY <1>8, ElsewhereKeeps DEF ClearFinished, vars, Elsewhere
<1> QED
  BY <1>1, <1>2, <1>3, <1>4, <1>5, <1>6, <1>7, <1>8 DEF Next

(* A recurring task is fired by its cadence at most once a day, whatever   *)
(* crashes, failed stamps, edits, deletions and switches come between.     *)
THEOREM OneFireADay == Spec => []FiredOncePerDay
<1>1. Init => TasksInv
  BY TasksInit
<1>2. TasksInv /\ [Next]_vars => TasksInv'
  BY TasksNext
<1>3. TasksInv => FiredOncePerDay
  BY DEF TasksInv
<1> QED
  BY <1>1, <1>2, <1>3, PTL DEF Spec
-----------------------------------------------------------------------------
(* Tickets. *)

TicketRow == [has : BOOLEAN, rem : Nat, start : Nat]

(* The row covers what was spent of its period, and later periods are new. *)
Covers(t) ==
  /\ t.has => spent[t.start] + t.rem <= Allocation
  /\ \A s \in 0..Horizon : ~t.has \/ s > t.start => spent[s] = 0

(* A refill that starts a period begins a later one, or the row's period had *)
(* overtaken its clock.                                                      *)
NewPeriod(old, new) ==
  new \in TicketRow /\ new.has /\ new.rem = Allocation /\ (old.has => new.start > old.start)

(* What a balance request is about to save. *)
ToSave(w) ==
  /\ w.new \in TicketRow /\ w.new.start <= now
  /\ NewPeriod(w.seen, w.new) \/ Overtaken(w.seen, w.new.start)

Slipped == lost \/ late

TicketsInv ==
  /\ now \in Nat /\ now <= Horizon
  /\ ticket \in TicketRow /\ ticket.start <= now
  /\ spent \in [0..Horizon -> Nat]
  /\ DOMAIN watch = Watchers
  /\ \A q \in Watchers : watch[q].pc = "read" => ToSave(watch[q])
  /\ Slipped \/ Covers(ticket)
  /\ TicketsSpentOnce

(* The clocks of the submits are not ahead. *)
Clocked(e) == {"pc", "at", "urgent"} \subseteq DOMAIN e /\ e.at \in Nat /\ e.at <= now
ClocksInv ==
  now \in Nat /\ mode \in Modes /\ DOMAIN req = Submitters /\ \A r \in Submitters : Clocked(req[r])

(* Whole periods. *)
LEMMA WholePeriods ==
  ASSUME NEW x \in Nat, NEW p \in Nat, p > 0, x >= p
  PROVE  x \div p \in Nat /\ (x \div p) * p <= x /\ (x \div p) * p >= p
<1>1. x \div p \in Nat
  OBVIOUS
<1>2. x \div p >= 1
  OBVIOUS
<1>3. x = p * (x \div p) + (x % p) /\ x % p \in Nat
  OBVIOUS
<1>4. (x \div p) * p = p * (x \div p) /\ p * (x \div p) \in Nat
  BY <1>1
<1>5. p * (x \div p) >= p
  BY <1>1, <1>2
<1> QED
  BY <1>1, <1>3, <1>4, <1>5

(* A refill keeps the row, starts a later period with the allocation, or was *)
(* overtaken.                                                                *)
LEMMA RefillIs ==
  ASSUME NEW t \in TicketRow, NEW at \in Nat
  PROVE  /\ TicketRefill(t, at) \in TicketRow /\ TicketRefill(t, at).has
         /\ TicketRefill(t, at) = t \/ TicketRefill(t, at).start <= at
         /\ \/ TicketRefill(t, at) = t
            \/ NewPeriod(t, TicketRefill(t, at))
            \/ Overtaken(t, at) /\ TicketRefill(t, at).start = at
         /\ ~Overtaken(t, at) => TicketRefill(t, at) = t \/ NewPeriod(t, TicketRefill(t, at))
<1> DEFINE period == PeriodDays * HoursPerDay
           x == at - t.start
           fresh == [has |-> TRUE, rem |-> Allocation, start |-> at]
           next == [t EXCEPT !.rem = Allocation, !.start = @ + (x \div period) * period]
<1>1. /\ t.has \in BOOLEAN /\ t.rem \in Nat /\ t.start \in Nat /\ Allocation \in Nat
      /\ t = [has |-> t.has, rem |-> t.rem, start |-> t.start]
  BY SubmissionAssumption DEF TicketRow
<1>2. period \in Nat /\ x \in Int
  BY <1>1, SubmissionAssumption, CalendarFacts
<1>3. CASE ~t.has \/ at < t.start
  <2>1. TicketRefill(t, at) = fresh
    BY <1>3 DEF TicketRefill
  <2>2. fresh.has /\ fresh.rem = Allocation /\ fresh.start = at /\ fresh \in TicketRow
    BY <1>1 DEF TicketRow
  <2> HIDE DEF fresh
  <2>3. TicketRefill(t, at).start <= at
    BY <2>1, <2>2
  <2>4. ~t.has \/ Overtaken(t, at)
    BY <1>1, <1>3 DEF Overtaken
  <2>5. ~t.has => NewPeriod(t, fresh) /\ ~Overtaken(t, at)
    BY <2>2 DEF NewPeriod, Overtaken
  <2> QED
    BY <2>1, <2>2, <2>3, <2>4, <2>5
<1>4. CASE t.has /\ at >= t.start /\ (period <= 0 \/ x < period)
  <2>1. TicketRefill(t, at) = t
    BY <1>1, <1>4 DEF TicketRefill
  <2> QED
    BY <1>4, <2>1
<1>5. CASE t.has /\ at >= t.start /\ period > 0 /\ x >= period
  <2>0. x \in Nat
    BY <1>1, <1>5
  <2>1. TicketRefill(t, at) = next
    BY <1>1, <1>2, <1>5 DEF TicketRefill
  <2>2. (x \div period) * period \in Nat /\ (x \div period) * period <= x /\ (x \div period) * period >= period
    <3> HIDE DEF period, x
    <3> QED
      BY <1>2, <1>5, <2>0, WholePeriods
  <2> DEFINE y == (x \div period) * period
  <2>3. ASSUME NEW z \in Nat
        PROVE  LET r == [t EXCEPT !.rem = Allocation, !.start = @ + z] IN
               r \in TicketRow /\ r.has = t.has /\ r.rem = Allocation /\ r.start = t.start + z
    <3>1. t \in TicketRow /\ t.start + z \in Nat /\ Allocation \in Nat
      BY <1>1
    <3> QED
      BY <3>1 DEF TicketRow
  <2>4. /\ y \in Nat
        /\ next \in TicketRow /\ next.has = t.has /\ next.rem = Allocation /\ next.start = t.start + y
    BY <2>2, <2>3
  <2> HIDE DEF y, next
  <2>5. t.start + y > t.start /\ t.start + y <= at
    BY <1>1, <1>2, <1>5, <2>0, <2>2 DEF y
  <2>6. next \in TicketRow /\ next.has
    BY <1>5, <2>4
  <2>7. next.start <= at /\ NewPeriod(t, next)
    BY <2>4, <2>5, <2>6 DEF NewPeriod
  <2> QED
    BY <2>1, <2>6, <2>7
<1> QED
  BY <1>1, <1>2, <1>3, <1>4, <1>5

(* A new period covers what an older row covered. *)
LEMMA NewPeriodCovers ==
  ASSUME NEW old \in TicketRow, NEW new, NewPeriod(old, new), Covers(old),
         new.start <= Horizon
  PROVE  Covers(new)
<1>1. new.has /\ new.rem = Allocation /\ new.start \in 0..Horizon /\ Allocation \in Nat
  BY SubmissionAssumption DEF NewPeriod, TicketRow
<1>2. spent[new.start] = 0
  BY <1>1 DEF Covers, NewPeriod
<1>3. ASSUME NEW s \in 0..Horizon, s > new.start PROVE spent[s] = 0
  BY <1>1, <1>3 DEF Covers, NewPeriod, TicketRow
<1> QED
  BY <1>1, <1>2, <1>3 DEF Covers

LEMMA TicketsInit == Init => TicketsInv
<1> SUFFICES ASSUME Init PROVE TicketsInv
  OBVIOUS
<1>1. now = 0 /\ now \in Nat /\ now <= Horizon
  BY CalendarFacts DEF Init
<1>2. ticket \in TicketRow /\ ticket.start = 0 /\ ~ticket.has
  BY DEF Init, NoTicket, TicketRow
<1>3. spent \in [0..Horizon -> Nat] /\ \A s \in 0..Horizon : spent[s] = 0
  BY DEF Init
<1>4. \A q \in Watchers : watch[q].pc = "idle"
  BY DEF Init
<1>5. Covers(ticket)
  BY <1>2, <1>3 DEF Covers
<1>6. TicketsSpentOnce
  BY <1>3, SubmissionAssumption DEF TicketsSpentOnce
<1>7. DOMAIN watch = Watchers
  BY DEF Init
<1> QED
  BY <1>1, <1>2, <1>3, <1>4, <1>5, <1>6, <1>7 DEF TicketsInv

(* The steps that leave tickets alone; time may pass. *)
LEMMA NoTicketMoves ==
  ASSUME TicketsInv, UNCHANGED <<ticket, watch, spent, lost, late>>, now' = now \/ Hours
  PROVE  TicketsInv'
<1>1. now' \in Nat /\ now' <= Horizon /\ now <= now'
  <2>1. now \in Nat /\ now <= Horizon /\ Horizon \in Nat
    BY CalendarFacts DEF TicketsInv
  <2>2. now' = now \/ (now < Horizon /\ now' = now + 1)
    BY DEF Hours
  <2> QED
    BY <2>1, <2>2
<1>2. ticket.start \in Nat /\ ticket.start <= now /\ now \in Nat
  BY DEF TicketsInv, TicketRow
<1>3. ticket'.start <= now'
  BY <1>1, <1>2
<1>4. \A q \in Watchers : watch'[q].pc = "read" => ToSave(watch[q])'
  <2> SUFFICES ASSUME NEW q \in Watchers, watch[q].pc = "read" PROVE ToSave(watch[q])'
    OBVIOUS
  <2>1. ToSave(watch[q])
    BY DEF TicketsInv
  <2>2. watch[q].new.start \in Nat /\ watch[q].new.start <= now'
    BY <1>1, <1>2, <2>1 DEF ToSave, TicketRow
  <2> QED
    BY <2>1, <2>2 DEF ToSave, NewPeriod, Overtaken
<1>5. (Slipped \/ Covers(ticket))' /\ TicketsSpentOnce'
  BY DEF TicketsInv, Covers, TicketsSpentOnce, Slipped
<1> QED
  BY <1>1, <1>3, <1>4, <1>5 DEF TicketsInv

(* What waits to be saved, when the clock stands and one request moves. *)
LEMMA OneWatch ==
  ASSUME TicketsInv, now' = now, NEW q \in Watchers, NEW w, watch' = [watch EXCEPT ![q] = w],
         w.pc = "read" => ToSave(w)
  PROVE  DOMAIN watch' = Watchers /\ \A p \in Watchers : watch'[p].pc = "read" => ToSave(watch[p])'
<1>1. DOMAIN watch' = Watchers /\ watch'[q] = w /\ \A p \in Watchers : p # q => watch'[p] = watch[p]
  BY DEF TicketsInv
<1>2. \A p \in Watchers : watch[p].pc = "read" => ToSave(watch[p])
  BY DEF TicketsInv
<1>3. ASSUME NEW p \in Watchers, watch'[p].pc = "read" PROVE ToSave(watch[p])'
  <2>1. CASE p = q
    BY <1>1, <1>3, <2>1 DEF ToSave, NewPeriod, Overtaken
  <2>2. CASE p # q
    BY <1>1, <1>2, <1>3, <2>2 DEF ToSave, NewPeriod, Overtaken
  <2> QED
    BY <2>1, <2>2
<1> QED
  BY <1>1, <1>3

LEMMA ReadTicketsKeeps ==
  ASSUME TicketsInv, NEW q \in Watchers, ReadTickets(q) PROVE TicketsInv'
<1>1. UNCHANGED <<now, ticket, spent, lost, late>>
  BY DEF ReadTickets
<1>2. PICK at \in 0..now :
        /\ TicketRefill(ticket, at) # ticket
        /\ watch' = [watch EXCEPT ![q] =
               [pc |-> "read", seen |-> ticket, new |-> TicketRefill(ticket, at)]]
  BY DEF ReadTickets
<1> DEFINE new == TicketRefill(ticket, at)
           w == [pc |-> "read", seen |-> ticket, new |-> new]
<1>3. at \in Nat /\ at <= now /\ now \in Nat /\ ticket \in TicketRow
  BY DEF TicketsInv
<1>4. new \in TicketRow /\ new.start <= at /\ (NewPeriod(ticket, new) \/ Overtaken(ticket, new.start))
  BY <1>2, <1>3, RefillIs
<1> HIDE DEF new
<1>5. w.seen = ticket /\ w.new = new
  OBVIOUS
<1>6. new.start \in Nat
  BY <1>4 DEF TicketRow
<1>7. ToSave(w)
  BY <1>3, <1>4, <1>5, <1>6 DEF ToSave
<1>8. watch' = [watch EXCEPT ![q] = w]
  BY <1>2 DEF new
<1> HIDE DEF w
<1>9. DOMAIN watch' = Watchers /\ \A p \in Watchers : watch'[p].pc = "read" => ToSave(watch[p])'
  BY <1>1, <1>7, <1>8, OneWatch
<1>10. (Slipped \/ Covers(ticket))' /\ TicketsSpentOnce'
  BY <1>1 DEF TicketsInv, Covers, TicketsSpentOnce, Slipped
<1> QED
  BY <1>1, <1>9, <1>10 DEF TicketsInv

LEMMA SaveTicketsKeeps ==
  ASSUME TicketsInv, NEW q \in Watchers, SaveTickets(q) PROVE TicketsInv'
<1>1. UNCHANGED <<now, spent, late>> /\ ticket' = watch[q].new
  BY DEF SaveTickets
<1>2. ToSave(watch[q])
  BY DEF TicketsInv, SaveTickets
<1>3. ticket' \in TicketRow /\ ticket'.start <= now'
  BY <1>1, <1>2 DEF ToSave
<1> DEFINE w == [pc |-> "idle", seen |-> NoTicket, new |-> NoTicket]
<1>4. watch' = [watch EXCEPT ![q] = w] /\ w.pc = "idle"
  BY DEF SaveTickets
<1> HIDE DEF w
<1>5. DOMAIN watch' = Watchers /\ \A p \in Watchers : watch'[p].pc = "read" => ToSave(watch[p])'
  BY <1>1, <1>4, OneWatch
<1>6. lost' \/ (~lost /\ ticket = watch[q].seen /\ NewPeriod(watch[q].seen, watch[q].new))
  BY <1>2 DEF SaveTickets, ToSave
<1>7. CASE lost' \/ late
  BY <1>1, <1>3, <1>5, <1>7 DEF TicketsInv, TicketsSpentOnce, Slipped
<1>8. CASE ~lost /\ ~late /\ ticket = watch[q].seen /\ NewPeriod(watch[q].seen, watch[q].new)
  <2>1. Covers(ticket) /\ ticket \in TicketRow /\ watch[q].new.start <= Horizon
    <3>1. watch[q].new.start \in Nat /\ watch[q].new.start <= now
      BY <1>2 DEF ToSave, TicketRow
    <3>2. now \in Nat /\ now <= Horizon /\ Horizon \in Nat /\ ticket \in TicketRow /\ Covers(ticket)
      BY <1>8, CalendarFacts DEF TicketsInv, Slipped
    <3> QED
      BY <3>1, <3>2
  <2>2. Covers(watch[q].new)
    BY <1>8, <2>1, NewPeriodCovers
  <2>3. Covers(ticket)'
    BY <1>1, <2>2 DEF Covers
  <2>4. TicketsSpentOnce'
    BY <1>1, <1>8 DEF TicketsInv, TicketsSpentOnce
  <2> QED
    BY <1>1, <1>3, <1>5, <2>3, <2>4 DEF TicketsInv
<1> QED
  BY <1>6, <1>7, <1>8

LEMMA SpendTicketKeeps ==
  ASSUME TicketsInv, ClocksInv, NEW r \in Submitters, SpendTicket(r) PROVE TicketsInv'
<1>1. UNCHANGED <<now, watch, lost>>
  BY DEF SpendTicket
<1> DEFINE at == req[r].at
           over == Overtaken(ticket, at)
           t == TicketRefill(ticket, at)
           s0 == IF over THEN ticket.start ELSE t.start
<1>2. at \in Nat /\ at <= now /\ now \in Nat /\ now <= Horizon /\ Horizon \in Nat
  BY CalendarFacts DEF TicketsInv, ClocksInv, Clocked
<1>3. /\ t \in TicketRow /\ t.has /\ t.start \in Nat /\ t.rem \in Nat
      /\ t.start <= now /\ t.start \in 0..Horizon
      /\ ~over => t = ticket \/ NewPeriod(ticket, t)
  <2>1. ticket \in TicketRow /\ ticket.start \in Nat /\ ticket.start <= now
    BY DEF TicketsInv, TicketRow
  <2>2. /\ t \in TicketRow /\ t.has /\ (t = ticket \/ t.start <= at)
        /\ ~over => t = ticket \/ NewPeriod(ticket, t)
    BY <1>2, <2>1, RefillIs
  <2> HIDE DEF t, at
  <2>3. t.start \in Nat /\ t.rem \in Nat
    BY <2>2 DEF TicketRow
  <2>4. t.start <= now
    BY <1>2, <2>1, <2>2, <2>3
  <2> QED
    BY <1>2, <2>2, <2>3, <2>4
<1>4. ticket.start \in 0..Horizon
  BY <1>2 DEF TicketsInv, TicketRow
<1>5. Slipped \/ over \/ Covers(t)
  BY <1>3, NewPeriodCovers DEF TicketsInv
<1>6. \/ ticket' = ticket /\ spent' = spent /\ late' = late
      \/ /\ late' = (late \/ over)
         /\ \/ ticket' = t /\ spent' = spent
            \/ t.rem > 0 /\ ticket' = [t EXCEPT !.rem = @ - 1] /\ spent' = [spent EXCEPT ![s0] = @ + 1]
  BY <1>3 DEF SpendTicket
<1> HIDE DEF t, at, over
<1>7. CASE ticket' = ticket /\ spent' = spent /\ late' = late
  BY <1>1, <1>7, NoTicketMoves
<1>8. ASSUME late' = (late \/ over), ticket' \in TicketRow, ticket'.start <= now,
             spent' \in [0..Horizon -> Nat],
             ~lost /\ ~late /\ ~over => Covers(ticket)' /\ TicketsSpentOnce'
      PROVE  TicketsInv'
  <2>1. \A p \in Watchers : watch'[p].pc = "read" => ToSave(watch[p])'
    BY <1>1 DEF TicketsInv, ToSave, NewPeriod, Overtaken
  <2>2. (Slipped \/ Covers(ticket))' /\ TicketsSpentOnce'
    BY <1>1, <1>8 DEF Slipped, TicketsSpentOnce
  <2> QED
    BY <1>1, <1>8, <2>1, <2>2 DEF TicketsInv
<1>9. CASE late' = (late \/ over) /\ ticket' = t /\ spent' = spent
  <2>1. ~lost /\ ~late /\ ~over => Covers(ticket)' /\ TicketsSpentOnce'
    BY <1>1, <1>5, <1>9 DEF Covers, Slipped, TicketsInv, TicketsSpentOnce
  <2>2. spent' \in [0..Horizon -> Nat]
    BY <1>9 DEF TicketsInv
  <2> QED
    BY <1>3, <1>8, <1>9, <2>1, <2>2
<1>10. CASE /\ late' = (late \/ over)
            /\ t.rem > 0 /\ ticket' = [t EXCEPT !.rem = @ - 1] /\ spent' = [spent EXCEPT ![s0] = @ + 1]
  <2>1. t = [has |-> t.has, rem |-> t.rem, start |-> t.start]
    BY <1>3 DEF TicketRow
  <2>2. ticket' = [has |-> t.has, rem |-> t.rem - 1, start |-> t.start]
    BY <1>10, <2>1
  <2>3. ticket'.has = t.has /\ ticket'.rem = t.rem - 1 /\ ticket'.start = t.start
    BY <2>2
  <2>4. ticket' \in TicketRow /\ ticket'.start <= now
    BY <1>3, <1>10, <2>2, <2>3 DEF TicketRow
  <2>5. /\ s0 \in 0..Horizon /\ spent' \in [0..Horizon -> Nat] /\ spent'[s0] = spent[s0] + 1
        /\ \A s \in 0..Horizon : s # s0 => spent'[s] = spent[s]
    BY <1>3, <1>4, <1>10 DEF TicketsInv
  <2>6. ASSUME ~lost, ~late, ~over PROVE Covers(ticket)' /\ TicketsSpentOnce'
    <3>0. s0 = t.start
      BY <2>6
    <3>1. spent[t.start] + t.rem <= Allocation /\ \A s \in 0..Horizon : s > t.start => spent[s] = 0
      BY <1>3, <1>5, <2>6 DEF Covers, Slipped
    <3>2. spent[t.start] \in Nat /\ Allocation \in Nat
      BY <1>3, SubmissionAssumption DEF TicketsInv
    <3>3. spent'[t.start] + (t.rem - 1) <= Allocation /\ spent'[t.start] <= Allocation
      BY <1>3, <1>10, <2>5, <3>0, <3>1, <3>2
    <3>4. \A s \in 0..Horizon : s > t.start => spent'[s] = 0
      BY <1>3, <2>5, <3>0, <3>1
    <3>5. Covers(ticket)'
      BY <1>3, <2>3, <3>3, <3>4 DEF Covers
    <3>6. \A s \in 0..Horizon : spent[s] <= Allocation
      BY <2>6 DEF TicketsInv, TicketsSpentOnce
    <3>7. \A s \in 0..Horizon : spent'[s] <= Allocation
      BY <2>5, <3>0, <3>3, <3>6
    <3> QED
      BY <2>5, <3>5, <3>7 DEF TicketsSpentOnce
  <2> QED
    BY <1>8, <1>10, <2>4, <2>5, <2>6
<1> QED
  BY <1>6, <1>7, <1>9, <1>10

(* The clock a submit carries was read in the past. *)
LEMMA ClocksInit == Init => ClocksInv
<1> SUFFICES ASSUME Init PROVE ClocksInv
  OBVIOUS
<1>1. now = 0 /\ mode \in Modes /\ DOMAIN req = Submitters /\ \A r \in Submitters : req[r] = IdleReq
  BY DEF Init
<1>2. {"pc", "at", "urgent"} \subseteq DOMAIN IdleReq /\ IdleReq.at = 0
  BY DEF IdleReq
<1> QED
  BY <1>1, <1>2 DEF ClocksInv, Clocked

LEMMA ClockOf ==
  ASSUME ClocksInv, UNCHANGED <<now, mode>>, NEW r \in Submitters, NEW e,
         req' = [req EXCEPT ![r] = e], Clocked(e)
  PROVE  ClocksInv'
<1>1. DOMAIN req' = Submitters /\ req'[r] = e /\ \A p \in Submitters : p # r => req'[p] = req[p]
  BY DEF ClocksInv
<1>2. ASSUME NEW p \in Submitters PROVE Clocked(req[p])'
  <2>1. Clocked(req'[p])
    BY <1>1 DEF ClocksInv
  <2> QED
    BY <2>1 DEF Clocked
<1> QED
  BY <1>1, <1>2 DEF ClocksInv

LEMMA ClockKept ==
  ASSUME ClocksInv, UNCHANGED <<now, mode>>, NEW r \in Submitters, NEW pc, NEW x, NEW at \in Nat, at <= now,
         \/ req' = [req EXCEPT ![r].pc = pc]
         \/ req' = [req EXCEPT ![r].pc = pc, ![r].urgent = x]
         \/ req' = [req EXCEPT ![r].pc = pc, ![r].at = at]
         \/ req' = [req EXCEPT ![r].pc = pc, ![r].job = x]
         \/ req' = [req EXCEPT ![r] = IdleReq]
         \/ req' = req
  PROVE  ClocksInv'
<1>1. Clocked(req[r]) /\ r \in DOMAIN req
  BY DEF ClocksInv
<1>2. ASSUME NEW e, Clocked(e), req' = [req EXCEPT ![r] = e] PROVE ClocksInv'
  BY <1>2, ClockOf
<1>3. CASE req' = [req EXCEPT ![r].pc = pc]
  <2> DEFINE e == [req[r] EXCEPT !.pc = pc]
  <2>1. Clocked(e) /\ req' = [req EXCEPT ![r] = e]
    BY <1>1, <1>3 DEF Clocked
  <2> QED
    BY <1>2, <2>1
<1>4. CASE req' = [req EXCEPT ![r].pc = pc, ![r].urgent = x]
  <2> DEFINE e == [[req[r] EXCEPT !.pc = pc] EXCEPT !.urgent = x]
  <2>1. Clocked(e) /\ req' = [req EXCEPT ![r] = e]
    BY <1>1, <1>4 DEF Clocked
  <2> QED
    BY <1>2, <2>1
<1>5. CASE req' = [req EXCEPT ![r].pc = pc, ![r].at = at]
  <2> DEFINE e == [[req[r] EXCEPT !.pc = pc] EXCEPT !.at = at]
  <2>1. Clocked(e) /\ req' = [req EXCEPT ![r] = e]
    BY <1>1, <1>5 DEF Clocked
  <2> QED
    BY <1>2, <2>1
<1>6. CASE req' = [req EXCEPT ![r].pc = pc, ![r].job = x]
  <2> DEFINE e == [[req[r] EXCEPT !.pc = pc] EXCEPT !.job = x]
  <2>1. Clocked(e) /\ req' = [req EXCEPT ![r] = e]
    BY <1>1, <1>6 DEF Clocked
  <2> QED
    BY <1>2, <2>1
<1>7. CASE req' = [req EXCEPT ![r] = IdleReq]
  <2>1. Clocked(IdleReq)
    BY DEF Clocked, IdleReq, ClocksInv
  <2> QED
    BY <1>2, <1>7, <2>1
<1>8. CASE req' = req
  BY <1>8 DEF ClocksInv, Clocked
<1> QED
  BY <1>3, <1>4, <1>5, <1>6, <1>7, <1>8

LEMMA ClocksNext == ClocksInv /\ [Next]_vars => ClocksInv'
<1> SUFFICES ASSUME ClocksInv, [Next]_vars PROVE ClocksInv'
  OBVIOUS
<1>0. now \in Nat /\ 0 \in Nat /\ 0 <= now /\ now <= now /\ \A r \in mode.crew : r \in Submitters
  BY SubmissionAssumption DEF ClocksInv
<1>1. ASSUME NEW r \in Submitters, Submit(r) PROVE ClocksInv'
  <2>1. PICK n \in mode.rows, u \in (IF "urgent" \in mode.ops THEN BOOLEAN ELSE {FALSE}) :
           \/ req' = [req EXCEPT ![r] = [IdleReq EXCEPT !.pc = "cap", !.rows = n, !.urgent = u]]
           \/ \E p \in Presets : LET w == ResolvePresetWindow(p, now) IN
                req' = [req EXCEPT ![r] = [IdleReq EXCEPT
                    !.pc = "cap", !.rows = n, !.urgent = u, !.from = now, !.runAt = w.runAt,
                    !.until = w.until, !.preset = {p}]]
    BY <1>1 DEF Submit
  <2>2. CASE req' = [req EXCEPT ![r] = [IdleReq EXCEPT !.pc = "cap", !.rows = n, !.urgent = u]]
    <3> DEFINE e == [IdleReq EXCEPT !.pc = "cap", !.rows = n, !.urgent = u]
    <3>1. Clocked(e)
      BY <1>0 DEF Clocked, IdleReq
    <3> HIDE DEF e
    <3>2. req' = [req EXCEPT ![r] = e] /\ UNCHANGED <<now, mode>>
      BY <1>1, <2>2 DEF e, Submit
    <3> QED
      BY <3>1, <3>2, ClockOf
  <2>3. ASSUME NEW p \in Presets, NEW w,
               req' = [req EXCEPT ![r] = [IdleReq EXCEPT
                    !.pc = "cap", !.rows = n, !.urgent = u, !.from = now, !.runAt = w.runAt,
                    !.until = w.until, !.preset = {p}]]
        PROVE  ClocksInv'
    <3> DEFINE e == [IdleReq EXCEPT !.pc = "cap", !.rows = n, !.urgent = u, !.from = now,
                                    !.runAt = w.runAt, !.until = w.until, !.preset = {p}]
    <3>1. Clocked(e)
      BY <1>0 DEF Clocked, IdleReq
    <3> HIDE DEF e
    <3>2. req' = [req EXCEPT ![r] = e] /\ UNCHANGED <<now, mode>>
      BY <1>1, <2>3 DEF e, Submit
    <3> QED
      BY <3>1, <3>2, ClockOf
  <2> QED
    BY <2>1, <2>2, <2>3
<1>2. ASSUME NEW r \in Submitters,
             CheckCap(r) \/ RunQuotaCheck(r) \/ ReadClock(r) \/ SpendTicket(r)
               \/ CreateBatchJob(r) \/ SetJobWindow(r)
      PROVE  ClocksInv'
  <2>1. UNCHANGED <<now, mode>>
    BY <1>2 DEF CheckCap, RunQuotaCheck, ReadClock, SpendTicket, CreateBatchJob, SetJobWindow
  <2>2. CASE CheckCap(r)
    BY <1>0, <2>1, <2>2, ClockKept DEF CheckCap, Refuse, Go
  <2>3. CASE RunQuotaCheck(r)
    BY <1>0, <2>1, <2>3, ClockKept DEF RunQuotaCheck, Refuse, Go
  <2>4. CASE ReadClock(r)
    BY <1>0, <2>1, <2>4, ClockKept DEF ReadClock
  <2>5. CASE SpendTicket(r)
    <3>1. \/ req' = [req EXCEPT ![r].pc = "create", ![r].urgent = FALSE]
          \/ req' = [req EXCEPT ![r].pc = "create"]
      BY <2>5 DEF SpendTicket, Go
    <3> QED
      BY <1>0, <2>1, <3>1, ClockKept
  <2>6. CASE CreateBatchJob(r) \/ SetJobWindow(r)
    <3>1. \/ req' = [req EXCEPT ![r] = IdleReq]
          \/ req' = [req EXCEPT ![r].pc = "window", ![r].job = Len(jobs) + 1]
      BY <2>6 DEF CreateBatchJob, SetJobWindow, Refuse
    <3> QED
      BY <1>0, <2>1, <3>1, ClockKept
  <2> QED
    BY <1>2, <2>2, <2>3, <2>4, <2>5, <2>6
<1>3. CASE Crash
  <2>1. {"pc", "at", "urgent"} \subseteq DOMAIN IdleReq /\ IdleReq.at = 0
    BY DEF IdleReq
  <2>2. UNCHANGED <<now, mode>> /\ DOMAIN req' = Submitters /\ \A r \in Submitters : req'[r] = IdleReq
    BY <1>3 DEF Crash
  <2> QED
    BY <1>0, <2>1, <2>2 DEF ClocksInv, Clocked
<1>4. CASE Hours
  <2>1. now' \in Nat /\ now <= now' /\ UNCHANGED <<req, mode>>
    BY <1>0, <1>4 DEF Hours
  <2>2. ASSUME NEW r \in Submitters PROVE Clocked(req[r])'
    <3>1. Clocked(req[r])
      BY DEF ClocksInv
    <3>2. req[r].at \in Nat /\ req[r].at <= now'
      BY <1>0, <2>1, <3>1 DEF Clocked
    <3> QED
      BY <2>1, <3>1, <3>2 DEF Clocked
  <2> QED
    BY <2>1, <2>2 DEF ClocksInv
<1>5. CASE UNCHANGED <<now, mode, req>>
  BY <1>5 DEF ClocksInv, Clocked
<1>6. ASSUME NEW q \in Watchers, ReadTickets(q) \/ SaveTickets(q) PROVE ClocksInv'
  BY <1>5, <1>6 DEF ReadTickets, SaveTickets
<1>7. ASSUME NEW i \in 1..Len(jobs), FinishJob(i) PROVE ClocksInv'
  BY <1>5, <1>7 DEF FinishJob
<1>8. ASSUME NEW k \in Tasks,
             CreateTask(k) \/ OpenTask(k) \/ SetRecurringEnabled(k) \/ DeleteRecurringTask(k) \/ RunNow(k)
      PROVE  ClocksInv'
  BY <1>5, <1>8 DEF CreateTask, OpenTask, SetRecurringEnabled, DeleteRecurringTask, RunNow
<1>9. CASE \/ UpdateRecurringTask \/ EnabledRecurringTasks \/ MarkRecurringFired \/ FireRecurringTask
           \/ EndTick \/ ClearFinished \/ UNCHANGED vars
  BY <1>5, <1>9 DEF UpdateRecurringTask, EnabledRecurringTasks, MarkRecurringFired, FireRecurringTask,
                    EndTick, ClearFinished, vars
<1> QED
  BY <1>0, <1>1, <1>2, <1>3, <1>4, <1>6, <1>7, <1>8, <1>9 DEF Next

LEMMA TicketsNext == TicketsInv /\ ClocksInv /\ [Next]_vars => TicketsInv'
<1> SUFFICES ASSUME TicketsInv, ClocksInv, [Next]_vars PROVE TicketsInv'
  OBVIOUS
<1>0. \A r \in mode.crew : r \in Submitters
  BY SubmissionAssumption DEF ClocksInv
<1>1. ASSUME NEW r \in Submitters, SpendTicket(r) PROVE TicketsInv'
  BY <1>1, SpendTicketKeeps
<1>2. ASSUME NEW q \in Watchers, ReadTickets(q) \/ SaveTickets(q) PROVE TicketsInv'
  BY <1>2, ReadTicketsKeeps, SaveTicketsKeeps
<1>3. CASE Crash
  <2>1. UNCHANGED <<now, ticket, spent, lost, late>> /\ DOMAIN watch' = Watchers
        /\ \A q \in Watchers : watch'[q].pc = "idle"
    BY <1>3 DEF Crash
  <2>2. (Slipped \/ Covers(ticket))' /\ TicketsSpentOnce'
    BY <2>1 DEF TicketsInv, Covers, TicketsSpentOnce, Slipped
  <2> QED
    BY <2>1, <2>2 DEF TicketsInv
<1>4. ASSUME NEW r \in Submitters,
             Submit(r) \/ CheckCap(r) \/ RunQuotaCheck(r) \/ ReadClock(r) \/ CreateBatchJob(r)
               \/ SetJobWindow(r)
      PROVE  TicketsInv'
  BY <1>4, NoTicketMoves DEF Submit, CheckCap, RunQuotaCheck, ReadClock, CreateBatchJob, SetJobWindow
<1>5. ASSUME NEW i \in 1..Len(jobs), FinishJob(i) PROVE TicketsInv'
  BY <1>5, NoTicketMoves DEF FinishJob
<1>6. ASSUME NEW k \in Tasks,
             CreateTask(k) \/ OpenTask(k) \/ SetRecurringEnabled(k) \/ DeleteRecurringTask(k) \/ RunNow(k)
      PROVE  TicketsInv'
  BY <1>6, NoTicketMoves DEF CreateTask, OpenTask, SetRecurringEnabled, DeleteRecurringTask, RunNow
<1>7. CASE UpdateRecurringTask \/ EnabledRecurringTasks \/ MarkRecurringFired \/ FireRecurringTask \/ EndTick
  BY <1>7, NoTicketMoves DEF UpdateRecurringTask, EnabledRecurringTasks, MarkRecurringFired, FireRecurringTask,
                             EndTick
<1>8. CASE ClearFinished \/ UNCHANGED vars
  BY <1>8, NoTicketMoves DEF ClearFinished, vars
<1>9. CASE Hours
  <2>1. UNCHANGED <<ticket, watch, spent, lost, late>>
    BY <1>9 DEF Hours
  <2> QED
    BY <1>9, <2>1, NoTicketMoves
<1> QED
  BY <1>0, <1>1, <1>2, <1>3, <1>4, <1>5, <1>6, <1>7, <1>8, <1>9 DEF Next
-----------------------------------------------------------------------------
(* The cap and the quota. *)

(* A sequence, whatever it holds. *)
ASeq(s) == Len(s) \in Nat /\ s = [i \in 1..Len(s) |-> s[i]]

LEMMA AnAppend ==
  ASSUME NEW s, ASeq(s), NEW e
  PROVE  /\ ASeq(Append(s, e)) /\ Len(Append(s, e)) = Len(s) + 1
         /\ \A i \in 1..Len(s) : Append(s, e)[i] = s[i]
         /\ Append(s, e)[Len(s) + 1] = e
<1> DEFINE S == {s[i] : i \in 1..Len(s)} \cup {e}
<1>1. s \in [1..Len(s) -> S] /\ Len(s) \in Nat
  BY DEF ASeq
<1>2. s \in Seq(S)
  BY <1>1
<1>3. e \in S
  OBVIOUS
<1> HIDE DEF S
<1>4. /\ Append(s, e) \in Seq(S) /\ Len(Append(s, e)) = Len(s) + 1
      /\ \A i \in 1..Len(s) : Append(s, e)[i] = s[i]
      /\ Append(s, e)[Len(s) + 1] = e
  BY <1>2, <1>3, AppendProperties
<1>5. ASeq(Append(s, e))
  BY <1>4, LenProperties DEF ASeq
<1> QED
  BY <1>4, <1>5

(* A function on 1..n is a sequence of length n. *)
LEMMA AFunction ==
  ASSUME NEW f, NEW n \in Nat, f = [i \in 1..n |-> f[i]]
  PROVE  ASeq(f) /\ Len(f) = n
<1> DEFINE S == {f[i] : i \in 1..n}
<1>1. f \in [1..n -> S]
  OBVIOUS
<1> HIDE DEF S
<1>2. f \in Seq(S)
  BY <1>1
<1>3. Len(f) \in Nat /\ DOMAIN f = 1..Len(f)
  BY <1>2, LenProperties
<1>4. DOMAIN f = 1..n
  BY <1>1
<1>5. Len(f) = n
  BY <1>3, <1>4
<1> QED
  BY <1>5 DEF ASeq

Indices == 1..Len(jobs)
Live == {i \in Indices : jobs[i].st = "live"}
FormSet(d) == {i \in Indices : jobs[i].by = "form" /\ jobs[i].st # "gone" /\ Day(jobs[i].at) = d}
OnlyForms == \A i \in Indices : jobs[i].by = "form"

(* The requests the cap has let pass, and those the quota has. *)
PastCap == {r \in Submitters : req[r].pc \in {"quota", "ticket", "spend", "create"}}
PastQuota == {r \in Submitters : req[r].pc \in {"ticket", "spend", "create"}}

JobShape(j) == /\ {"at", "rows", "st", "by"} \subseteq DOMAIN j
               /\ j.at \in Nat /\ j.at <= now /\ j.rows \in Nat
ReqShape(r) == /\ {"pc", "rows"} \subseteq DOMAIN req[r]
               /\ req[r].pc \in {"cap", "quota", "ticket", "spend", "create"} => req[r].rows \in RowCounts
Shapes ==
  /\ now \in Nat /\ now <= Horizon /\ mode \in Modes
  /\ ASeq(jobs) /\ \A i \in Indices : JobShape(jobs[i])
  /\ DOMAIN req = Submitters /\ \A r \in Submitters : ReqShape(r)

(* A request the cap has let pass has its place under the cap. *)
CapInv ==
  Cap > 0 /\ OnlyForms => ActiveJobCount + Cardinality(PastCap) <= Cap + Racers

(* Of the requests the quota has let pass, one fitted with what is stored; *)
(* the others are its racers.                                              *)
Limit == Quota + Racers * Max(RowCounts)
FitsOnTop(d, r) ==
  FormRows(d) + req[r].rows + Cardinality(PastQuota \ {r}) * Max(RowCounts) <= Limit
QuotaInv ==
  Quota > 0 => \A d \in Days :
    /\ FormRows(d) <= Limit
    /\ d >= Day(now) => PastQuota = {} \/ \E r \in PastQuota : FitsOnTop(d, r)

LimitsInv == Shapes /\ CapInv /\ QuotaInv

(* The constants. *)
LEMMA LimitFacts ==
  /\ Quota \in Nat /\ Cap \in Nat /\ Racers \in Nat /\ Max(RowCounts) \in Nat
  /\ Racers * Max(RowCounts) \in Nat /\ Limit \in Nat
  /\ \A n \in RowCounts : n \in Nat /\ n > 0 /\ n <= Max(RowCounts)
  /\ IsFiniteSet(Submitters) /\ Cardinality(Submitters) = Racers + 1
  /\ \A m \in Modes : m.crew \subseteq Submitters /\ m.rows \subseteq RowCounts
<1>1. /\ Quota \in Nat /\ Cap \in Nat /\ RowCounts \subseteq Nat \ {0} /\ RowCounts # {} /\ IsFiniteSet(RowCounts)
      /\ IsFiniteSet(Submitters) /\ Submitters # {}
      /\ \A m \in Modes : m.crew \subseteq Submitters /\ m.rows \subseteq RowCounts
  BY SubmissionAssumption
<1>2. Max(RowCounts) \in RowCounts /\ \A n \in RowCounts : n <= Max(RowCounts)
  <2>1. RowCounts \subseteq Int
    BY <1>1
  <2> QED
    BY <1>1, <2>1, MaxBounds
<1>3. Cardinality(Submitters) \in Nat /\ Cardinality(Submitters) > 0
  BY <1>1, FS_CardinalityType, FS_EmptySet
<1>4. Racers \in Nat /\ Cardinality(Submitters) = Racers + 1
  BY <1>3 DEF Racers
<1>5. \A a, b \in Nat : a * b \in Nat
  OBVIOUS
<1>6. Racers * Max(RowCounts) \in Nat
  BY <1>1, <1>2, <1>4, <1>5
<1>7. Limit \in Nat
  <2>1. \A a, b \in Nat : a + b \in Nat
    OBVIOUS
  <2> QED
    BY <1>1, <1>6, <2>1 DEF Limit
<1>8. \A n \in RowCounts : n \in Nat /\ n > 0 /\ n <= Max(RowCounts)
  BY <1>1, <1>2
<1>9. Max(RowCounts) \in Nat
  BY <1>1, <1>2
<1> QED
  BY <1>1, <1>4, <1>6, <1>7, <1>8, <1>9

LEMMA RequestSets ==
  /\ IsFiniteSet(PastCap) /\ PastCap \subseteq Submitters /\ Cardinality(PastCap) \in Nat
  /\ IsFiniteSet(PastQuota) /\ PastQuota \subseteq Submitters /\ Cardinality(PastQuota) \in Nat
BY LimitFacts, FS_Subset, FS_CardinalityType DEF PastCap, PastQuota
LEMMA RequestSetsNext ==
  (/\ IsFiniteSet(PastCap) /\ PastCap \subseteq Submitters /\ Cardinality(PastCap) \in Nat
   /\ IsFiniteSet(PastQuota) /\ PastQuota \subseteq Submitters /\ Cardinality(PastQuota) \in Nat)'
BY RequestSets, PTL

LEMMA JobSets ==
  ASeq(jobs) => /\ IsFiniteSet(Indices)
                /\ IsFiniteSet(Live) /\ Cardinality(Live) \in Nat /\ ActiveJobCount = Cardinality(Live)
                /\ \A d : FormSet(d) \in SUBSET Indices /\ IsFiniteSet(FormSet(d))
<1> SUFFICES ASSUME ASeq(jobs)
             PROVE  /\ IsFiniteSet(Indices)
                    /\ IsFiniteSet(Live) /\ Cardinality(Live) \in Nat /\ ActiveJobCount = Cardinality(Live)
                    /\ \A d : FormSet(d) \in SUBSET Indices /\ IsFiniteSet(FormSet(d))
  OBVIOUS
<1>1. IsFiniteSet(Indices)
  <2>1. Len(jobs) \in Int /\ 1 \in Int
    BY DEF ASeq
  <2>2. IsFiniteSet(1..Len(jobs))
    BY <2>1, FS_Interval
  <2> QED
    BY <2>2 DEF Indices
<1>2. Live \in SUBSET Indices /\ \A d : FormSet(d) \in SUBSET Indices
  BY DEF Live, FormSet
<1>3. ActiveJobCount = Cardinality(Live)
  BY DEF ActiveJobCount, Live, Indices
<1> QED
  BY <1>1, <1>2, <1>3, FS_Subset, FS_CardinalityType
LEMMA JobSetsNext ==
  (ASeq(jobs) => /\ IsFiniteSet(Indices)
                 /\ IsFiniteSet(Live) /\ Cardinality(Live) \in Nat /\ ActiveJobCount = Cardinality(Live)
                 /\ \A d : FormSet(d) \in SUBSET Indices /\ IsFiniteSet(FormSet(d)))'
BY JobSets, PTL

(* The rows of some jobs, as a sum over their positions. *)
RowOf == [i \in Indices |-> jobs[i].rows]

LEMMA RowsIsTotal ==
  ASeq(jobs) => \A S \in SUBSET Indices : Rows(S) = Total(RowOf, S)
<1> SUFFICES ASSUME ASeq(jobs), NEW S \in SUBSET Indices PROVE Rows(S) = Total(RowOf, S)
  OBVIOUS
<1> DEFINE Body(g, s) == IF s = {} THEN 0 ELSE jobs[AnyOf(s)].rows + g[s \ {AnyOf(s)}]
           Good(g) == g = [s \in SUBSET S |-> Body(g, s)]
           h == CHOOSE g : Good(g)
<1>1. Rows(S) = (CHOOSE g : g = [s \in SUBSET S |-> Body(g, s)])[S]
  BY DEF Rows, MapThenSumSet, MapThenFoldSet, AnyOf
<1>2. IsFiniteSet(S)
  BY JobSets, FS_Subset
<1>3. \A s \in SUBSET S : s # {} => AnyOf(s) \in Indices
  BY DEF AnyOf
<1>4. ASSUME NEW g PROVE Good(g) <=> IsTotals(g, RowOf, S)
  <2>1. \A s \in SUBSET S :
          Body(g, s) = IF s = {} THEN 0 ELSE RowOf[AnyOf(s)] + g[s \ {AnyOf(s)}]
    BY <1>3 DEF RowOf
  <2> HIDE DEF Body
  <2>2. [s \in SUBSET S |-> Body(g, s)]
          = [s \in SUBSET S |-> IF s = {} THEN 0 ELSE RowOf[AnyOf(s)] + g[s \ {AnyOf(s)}]]
    BY <2>1
  <2> QED
    BY <2>2 DEF IsTotals
<1>5. Rows(S) = h[S]
  BY <1>1
<1>6. \A g : Good(g) <=> IsTotals(g, RowOf, S)
  BY <1>4
<1> HIDE DEF Good
<1>7. IsTotals(h, RowOf, S)
  BY <1>2, <1>6, TotalsExist
<1>8. h[S] = Total(RowOf, S)
  <2> HIDE DEF h
  <2> QED
    BY <1>2, <1>7, TotalsGive
<1> QED
  BY <1>5, <1>8

LEMMA FormRowsIsTotal ==
  ASeq(jobs) => \A d : FormRows(d) = Total(RowOf, FormSet(d))
<1> SUFFICES ASSUME ASeq(jobs), NEW d PROVE FormRows(d) = Total(RowOf, FormSet(d))
  OBVIOUS
<1>1. FormRows(d) = Rows(FormSet(d))
  BY DEF FormRows, FormSet, Indices
<1> QED
  BY <1>1, RowsIsTotal, JobSets
LEMMA FormRowsIsTotalNext == (ASeq(jobs) => \A d : FormRows(d) = Total(RowOf, FormSet(d)))'
BY FormRowsIsTotal, PTL

LEMMA FormRowsIsNat == Shapes => \A d : FormRows(d) \in Nat
<1> SUFFICES ASSUME Shapes, NEW d PROVE FormRows(d) \in Nat
  OBVIOUS
<1>1. \A i \in Indices : RowOf[i] \in Nat
  BY DEF RowOf, Shapes, JobShape
<1>2. FormSet(d) \in SUBSET Indices /\ IsFiniteSet(FormSet(d)) /\ FormRows(d) = Total(RowOf, FormSet(d))
  BY JobSets, FormRowsIsTotal DEF Shapes
<1>3. \A i \in FormSet(d) : RowOf[i] \in Nat
  BY <1>1, <1>2
<1> QED
  BY <1>2, <1>3, TotalIsNat
LEMMA FormRowsIsNatNext == (Shapes => \A d : FormRows(d) \in Nat)'
BY FormRowsIsNat, PTL
(* Stored jobs keep their day, their rows and their origin; they may end    *)
(* and go, and none comes back.                                            *)
JobsKept ==
  /\ ASeq(jobs') /\ Len(jobs') = Len(jobs)
  /\ \A i \in Indices :
       /\ {"at", "rows", "st", "by"} \subseteq DOMAIN jobs'[i]
       /\ jobs'[i].at = jobs[i].at /\ jobs'[i].rows = jobs[i].rows /\ jobs'[i].by = jobs[i].by
       /\ jobs'[i].st = "live" => jobs[i].st = "live"
       /\ jobs'[i].st # "gone" => jobs[i].st # "gone"

LEMMA KeptJobs ==
  ASSUME Shapes, JobsKept
  PROVE  /\ \A d : FormRows(d)' <= FormRows(d)
         /\ ActiveJobCount' <= ActiveJobCount
         /\ OnlyForms' <=> OnlyForms
<1>1. ASeq(jobs) /\ ASeq(jobs)' /\ Indices' = Indices
  BY DEF Shapes, JobsKept, Indices
<1>2. IsFiniteSet(Live) /\ Live' \in SUBSET Live
  <2>1. Live' \subseteq Live
    BY <1>1 DEF Live, JobsKept
  <2> QED
    BY <1>1, <2>1, JobSets
<1>3. ActiveJobCount' <= ActiveJobCount
  BY <1>1, <1>2, JobSets, JobSetsNext, FS_Subset
<1>4. OnlyForms' <=> OnlyForms
  BY <1>1 DEF OnlyForms, JobsKept
<1>5. ASSUME NEW d PROVE FormRows(d)' <= FormRows(d)
  <2>1. FormSet(d)' \in SUBSET FormSet(d)
    <3>1. FormSet(d)' \subseteq FormSet(d)
      BY <1>1 DEF FormSet, JobsKept
    <3> QED
      BY <3>1
  <2>2. IsFiniteSet(FormSet(d)) /\ IsFiniteSet(FormSet(d)') /\ FormSet(d) \subseteq Indices
    BY <1>1, JobSets, JobSetsNext
  <2>3. \A i \in FormSet(d) : RowOf[i] \in Nat /\ RowOf'[i] = RowOf[i]
    BY <1>1, <2>2 DEF RowOf, Shapes, JobShape, JobsKept
  <2>4. Total(RowOf', FormSet(d)') = Total(RowOf, FormSet(d)')
    BY <2>1, <2>2, <2>3, TotalCong
  <2>5. Total(RowOf, FormSet(d)') <= Total(RowOf, FormSet(d))
    BY <2>1, <2>2, <2>3, TotalMono
  <2>6. FormRows(d) = Total(RowOf, FormSet(d))
    BY <1>1, FormRowsIsTotal
  <2>7. FormRows(d)' = Total(RowOf', FormSet(d)')
    BY <1>1, FormRowsIsTotalNext
  <2> QED
    BY <2>4, <2>5, <2>6, <2>7
<1> QED
  BY <1>3, <1>4, <1>5

(* A job more. *)
LEMMA OneMoreJob ==
  ASSUME Shapes, NEW e, jobs' = Append(jobs, e), JobShape(e), e.st = "live"
  PROVE  /\ ASeq(jobs') /\ \A i \in Indices' : jobs'[i] = e \/ (i \in Indices /\ jobs'[i] = jobs[i])
         /\ ActiveJobCount' = ActiveJobCount + 1
         /\ OnlyForms' <=> OnlyForms /\ e.by = "form"
         /\ \A d : FormRows(d)' = IF e.by = "form" /\ Day(e.at) = d THEN e.rows + FormRows(d) ELSE FormRows(d)
<1> DEFINE n == Len(jobs) + 1
<1>1. /\ ASeq(jobs) /\ ASeq(jobs') /\ Len(jobs) \in Nat /\ Len(jobs') = n
      /\ jobs'[n] = e /\ \A i \in 1..Len(jobs) : jobs'[i] = jobs[i]
  BY AnAppend DEF Shapes, ASeq
<1>2. Indices' = Indices \cup {n} /\ n \notin Indices
  BY <1>1 DEF Indices
<1>3. jobs'[n] = e /\ \A i \in Indices : jobs'[i] = jobs[i]
  BY <1>1 DEF Indices
<1> HIDE DEF n
<1>4. Live' = Live \cup {n} /\ n \notin Live
  BY <1>2, <1>3 DEF Live
<1>5. ActiveJobCount' = ActiveJobCount + 1
  <2>1. IsFiniteSet(Live) /\ ActiveJobCount = Cardinality(Live) /\ ActiveJobCount' = Cardinality(Live')
    BY <1>1, JobSets, JobSetsNext
  <2> QED
    BY <1>4, <2>1, FS_AddElement
<1>6. OnlyForms' <=> OnlyForms /\ e.by = "form"
  BY <1>2, <1>3 DEF OnlyForms
<1>7. ASSUME NEW d
      PROVE  FormRows(d)' = IF e.by = "form" /\ Day(e.at) = d THEN e.rows + FormRows(d) ELSE FormRows(d)
  <2>1. FormSet(d)' = IF e.by = "form" /\ Day(e.at) = d THEN FormSet(d) \cup {n} ELSE FormSet(d)
    BY <1>2, <1>3 DEF FormSet
  <2>2. n \notin FormSet(d) /\ FormSet(d) \subseteq Indices /\ IsFiniteSet(FormSet(d))
    BY <1>1, <1>2, JobSets
  <2>3. RowOf'[n] = e.rows /\ \A i \in FormSet(d) : RowOf'[i] = RowOf[i] /\ RowOf[i] \in Nat
    BY <1>2, <1>3, <2>2 DEF RowOf, Shapes, JobShape
  <2>4. e.rows \in Nat
    BY DEF JobShape
  <2>5. Total(RowOf', FormSet(d)) = Total(RowOf, FormSet(d))
    BY <2>2, <2>3, TotalCong
  <2>6. \A i \in FormSet(d) \cup {n} : RowOf'[i] \in Nat
    BY <2>3, <2>4
  <2>7. Total(RowOf', FormSet(d) \cup {n}) = RowOf'[n] + Total(RowOf', FormSet(d))
    BY <2>2, <2>6, TotalAdd
  <2>8. FormRows(d) = Total(RowOf, FormSet(d))
    BY <1>1, FormRowsIsTotal
  <2>9. FormRows(d)' = Total(RowOf', FormSet(d)')
    BY <1>1, FormRowsIsTotalNext
  <2> QED
    BY <2>1, <2>3, <2>5, <2>7, <2>8, <2>9
<1> QED
  BY <1>1, <1>2, <1>3, <1>5, <1>6, <1>7

(* The day's rows of submits are among those the quota counts, and days to *)
(* come have none.                                                         *)
LEMMA CountedToday ==
  ASSUME Shapes
  PROVE  /\ FormRows(Day(now)) <= RunsToday /\ RunsToday \in Nat
         /\ \A d \in Days : d > Day(now) => FormRows(d) = 0
<1> DEFINE T == {i \in Indices : jobs[i].st # "gone" /\ Day(jobs[i].at) = Day(now)}
           F == FormSet(Day(now))
<1>1. ASeq(jobs) /\ \A i \in Indices : RowOf[i] \in Nat
  BY DEF Shapes, JobShape, RowOf
<1>2. T \in SUBSET Indices /\ F \in SUBSET T /\ IsFiniteSet(T) /\ IsFiniteSet(F)
  <2>1. T \in SUBSET Indices /\ F \in SUBSET T
    BY DEF FormSet
  <2>2. IsFiniteSet(Indices)
    BY <1>1, JobSets
  <2> HIDE DEF T, F
  <2>3. F \in SUBSET Indices
    BY <2>1
  <2> QED
    BY <2>1, <2>2, <2>3, FS_Subset
<1>3. RunsToday = Rows(T)
  BY DEF RunsToday, Indices
<1> HIDE DEF T
<1>4. RunsToday = Total(RowOf, T) /\ FormRows(Day(now)) = Total(RowOf, F)
  BY <1>1, <1>2, <1>3, RowsIsTotal, FormRowsIsTotal
<1> HIDE DEF F
<1>5. \A i \in T : RowOf[i] \in Nat
  BY <1>1, <1>2
<1>6. Total(RowOf, F) <= Total(RowOf, T) /\ Total(RowOf, T) \in Nat
  BY <1>2, <1>5, TotalMono, TotalIsNat
<1>7. ASSUME NEW d \in Days, d > Day(now) PROVE FormRows(d) = 0
  <2>1. \A i \in Indices : jobs[i].at \in Nat /\ now \in Nat /\ jobs[i].at <= now
    BY DEF Shapes, JobShape
  <2>2. \A i \in Indices : Day(jobs[i].at) <= Day(now) /\ Day(jobs[i].at) \in Nat /\ Day(now) \in Nat
    BY <2>1, CalendarFacts
  <2>3. d \in Int
    BY DEF Days
  <2>4. FormSet(d) = {}
    BY <1>7, <2>2, <2>3 DEF FormSet
  <2> QED
    BY <1>1, <2>4, FormRowsIsTotal, TotalEmpty
<1> QED
  BY <1>4, <1>6, <1>7
(* A step that lets nobody pass and adds no job. *)
LEMMA QuietKeepsLimits ==
  ASSUME LimitsInv, Shapes', JobsKept, now' = now \/ now' = now + 1,
         PastCap' \subseteq PastCap,
         \/ PastQuota' = PastQuota /\ \A r \in PastQuota : req'[r].rows = req[r].rows
         \/ PastQuota' = {}
  PROVE  LimitsInv'
<1>1. Shapes /\ \A d : FormRows(d)' <= FormRows(d) /\ FormRows(d) \in Nat /\ FormRows(d)' \in Nat
  BY KeptJobs, FormRowsIsNat, FormRowsIsNatNext DEF LimitsInv
<1>2. CapInv'
  <2>1. Cardinality(PastCap') <= Cardinality(PastCap) /\ Cardinality(PastCap) \in Nat /\ Cardinality(PastCap') \in Nat
    BY RequestSets, RequestSetsNext, FS_Subset
  <2>2. ActiveJobCount' <= ActiveJobCount /\ (OnlyForms' <=> OnlyForms)
    BY <1>1, KeptJobs
  <2>3. ActiveJobCount \in Nat /\ ActiveJobCount' \in Nat
    BY JobSets, JobSetsNext DEF LimitsInv, Shapes
  <2>4. Cap \in Nat /\ Racers \in Nat
    BY LimitFacts
  <2>5. Cap > 0 /\ OnlyForms => ActiveJobCount + Cardinality(PastCap) <= Cap + Racers
    BY DEF LimitsInv, CapInv
  <2> QED
    BY <2>1, <2>2, <2>3, <2>4, <2>5 DEF CapInv
<1>3. QuotaInv'
  <2> SUFFICES ASSUME Quota > 0, NEW d \in Days
               PROVE  /\ FormRows(d)' <= Limit
                      /\ d >= Day(now') => PastQuota' = {} \/ \E r \in PastQuota' : FitsOnTop(d, r)'
    BY DEF QuotaInv, Limit
  <2>1. Limit \in Nat /\ FormRows(d) <= Limit
    BY LimitFacts DEF LimitsInv, QuotaInv
  <2>2. FormRows(d)' <= Limit
    BY <1>1, <2>1
  <2>3. ASSUME d >= Day(now'), PastQuota' # {} PROVE \E r \in PastQuota' : FitsOnTop(d, r)'
    <3>1. d >= Day(now)
      <4>1. now \in Nat /\ now' \in Nat /\ now <= now'
        BY <1>1 DEF Shapes
      <4>2. Day(now) <= Day(now') /\ Day(now) \in Nat /\ Day(now') \in Nat /\ d \in Int
        BY <4>1, CalendarFacts DEF Days
      <4> QED
        BY <2>3, <4>2
    <3>2. PastQuota' = PastQuota
      BY <2>3
    <3>3. PICK r \in PastQuota : FitsOnTop(d, r)
      BY <2>3, <3>1, <3>2 DEF LimitsInv, QuotaInv
    <3>4. req'[r].rows = req[r].rows /\ req[r].rows \in Nat
      BY <1>1, <2>3, <3>3, LimitFacts DEF PastQuota, Shapes, ReqShape
    <3> DEFINE c == Cardinality(PastQuota \ {r}) * Max(RowCounts)
    <3>5. c \in Nat
      <4>1. IsFiniteSet(PastQuota \ {r})
        BY RequestSets, FS_Subset
      <4>2. Cardinality(PastQuota \ {r}) \in Nat /\ Max(RowCounts) \in Nat
        BY <4>1, FS_CardinalityType, LimitFacts
      <4> QED
        BY <4>2
    <3>6. FormRows(d) + req[r].rows + c <= Limit
      BY <3>3 DEF FitsOnTop
    <3>7. Cardinality(PastQuota' \ {r}) * Max(RowCounts) = c
      BY <3>2
    <3> HIDE DEF c
    <3>8. FormRows(d)' + req'[r].rows + c <= Limit
      BY <1>1, <2>1, <3>4, <3>5, <3>6
    <3>9. FitsOnTop(d, r)'
      BY <3>7, <3>8 DEF FitsOnTop, Limit
    <3> QED
      BY <3>2, <3>3, <3>9
  <2> QED
    BY <2>2, <2>3
<1> QED
  BY <1>2, <1>3 DEF LimitsInv

(* What is stored does not change. *)
LEMMA SameJobs ==
  ASSUME Shapes, jobs' = jobs
  PROVE  /\ JobsKept /\ ActiveJobCount' = ActiveJobCount /\ (OnlyForms' <=> OnlyForms)
         /\ \A d : FormRows(d)' = FormRows(d)
<1>1. JobsKept
  BY DEF Shapes, JobsKept, JobShape
<1>2. ActiveJobCount' = ActiveJobCount /\ (OnlyForms' <=> OnlyForms)
  BY DEF ActiveJobCount, OnlyForms, Indices
<1>3. \A d : FormSet(d)' = FormSet(d) /\ RowOf' = RowOf
  BY DEF FormSet, RowOf, Indices
<1>4. ASeq(jobs) /\ ASeq(jobs')
  BY DEF Shapes
<1>5. \A d : FormRows(d)' = FormRows(d)
  BY <1>3, <1>4, FormRowsIsTotal, FormRowsIsTotalNext
<1> QED
  BY <1>1, <1>2, <1>5

(* CheckCap lets a request pass below the cap: those past it fit. *)
LEMMA CapPassKeeps ==
  ASSUME LimitsInv, Shapes', jobs' = jobs, now' = now, NEW r \in Submitters,
         Cap > 0 => ActiveJobCount < Cap,
         PastQuota' = PastQuota, \A p \in PastQuota : req'[p].rows = req[p].rows
  PROVE  LimitsInv'
<1>1. Shapes
  BY DEF LimitsInv
<1>2. ActiveJobCount' = ActiveJobCount /\ JobsKept /\ \A d : FormRows(d)' = FormRows(d)
  BY <1>1, SameJobs
<1>3. CapInv'
  <2>1. IsFiniteSet(Submitters) /\ Cardinality(Submitters) = Racers + 1 /\ Racers \in Nat /\ Cap \in Nat
    BY LimitFacts
  <2>2. PastCap' \in SUBSET Submitters /\ Cardinality(PastCap') \in Nat
    BY RequestSetsNext
  <2>3. Cardinality(PastCap') <= Cardinality(Submitters)
    BY <2>1, <2>2, FS_Subset
  <2>4. ActiveJobCount \in Nat
    BY <1>1, JobSets DEF Shapes
  <2> QED
    BY <1>2, <2>1, <2>2, <2>3, <2>4 DEF CapInv
<1>4. QuotaInv'
  <2>1. \A d, p : p \in PastQuota => (FitsOnTop(d, p)' <=> FitsOnTop(d, p))
    BY <1>2 DEF FitsOnTop, Limit
  <2>2. \A d \in Days : Quota > 0 =>
          /\ FormRows(d) <= Limit
          /\ d >= Day(now) => PastQuota = {} \/ \E p \in PastQuota : FitsOnTop(d, p)
    BY DEF LimitsInv, QuotaInv
  <2>3. \A d \in Days : Quota > 0 =>
          /\ FormRows(d)' <= Limit
          /\ d >= Day(now') => PastQuota' = {} \/ \E p \in PastQuota' : FitsOnTop(d, p)'
    BY <1>2, <2>1, <2>2
  <2> QED
    BY <2>3 DEF QuotaInv, Limit
<1> QED
  BY <1>3, <1>4 DEF LimitsInv

(* RunQuotaCheck lets a request pass that fits with what is stored. *)
LEMMA QuotaPassKeeps ==
  ASSUME LimitsInv, Shapes', jobs' = jobs, now' = now, NEW r \in Submitters,
         Quota > 0 => RunsToday + req[r].rows <= Quota,
         PastCap' = PastCap, r \in PastQuota', req'[r].rows = req[r].rows
  PROVE  LimitsInv'
<1>1. Shapes
  BY DEF LimitsInv
<1>2. /\ ActiveJobCount' = ActiveJobCount /\ (OnlyForms' <=> OnlyForms)
      /\ \A d : FormRows(d)' = FormRows(d) /\ FormRows(d) \in Nat
  BY <1>1, SameJobs, FormRowsIsNat
<1>3. CapInv'
  BY <1>2 DEF LimitsInv, CapInv
<1>4. QuotaInv'
  <2> SUFFICES ASSUME Quota > 0, NEW d \in Days
               PROVE  /\ FormRows(d)' <= Limit
                      /\ d >= Day(now') => PastQuota' = {} \/ \E p \in PastQuota' : FitsOnTop(d, p)'
    BY DEF QuotaInv, Limit
  <2>1. FormRows(d)' <= Limit
    BY <1>2 DEF LimitsInv, QuotaInv
  <2>2. ASSUME d >= Day(now) PROVE FitsOnTop(d, r)'
    <3> DEFINE k == Cardinality(PastQuota' \ {r})
               m == Max(RowCounts)
    <3>1. k \in Nat /\ k <= Racers /\ m \in Nat /\ Racers \in Nat /\ Quota \in Nat
      <4>1. IsFiniteSet(Submitters \ {r}) /\ Cardinality(Submitters \ {r}) = Racers
        BY LimitFacts, OneLess
      <4>2. PastQuota' \ {r} \in SUBSET (Submitters \ {r})
        BY RequestSetsNext
      <4> QED
        BY <4>1, <4>2, FS_Subset, FS_CardinalityType, LimitFacts
    <3>2. req[r].rows \in Nat
      <4>1. req'[r].rows \in RowCounts
        BY DEF Shapes, ReqShape, PastQuota
      <4> QED
        BY <4>1, LimitFacts
    <3>3. FormRows(d) + req[r].rows <= Quota
      <4>1. FormRows(Day(now)) <= RunsToday /\ RunsToday \in Nat /\ (d > Day(now) => FormRows(d) = 0)
        BY <1>1, CountedToday
      <4>2. d \in Int /\ Day(now) \in Nat
        BY <1>1, CalendarFacts DEF Days, Shapes
      <4>3. CASE d = Day(now)
        BY <1>2, <3>1, <3>2, <4>1, <4>3
      <4>4. CASE d > Day(now)
        BY <3>1, <3>2, <4>1, <4>4
      <4> QED
        BY <2>2, <4>2, <4>3, <4>4
    <3> HIDE DEF k, m
    <3>4. k * m <= Racers * m /\ k * m \in Nat /\ Racers * m \in Nat
      BY <3>1
    <3>5. FormRows(d) + req[r].rows + k * m <= Quota + Racers * m
      BY <1>2, <3>1, <3>2, <3>3, <3>4
    <3> QED
      BY <1>2, <3>5 DEF FitsOnTop, Limit, k, m
  <2> QED
    BY <2>1, <2>2
<1> QED
  BY <1>3, <1>4 DEF LimitsInv

(* A job of a request takes the place the request had. *)
LEMMA CreateKeeps ==
  ASSUME LimitsInv, Shapes', now' = now, NEW r \in Submitters, req[r].pc = "create",
         jobs' = Append(jobs, Job("form", req[r].rows)),
         PastCap' = PastCap \ {r}, PastQuota' = PastQuota \ {r},
         \A p \in PastQuota \ {r} : req'[p].rows = req[p].rows
  PROVE  LimitsInv'
<1> DEFINE e == Job("form", req[r].rows)
<1>1. Shapes /\ r \in PastCap /\ r \in PastQuota
  BY DEF LimitsInv, PastCap, PastQuota
<1>2. /\ req[r].rows \in RowCounts /\ req[r].rows \in Nat /\ now \in Nat
      /\ Limit \in Nat /\ Max(RowCounts) \in Nat
  BY <1>1, LimitFacts DEF Shapes, ReqShape
<1>3. JobShape(e) /\ e.st = "live" /\ e.by = "form" /\ e.at = now /\ e.rows = req[r].rows
  BY <1>2 DEF Job, JobShape
<1> HIDE DEF e
<1>4. /\ ActiveJobCount' = ActiveJobCount + 1 /\ (OnlyForms' <=> OnlyForms)
      /\ \A d : FormRows(d)' = IF Day(now) = d THEN req[r].rows + FormRows(d) ELSE FormRows(d)
  <2>1. jobs' = Append(jobs, e)
    BY DEF e
  <2> QED
    BY <1>1, <1>3, <2>1, OneMoreJob
<1>5. CapInv'
  <2>1. Cardinality(PastCap') = Cardinality(PastCap) - 1 /\ Cardinality(PastCap) \in Nat
    BY <1>1, RequestSets, OneLess
  <2>2. ActiveJobCount \in Nat /\ Cap \in Nat /\ Racers \in Nat
    BY <1>1, JobSets, LimitFacts DEF Shapes
  <2>3. Cap > 0 /\ OnlyForms => ActiveJobCount + Cardinality(PastCap) <= Cap + Racers
    BY DEF LimitsInv, CapInv
  <2> QED
    BY <1>4, <2>1, <2>2, <2>3 DEF CapInv
<1>6. QuotaInv'
  <2> SUFFICES ASSUME Quota > 0, NEW d \in Days
               PROVE  /\ FormRows(d)' <= Limit
                      /\ d >= Day(now') => PastQuota' = {} \/ \E p \in PastQuota' : FitsOnTop(d, p)'
    BY DEF QuotaInv, Limit
  <2> DEFINE m == Max(RowCounts)
             k == Cardinality(PastQuota \ {r})
  <2>1. FormRows(d) \in Nat /\ FormRows(d) <= Limit
    BY <1>1, FormRowsIsNat DEF LimitsInv, QuotaInv
  <2>2. k \in Nat /\ m \in Nat /\ k * m \in Nat
    <3>1. k \in Nat /\ m \in Nat
      BY <1>2, RequestSets, FS_Subset, FS_CardinalityType
    <3> HIDE DEF k, m
    <3> QED
      BY <3>1
  <2>3. CASE d < Day(now)
    <3>1. Day(now) \in Nat /\ d \in Int
      <4>1. Day(now) \in Nat
        BY <1>2, CalendarFacts
      <4>2. Day(Horizon) \in Nat
        BY CalendarFacts
      <4>3. d \in 0..Day(Horizon)
        BY DEF Days
      <4> QED
        BY <4>1, <4>2, <4>3
    <3>2. Day(now') = Day(now)
      OBVIOUS
    <3>3. Day(now) # d /\ ~(d >= Day(now'))
      BY <2>3, <3>1, <3>2
    <3> QED
      BY <1>4, <2>1, <3>3
  <2>4. CASE d >= Day(now)
    <3>1. PICK p \in PastQuota : FitsOnTop(d, p)
      BY <1>1, <2>4 DEF LimitsInv, QuotaInv
    <3>2. req[p].rows \in Nat /\ req[p].rows <= m /\ req[r].rows <= m
      <4>1. p \in Submitters /\ req[p].rows \in RowCounts
        BY <1>1, <3>1 DEF PastQuota, Shapes, ReqShape
      <4> QED
        BY <1>2, <4>1, LimitFacts
    <3>3. FormRows(d)' \in Nat /\ FormRows(d)' <= req[r].rows + FormRows(d)
      BY <1>2, <1>4, <2>1
    <3>4. Cardinality(PastQuota \ {p}) \in Nat
      BY RequestSets, FS_Subset, FS_CardinalityType
    <3>5. Cardinality(PastQuota \ {p}) = k
      BY <1>1, <3>1, RequestSets, OneLess
    <3>6. FormRows(d) + req[p].rows + k * m <= Limit
      BY <3>1, <3>5 DEF FitsOnTop
    <3>7. CASE p = r
      <4>1. FormRows(d)' + k * m <= Limit
        <5> HIDE DEF k, m
        <5>1. \A x \in Nat : FormRows(d) + req[r].rows + x <= Limit => FormRows(d)' + x <= Limit
          BY <1>2, <2>1, <3>3
        <5> QED
          BY <2>2, <3>6, <3>7, <5>1
      <4>2. FormRows(d)' <= Limit
        <5> HIDE DEF k, m
        <5>1. \A x \in Nat : FormRows(d)' + x <= Limit => FormRows(d)' <= Limit
          BY <1>2, <3>3
        <5> QED
          BY <2>2, <4>1, <5>1
      <4>3. ASSUME NEW q \in PastQuota' PROVE FitsOnTop(d, q)'
        <5>1. q \in PastQuota \ {r} /\ req'[q].rows = req[q].rows /\ req[q].rows \in Nat /\ req[q].rows <= m
          <6>1. q \in PastQuota \ {r}
            BY <4>3
          <6>2. req[q].rows \in RowCounts
            BY <1>1, <6>1 DEF PastQuota, Shapes, ReqShape
          <6> QED
            BY <6>1, <6>2, LimitFacts
        <5> DEFINE l == Cardinality(PastQuota' \ {q})
        <5>2. l \in Nat /\ l = k - 1
          <6>1. IsFiniteSet(PastQuota \ {r})
            BY RequestSets, FS_Subset
          <6>2. PastQuota' \ {q} = (PastQuota \ {r}) \ {q}
            OBVIOUS
          <6> QED
            BY <5>1, <6>1, <6>2, OneLess
        <5> HIDE DEF k, m, l
        <5>3. l * m = k * m - m /\ l * m \in Nat
          BY <2>2, <5>2
        <5>4. \A x \in Nat, y \in Nat : x = y - m /\ FormRows(d)' + y <= Limit => FormRows(d)' + req'[q].rows + x <= Limit
          BY <1>2, <2>2, <3>3, <5>1
        <5>5. FormRows(d)' + req'[q].rows + l * m <= Limit
          BY <2>2, <4>1, <5>3, <5>4
        <5> QED
          BY <5>5 DEF FitsOnTop, Limit, l, m
      <4> QED
        BY <4>2, <4>3
    <3>8. CASE p # r
      <4>1. p \in PastQuota' /\ req'[p].rows = req[p].rows
        BY <3>1, <3>8
      <4> DEFINE l == Cardinality(PastQuota' \ {p})
      <4>2. l \in Nat /\ l = k - 1
        <5>1. IsFiniteSet(PastQuota \ {r})
          BY RequestSets, FS_Subset
        <5> QED
          BY <4>1, <5>1, OneLess
      <4> HIDE DEF k, m, l
      <4>3. l * m = k * m - m /\ l * m \in Nat
        BY <2>2, <4>2
      <4>4. \A x \in Nat, y \in Nat : x = y - m /\ FormRows(d) + req[p].rows + y <= Limit =>
              FormRows(d)' + req[p].rows + x <= Limit /\ FormRows(d)' <= Limit
        <5>1. FormRows(d)' \in Nat /\ FormRows(d)' <= FormRows(d) + m
          <6>1. req[r].rows \in Nat /\ req[r].rows <= m /\ m \in Nat /\ FormRows(d) \in Nat
            BY <1>2, <2>1, <2>2, <3>2
          <6> QED
            BY <3>3, <6>1
        <5>2. \A f, g, n, x, y, u, v \in Nat : g <= f + u /\ x = y - u /\ f + n + y <= v =>
                g + n + x <= v /\ g <= v
          OBVIOUS
        <5>3. m \in Nat /\ Limit \in Nat /\ FormRows(d) \in Nat /\ req[p].rows \in Nat
          BY <1>2, <2>1, <2>2, <3>2
        <5> QED
          BY <5>1, <5>2, <5>3
      <4>5. FormRows(d)' + req'[p].rows + l * m <= Limit /\ FormRows(d)' <= Limit
        BY <2>2, <3>6, <4>1, <4>3, <4>4
      <4>6. FitsOnTop(d, p)'
        BY <4>5 DEF FitsOnTop, Limit, l, m
      <4> QED
        BY <4>1, <4>5, <4>6
    <3> QED
      BY <3>7, <3>8
  <2> QED
    <3>1. d \in Int /\ Day(now) \in Int
      BY <1>2, CalendarFacts DEF Days
    <3> QED
      BY <2>3, <2>4, <3>1
<1> QED
  BY <1>5, <1>6 DEF LimitsInv

(* A job of a recurring task counts in neither. *)
LEMMA TaskJobKeeps ==
  ASSUME LimitsInv, Shapes', now' = now, req' = req, jobs' = Append(jobs, Job("task", 1))
  PROVE  LimitsInv'
<1> DEFINE e == Job("task", 1)
<1>1. Shapes
  BY DEF LimitsInv
<1>2. JobShape(e) /\ e.st = "live" /\ e.by # "form"
  BY <1>1 DEF Job, JobShape, Shapes
<1>3. jobs' = Append(jobs, e)
  OBVIOUS
<1> HIDE DEF e
<1>4. ~OnlyForms' /\ \A d : FormRows(d)' = FormRows(d)
  BY <1>1, <1>2, <1>3, OneMoreJob
<1>5. PastQuota' = PastQuota
  BY DEF PastQuota
<1>6. \A d, p : FitsOnTop(d, p)' <=> FitsOnTop(d, p)
  BY <1>4, <1>5 DEF FitsOnTop, Limit
<1>7. CapInv'
  BY <1>4 DEF CapInv
<1>8. QuotaInv'
  BY <1>4, <1>5, <1>6 DEF LimitsInv, QuotaInv, Limit
<1> QED
  BY <1>7, <1>8 DEF LimitsInv
LEMMA LimitsInit == Init => LimitsInv
<1> SUFFICES ASSUME Init PROVE LimitsInv
  OBVIOUS
<1>1. now = 0 /\ jobs = <<>> /\ mode \in Modes
  BY DEF Init
<1>2. Indices = {} /\ ASeq(jobs)
  <2>1. Len(jobs) = 0
    BY <1>1
  <2>2. [i \in 1..0 |-> jobs[i]] = <<>>
    OBVIOUS
  <2> QED
    BY <1>1, <2>1, <2>2 DEF Indices, ASeq
<1>3. DOMAIN req = Submitters /\ \A r \in Submitters : req[r].pc = "idle" /\ ReqShape(r)
  <2>1. IdleReq.pc = "idle" /\ {"pc", "rows"} \subseteq DOMAIN IdleReq
    BY DEF IdleReq
  <2>2. DOMAIN req = Submitters /\ \A r \in Submitters : req[r] = IdleReq
    BY DEF Init
  <2> QED
    BY <2>1, <2>2 DEF ReqShape
<1>4. Shapes
  BY <1>1, <1>2, <1>3, CalendarFacts DEF Shapes
<1>5. PastCap = {} /\ PastQuota = {}
  BY <1>3 DEF PastCap, PastQuota
<1>6. ActiveJobCount = 0
  <2>1. Live = {} /\ ActiveJobCount = Cardinality(Live)
    BY <1>2, JobSets DEF Live
  <2> QED
    BY <2>1, FS_EmptySet
<1>7. \A d : FormRows(d) = 0
  <2>1. \A d : FormSet(d) = {}
    BY <1>2 DEF FormSet
  <2> QED
    BY <1>2, <2>1, FormRowsIsTotal, TotalEmpty
<1>8. CapInv
  <2>1. Cardinality(PastCap) = 0
    BY <1>5, FS_EmptySet
  <2> QED
    BY <1>6, <2>1, LimitFacts DEF CapInv
<1>9. QuotaInv
  BY <1>5, <1>7, LimitFacts DEF QuotaInv, Limit
<1> QED
  BY <1>4, <1>8, <1>9 DEF LimitsInv

(* A step of one request, by what becomes of its locals. *)
LEMMA OneRequest ==
  ASSUME Shapes, NEW r \in Submitters, NEW e, req' = [req EXCEPT ![r] = e],
         {"pc", "rows"} \subseteq DOMAIN e,
         e.pc \in {"cap", "quota", "ticket", "spend", "create"} => e.rows \in RowCounts
  PROVE  /\ DOMAIN req' = Submitters /\ \A p \in Submitters : ReqShape(p)'
         /\ req'[r] = e /\ \A p \in Submitters : p # r => req'[p] = req[p]
<1>1. DOMAIN req' = Submitters /\ req'[r] = e /\ \A p \in Submitters : p # r => req'[p] = req[p]
  BY DEF Shapes
<1>2. \A p \in Submitters : ReqShape(p)'
  BY <1>1 DEF Shapes, ReqShape
<1> QED
  BY <1>1, <1>2

LEMMA SameShapes ==
  ASSUME Shapes, UNCHANGED <<now, jobs, mode>>,
         DOMAIN req' = Submitters, \A p \in Submitters : ReqShape(p)'
  PROVE  Shapes'
BY DEF Shapes, JobShape, Indices

LEMMA KeptShapes ==
  ASSUME Shapes, JobsKept, UNCHANGED now
  PROVE  \A i \in Indices' : JobShape(jobs[i])'
BY DEF Shapes, JobsKept, JobShape, Indices

(* A job is added with its time and its rows. *)
LEMMA JobAdded ==
  ASSUME Shapes, NEW by, NEW n \in Nat, jobs' = Append(jobs, Job(by, n)), UNCHANGED <<now, mode>>,
         DOMAIN req' = Submitters, \A p \in Submitters : ReqShape(p)'
  PROVE  Shapes'
<1> DEFINE e == Job(by, n)
<1>1. JobShape(e) /\ e.st = "live"
  BY DEF Job, JobShape, Shapes
<1> HIDE DEF e
<1>2. jobs' = Append(jobs, e)
  BY DEF e
<1>3. ASeq(jobs') /\ \A i \in Indices' : jobs'[i] = e \/ (i \in Indices /\ jobs'[i] = jobs[i])
  BY <1>1, <1>2, OneMoreJob
<1> QED
  BY <1>1, <1>3 DEF Shapes, JobShape

LEMMA SubmitKeeps ==
  ASSUME LimitsInv, NEW r \in Submitters, Submit(r)
  PROVE  LimitsInv'
<1>1. Shapes /\ mode.rows \subseteq RowCounts
  BY LimitFacts DEF LimitsInv, Shapes
<1>2. req[r].pc = "idle" /\ UNCHANGED <<now, jobs, mode>>
  BY DEF Submit
<1>3. PICK e : /\ req' = [req EXCEPT ![r] = e]
               /\ e.pc = "cap" /\ {"pc", "rows"} \subseteq DOMAIN e /\ e.rows \in RowCounts
  <2>1. PICK n \in mode.rows, u \in (IF "urgent" \in mode.ops THEN BOOLEAN ELSE {FALSE}) :
           \/ req' = [req EXCEPT ![r] = [IdleReq EXCEPT !.pc = "cap", !.rows = n, !.urgent = u]]
           \/ /\ "preset" \in mode.ops
              /\ \E p \in Presets : LET w == ResolvePresetWindow(p, now) IN
                   req' = [req EXCEPT ![r] = [IdleReq EXCEPT
                       !.pc = "cap", !.rows = n, !.urgent = u, !.from = now, !.runAt = w.runAt,
                       !.until = w.until, !.preset = {p}]]
    BY DEF Submit
  <2>2. CASE req' = [req EXCEPT ![r] = [IdleReq EXCEPT !.pc = "cap", !.rows = n, !.urgent = u]]
    <3> DEFINE f == [IdleReq EXCEPT !.pc = "cap", !.rows = n, !.urgent = u]
    <3>1. f.pc = "cap" /\ f.rows = n /\ {"pc", "rows"} \subseteq DOMAIN f
      BY DEF IdleReq
    <3> QED
      BY <1>1, <2>2, <3>1
  <2>3. ASSUME NEW p \in Presets, NEW w,
               req' = [req EXCEPT ![r] = [IdleReq EXCEPT
                       !.pc = "cap", !.rows = n, !.urgent = u, !.from = now, !.runAt = w.runAt,
                       !.until = w.until, !.preset = {p}]]
        PROVE  \E e : /\ req' = [req EXCEPT ![r] = e]
                      /\ e.pc = "cap" /\ {"pc", "rows"} \subseteq DOMAIN e /\ e.rows \in RowCounts
    <3> DEFINE f == [IdleReq EXCEPT !.pc = "cap", !.rows = n, !.urgent = u, !.from = now,
                                    !.runAt = w.runAt, !.until = w.until, !.preset = {p}]
    <3>1. f.pc = "cap" /\ f.rows = n /\ {"pc", "rows"} \subseteq DOMAIN f
      BY DEF IdleReq
    <3> QED
      BY <1>1, <2>3, <3>1
  <2> QED
    BY <2>1, <2>2, <2>3
<1>4. /\ DOMAIN req' = Submitters /\ \A p \in Submitters : ReqShape(p)'
      /\ req'[r] = e /\ \A p \in Submitters : p # r => req'[p] = req[p]
  BY <1>1, <1>3, OneRequest
<1>5. Shapes' /\ JobsKept
  BY <1>1, <1>2, <1>4, SameShapes, SameJobs
<1>6. PastCap' = PastCap /\ PastQuota' = PastQuota /\ \A p \in PastQuota : req'[p].rows = req[p].rows
  BY <1>2, <1>3, <1>4 DEF PastCap, PastQuota
<1> QED
  BY <1>2, <1>5, <1>6, QuietKeepsLimits

(* A request that is refused, or has nothing left to do. *)
LEMMA RefuseKeeps ==
  ASSUME LimitsInv, NEW r \in Submitters, Refuse(r), UNCHANGED <<now, mode>>, JobsKept,
         \A i \in Indices' : JobShape(jobs[i])', req[r].pc \in {"cap", "quota", "window"}
  PROVE  LimitsInv'
<1>1. Shapes
  BY DEF LimitsInv
<1>2. IdleReq.pc = "idle" /\ {"pc", "rows"} \subseteq DOMAIN IdleReq
  BY DEF IdleReq
<1>3. /\ DOMAIN req' = Submitters /\ \A p \in Submitters : ReqShape(p)'
      /\ req'[r] = IdleReq /\ \A p \in Submitters : p # r => req'[p] = req[p]
  BY <1>1, <1>2, OneRequest DEF Refuse
<1>4. Shapes'
  BY <1>1, <1>3 DEF Shapes, JobsKept
<1>5. PastCap' \subseteq PastCap /\ PastQuota' = PastQuota /\ \A p \in PastQuota : req'[p].rows = req[p].rows
  BY <1>2, <1>3 DEF PastCap, PastQuota
<1> QED
  BY <1>4, <1>5, QuietKeepsLimits

(* A request that goes on to its next check. *)
LEMMA GoIs ==
  ASSUME Shapes, NEW r \in Submitters, NEW e, req' = [req EXCEPT ![r] = e],
         UNCHANGED <<now, jobs, mode>>,
         req[r].pc \in {"cap", "quota", "ticket", "spend"}, e.rows = req[r].rows, {"pc", "rows"} \subseteq DOMAIN e
  PROVE  /\ Shapes' /\ JobsKept /\ req'[r] = e
         /\ \A p \in Submitters : p # r => req'[p] = req[p]
<1>1. e.rows \in RowCounts
  BY DEF Shapes, ReqShape
<1>2. /\ DOMAIN req' = Submitters /\ \A p \in Submitters : ReqShape(p)'
      /\ req'[r] = e /\ \A p \in Submitters : p # r => req'[p] = req[p]
  BY <1>1, OneRequest
<1> QED
  BY <1>2, SameShapes, SameJobs
LEMMA StepsOf ==
  ASSUME Shapes, NEW r \in Submitters, NEW pc
  PROVE  /\ [req EXCEPT ![r].pc = pc] = [req EXCEPT ![r] = [req[r] EXCEPT !.pc = pc]]
         /\ [req[r] EXCEPT !.pc = pc].pc = pc
         /\ [req[r] EXCEPT !.pc = pc].rows = req[r].rows
         /\ {"pc", "rows"} \subseteq DOMAIN [req[r] EXCEPT !.pc = pc]
BY DEF Shapes, ReqShape

LEMMA CheckCapKeeps ==
  ASSUME LimitsInv, NEW r \in Submitters, CheckCap(r)
  PROVE  LimitsInv'
<1>1. Shapes /\ req[r].pc = "cap" /\ UNCHANGED <<now, jobs, mode>>
  BY DEF LimitsInv, CheckCap
<1>2. CASE Refuse(r)
  <2>1. JobsKept /\ \A i \in Indices' : JobShape(jobs[i])'
    BY <1>1, SameJobs DEF Shapes, Indices, JobShape
  <2> QED
    BY <1>1, <1>2, <2>1, RefuseKeeps
<1>3. CASE Go(r, "quota") /\ ~(Cap > 0 /\ ActiveJobCount >= Cap)
  <2> DEFINE e == [req[r] EXCEPT !.pc = "quota"]
  <2>1. req' = [req EXCEPT ![r] = e] /\ e.pc = "quota" /\ e.rows = req[r].rows /\ {"pc", "rows"} \subseteq DOMAIN e
    BY <1>1, <1>3, StepsOf DEF Go
  <2> HIDE DEF e
  <2>2. Shapes' /\ req'[r] = e /\ \A p \in Submitters : p # r => req'[p] = req[p]
    BY <1>1, <2>1, GoIs
  <2>3. PastQuota' = PastQuota /\ \A p \in PastQuota : req'[p].rows = req[p].rows
    BY <1>1, <2>1, <2>2 DEF PastQuota
  <2>4. Cap > 0 => ActiveJobCount < Cap
    BY <1>1, <1>3, JobSets, LimitFacts DEF Shapes
  <2> QED
    BY <1>1, <2>2, <2>3, <2>4, CapPassKeeps
<1> QED
  BY <1>2, <1>3 DEF CheckCap

LEMMA RunQuotaCheckKeeps ==
  ASSUME LimitsInv, NEW r \in Submitters, RunQuotaCheck(r)
  PROVE  LimitsInv'
<1>1. Shapes /\ req[r].pc = "quota" /\ UNCHANGED <<now, jobs, mode>>
  BY DEF LimitsInv, RunQuotaCheck
<1>2. CASE Refuse(r)
  <2>1. JobsKept /\ \A i \in Indices' : JobShape(jobs[i])'
    BY <1>1, SameJobs DEF Shapes, Indices, JobShape
  <2> QED
    BY <1>1, <1>2, <2>1, RefuseKeeps
<1>3. CASE Go(r, "ticket") /\ ~(Quota > 0 /\ RunsToday + req[r].rows > Quota)
  <2> DEFINE e == [req[r] EXCEPT !.pc = "ticket"]
  <2>1. req' = [req EXCEPT ![r] = e] /\ e.pc = "ticket" /\ e.rows = req[r].rows /\ {"pc", "rows"} \subseteq DOMAIN e
    BY <1>1, <1>3, StepsOf DEF Go
  <2> HIDE DEF e
  <2>2. Shapes' /\ req'[r] = e /\ \A p \in Submitters : p # r => req'[p] = req[p]
    BY <1>1, <2>1, GoIs
  <2>3. PastCap' = PastCap /\ r \in PastQuota' /\ req'[r].rows = req[r].rows
    BY <1>1, <2>1, <2>2 DEF PastCap, PastQuota
  <2>4. Quota > 0 => RunsToday + req[r].rows <= Quota
    <3>1. RunsToday \in Nat /\ req[r].rows \in Nat /\ Quota \in Nat
      BY <1>1, CountedToday, LimitFacts DEF Shapes, ReqShape
    <3> QED
      BY <1>3, <3>1
  <2> QED
    BY <1>1, <2>2, <2>3, <2>4, QuotaPassKeeps
<1> QED
  BY <1>2, <1>3 DEF RunQuotaCheck

LEMMA ReadClockKeeps ==
  ASSUME LimitsInv, NEW r \in Submitters, ReadClock(r)
  PROVE  LimitsInv'
<1>1. Shapes /\ req[r].pc = "ticket" /\ UNCHANGED <<now, jobs, mode>>
  BY DEF LimitsInv, ReadClock
<1>2. PICK e : /\ req' = [req EXCEPT ![r] = e]
               /\ e.pc \in {"spend", "create"} /\ e.rows = req[r].rows /\ {"pc", "rows"} \subseteq DOMAIN e
  <2>1. \/ req' = [req EXCEPT ![r].pc = "spend", ![r].at = now]
        \/ req' = [req EXCEPT ![r].pc = "create"]
    BY DEF ReadClock
  <2>2. CASE req' = [req EXCEPT ![r].pc = "create"]
    BY <1>1, <2>2, StepsOf
  <2>3. CASE req' = [req EXCEPT ![r].pc = "spend", ![r].at = now]
    <3> DEFINE e == [[req[r] EXCEPT !.pc = "spend"] EXCEPT !.at = now]
    <3>1. r \in DOMAIN req /\ {"pc", "rows"} \subseteq DOMAIN req[r]
      BY <1>1 DEF Shapes, ReqShape
    <3>2. req' = [req EXCEPT ![r] = e]
      BY <2>3, <3>1
    <3>3. e.pc = "spend" /\ e.rows = req[r].rows /\ {"pc", "rows"} \subseteq DOMAIN e
      BY <3>1
    <3> HIDE DEF e
    <3> QED
      BY <3>2, <3>3
  <2> QED
    BY <2>1, <2>2, <2>3
<1>3. Shapes' /\ JobsKept /\ req'[r] = e /\ \A p \in Submitters : p # r => req'[p] = req[p]
  BY <1>1, <1>2, GoIs
<1>4. PastCap' = PastCap /\ PastQuota' = PastQuota /\ \A p \in PastQuota : req'[p].rows = req[p].rows
  BY <1>1, <1>2, <1>3 DEF PastCap, PastQuota
<1> QED
  BY <1>1, <1>3, <1>4, QuietKeepsLimits

LEMMA SpendTicketKeepsLimits ==
  ASSUME LimitsInv, NEW r \in Submitters, SpendTicket(r)
  PROVE  LimitsInv'
<1>1. Shapes /\ req[r].pc = "spend" /\ UNCHANGED <<now, jobs, mode>>
  BY DEF LimitsInv, SpendTicket
<1>2. PICK e : /\ req' = [req EXCEPT ![r] = e]
               /\ e.pc = "create" /\ e.rows = req[r].rows /\ {"pc", "rows"} \subseteq DOMAIN e
  <2>1. \/ req' = [req EXCEPT ![r].pc = "create", ![r].urgent = FALSE]
        \/ req' = [req EXCEPT ![r].pc = "create"]
    BY DEF SpendTicket, Go
  <2>2. CASE req' = [req EXCEPT ![r].pc = "create"]
    BY <1>1, <2>2, StepsOf
  <2>3. CASE req' = [req EXCEPT ![r].pc = "create", ![r].urgent = FALSE]
    <3> DEFINE e == [[req[r] EXCEPT !.pc = "create"] EXCEPT !.urgent = FALSE]
    <3>1. r \in DOMAIN req /\ {"pc", "rows"} \subseteq DOMAIN req[r]
      BY <1>1 DEF Shapes, ReqShape
    <3>2. req' = [req EXCEPT ![r] = e]
      BY <2>3, <3>1
    <3>3. e.pc = "create" /\ e.rows = req[r].rows /\ {"pc", "rows"} \subseteq DOMAIN e
      BY <3>1
    <3> HIDE DEF e
    <3> QED
      BY <3>2, <3>3
  <2> QED
    BY <2>1, <2>2, <2>3
<1>3. Shapes' /\ JobsKept /\ req'[r] = e /\ \A p \in Submitters : p # r => req'[p] = req[p]
  BY <1>1, <1>2, GoIs
<1>4. PastCap' = PastCap /\ PastQuota' = PastQuota /\ \A p \in PastQuota : req'[p].rows = req[p].rows
  BY <1>1, <1>2, <1>3 DEF PastCap, PastQuota
<1> QED
  BY <1>1, <1>3, <1>4, QuietKeepsLimits

LEMMA CreateBatchJobKeeps ==
  ASSUME LimitsInv, NEW r \in Submitters, CreateBatchJob(r)
  PROVE  LimitsInv'
<1>1. /\ Shapes /\ req[r].pc = "create" /\ UNCHANGED <<now, mode>>
      /\ jobs' = Append(jobs, Job("form", req[r].rows)) /\ req[r].rows \in Nat
  BY LimitFacts DEF LimitsInv, CreateBatchJob, Shapes, ReqShape
<1>2. PICK e : /\ req' = [req EXCEPT ![r] = e]
               /\ e.pc \in {"idle", "window"} /\ {"pc", "rows"} \subseteq DOMAIN e
  <2>1. \/ req' = [req EXCEPT ![r] = IdleReq]
        \/ req' = [req EXCEPT ![r].pc = "window", ![r].job = Len(jobs) + 1]
    BY DEF CreateBatchJob
  <2>2. CASE req' = [req EXCEPT ![r] = IdleReq]
    <3>1. IdleReq.pc = "idle" /\ {"pc", "rows"} \subseteq DOMAIN IdleReq
      BY DEF IdleReq
    <3> QED
      BY <2>2, <3>1
  <2>3. CASE req' = [req EXCEPT ![r].pc = "window", ![r].job = Len(jobs) + 1]
    <3> DEFINE e == [[req[r] EXCEPT !.pc = "window"] EXCEPT !.job = Len(jobs) + 1]
    <3>1. r \in DOMAIN req /\ {"pc", "rows"} \subseteq DOMAIN req[r]
      BY <1>1 DEF Shapes, ReqShape
    <3>2. req' = [req EXCEPT ![r] = e]
      BY <2>3, <3>1
    <3>3. e.pc = "window" /\ {"pc", "rows"} \subseteq DOMAIN e
      BY <3>1
    <3> HIDE DEF e
    <3> QED
      BY <3>2, <3>3
  <2> QED
    BY <2>1, <2>2, <2>3
<1>3. /\ DOMAIN req' = Submitters /\ \A p \in Submitters : ReqShape(p)'
      /\ req'[r] = e /\ \A p \in Submitters : p # r => req'[p] = req[p]
  BY <1>1, <1>2, OneRequest
<1>4. Shapes'
  BY <1>1, <1>3, JobAdded
<1>5. PastCap' = PastCap \ {r} /\ PastQuota' = PastQuota \ {r}
      /\ \A p \in PastQuota \ {r} : req'[p].rows = req[p].rows
  BY <1>2, <1>3 DEF PastCap, PastQuota
<1> QED
  BY <1>1, <1>4, <1>5, CreateKeeps

LEMMA SetJobWindowKeeps ==
  ASSUME LimitsInv, NEW r \in Submitters, SetJobWindow(r)
  PROVE  LimitsInv'
<1>1. Shapes /\ req[r].pc = "window" /\ UNCHANGED <<now, mode>> /\ Refuse(r)
  BY DEF LimitsInv, SetJobWindow
<1> DEFINE k == req[r].job
           w == [jobs[k] EXCEPT !.runAt = req[r].runAt, !.until = req[r].until]
<1>2. jobs' = [jobs EXCEPT ![k] = w]
  BY DEF SetJobWindow
<1>3. \A i \in Indices : {"at", "rows", "st", "by"} \subseteq DOMAIN jobs[i]
  BY <1>1 DEF Shapes, JobShape
<1>4. k \in Indices =>
        /\ {"at", "rows", "st", "by"} \subseteq DOMAIN w
        /\ w.at = jobs[k].at /\ w.rows = jobs[k].rows /\ w.st = jobs[k].st /\ w.by = jobs[k].by
  BY <1>3
<1> HIDE DEF w, k
<1>5. ASeq(jobs) /\ DOMAIN jobs = Indices /\ Len(jobs) \in Nat
  BY <1>1 DEF Shapes, ASeq, Indices
<1>6. jobs' = [i \in 1..Len(jobs) |-> jobs'[i]]
  BY <1>2, <1>5 DEF Indices
<1>7. ASeq(jobs') /\ Len(jobs') = Len(jobs)
  BY <1>5, <1>6, AFunction
<1>8. \A i \in Indices : jobs'[i] = IF i = k THEN w ELSE jobs[i]
  BY <1>2, <1>5
<1>9. JobsKept
  BY <1>3, <1>4, <1>7, <1>8 DEF JobsKept
<1>10. \A i \in Indices' : JobShape(jobs[i])'
  BY <1>1, <1>7, <1>9, KeptShapes
<1> QED
  BY <1>1, <1>9, <1>10, RefuseKeeps
(* A step outside the requests that adds no job. *)
LEMMA NoRequestMoves ==
  ASSUME LimitsInv, UNCHANGED <<req, mode>>, JobsKept, now' = now \/ (now' = now + 1 /\ now < Horizon)
  PROVE  LimitsInv'
<1>1. Shapes
  BY DEF LimitsInv
<1>2. now' \in Nat /\ now' <= Horizon /\ now <= now'
  BY <1>1, CalendarFacts DEF Shapes
<1>3. \A i \in Indices' : JobShape(jobs[i])'
  BY <1>1, <1>2 DEF Shapes, JobsKept, JobShape, Indices
<1>4. \A r \in Submitters : ReqShape(r)'
  BY <1>1 DEF Shapes, ReqShape
<1>5. Shapes'
  BY <1>1, <1>2, <1>3, <1>4 DEF Shapes, JobsKept
<1>6. PastCap' = PastCap /\ PastQuota' = PastQuota /\ \A r \in PastQuota : req'[r].rows = req[r].rows
  BY DEF PastCap, PastQuota
<1> QED
  BY <1>5, <1>6, QuietKeepsLimits

LEMMA FinishJobKeeps ==
  ASSUME LimitsInv, NEW i \in 1..Len(jobs), FinishJob(i)
  PROVE  LimitsInv'
<1>1. Shapes /\ UNCHANGED <<now, req, mode>> /\ i \in Indices /\ jobs[i].st = "live"
  BY DEF LimitsInv, FinishJob, Indices
<1> DEFINE e == [jobs[i] EXCEPT !.st = "done"]
<1>2. ASeq(jobs) /\ DOMAIN jobs = Indices /\ Len(jobs) \in Nat
      /\ \A j \in Indices : {"at", "rows", "st", "by"} \subseteq DOMAIN jobs[j]
  BY <1>1 DEF Shapes, ASeq, Indices, JobShape
<1>3. jobs' = [jobs EXCEPT ![i] = e]
  BY DEF FinishJob
<1>4. /\ {"at", "rows", "st", "by"} \subseteq DOMAIN e
      /\ e.at = jobs[i].at /\ e.rows = jobs[i].rows /\ e.st = "done" /\ e.by = jobs[i].by
  BY <1>1, <1>2
<1> HIDE DEF e
<1>5. jobs' = [j \in 1..Len(jobs) |-> jobs'[j]] /\ \A j \in Indices : jobs'[j] = IF j = i THEN e ELSE jobs[j]
  BY <1>2, <1>3 DEF Indices
<1>6. ASeq(jobs') /\ Len(jobs') = Len(jobs)
  BY <1>2, <1>5, AFunction
<1>7. JobsKept
  BY <1>1, <1>2, <1>4, <1>5, <1>6 DEF JobsKept
<1> QED
  BY <1>1, <1>7, NoRequestMoves

LEMMA ClearFinishedKeeps ==
  ASSUME LimitsInv, ClearFinished
  PROVE  LimitsInv'
<1>1. Shapes /\ UNCHANGED <<now, req, mode>>
  BY DEF LimitsInv, ClearFinished
<1>2. ASeq(jobs) /\ Len(jobs) \in Nat
      /\ \A j \in Indices : {"at", "rows", "st", "by"} \subseteq DOMAIN jobs[j]
  BY <1>1 DEF Shapes, ASeq, JobShape
<1>3. /\ jobs' = [j \in 1..Len(jobs) |-> jobs'[j]]
      /\ \A j \in Indices : jobs'[j] = IF jobs[j].st = "done" THEN [jobs[j] EXCEPT !.st = "gone"] ELSE jobs[j]
  BY DEF ClearFinished, Indices
<1>4. ASeq(jobs') /\ Len(jobs') = Len(jobs)
  BY <1>2, <1>3, AFunction
<1>5. ASSUME NEW j \in Indices
      PROVE  /\ {"at", "rows", "st", "by"} \subseteq DOMAIN jobs'[j]
             /\ jobs'[j].at = jobs[j].at /\ jobs'[j].rows = jobs[j].rows /\ jobs'[j].by = jobs[j].by
             /\ jobs'[j].st = "live" => jobs[j].st = "live"
             /\ jobs'[j].st # "gone" => jobs[j].st # "gone"
  <2>1. CASE jobs[j].st = "done"
    <3> DEFINE e == [jobs[j] EXCEPT !.st = "gone"]
    <3>1. /\ {"at", "rows", "st", "by"} \subseteq DOMAIN e
          /\ e.at = jobs[j].at /\ e.rows = jobs[j].rows /\ e.st = "gone" /\ e.by = jobs[j].by
      BY <1>2
    <3>2. jobs'[j] = e
      BY <1>3, <2>1
    <3> HIDE DEF e
    <3> QED
      BY <3>1, <3>2
  <2>2. CASE jobs[j].st # "done"
    BY <1>2, <1>3, <2>2
  <2> QED
    BY <2>1, <2>2
<1>6. JobsKept
  BY <1>4, <1>5 DEF JobsKept
<1> QED
  BY <1>1, <1>6, NoRequestMoves

LEMMA TaskJobsKeep ==
  ASSUME LimitsInv, UNCHANGED <<now, req, mode>>, jobs' = jobs \/ jobs' = Append(jobs, Job("task", 1))
  PROVE  LimitsInv'
<1>1. Shapes
  BY DEF LimitsInv
<1>2. CASE jobs' = jobs
  BY <1>1, <1>2, SameJobs, NoRequestMoves
<1>3. CASE jobs' = Append(jobs, Job("task", 1))
  <2>1. DOMAIN req' = Submitters /\ \A p \in Submitters : ReqShape(p)'
    BY <1>1 DEF Shapes, ReqShape
  <2>2. Shapes'
    BY <1>1, <1>3, <2>1, JobAdded
  <2> QED
    BY <1>3, <2>2, TaskJobKeeps
<1> QED
  BY <1>2, <1>3

LEMMA CrashKeepsLimits ==
  ASSUME LimitsInv, Crash
  PROVE  LimitsInv'
<1>1. Shapes /\ UNCHANGED <<now, jobs, mode>>
  BY DEF LimitsInv, Crash
<1>2. IdleReq.pc = "idle" /\ {"pc", "rows"} \subseteq DOMAIN IdleReq
  BY DEF IdleReq
<1>3. DOMAIN req' = Submitters /\ \A r \in Submitters : req'[r].pc = "idle" /\ ReqShape(r)'
  BY <1>2 DEF Crash, ReqShape
<1>4. Shapes' /\ JobsKept
  BY <1>1, <1>3, SameShapes, SameJobs
<1>5. PastCap' = {} /\ PastQuota' = {}
  BY <1>3 DEF PastCap, PastQuota
<1> QED
  BY <1>1, <1>4, <1>5, QuietKeepsLimits

LEMMA LimitsNext == LimitsInv /\ [Next]_vars => LimitsInv'
<1> SUFFICES ASSUME LimitsInv, [Next]_vars PROVE LimitsInv'
  OBVIOUS
<1>1. ASSUME NEW r \in mode.crew,
             \/ Submit(r) \/ CheckCap(r) \/ RunQuotaCheck(r) \/ ReadClock(r) \/ SpendTicket(r)
             \/ CreateBatchJob(r) \/ SetJobWindow(r)
      PROVE  LimitsInv'
  <2>1. r \in Submitters
    BY LimitFacts DEF LimitsInv, Shapes
  <2> QED
    BY <1>1, <2>1, SubmitKeeps, CheckCapKeeps, RunQuotaCheckKeeps, ReadClockKeeps, SpendTicketKeepsLimits,
       CreateBatchJobKeeps, SetJobWindowKeeps
<1>2. ASSUME NEW i \in 1..Len(jobs), FinishJob(i) PROVE LimitsInv'
  BY <1>2, FinishJobKeeps
<1>3. CASE ClearFinished
  BY <1>3, ClearFinishedKeeps
<1>4. ASSUME NEW q \in Watchers, ReadTickets(q) \/ SaveTickets(q) PROVE LimitsInv'
  BY <1>4, TaskJobsKeep DEF ReadTickets, SaveTickets
<1>5. ASSUME NEW k \in Tasks,
             CreateTask(k) \/ OpenTask(k) \/ SetRecurringEnabled(k) \/ DeleteRecurringTask(k) \/ RunNow(k)
      PROVE  LimitsInv'
  BY <1>5, TaskJobsKeep DEF CreateTask, OpenTask, SetRecurringEnabled, DeleteRecurringTask, RunNow
<1>6. CASE UpdateRecurringTask \/ EnabledRecurringTasks \/ MarkRecurringFired \/ EndTick \/ FireRecurringTask
  BY <1>6, TaskJobsKeep DEF UpdateRecurringTask, EnabledRecurringTasks, MarkRecurringFired, EndTick,
                            FireRecurringTask
<1>7. CASE Hours
  <2>1. JobsKept
    BY <1>7, SameJobs DEF Hours, LimitsInv
  <2> QED
    BY <1>7, <2>1, NoRequestMoves DEF Hours
<1>8. CASE Crash
  BY <1>8, CrashKeepsLimits
<1>9. CASE UNCHANGED vars
  BY <1>9, TaskJobsKeep DEF vars
<1> QED
  BY <1>1, <1>2, <1>3, <1>4, <1>5, <1>6, <1>7, <1>8, <1>9 DEF Next

LEMMA LimitsBound == LimitsInv => OverrunByRacersOnly
<1> SUFFICES ASSUME LimitsInv PROVE OverrunByRacersOnly
  OBVIOUS
<1>1. Quota > 0 => \A d \in Days : FormRows(d) <= Quota + Racers * Max(RowCounts)
  BY DEF LimitsInv, QuotaInv, Limit
<1>2. ASSUME Cap > 0, \A i \in 1..Len(jobs) : jobs[i].by = "form" PROVE ActiveJobCount <= Cap + Racers
  <2>1. ActiveJobCount + Cardinality(PastCap) <= Cap + Racers
    BY <1>2 DEF LimitsInv, CapInv, OnlyForms, Indices
  <2>2. ActiveJobCount \in Nat /\ Cardinality(PastCap) \in Nat /\ Cap \in Nat /\ Racers \in Nat
    BY JobSets, RequestSets, LimitFacts DEF LimitsInv, Shapes
  <2> QED
    BY <2>1, <2>2
<1> QED
  BY <1>1, <1>2 DEF OverrunByRacersOnly

(* What an account may submit is bounded: requests that race the checks of   *)
(* apiBatchJobCreate pass the run quota and the cap by no more than what the *)
(* others in flight carry, and the urgent runs of a period stay within the   *)
(* allocation until a refill is made for a clock the period has overtaken,   *)
(* or a balance request saves over a row that changed.                       *)
THEOREM AllowancesRespected == Spec => []AllowancesHold
<1>1. Init => TicketsInv /\ ClocksInv /\ LimitsInv
  BY TicketsInit, ClocksInit, LimitsInit
<1>2. TicketsInv /\ ClocksInv /\ LimitsInv /\ [Next]_vars => TicketsInv' /\ ClocksInv' /\ LimitsInv'
  BY TicketsNext, ClocksNext, LimitsNext
<1>3. TicketsInv /\ ClocksInv /\ LimitsInv => AllowancesHold
  BY LimitsBound DEF TicketsInv, AllowancesHold
<1> QED
  BY <1>1, <1>2, <1>3, PTL DEF Spec

-----------------------------------------------------------------------------
(* Preset windows.  The occurrences of one interval form a series: each has *)
(* an index of its own, whatever instant windowAt counts from.              *)

Occ(freq, iv, j) ==
    CASE freq = "daily" ->
           LET base == j * HoursPerDay IN
           Roll(base + iv.start.h, base + iv.stop.h, base + HoursPerDay + iv.stop.h)
      [] freq = "weekly" ->
           LET base == (iv.start.d + DaysPerWeek * j) * HoursPerDay
               span == ((iv.stop.d - iv.start.d + DaysPerWeek) % DaysPerWeek) * HoursPerDay IN
           Roll(base + iv.start.h, base + span + iv.stop.h,
                base + span + DaysPerWeek * HoursPerDay + iv.stop.h)
      [] freq = "monthly" ->
           Roll(AtClamped(j, iv.start.d, iv.start.h), AtClamped(j, iv.stop.d, iv.stop.h),
                AtClamped(j + 1, iv.stop.d, iv.stop.h))

(* The indices the calendar can express, and the index windowAt counts from *)
(* at an instant.                                                           *)
Has(freq, j) == j \in Int /\ (freq = "monthly" => j >= 0 /\ j + 1 \in Months)
Here(freq, iv, t) ==
    CASE freq = "daily" -> Day(t)
      [] freq = "weekly" -> (Day(t) - iv.start.d) \div DaysPerWeek
      [] freq = "monthly" -> MonthOf(t)
Dated(freq, t) ==
    /\ t \in Nat
    /\ freq = "monthly" => \E m \in Months : MonthStart[m] <= Day(t) /\ Day(t) < MonthStart[m + 1]

(* Occurrences are in order; windowAt finds them by their index; the ones   *)
(* around an instant are at most one before where it counts from.           *)
InOrder(freq, iv) ==
    /\ \A j : Has(freq, j) => /\ Occ(freq, iv, j).s \in Int /\ Occ(freq, iv, j).e \in Int
                              /\ Occ(freq, iv, j).s < Occ(freq, iv, j).e
    /\ \A i, j : Has(freq, i) /\ Has(freq, j) /\ i <= j =>
                   Occ(freq, iv, i).s <= Occ(freq, iv, j).s /\ Occ(freq, iv, i).e <= Occ(freq, iv, j).e
Found(freq, iv) ==
    \A t : Dated(freq, t) =>
        /\ Here(freq, iv, t) \in Int
        /\ \A k \in Int : /\ WindowAt(freq, iv, t, k) = Occ(freq, iv, Here(freq, iv, t) + k)
                          /\ Expressible(freq, t, k) <=> Has(freq, Here(freq, iv, t) + k)
Nearby(freq, iv) ==
    \A t, j : Dated(freq, t) /\ Has(freq, j) =>
        /\ Occ(freq, iv, j).e > t => j >= Here(freq, iv, t) - 1
        /\ Occ(freq, iv, j).s <= t => j <= Here(freq, iv, t)
Reached(freq, iv) ==
    \A t \in Nat : \A j : Has(freq, j) /\ t < Occ(freq, iv, j).e => Dated(freq, t)
Series(freq, iv) == InOrder(freq, iv) /\ Found(freq, iv) /\ Nearby(freq, iv) /\ Reached(freq, iv)

LEMMA Multiples ==
  ASSUME NEW n \in Nat, NEW i \in Int, NEW j \in Int
  PROVE  /\ n * i \in Int /\ n * j \in Int
         /\ i <= j => n * i <= n * j
         /\ i + 1 <= j => (n * i) + n <= n * j
         /\ i + 2 <= j => (n * i) + (2 * n) <= n * j
<1>1. /\ n * i \in Int /\ n * j \in Int
      /\ n * (i + 1) = (n * i) + n /\ n * (i + 2) = (n * i) + (2 * n)
  OBVIOUS
<1>2. \A a, b \in Int : a <= b => n * a <= n * b
  OBVIOUS
<1> QED
  BY <1>1, <1>2

LEMMA DivMod ==
  ASSUME NEW n \in Nat, n > 0, NEW x \in Int
  PROVE  /\ x \div n \in Int /\ x % n \in 0..(n - 1)
         /\ x = (n * (x \div n)) + (x % n)
  OBVIOUS

LEMMA DivModIs ==
  ASSUME NEW n \in Nat, n > 0, NEW q \in Int, NEW r \in 0..(n - 1), NEW x \in Int, x = (n * q) + r
  PROVE  x \div n = q /\ x % n = r
  OBVIOUS

(* An instant lies in its day. *)
LEMMA InItsDay ==
  ASSUME NEW t \in Nat
  PROVE  /\ Day(t) \in Nat
         /\ Day(t) * HoursPerDay <= t /\ t < Day(t) * HoursPerDay + HoursPerDay
<1>1. HoursPerDay \in Nat /\ HoursPerDay > 0
  BY CalendarAssumption
<1> DEFINE q == t \div HoursPerDay
           r == t % HoursPerDay
<1>2. q \in Int /\ r \in 0..(HoursPerDay - 1) /\ t = (HoursPerDay * q) + r
  BY <1>1, DivMod
<1>3. Day(t) = q /\ q \in Nat
  BY <1>1 DEF Day
<1> HIDE DEF q, r
<1>4. HoursPerDay * q = q * HoursPerDay /\ q * HoursPerDay \in Int
  BY <1>1, <1>2
<1> QED
  BY <1>1, <1>2, <1>3, <1>4

LEMMA RollIs ==
  ASSUME NEW s, NEW e, NEW next
  PROVE  Roll(s, e, next).s = s /\ Roll(s, e, next).e = IF e > s THEN e ELSE next
  BY DEF Roll

(* Instants that are n hours apart, by index, and the occurrences that start *)
(* o and end c hours after them.                                            *)
Spaced(at, n) ==
    \A i, j \in Int : /\ at[i] \in Int /\ at[j] \in Int
                      /\ i <= j => at[i] <= at[j]
                      /\ i + 1 <= j => at[i] + n <= at[j]
                      /\ i + 2 <= j => at[i] + n + n <= at[j]
Repeats(freq, iv, at, o, c) ==
    \A j \in Int : Occ(freq, iv, j).s = at[j] + o /\ Occ(freq, iv, j).e = at[j] + c
CountsFrom(freq, iv, at, n) ==
    \A t \in Nat : /\ Here(freq, iv, t) \in Int
                  /\ at[Here(freq, iv, t)] <= t /\ t < at[Here(freq, iv, t)] + n

LEMMA MultiplesSpaced ==
  ASSUME NEW n \in Nat, NEW b \in Int, NEW at, at = [j \in Int |-> n * j + b]
  PROVE  Spaced(at, n)
<1> SUFFICES ASSUME NEW i \in Int, NEW j \in Int
             PROVE  /\ n * i + b \in Int /\ n * j + b \in Int
                    /\ i <= j => n * i + b <= n * j + b
                    /\ i + 1 <= j => n * i + b + n <= n * j + b
                    /\ i + 2 <= j => n * i + b + n + n <= n * j + b
  BY DEF Spaced
<1> DEFINE ni == n * i
           nj == n * j
<1>1. /\ ni \in Int /\ nj \in Int
      /\ i <= j => ni <= nj
      /\ i + 1 <= j => ni + n <= nj
      /\ i + 2 <= j => ni + (2 * n) <= nj
  BY Multiples
<1> HIDE DEF ni, nj
<1>2. /\ ni + b \in Int /\ nj + b \in Int
      /\ i <= j => ni + b <= nj + b
      /\ i + 1 <= j => ni + b + n <= nj + b
      /\ i + 2 <= j => ni + b + n + n <= nj + b
  BY <1>1
<1> QED
  BY <1>2 DEF ni, nj

LEMMA Periodic ==
  ASSUME NEW freq, freq # "monthly", NEW iv, NEW n \in Nat, NEW at, NEW o \in Nat, NEW c \in Nat,
         o < n, o < c, c < n + n, Spaced(at, n), Repeats(freq, iv, at, o, c), CountsFrom(freq, iv, at, n)
  PROVE  InOrder(freq, iv) /\ Nearby(freq, iv) /\ Reached(freq, iv)
<1>1. \A j : Has(freq, j) => j \in Int
  BY DEF Has
<1>2. ASSUME NEW i \in Int, NEW j \in Int
      PROVE  /\ at[i] \in Int /\ at[j] \in Int
             /\ Occ(freq, iv, j).s = at[j] + o /\ Occ(freq, iv, j).e = at[j] + c
             /\ Occ(freq, iv, i).s = at[i] + o /\ Occ(freq, iv, i).e = at[i] + c
             /\ i <= j => at[i] <= at[j]
             /\ i + 1 <= j => at[i] + n <= at[j]
             /\ i + 2 <= j => at[i] + n + n <= at[j]
  BY DEF Spaced, Repeats
<1>3. InOrder(freq, iv)
  <2>1. ASSUME NEW j \in Int
        PROVE  /\ Occ(freq, iv, j).s \in Int /\ Occ(freq, iv, j).e \in Int
               /\ Occ(freq, iv, j).s < Occ(freq, iv, j).e
    BY <1>2
  <2>2. ASSUME NEW i \in Int, NEW j \in Int, i <= j
        PROVE  Occ(freq, iv, i).s <= Occ(freq, iv, j).s /\ Occ(freq, iv, i).e <= Occ(freq, iv, j).e
    BY <1>2, <2>2
  <2> QED
    BY <1>1, <2>1, <2>2 DEF InOrder
<1>4. ASSUME NEW t \in Nat, NEW j \in Int
      PROVE  /\ Occ(freq, iv, j).e > t => j >= Here(freq, iv, t) - 1
             /\ Occ(freq, iv, j).s <= t => j <= Here(freq, iv, t)
  <2> DEFINE h == Here(freq, iv, t)
  <2>1. h \in Int /\ at[h] <= t /\ t < at[h] + n
    BY DEF CountsFrom
  <2> HIDE DEF h
  <2>2. /\ at[h] \in Int /\ at[j] \in Int
        /\ Occ(freq, iv, j).s = at[j] + o /\ Occ(freq, iv, j).e = at[j] + c
        /\ j + 2 <= h => at[j] + n + n <= at[h]
        /\ h + 1 <= j => at[h] + n <= at[j]
    BY <1>2, <2>1
  <2>3. Occ(freq, iv, j).e > t => j >= h - 1
    BY <2>1, <2>2
  <2>4. Occ(freq, iv, j).s <= t => j <= h
    BY <2>1, <2>2
  <2> QED
    BY <2>3, <2>4 DEF h
<1>5. Nearby(freq, iv)
  BY <1>1, <1>4 DEF Nearby, Dated
<1>6. Reached(freq, iv)
  BY DEF Reached, Dated
<1> QED
  BY <1>3, <1>5, <1>6

LEMMA DailySeries ==
  ASSUME NEW iv, Anchored("daily", iv.start), Anchored("daily", iv.stop)
  PROVE  Series("daily", iv)
<1> DEFINE n == HoursPerDay
           o == iv.start.h
           c == IF iv.stop.h > iv.start.h THEN iv.stop.h ELSE iv.stop.h + n
<1>1. n \in Nat /\ n > 0
  BY CalendarAssumption
<1>2. o \in Nat /\ c \in Nat /\ o < n /\ o < c /\ c < 2 * n
  BY <1>1 DEF Anchored
<1> DEFINE at == [j \in Int |-> n * j + 0]
<1>3. Repeats("daily", iv, at, o, c)
  <2> SUFFICES ASSUME NEW j \in Int
               PROVE  Occ("daily", iv, j).s = at[j] + o /\ Occ("daily", iv, j).e = at[j] + c
    BY DEF Repeats
  <2> DEFINE base == j * n
  <2>1. base \in Int /\ at[j] = base
    BY <1>1
  <2>2. Occ("daily", iv, j) = Roll(base + iv.start.h, base + iv.stop.h, base + n + iv.stop.h)
    BY DEF Occ
  <2>3. iv.start.h \in Int /\ iv.stop.h \in Int
    BY <1>1 DEF Anchored
  <2> HIDE DEF base, at
  <2> QED
    BY <1>1, <2>1, <2>2, <2>3, RollIs
<1>4. \A t \in Nat : Here("daily", iv, t) = Day(t) /\ Day(t) \in Int
  BY InItsDay DEF Here
<1>5. CountsFrom("daily", iv, at, n)
  <2>1. ASSUME NEW t \in Nat PROVE at[Day(t)] = Day(t) * n
    BY <1>1, InItsDay
  <2> QED
    BY <1>4, <2>1, InItsDay DEF CountsFrom
<1>6. InOrder("daily", iv) /\ Nearby("daily", iv) /\ Reached("daily", iv)
  <2>1. Spaced(at, n)
    <3> DEFINE b == 0
    <3>1. b \in Int /\ at = [j \in Int |-> n * j + b]
      OBVIOUS
    <3> HIDE DEF n, at, b
    <3> QED
      BY <1>1, <3>1, MultiplesSpaced
  <2> HIDE DEF n, o, c, at
  <2> QED
    BY <1>1, <1>2, <1>3, <1>5, <2>1, Periodic
<1>7. Found("daily", iv)
  <2>1. ASSUME NEW t \in Nat, NEW k \in Int
        PROVE  /\ WindowAt("daily", iv, t, k) = Occ("daily", iv, Here("daily", iv, t) + k)
               /\ Expressible("daily", t, k) <=> Has("daily", Here("daily", iv, t) + k)
    BY <1>4 DEF WindowAt, DailyAt, Occ, Expressible, Has
  <2> QED
    BY <1>4, <2>1 DEF Found, Dated
<1> QED
  BY <1>6, <1>7 DEF Series

LEMMA WeeklySeries ==
  ASSUME NEW iv, Anchored("weekly", iv.start), Anchored("weekly", iv.stop)
  PROVE  Series("weekly", iv)
<1> DEFINE H == HoursPerDay
           W == DaysPerWeek
           n == W * H
           d == iv.start.d
           back == (iv.stop.d - d + W) % W
           span == back * H
           o == iv.start.h
           c == IF span + iv.stop.h > iv.start.h THEN span + iv.stop.h ELSE span + n + iv.stop.h
           b == d * H
           at == [j \in Int |-> n * j + b]
<1>1. H \in Nat /\ H > 0 /\ W \in Nat /\ W > 0 /\ d \in 0..(W - 1) /\ iv.stop.d \in 0..(W - 1)
      /\ iv.start.h \in 0..(H - 1) /\ iv.stop.h \in 0..(H - 1)
  BY CalendarAssumption DEF Anchored
<1>2. n \in Nat /\ b \in Nat /\ span \in Nat /\ span + H <= n
  <2>1. back \in 0..(W - 1)
    BY <1>1, DivMod
  <2> HIDE DEF back
  <2>2. back * H \in Nat /\ (back + 1) * H = (back * H) + H /\ (back + 1) * H <= W * H
    BY <1>1, <2>1
  <2>3. W * H \in Nat /\ d * H \in Nat
    BY <1>1
  <2> QED
    BY <1>1, <2>2, <2>3
<1>3. o \in Nat /\ c \in Nat /\ o < n /\ o < c /\ c < n + n
  <2> HIDE DEF n, span
  <2> QED
    BY <1>1, <1>2
<1>4. \A j \in Int : (d + W * j) * H = at[j]
  BY <1>1
<1>5. Repeats("weekly", iv, at, o, c)
  <2> SUFFICES ASSUME NEW j \in Int
               PROVE  Occ("weekly", iv, j).s = at[j] + o /\ Occ("weekly", iv, j).e = at[j] + c
    BY DEF Repeats
  <2> DEFINE base == (d + W * j) * H
  <2>1. Occ("weekly", iv, j) = Roll(base + iv.start.h, base + span + iv.stop.h, base + span + n + iv.stop.h)
    BY DEF Occ
  <2>2. base \in Int /\ at[j] = base
    BY <1>1, <1>4
  <2> HIDE DEF base, span, n, at
  <2> QED
    BY <1>1, <1>2, <2>1, <2>2, RollIs
<1>6. ASSUME NEW t \in Nat
      PROVE  LET h == Here("weekly", iv, t)
                 past == (Weekday(t) - d + W) % W IN
             h \in Int /\ past \in 0..(W - 1) /\ Day(t) - past = d + W * h
  <2> DEFINE x == Day(t) - d
             q == x \div W
             r == x % W
             u == Day(t) \div W
             v == Day(t) % W
  <2>1. Day(t) \in Int /\ x \in Int
    BY <1>1, InItsDay
  <2>2. q \in Int /\ r \in 0..(W - 1) /\ x = (W * q) + r
    BY <1>1, <2>1, DivMod
  <2>3. u \in Int /\ v \in 0..(W - 1) /\ Day(t) = (W * u) + v
    BY <1>1, <2>1, DivMod
  <2>4. (v - d + W) % W = r
    <3> DEFINE y == v - d + W
               z == q - u + 1
    <3>1. y \in Int /\ z \in Int
      BY <1>1, <2>2, <2>3
    <3>2. W * z = (W * q) - (W * u) + W
      <4> HIDE DEF q, u
      <4> QED
        BY <1>1, <2>2, <2>3
    <3>3. y = (W * z) + r
      <4> DEFINE wz == W * z
                 wq == W * q
                 wu == W * u
      <4>1. wq \in Int /\ wu \in Int /\ wz = wq - wu + W /\ x = wq + r /\ Day(t) = wu + v
        BY <1>1, <2>2, <2>3, <3>2
      <4> HIDE DEF wz, wq, wu, q, r, u, v
      <4>2. x = Day(t) - d
        OBVIOUS
      <4>3. y = wz + r
        BY <1>1, <2>1, <2>2, <2>3, <4>1, <4>2
      <4> QED
        BY <4>3 DEF wz
    <3>4. r \in 0..(W - 1) /\ W \in Nat /\ W > 0
      BY <1>1, <2>2
    <3> HIDE DEF y, z, r
    <3>5. y % W = r
      BY <3>1, <3>3, <3>4, DivModIs
    <3> QED
      BY <3>5 DEF y
  <2>5. Here("weekly", iv, t) = q /\ Weekday(t) = v
    BY DEF Here, Weekday
  <2>6. Day(t) - r = d + W * q
    <3> DEFINE wq == W * q
    <3>1. wq \in Int /\ x = wq + r
      BY <1>1, <2>2
    <3> HIDE DEF wq, q, r
    <3>2. Day(t) - r = d + wq
      BY <1>1, <2>1, <2>2, <3>1
    <3> QED
      BY <3>2 DEF wq
  <2> HIDE DEF q, r, u, v
  <2> QED
    BY <2>2, <2>4, <2>5, <2>6
<1>7. CountsFrom("weekly", iv, at, n)
  <2> SUFFICES ASSUME NEW t \in Nat
               PROVE  /\ Here("weekly", iv, t) \in Int
                      /\ at[Here("weekly", iv, t)] <= t /\ t < at[Here("weekly", iv, t)] + n
    BY DEF CountsFrom
  <2> DEFINE h == Here("weekly", iv, t)
             past == (Weekday(t) - d + W) % W
  <2>1. h \in Int /\ past \in 0..(W - 1) /\ Day(t) - past = d + W * h
    BY <1>6
  <2> HIDE DEF h, past
  <2>2. at[h] = (Day(t) - past) * H
    BY <1>4, <2>1
  <2>3. Day(t) \in Nat /\ Day(t) * H <= t /\ t < Day(t) * H + H
    BY InItsDay
  <2>4. (Day(t) - past) * H <= Day(t) * H /\ Day(t) * H + H <= (Day(t) - past) * H + n
    <3>1. (past + 1) * H <= n /\ past * H \in Nat /\ (past + 1) * H = (past * H) + H
      BY <1>1, <2>1
    <3>2. (Day(t) - past) * H = (Day(t) * H) - (past * H) /\ Day(t) * H \in Int
      BY <1>1, <2>1, <2>3
    <3> DEFINE a == Day(t) * H
               e == past * H
    <3>3. a \in Int /\ e \in Nat /\ e + H <= n /\ (Day(t) - past) * H = a - e
      BY <3>1, <3>2
    <3> HIDE DEF a, e, n
    <3>4. (Day(t) - past) * H <= a /\ a + H <= (Day(t) - past) * H + n
      BY <1>1, <1>2, <3>3
    <3> QED
      BY <3>4 DEF a
  <2>5. at[h] \in Int /\ Day(t) * H \in Int
    BY <1>1, <2>1, <2>3
  <2> HIDE DEF at, n
  <2>6. at[h] <= t /\ t < at[h] + n
    BY <1>1, <1>2, <2>2, <2>3, <2>4, <2>5
  <2> QED
    BY <2>1, <2>6 DEF h
<1>8. InOrder("weekly", iv) /\ Nearby("weekly", iv) /\ Reached("weekly", iv)
  <2>1. Spaced(at, n)
    <3>1. at = [j \in Int |-> n * j + b]
      OBVIOUS
    <3> HIDE DEF n, at, b
    <3> QED
      BY <1>2, <3>1, MultiplesSpaced
  <2> HIDE DEF n, o, c, at
  <2> QED
    BY <1>2, <1>3, <1>5, <1>7, <2>1, Periodic
<1>9. Found("weekly", iv)
  <2>1. ASSUME NEW t \in Nat, NEW k \in Int
        PROVE  WindowAt("weekly", iv, t, k) = Occ("weekly", iv, Here("weekly", iv, t) + k)
    <3> DEFINE h == Here("weekly", iv, t)
               past == (Weekday(t) - d + W) % W
    <3>1. h \in Int /\ Day(t) \in Int /\ past \in Int /\ Day(t) - past = d + W * h
      <4>1. h \in Int /\ past \in 0..(W - 1) /\ Day(t) - past = d + W * h
        BY <1>6
      <4>2. Day(t) \in Int
        BY InItsDay
      <4> HIDE DEF h, past
      <4> QED
        BY <1>1, <4>1, <4>2
    <3>2. W * (h + k) = W * h + W * k /\ W * h \in Int /\ W * k \in Int
      <4> HIDE DEF h
      <4> QED
        BY <1>1, <3>1
    <3>3. Day(t) - past + W * k = d + W * (h + k)
      <4> DEFINE wh == W * h
                 wk == W * k
      <4>1. wh \in Int /\ wk \in Int /\ W * (h + k) = wh + wk /\ Day(t) - past = d + wh
        BY <3>1, <3>2
      <4> HIDE DEF wh, wk, h, past
      <4>2. Day(t) - past + wk = d + W * (h + k)
        BY <1>1, <3>1, <4>1
      <4> QED
        BY <4>2 DEF wk
    <3> HIDE DEF h
    <3>4. WindowAt("weekly", iv, t, k) = WeeklyAt(iv.start, iv.stop, t, k)
      BY DEF WindowAt
    <3>5. WeeklyAt(iv.start, iv.stop, t, k) =
            LET base == (Day(t) - past + W * k) * H IN
            Roll(base + iv.start.h, base + span + iv.stop.h, base + span + n + iv.stop.h)
      BY DEF WeeklyAt
    <3>6. Occ("weekly", iv, h + k) =
            LET base == (d + W * (h + k)) * H IN
            Roll(base + iv.start.h, base + span + iv.stop.h, base + span + n + iv.stop.h)
      BY DEF Occ
    <3> HIDE DEF past, span, n, d
    <3> QED
      BY <3>3, <3>4, <3>5, <3>6 DEF h
  <2>2. ASSUME NEW t \in Nat, NEW k \in Int
        PROVE  Expressible("weekly", t, k) <=> Has("weekly", Here("weekly", iv, t) + k)
    BY <1>6 DEF Expressible, Has
  <2> QED
    BY <1>6, <2>1, <2>2 DEF Found, Dated
<1> QED
  BY <1>8, <1>9 DEF Series

(* The months of the calendar follow one another. *)
LEMMA MonthFacts ==
  /\ \E n \in Nat : DOMAIN MonthStart = 0..n
  /\ \A m \in DOMAIN MonthStart : m \in Nat /\ MonthStart[m] \in Nat
  /\ \A m \in Months : /\ m \in Nat /\ m \in DOMAIN MonthStart /\ m + 1 \in DOMAIN MonthStart
                        /\ MonthStart[m] < MonthStart[m + 1]
  /\ \A m \in Nat : m + 1 \in Months => m \in Months
  /\ \A l, m \in DOMAIN MonthStart : l <= m => MonthStart[l] <= MonthStart[m]
<1> DEFINE D == DOMAIN MonthStart
<1>1. PICK n \in Nat : D = 0..n
  <2>1. Cardinality(D) \in Nat /\ D = 0..Cardinality(D) - 1
    BY CalendarAssumption, FS_CardinalityType
  <2>2. D # {}
    BY PresetAssumption DEF Months
  <2> HIDE DEF D
  <2>3. Cardinality(D) # 0
    BY <2>1, <2>2, CalendarAssumption, FS_EmptySet DEF D
  <2> QED
    BY <2>1, <2>3
<1>2. \A m \in D : MonthStart[m] \in Nat
  BY CalendarAssumption
<1>3. \A m \in Nat : m + 1 \in D => MonthStart[m] < MonthStart[m + 1]
  <2>1. \A m \in D \ {0} : MonthStart[m - 1] < MonthStart[m]
    BY CalendarAssumption
  <2> HIDE DEF D
  <2> SUFFICES ASSUME NEW m \in Nat, m + 1 \in D PROVE MonthStart[m] < MonthStart[m + 1]
    OBVIOUS
  <2>2. m + 1 \in D \ {0} /\ (m + 1) - 1 = m
    OBVIOUS
  <2> QED
    BY <2>1, <2>2
<1>4. \A l, m \in D : l <= m => MonthStart[l] <= MonthStart[m]
  <2> SUFFICES ASSUME NEW l \in D PROVE \A m \in D : l <= m => MonthStart[l] <= MonthStart[m]
    OBVIOUS
  <2> DEFINE A == {i \in Nat : l + i \in D => MonthStart[l] <= MonthStart[l + i]}
  <2>1. 0 \in A
    BY <1>1, <1>2
  <2>2. ASSUME NEW i \in Nat, i \in A PROVE i + 1 \in A
    <3> SUFFICES ASSUME l + (i + 1) \in D PROVE MonthStart[l] <= MonthStart[l + (i + 1)]
      OBVIOUS
    <3>1. l \in Nat /\ l + i \in Nat /\ l + i \in D /\ l + (i + 1) = (l + i) + 1
      BY <1>1
    <3>2. MonthStart[l + i] < MonthStart[l + (i + 1)]
      BY <1>3, <3>1
    <3>3. MonthStart[l] <= MonthStart[l + i]
      BY <2>2, <3>1
    <3> QED
      BY <1>2, <3>1, <3>2, <3>3
  <2> HIDE DEF A
  <2>3. \A i \in Nat : i \in A
    BY <2>1, <2>2, NatInduct
  <2> SUFFICES ASSUME NEW m \in D, l <= m PROVE MonthStart[l] <= MonthStart[m]
    OBVIOUS
  <2>4. m - l \in Nat /\ l + (m - l) = m
    BY <1>1
  <2> QED
    BY <2>3, <2>4 DEF A
<1>5. \A m \in Months : m \in D /\ m + 1 \in D
  BY DEF Months
<1>6. \A m \in Nat : m + 1 \in Months => m \in Months
  BY <1>1 DEF Months
<1> QED
  BY <1>1, <1>2, <1>3, <1>4, <1>5, <1>6

(* The month of an instant before the end of the calendar. *)
LEMMA SomeMonth ==
  ASSUME NEW x \in Nat, NEW k \in DOMAIN MonthStart, x < MonthStart[k]
  PROVE  \E m \in Months : m < k /\ MonthStart[m] <= x /\ x < MonthStart[m + 1]
<1> DEFINE S == {i \in DOMAIN MonthStart : x < MonthStart[i]}
<1>1. S \subseteq Nat /\ k \in S
  BY MonthFacts
<1> HIDE DEF S
<1>2. PICK i \in S : \A j \in S : i <= j
  BY <1>1, LeastNat
<1>3. i \in Nat /\ i \in DOMAIN MonthStart /\ x < MonthStart[i] /\ i <= k
  BY <1>1, <1>2 DEF S
<1>4. i # 0
  BY <1>3, CalendarAssumption
<1>5. i - 1 \in DOMAIN MonthStart
  BY <1>3, <1>4, MonthFacts
<1>6. i - 1 \in Nat /\ (i - 1) + 1 = i /\ i - 1 < k
  <2>1. k \in Nat
    BY <1>1
  <2> QED
    BY <1>3, <1>4, <2>1
<1>7. i - 1 \in Months
  BY <1>3, <1>5, <1>6 DEF Months
<1>8. MonthStart[i - 1] <= x
  <2>1. i - 1 \notin S
    BY <1>2, <1>3, <1>6
  <2>2. MonthStart[i - 1] \in Nat
    BY <1>5, MonthFacts
  <2> QED
    BY <1>5, <2>1, <2>2 DEF S
<1> QED
  BY <1>3, <1>6, <1>7, <1>8

LEMMA MonthOfIs ==
  ASSUME NEW t \in Nat, NEW m \in Months, MonthStart[m] <= Day(t), Day(t) < MonthStart[m + 1]
  PROVE  MonthOf(t) = m
<1> DEFINE P(i) == /\ i \in DOMAIN MonthStart /\ MonthStart[i] <= Day(t)
                   /\ i + 1 \in DOMAIN MonthStart => Day(t) < MonthStart[i + 1]
<1>1. P(m) /\ m \in Nat
  BY MonthFacts
<1>2. Day(t) \in Nat
  BY InItsDay
<1>3. ASSUME NEW i, P(i) PROVE i = m
  <2>1. i \in Nat /\ m \in Nat /\ m \in DOMAIN MonthStart /\ m + 1 \in DOMAIN MonthStart
    BY <1>3, MonthFacts
  <2>2. ~(m + 1 <= i)
    <3>1. SUFFICES ASSUME m + 1 <= i PROVE FALSE
      OBVIOUS
    <3>2. MonthStart[m + 1] <= MonthStart[i] /\ MonthStart[m + 1] \in Nat /\ MonthStart[i] \in Nat
      BY <1>3, <2>1, <3>1, MonthFacts
    <3> QED
      BY <1>2, <1>3, <3>2
  <2>3. ~(i + 1 <= m)
    <3>1. SUFFICES ASSUME i + 1 <= m PROVE FALSE
      OBVIOUS
    <3>2. i + 1 \in DOMAIN MonthStart
      <4>1. PICK n \in Nat : DOMAIN MonthStart = 0..n
        BY MonthFacts
      <4> QED
        BY <2>1, <3>1, <4>1
    <3>3. MonthStart[i + 1] <= MonthStart[m] /\ MonthStart[i + 1] \in Nat /\ MonthStart[m] \in Nat
      BY <2>1, <3>1, <3>2, MonthFacts
    <3> QED
      BY <1>2, <1>3, <3>2, <3>3
  <2> QED
    BY <2>1, <2>2, <2>3
<1>4. MonthOf(t) = CHOOSE i : P(i)
  BY DEF MonthOf
<1> HIDE DEF P
<1> QED
  BY <1>1, <1>3, <1>4

(* The hour a month begins. *)
Begins(m) == MonthStart[m] * HoursPerDay

LEMMA BeginFacts ==
  /\ \A m \in DOMAIN MonthStart : Begins(m) \in Nat
  /\ \A l, m \in DOMAIN MonthStart : l <= m => Begins(l) <= Begins(m)
<1>1. HoursPerDay \in Nat
  BY CalendarAssumption
<1>2. \A a, b \in Nat : a * HoursPerDay \in Nat /\ (a <= b => a * HoursPerDay <= b * HoursPerDay)
  BY <1>1
<1>3. \A m \in DOMAIN MonthStart : MonthStart[m] \in Nat /\ Begins(m) = MonthStart[m] * HoursPerDay
  BY MonthFacts DEF Begins
<1> QED
  BY <1>2, <1>3, MonthFacts

LEMMA BeginOf ==
  ASSUME NEW t \in Nat, NEW m \in DOMAIN MonthStart
  PROVE  (Begins(m) <= t <=> MonthStart[m] <= Day(t)) /\ (t < Begins(m) <=> Day(t) < MonthStart[m])
<1> DEFINE H == HoursPerDay
           a == MonthStart[m]
           x == Day(t)
           ah == a * H
           xh == x * H
<1>1. H \in Nat /\ H > 0 /\ a \in Nat /\ Begins(m) = ah
  BY CalendarAssumption, MonthFacts DEF Begins
<1>2. x \in Nat /\ xh <= t /\ t < xh + H
  BY InItsDay
<1>3. /\ H * a \in Int /\ H * x \in Int /\ (a <= x => H * a <= H * x)
      /\ x + 1 <= a => (H * x) + H <= H * a
  <2> HIDE DEF H, a, x
  <2> QED
    BY <1>1, <1>2, Multiples
<1>4. H * a = ah /\ H * x = xh
  BY <1>1, <1>2
<1> DEFINE ha == H * a
           hx == H * x
<1>5. /\ ha \in Int /\ hx \in Int /\ (a <= x => ha <= hx) /\ (x + 1 <= a => hx + H <= ha)
      /\ hx <= t /\ t < hx + H /\ Begins(m) = ha
  BY <1>1, <1>2, <1>3, <1>4
<1> HIDE DEF a, x, H, ha, hx
<1>6. (ha <= t <=> a <= x) /\ (t < ha <=> x < a)
  BY <1>1, <1>2, <1>5
<1> QED
  BY <1>5, <1>6 DEF a, x

(* A clamped anchor lies in its month. *)
LEMMA ClampedInMonth ==
  ASSUME NEW m \in Months, NEW d \in Nat \ {0}, NEW h \in 0..HoursPerDay - 1
  PROVE  /\ AtClamped(m, d, h) \in Int
         /\ Begins(m) <= AtClamped(m, d, h) /\ AtClamped(m, d, h) < Begins(m + 1)
<1> DEFINE H == HoursPerDay
           a == MonthStart[m]
           b == MonthStart[m + 1]
           f == IF d > LastDay(m) THEN LastDay(m) ELSE d
           x == a + (f - 1)
<1>1. H \in Nat /\ H > 0 /\ h \in 0..H - 1
  BY CalendarAssumption
<1>2. a \in Nat /\ b \in Nat /\ a < b
  BY MonthFacts
<1>3. LastDay(m) = b - a
  BY DEF LastDay
<1>5. AtClamped(m, d, h) = x * H + h
  BY DEF AtClamped
<1> HIDE DEF a, b
<1>4. x \in Int /\ a <= x /\ x < b
  BY <1>2, <1>3
<1>6. Begins(m) = a * H /\ Begins(m + 1) = b * H
  BY DEF Begins, a, b
<1> HIDE DEF x
<1>7. /\ H * a \in Int /\ H * b \in Int /\ H * x \in Int
      /\ H * a <= H * x /\ (H * x) + H <= H * b
  <2> HIDE DEF H
  <2> QED
    BY <1>1, <1>2, <1>4, Multiples
<1>8. a * H = H * a /\ b * H = H * b /\ x * H = H * x
  BY <1>1, <1>2, <1>4
<1> DEFINE ah == H * a
           bh == H * b
           xh == H * x
<1>9. /\ ah \in Int /\ bh \in Int /\ xh \in Int /\ ah <= xh /\ xh + H <= bh
      /\ AtClamped(m, d, h) = xh + h /\ Begins(m) = ah /\ Begins(m + 1) = bh
  BY <1>5, <1>6, <1>7, <1>8
<1> HIDE DEF ah, bh, xh, H
<1> QED
  BY <1>1, <1>9

LEMMA MonthlySeries ==
  ASSUME NEW iv, Anchored("monthly", iv.start), Anchored("monthly", iv.stop)
  PROVE  Series("monthly", iv)
<1> DEFINE A(j) == AtClamped(j, iv.start.d, iv.start.h)
           B(j) == AtClamped(j, iv.stop.d, iv.stop.h)
           s(j) == Occ("monthly", iv, j).s
           e(j) == Occ("monthly", iv, j).e
<1>1. ASSUME NEW m \in Months
      PROVE  /\ A(m) \in Int /\ Begins(m) <= A(m) /\ A(m) < Begins(m + 1)
             /\ B(m) \in Int /\ Begins(m) <= B(m) /\ B(m) < Begins(m + 1)
  BY ClampedInMonth DEF Anchored
<1>2. \A j : s(j) = A(j) /\ e(j) = IF B(j) > A(j) THEN B(j) ELSE B(j + 1)
  BY RollIs DEF Occ
<1>3. ASSUME NEW j, Has("monthly", j)
      PROVE  j \in Nat /\ j \in Months /\ j + 1 \in Months
             /\ j \in DOMAIN MonthStart /\ j + 1 \in DOMAIN MonthStart /\ j + 2 \in DOMAIN MonthStart
  <2>1. j \in Nat /\ j + 1 \in Months
    BY <1>3 DEF Has
  <2>2. j \in Months
    BY <2>1, MonthFacts
  <2>3. j + 1 \in DOMAIN MonthStart /\ (j + 1) + 1 \in DOMAIN MonthStart /\ j \in DOMAIN MonthStart
    BY <2>1, <2>2, MonthFacts
  <2>4. (j + 1) + 1 = j + 2
    BY <2>1
  <2> QED
    BY <2>1, <2>2, <2>3, <2>4
<1>4. ASSUME NEW j, Has("monthly", j)
      PROVE  /\ s(j) \in Int /\ e(j) \in Int /\ s(j) < e(j)
             /\ Begins(j) \in Nat /\ Begins(j + 1) \in Nat /\ Begins(j + 2) \in Nat
             /\ Begins(j) <= s(j) /\ s(j) < Begins(j + 1) /\ e(j) < Begins(j + 2)
             /\ e(j) < Begins(j + 1) \/ e(j) = B(j + 1)
             /\ B(j) \in Int /\ B(j) < Begins(j + 1)
             /\ B(j) <= e(j)
  <2>1. (j + 1) + 1 = j + 2 /\ Begins(j) \in Nat /\ Begins(j + 1) \in Nat /\ Begins(j + 2) \in Nat
    BY <1>3, <1>4, BeginFacts
  <2>2. /\ A(j) \in Int /\ Begins(j) <= A(j) /\ A(j) < Begins(j + 1)
        /\ B(j) \in Int /\ B(j) < Begins(j + 1)
        /\ B(j + 1) \in Int /\ Begins(j + 1) <= B(j + 1) /\ B(j + 1) < Begins(j + 2)
    BY <1>1, <1>3, <1>4, <2>1
  <2>3. Begins(j + 1) <= Begins(j + 2)
    BY <1>3, <1>4, <2>1, BeginFacts
  <2> HIDE DEF A, B, s, e
  <2> QED
    BY <1>2, <2>1, <2>2, <2>3
<1>5. InOrder("monthly", iv)
  <2>1. ASSUME NEW i, NEW j, Has("monthly", i), Has("monthly", j), i <= j
        PROVE  s(i) <= s(j) /\ e(i) <= e(j)
    <3>1. i \in Nat /\ j \in Nat /\ i + 1 \in DOMAIN MonthStart /\ i + 2 \in DOMAIN MonthStart
          /\ j \in DOMAIN MonthStart
      BY <1>3, <2>1
    <3>2. CASE i = j
      BY <1>4, <2>1, <3>2
    <3>3. CASE j = i + 1
      BY <1>4, <2>1, <3>1, <3>3
    <3>4. CASE i + 2 <= j
      <4>1. Begins(i + 1) <= Begins(j) /\ Begins(i + 2) <= Begins(j)
        BY <3>1, <3>4, BeginFacts
      <4> HIDE DEF s, e, B
      <4> QED
        BY <1>4, <2>1, <4>1
    <3> QED
      BY <2>1, <3>1, <3>2, <3>3, <3>4
  <2> QED
    BY <1>4, <2>1 DEF InOrder
<1>6. ASSUME NEW t, Dated("monthly", t)
      PROVE  LET m == Here("monthly", iv, t) IN
             /\ t \in Nat /\ m \in Months /\ m \in Nat /\ m = MonthOf(t)
             /\ m \in DOMAIN MonthStart /\ m + 1 \in DOMAIN MonthStart
             /\ Begins(m) <= t /\ t < Begins(m + 1)
  <2>1. t \in Nat
    BY <1>6 DEF Dated
  <2>2. PICK m \in Months : MonthStart[m] <= Day(t) /\ Day(t) < MonthStart[m + 1]
    BY <1>6 DEF Dated
  <2>3. Here("monthly", iv, t) = m /\ MonthOf(t) = m
    BY <2>1, <2>2, MonthOfIs DEF Here
  <2>4. m \in Nat /\ m \in DOMAIN MonthStart /\ m + 1 \in DOMAIN MonthStart
    BY MonthFacts
  <2>5. Begins(m) <= t /\ t < Begins(m + 1)
    BY <2>1, <2>2, <2>4, BeginOf
  <2> QED
    BY <2>1, <2>3, <2>4, <2>5
<1>7. Found("monthly", iv)
  <2> SUFFICES ASSUME NEW t, Dated("monthly", t), NEW k \in Int
               PROVE  /\ Here("monthly", iv, t) \in Int
                      /\ WindowAt("monthly", iv, t, k) = Occ("monthly", iv, Here("monthly", iv, t) + k)
                      /\ Expressible("monthly", t, k) <=> Has("monthly", Here("monthly", iv, t) + k)
    BY DEF Found
  <2>1. Here("monthly", iv, t) = MonthOf(t) /\ MonthOf(t) \in Nat
    BY <1>6
  <2>2. WindowAt("monthly", iv, t, k) = Occ("monthly", iv, MonthOf(t) + k)
    BY DEF WindowAt, MonthlyAt, Occ
  <2>3. Expressible("monthly", t, k) <=> Has("monthly", MonthOf(t) + k)
    BY <2>1 DEF Expressible, Has
  <2> QED
    BY <2>1, <2>2, <2>3
<1>8. Nearby("monthly", iv)
  <2> SUFFICES ASSUME NEW t, NEW j, Dated("monthly", t), Has("monthly", j)
               PROVE  /\ e(j) > t => j >= Here("monthly", iv, t) - 1
                      /\ s(j) <= t => j <= Here("monthly", iv, t)
    BY DEF Nearby
  <2> DEFINE m == Here("monthly", iv, t)
  <2>1. /\ t \in Nat /\ m \in Nat /\ m \in DOMAIN MonthStart /\ m + 1 \in DOMAIN MonthStart
        /\ Begins(m) <= t /\ t < Begins(m + 1)
    BY <1>6
  <2>2. j \in Nat /\ j \in DOMAIN MonthStart /\ j + 2 \in DOMAIN MonthStart
    BY <1>3
  <2> HIDE DEF m
  <2>3. (j + 2 <= m => Begins(j + 2) <= Begins(m)) /\ (m + 1 <= j => Begins(m + 1) <= Begins(j))
    BY <2>1, <2>2, BeginFacts
  <2>4. Begins(m) \in Nat /\ Begins(m + 1) \in Nat
    BY <2>1, BeginFacts
  <2>5. /\ s(j) \in Int /\ e(j) \in Int /\ Begins(j) \in Nat /\ Begins(j + 2) \in Nat
        /\ Begins(j) <= s(j) /\ e(j) < Begins(j + 2)
    BY <1>4
  <2> HIDE DEF s, e
  <2>6. (e(j) > t => j >= m - 1) /\ (s(j) <= t => j <= m)
    BY <2>1, <2>2, <2>3, <2>4, <2>5
  <2> QED
    BY <2>6 DEF m
<1>9. Reached("monthly", iv)
  <2> SUFFICES ASSUME NEW t \in Nat, NEW j, Has("monthly", j), t < e(j) PROVE Dated("monthly", t)
    BY DEF Reached
  <2>1. j + 2 \in DOMAIN MonthStart /\ t < Begins(j + 2)
    BY <1>3, <1>4
  <2>2. Day(t) < MonthStart[j + 2] /\ Day(t) \in Nat
    BY <2>1, BeginOf, InItsDay
  <2> QED
    BY <2>1, <2>2, SomeMonth DEF Dated
<1> QED
  BY <1>5, <1>7, <1>8, <1>9 DEF Series

LEMMA PresetFacts ==
  ASSUME NEW p \in Presets
  PROVE  /\ p.freq \in {"daily", "weekly", "monthly"} /\ p.invert \in BOOLEAN
         /\ IsFiniteSet(p.ivs) /\ p.ivs # {}
         /\ \A iv \in p.ivs : Series(p.freq, iv)
<1>1. /\ p.freq \in {"daily", "weekly", "monthly"} /\ p.invert \in BOOLEAN
      /\ IsFiniteSet(p.ivs) /\ p.ivs # {}
      /\ \A iv \in p.ivs : Anchored(p.freq, iv.start) /\ Anchored(p.freq, iv.stop)
  BY PresetAssumption
<1>2. ASSUME NEW iv \in p.ivs PROVE Series(p.freq, iv)
  <2>1. CASE p.freq = "daily"
    BY <1>1, <2>1, DailySeries
  <2>2. CASE p.freq = "weekly"
    BY <1>1, <2>2, WeeklySeries
  <2>3. CASE p.freq = "monthly"
    BY <1>1, <2>3, MonthlySeries
  <2> QED
    BY <1>1, <2>1, <2>2, <2>3
<1> QED
  BY <1>1, <1>2

(* Until the last submit the calendar has the next occurrence of every      *)
(* interval.                                                                *)
LEMMA Ahead ==
  ASSUME NEW freq \in {"daily", "weekly", "monthly"}, NEW iv, Series(freq, iv), NEW t \in 0..Horizon
  PROVE  t \in Nat /\ Dated(freq, t) /\ Has(freq, Here(freq, iv, t) + 1)
<1>1. Horizon \in Nat /\ t \in Nat /\ t <= Horizon
  BY SubmissionAssumption
<1>2. CASE freq # "monthly"
  <2>1. Dated(freq, t)
    BY <1>1, <1>2 DEF Dated
  <2>2. Here(freq, iv, t) \in Int
    BY <2>1 DEF Series, Found
  <2> QED
    BY <1>1, <1>2, <2>1, <2>2 DEF Has
<1>3. CASE freq = "monthly"
  <2>1. PICK m \in Months : m + 1 \in Months /\ Day(Horizon) < MonthStart[m]
    BY PresetAssumption
  <2>2. m \in Nat /\ m \in DOMAIN MonthStart
    BY MonthFacts
  <2>3. PICK n \in Nat : DOMAIN MonthStart = 0..n
    BY MonthFacts
  <2>4. t < Begins(m)
    <3>1. Horizon < Begins(m) /\ Begins(m) \in Nat
      BY <1>1, <2>1, <2>2, BeginOf, BeginFacts
    <3> QED
      BY <1>1, <3>1
  <2>5. Day(t) < MonthStart[m] /\ Day(t) \in Nat
    BY <1>1, <2>2, <2>4, BeginOf, InItsDay
  <2>6. PICK l \in Months : l < m /\ MonthStart[l] <= Day(t) /\ Day(t) < MonthStart[l + 1]
    BY <2>2, <2>5, SomeMonth
  <2>7. Here(freq, iv, t) = l
    BY <1>1, <1>3, <2>6, MonthOfIs DEF Here
  <2>8. l \in Nat
    BY MonthFacts
  <2>9. (l + 1) + 1 \in Months
    BY <2>1, <2>2, <2>3, <2>6, <2>8 DEF Months
  <2> QED
    BY <1>1, <1>3, <2>6, <2>7, <2>8, <2>9 DEF Dated, Has
<1> QED
  BY <1>2, <1>3

(* nextInterval returns the first occurrence of the interval that ends      *)
(* after now, of all there are.                                             *)
First(freq, iv, t, a) ==
    /\ Has(freq, a) /\ NextInterval(freq, iv, t) = Occ(freq, iv, a) /\ Occ(freq, iv, a).e > t
    /\ \A j : Has(freq, j) /\ Occ(freq, iv, j).e > t => a <= j
LEMMA NextIsFirst ==
  ASSUME NEW freq, NEW iv, Series(freq, iv), NEW t, Dated(freq, t), Has(freq, Here(freq, iv, t) + 1)
  PROVE  \E a : First(freq, iv, t, a)
<1> DEFINE h == Here(freq, iv, t)
           K == {k \in -1..MaxBack : Expressible(freq, t, k) /\ WindowAt(freq, iv, t, k).e > t}
<1>1. t \in Nat /\ MaxBack \in Nat /\ MaxBack > 0
  BY CalendarAssumption, PresetAssumption DEF Dated
<1>2. h \in Int /\ \A k \in Int : /\ WindowAt(freq, iv, t, k) = Occ(freq, iv, h + k)
                                  /\ Expressible(freq, t, k) <=> Has(freq, h + k)
  BY DEF Series, Found
<1>3. \A j : Has(freq, j) =>
          /\ j \in Int /\ Occ(freq, iv, j).s \in Int /\ Occ(freq, iv, j).e \in Int
          /\ Occ(freq, iv, j).s < Occ(freq, iv, j).e
          /\ Occ(freq, iv, j).e > t => j >= h - 1
          /\ Occ(freq, iv, j).s <= t => j <= h
  BY DEF Series, InOrder, Nearby, Has
<1>4. Has(freq, h + 1)
  OBVIOUS
<1> HIDE DEF h
<1>5. Occ(freq, iv, h + 1).e > t
  <2>1. ~(Occ(freq, iv, h + 1).s <= t)
    BY <1>2, <1>3, <1>4
  <2> QED
    BY <1>1, <1>3, <1>4, <2>1
<1>6. 1 \in K /\ K \subseteq Int /\ \A k \in K : k >= -1
  BY <1>1, <1>2, <1>4, <1>5
<1>7. \A k \in K : Has(freq, h + k) /\ Occ(freq, iv, h + k).e > t
  BY <1>2, <1>6
<1>8. \A j : Has(freq, j) /\ Occ(freq, iv, j).e > t => j - h \in K \/ j - h > MaxBack
  <2> SUFFICES ASSUME NEW j, Has(freq, j), Occ(freq, iv, j).e > t, ~(j - h > MaxBack) PROVE j - h \in K
    OBVIOUS
  <2>1. j \in Int /\ j >= h - 1
    BY <1>3
  <2>2. j - h \in -1..MaxBack /\ h + (j - h) = j
    BY <1>1, <1>2, <2>1
  <2> QED
    BY <1>2, <2>2
<1>9. NextInterval(freq, iv, t) = WindowAt(freq, iv, t, Min(K))
  BY DEF NextInterval
<1>10. \A k \in K : k <= MaxBack
  BY <1>1
<1> HIDE DEF K
<1>11. PICK k \in K : \A i \in K : k <= i
  <2> DEFINE S == {i + 1 : i \in K}
  <2>1. S \subseteq Nat /\ S # {}
    BY <1>6
  <2>2. PICK x \in S : \A y \in S : x <= y
    BY <2>1, LeastNat
  <2>3. PICK k \in K : x = k + 1
    BY <2>2
  <2>4. ASSUME NEW i \in K PROVE k <= i
    <3>1. i + 1 \in S
      OBVIOUS
    <3>2. k + 1 <= i + 1 /\ k \in Int /\ i \in Int
      BY <1>6, <2>2, <2>3, <3>1
    <3> QED
      BY <3>2
  <2> QED
    BY <2>4
<1>12. Min(K) = k /\ k \in Int
  BY <1>6, <1>11, MinIs
<1>13. \A j : Has(freq, j) /\ Occ(freq, iv, j).e > t => h + k <= j
  <2> SUFFICES ASSUME NEW j, Has(freq, j), Occ(freq, iv, j).e > t PROVE h + k <= j
    OBVIOUS
  <2>1. j \in Int /\ (j - h \in K \/ j - h > MaxBack)
    BY <1>3, <1>8
  <2>2. k <= j - h
    BY <1>1, <1>2, <1>10, <1>11, <1>12, <2>1
  <2> QED
    BY <1>2, <1>12, <2>1, <2>2
<1>14. NextInterval(freq, iv, t) = Occ(freq, iv, h + k)
  BY <1>2, <1>9, <1>12
<1> QED
  BY <1>7, <1>11, <1>13, <1>14 DEF First

(* An instant inside an occurrence is inside one that windowAt finds from it. *)
LEMMA InsideFound ==
  ASSUME NEW p, NEW iv \in p.ivs, Series(p.freq, iv), NEW a, Has(p.freq, a), NEW t \in Nat,
         Occ(p.freq, iv, a).s <= t, t < Occ(p.freq, iv, a).e
  PROVE  Inside(p, t)
<1> DEFINE h == Here(p.freq, iv, t)
           k == a - h
<1>1. Dated(p.freq, t)
  BY DEF Series, Reached
<1>2. h \in Int /\ a \in Int /\ a <= h /\ \A i \in Int : /\ WindowAt(p.freq, iv, t, i) = Occ(p.freq, iv, h + i)
                                                       /\ Expressible(p.freq, t, i) <=> Has(p.freq, h + i)
  BY <1>1 DEF Series, Found, Nearby, Has
<1>3. a >= h - 1
  <2>1. Occ(p.freq, iv, a).e \in Int
    BY DEF Series, InOrder
  <2>2. Occ(p.freq, iv, a).e > t
    BY <2>1
  <2> QED
    BY <1>1, <2>2 DEF Series, Nearby
<1> HIDE DEF h
<1>4. k \in -2..2 /\ k \in Int /\ h + k = a
  BY <1>2, <1>3
<1> QED
  BY <1>2, <1>4 DEF Inside

LEMMA InsideOf ==
  ASSUME NEW p \in Presets, NEW t, Dated(p.freq, t), Inside(p, t)
  PROVE  \E iv \in p.ivs : \E j :
            /\ Has(p.freq, j)
            /\ Occ(p.freq, iv, j).s <= t /\ t < Occ(p.freq, iv, j).e
<1>1. PICK iv \in p.ivs, k \in -2..2 :
        /\ Expressible(p.freq, t, k)
        /\ WindowAt(p.freq, iv, t, k).s <= t /\ t < WindowAt(p.freq, iv, t, k).e
  BY DEF Inside
<1>2. k \in Int
  OBVIOUS
<1>3. Series(p.freq, iv)
  BY PresetFacts
<1>4. /\ WindowAt(p.freq, iv, t, k) = Occ(p.freq, iv, Here(p.freq, iv, t) + k)
      /\ Has(p.freq, Here(p.freq, iv, t) + k)
  BY <1>1, <1>2, <1>3 DEF Series, Found
<1> QED
  BY <1>1, <1>4

(* What nextInterval returns for an interval of a preset. *)
LEMMA NextFacts ==
  ASSUME NEW p \in Presets, NEW iv \in p.ivs, NEW t \in 0..Horizon
  PROVE  LET w == NextInterval(p.freq, iv, t) IN
         /\ w.s \in Int /\ w.e \in Int /\ w.s < w.e /\ w.e > t
         /\ \A u \in Nat : w.s <= u /\ u < w.e => Inside(p, u)
         /\ \A u \in Nat : u < w.e => Dated(p.freq, u)
         /\ \A j : Has(p.freq, j) /\ Occ(p.freq, iv, j).e > t => w.s <= Occ(p.freq, iv, j).s
<1>1. p.freq \in {"daily", "weekly", "monthly"} /\ Series(p.freq, iv)
  BY PresetFacts
<1>2. Dated(p.freq, t) /\ Has(p.freq, Here(p.freq, iv, t) + 1)
  BY <1>1, Ahead
<1>3. PICK a : First(p.freq, iv, t, a)
  BY <1>1, <1>2, NextIsFirst
<1> DEFINE w == Occ(p.freq, iv, a)
<1>4. /\ Has(p.freq, a) /\ NextInterval(p.freq, iv, t) = w /\ w.e > t
      /\ \A j : Has(p.freq, j) /\ Occ(p.freq, iv, j).e > t => a <= j
  BY <1>3 DEF First
<1>5. w.s \in Int /\ w.e \in Int /\ w.s < w.e
  BY <1>1, <1>4 DEF Series, InOrder
<1>6. \A j : Has(p.freq, j) /\ a <= j => w.s <= Occ(p.freq, iv, j).s
  BY <1>1, <1>4 DEF Series, InOrder
<1>7. \A u \in Nat : w.s <= u /\ u < w.e => Inside(p, u)
  BY <1>1, <1>4, InsideFound
<1>8. \A u \in Nat : u < w.e => Dated(p.freq, u)
  BY <1>1, <1>4 DEF Series, Reached
<1> HIDE DEF w
<1> QED
  BY <1>4, <1>5, <1>6, <1>7, <1>8

(* The latest end of the blocks now is in is the end of one of them. *)
LEMMA BlockEndIs ==
  ASSUME NEW p \in Presets, NEW t \in 0..Horizon, Blocks(p.freq, p.ivs, t) # {}
  PROVE  \E iv \in p.ivs : LET w == NextInterval(p.freq, iv, t) IN
            w.s <= t /\ w.e = BlockEnd(p.freq, p.ivs, t)
<1> DEFINE N(iv) == NextInterval(p.freq, iv, t)
           S == {iv \in p.ivs : N(iv).s <= t}
           T == {w.e : w \in Blocks(p.freq, p.ivs, t)}
           f == [iv \in S |-> N(iv).e]
<1>1. /\ \A w \in Blocks(p.freq, p.ivs, t) : \E iv \in S : w = N(iv)
      /\ \A iv \in S : N(iv) \in Blocks(p.freq, p.ivs, t)
  BY DEF Blocks
<1>2. IsFiniteSet(S)
  <2>1. S \in SUBSET p.ivs /\ IsFiniteSet(p.ivs)
    BY PresetFacts
  <2> HIDE DEF S
  <2> QED
    BY <2>1, FS_Subset
<1>3. \A iv \in p.ivs : N(iv).e \in Int
  BY NextFacts
<1> HIDE DEF N
<1>4. f \in [S -> T] /\ \A x \in T : \E iv \in S : f[iv] = x
  BY <1>1
<1>5. T \subseteq Int /\ T # {}
  BY <1>1, <1>3
<1>6. f \in Surjection(S, T)
  BY <1>4 DEF Surjection
<1>7. IsFiniteSet(T)
  <2> HIDE DEF f, S, T
  <2> QED
    BY <1>2, <1>6, FS_Surjection
<1>8. Max(T) \in T
  <2> HIDE DEF T
  <2> QED
    BY <1>5, <1>7, MaxBounds
<1>9. PICK iv \in S : N(iv).e = Max(T)
  BY <1>4, <1>8
<1>10. Max(T) = BlockEnd(p.freq, p.ivs, t)
  BY DEF BlockEnd
<1> QED
  BY <1>9, <1>10 DEF N

(* The window that ends first is the next one of an interval. *)
LEMMA NextWindowIs ==
  ASSUME NEW p \in Presets, NEW t \in 0..Horizon
  PROVE  \E iv \in p.ivs :
            /\ NextWindow(p.freq, p.ivs, t) = NextInterval(p.freq, iv, t)
            /\ \A v \in p.ivs : NextInterval(p.freq, iv, t).e <= NextInterval(p.freq, v, t).e
<1> DEFINE all == {NextInterval(p.freq, iv, t) : iv \in p.ivs}
           E == {w.e : w \in all}
<1>1. p.ivs # {}
  BY PresetFacts
<1>2. \A w \in all : w.e \in Nat
  <2>1. t \in Nat
    BY SubmissionAssumption
  <2>2. \A iv \in p.ivs : NextInterval(p.freq, iv, t).e \in Int /\ NextInterval(p.freq, iv, t).e > t
    BY NextFacts
  <2> QED
    BY <2>1, <2>2
<1>3. all # {}
  BY <1>1
<1>4. NextWindow(p.freq, p.ivs, t) = CHOOSE w \in all : \A v \in all : w.e <= v.e
  BY DEF NextWindow
<1> HIDE DEF all
<1>5. \E w \in all : \A v \in all : w.e <= v.e
  <2>1. E \subseteq Nat /\ E # {}
    BY <1>2, <1>3
  <2>2. PICK x \in E : \A y \in E : x <= y
    BY <2>1, LeastNat
  <2> QED
    BY <2>2
<1>6. /\ NextWindow(p.freq, p.ivs, t) \in all
      /\ \A v \in all : NextWindow(p.freq, p.ivs, t).e <= v.e
  BY <1>4, <1>5
<1> QED
  BY <1>6 DEF all

(* A run submitted with a preset goes to the next moment it may run, unless *)
(* the preset nests one interval in another.                                *)
Resolved(e, p) ==
    /\ p \in Presets /\ e.from \in 0..Horizon
    /\ e.runAt = ResolvePresetWindow(p, e.from).runAt
    /\ e.until = ResolvePresetWindow(p, e.from).until

LEMMA ResolvedIsNext ==
  ASSUME NEW p, NEW q, Resolved(q, p)
  PROVE  (~p.invert /\ Nested(p, q.from)) \/ NextMoment(q, p)
<1> DEFINE t == q.from
           N(iv) == NextInterval(p.freq, iv, t)
<1>1. p \in Presets /\ t \in 0..Horizon /\ t \in Nat /\ p.invert \in BOOLEAN
  BY PresetFacts, SubmissionAssumption DEF Resolved
<1>2. CASE p.invert
  <2>1. ASSUME Blocks(p.freq, p.ivs, t) = {}, NEW u \in t..(q.runAt - 1) PROVE Inside(p, u)
    <3>1. q.runAt = 0
      BY <1>2, <2>1 DEF Resolved, ResolvePresetWindow
    <3> QED
      BY <1>1, <2>1, <3>1
  <2>2. ASSUME Blocks(p.freq, p.ivs, t) # {}, NEW u \in t..(q.runAt - 1) PROVE Inside(p, u)
    <3>1. q.runAt = BlockEnd(p.freq, p.ivs, t)
      BY <1>2, <2>2 DEF Resolved, ResolvePresetWindow
    <3>2. PICK iv \in p.ivs : N(iv).s <= t /\ N(iv).e = q.runAt
      BY <1>1, <2>2, <3>1, BlockEndIs
    <3>3. /\ N(iv).s \in Int /\ N(iv).e \in Int
          /\ \A x \in Nat : N(iv).s <= x /\ x < N(iv).e => Inside(p, x)
      BY <1>1, NextFacts
    <3> HIDE DEF N, t
    <3>4. u \in Nat /\ N(iv).s <= u /\ u < N(iv).e
      BY <1>1, <3>2, <3>3
    <3> QED
      BY <3>3, <3>4
  <2> QED
    BY <1>2, <2>1, <2>2 DEF NextMoment
<1>3. CASE ~p.invert
  <2>1. PICK iv \in p.ivs : /\ NextWindow(p.freq, p.ivs, t) = N(iv)
                            /\ \A v \in p.ivs : N(iv).e <= N(v).e
    BY <1>1, NextWindowIs
  <2>2. q.runAt = N(iv).s /\ q.until = N(iv).e
    BY <1>3, <2>1 DEF Resolved, ResolvePresetWindow
  <2>3. /\ N(iv).s \in Int /\ N(iv).e \in Int /\ N(iv).s < N(iv).e /\ N(iv).e > t
        /\ \A u \in Nat : N(iv).s <= u /\ u < N(iv).e => Inside(p, u)
        /\ \A u \in Nat : u < N(iv).e => Dated(p.freq, u)
    BY <1>1, NextFacts
  <2>4. ASSUME NEW u \in t..(q.runAt - 1), Inside(p, u) PROVE Nested(p, t)
    <3>1. u \in Nat /\ u >= t /\ u < N(iv).s /\ u < N(iv).e
      <4> HIDE DEF N, t
      <4> QED
        BY <1>1, <2>2, <2>3
    <3>0. PICK v \in p.ivs : \E j : /\ Has(p.freq, j)
                                    /\ Occ(p.freq, v, j).s <= u /\ u < Occ(p.freq, v, j).e
      BY <1>1, <2>3, <2>4, <3>1, InsideOf
    <3>2. PICK j : /\ Has(p.freq, j)
                   /\ Occ(p.freq, v, j).s <= u /\ u < Occ(p.freq, v, j).e
      BY <3>0
    <3>3. Occ(p.freq, v, j).s \in Int /\ Occ(p.freq, v, j).e \in Int
      BY <1>1, <3>2, PresetFacts DEF Series, InOrder
    <3>4. /\ N(v).s \in Int /\ N(v).e \in Int
          /\ Occ(p.freq, v, j).e > t => N(v).s <= Occ(p.freq, v, j).s
      BY <1>1, <3>2, NextFacts
    <3>5. N(v).s < N(iv).s /\ N(iv).e <= N(v).e
      <4> HIDE DEF N, t
      <4> QED
        BY <1>1, <2>1, <2>3, <3>1, <3>2, <3>3, <3>4
    <3> QED
      BY <3>5 DEF Nested
  <2>5. ASSUME NEW u \in (IF q.runAt > q.from THEN q.runAt ELSE q.from)..(q.until - 1) PROVE Inside(p, u)
    <3>1. u \in Nat /\ N(iv).s <= u /\ u < N(iv).e
      <4> HIDE DEF N
      <4> QED
        BY <1>1, <2>2, <2>3
    <3> QED
      BY <2>3, <3>1
  <2>6. t < q.until
    <3> HIDE DEF N, t
    <3> QED
      BY <1>1, <2>2, <2>3
  <2> QED
    BY <1>3, <2>4, <2>5, <2>6 DEF NextMoment
<1> QED
  BY <1>1, <1>2, <1>3

(* The locals of apiBatchJobCreate keep the window of the preset they name.  *)
Locals(e) == {"from", "runAt", "until", "preset"} \subseteq DOMAIN e
Windowed(e) == Locals(e) /\ \A p \in e.preset : Resolved(e, p)
WindowsInv == DOMAIN req = Submitters /\ \A r \in Submitters : Windowed(req[r])

SameWindow(e, f) ==
  /\ Locals(f) /\ f.from = e.from /\ f.runAt = e.runAt /\ f.until = e.until /\ f.preset = e.preset

LEMMA IdleWindowed == Windowed(IdleReq)
BY DEF Windowed, Locals, IdleReq

LEMMA SameWindowed ==
  ASSUME NEW e, NEW f, Windowed(e), SameWindow(e, f)
  PROVE  Windowed(f)
BY DEF Windowed, SameWindow, Resolved

LEMMA WindowsStep ==
  ASSUME WindowsInv, NEW r \in Submitters, NEW e, req' = [req EXCEPT ![r] = e], Windowed(e)
  PROVE  WindowsInv'
<1>1. DOMAIN req' = Submitters /\ req'[r] = e /\ \A p \in Submitters : p # r => req'[p] = req[p]
  BY DEF WindowsInv
<1>2. \A p \in Submitters : Windowed(req'[p])
  BY <1>1 DEF WindowsInv
<1> QED
  BY <1>1, <1>2 DEF WindowsInv

(* A request that goes on, with one or two of its locals assigned. *)
LEMMA WindowKept ==
  ASSUME WindowsInv, NEW r \in Submitters, NEW pc, NEW u, NEW i
  PROVE  /\ req' = [req EXCEPT ![r].pc = pc] => WindowsInv'
         /\ req' = [req EXCEPT ![r].pc = pc, ![r].urgent = u] => WindowsInv'
         /\ req' = [req EXCEPT ![r].pc = pc, ![r].job = i] => WindowsInv'
         /\ req' = [req EXCEPT ![r].pc = pc, ![r].at = i] => WindowsInv'
<1> DEFINE e == [req[r] EXCEPT !.pc = pc]
           f == [e EXCEPT !.urgent = u]
           g == [e EXCEPT !.job = i]
           h == [e EXCEPT !.at = i]
<1>1. r \in DOMAIN req /\ Windowed(req[r]) /\ Locals(req[r])
  BY DEF WindowsInv, Windowed
<1>2. /\ [req EXCEPT ![r].pc = pc] = [req EXCEPT ![r] = e]
      /\ [req EXCEPT ![r].pc = pc, ![r].urgent = u] = [req EXCEPT ![r] = f]
      /\ [req EXCEPT ![r].pc = pc, ![r].job = i] = [req EXCEPT ![r] = g]
      /\ [req EXCEPT ![r].pc = pc, ![r].at = i] = [req EXCEPT ![r] = h]
  BY <1>1
<1>3. SameWindow(req[r], e)
  BY <1>1 DEF SameWindow, Locals
<1>4. SameWindow(e, f) /\ SameWindow(e, g) /\ SameWindow(e, h)
  <2>1. Locals(e)
    BY <1>3 DEF SameWindow
  <2> HIDE DEF e
  <2> QED
    BY <2>1 DEF SameWindow, Locals
<1> HIDE DEF e, f, g, h
<1>5. Windowed(e)
  BY <1>1, <1>3, SameWindowed
<1>6. Windowed(f) /\ Windowed(g) /\ Windowed(h)
  BY <1>4, <1>5, SameWindowed
<1> QED
  BY <1>2, <1>5, <1>6, WindowsStep

LEMMA SubmitWindows ==
  ASSUME WindowsInv, now \in 0..Horizon, NEW r \in Submitters, Submit(r)
  PROVE  WindowsInv'
<1>1. PICK n \in mode.rows, u \in (IF "urgent" \in mode.ops THEN BOOLEAN ELSE {FALSE}) :
         \/ req' = [req EXCEPT ![r] = [IdleReq EXCEPT !.pc = "cap", !.rows = n, !.urgent = u]]
         \/ /\ "preset" \in mode.ops
            /\ \E p \in Presets : LET w == ResolvePresetWindow(p, now) IN
                 req' = [req EXCEPT ![r] = [IdleReq EXCEPT
                     !.pc = "cap", !.rows = n, !.urgent = u, !.from = now, !.runAt = w.runAt,
                     !.until = w.until, !.preset = {p}]]
  BY DEF Submit
<1>2. CASE req' = [req EXCEPT ![r] = [IdleReq EXCEPT !.pc = "cap", !.rows = n, !.urgent = u]]
  <2> DEFINE e == [IdleReq EXCEPT !.pc = "cap", !.rows = n, !.urgent = u]
  <2>1. SameWindow(IdleReq, e)
    BY DEF SameWindow, Locals, IdleReq
  <2> HIDE DEF e
  <2>2. Windowed(e)
    BY <2>1, IdleWindowed, SameWindowed
  <2> QED
    BY <1>2, <2>2, WindowsStep DEF e
<1>3. ASSUME NEW p \in Presets, NEW w, w = ResolvePresetWindow(p, now),
             req' = [req EXCEPT ![r] = [IdleReq EXCEPT
                     !.pc = "cap", !.rows = n, !.urgent = u, !.from = now, !.runAt = w.runAt,
                     !.until = w.until, !.preset = {p}]]
      PROVE  WindowsInv'
  <2> DEFINE e == [IdleReq EXCEPT !.pc = "cap", !.rows = n, !.urgent = u, !.from = now,
                                  !.runAt = w.runAt, !.until = w.until, !.preset = {p}]
  <2>1. Locals(e) /\ e.from = now /\ e.runAt = w.runAt /\ e.until = w.until /\ e.preset = {p}
    BY DEF IdleReq, Locals
  <2>2. req' = [req EXCEPT ![r] = e]
    BY <1>3
  <2> HIDE DEF e
  <2>3. Windowed(e)
    BY <1>3, <2>1 DEF Windowed, Resolved
  <2> QED
    BY <2>2, <2>3, WindowsStep
<1> QED
  BY <1>1, <1>2, <1>3

LEMMA WindowsInit == Init => WindowsInv
<1> SUFFICES ASSUME Init PROVE WindowsInv
  OBVIOUS
<1>1. DOMAIN req = Submitters /\ \A r \in Submitters : req[r] = IdleReq
  BY DEF Init
<1> QED
  BY <1>1, IdleWindowed DEF WindowsInv

LEMMA WindowsNext == LimitsInv /\ WindowsInv /\ [Next]_vars => WindowsInv'
<1> SUFFICES ASSUME LimitsInv, WindowsInv, [Next]_vars PROVE WindowsInv'
  OBVIOUS
<1>1. now \in 0..Horizon /\ mode \in Modes
  BY CalendarFacts DEF LimitsInv, Shapes
<1>2. ASSUME NEW r \in Submitters, req' = [req EXCEPT ![r] = IdleReq] PROVE WindowsInv'
  BY <1>2, IdleWindowed, WindowsStep
<1>3. ASSUME UNCHANGED req PROVE WindowsInv'
  BY <1>3 DEF WindowsInv
<1>4. ASSUME NEW r \in mode.crew,
             \/ Submit(r) \/ CheckCap(r) \/ RunQuotaCheck(r) \/ ReadClock(r) \/ SpendTicket(r)
             \/ CreateBatchJob(r) \/ SetJobWindow(r)
      PROVE  WindowsInv'
  <2>1. r \in Submitters
    BY <1>1, LimitFacts
  <2>2. CASE Submit(r)
    BY <1>1, <2>1, <2>2, SubmitWindows
  <2>3. CASE CheckCap(r)
    BY <1>2, <2>1, <2>3, WindowKept DEF CheckCap, Refuse, Go
  <2>4. CASE RunQuotaCheck(r)
    BY <1>2, <2>1, <2>4, WindowKept DEF RunQuotaCheck, Refuse, Go
  <2>5. CASE SpendTicket(r)
    <3>1. \/ req' = [req EXCEPT ![r].pc = "create", ![r].urgent = FALSE]
          \/ req' = [req EXCEPT ![r].pc = "create"]
      BY <2>5 DEF SpendTicket, Go
    <3> QED
      BY <2>1, <3>1, WindowKept
  <2>8. CASE ReadClock(r)
    BY <2>1, <2>8, WindowKept DEF ReadClock
  <2>6. CASE CreateBatchJob(r)
    <3>1. \/ req' = [req EXCEPT ![r] = IdleReq]
          \/ req' = [req EXCEPT ![r].pc = "window", ![r].job = Len(jobs) + 1]
      BY <2>6 DEF CreateBatchJob
    <3> QED
      BY <1>2, <2>1, <3>1, WindowKept
  <2>7. CASE SetJobWindow(r)
    BY <1>2, <2>1, <2>7 DEF SetJobWindow, Refuse
  <2> QED
    BY <1>4, <2>2, <2>3, <2>4, <2>5, <2>6, <2>7, <2>8
<1>5. ASSUME NEW i \in 1..Len(jobs), FinishJob(i) PROVE WindowsInv'
  BY <1>3, <1>5 DEF FinishJob
<1>6. ASSUME NEW q \in Watchers, ReadTickets(q) \/ SaveTickets(q) PROVE WindowsInv'
  BY <1>3, <1>6 DEF ReadTickets, SaveTickets
<1>7. ASSUME NEW k \in Tasks,
             CreateTask(k) \/ OpenTask(k) \/ SetRecurringEnabled(k) \/ DeleteRecurringTask(k) \/ RunNow(k)
      PROVE  WindowsInv'
  BY <1>3, <1>7 DEF CreateTask, OpenTask, SetRecurringEnabled, DeleteRecurringTask, RunNow
<1>8. CASE \/ ClearFinished \/ UpdateRecurringTask \/ EnabledRecurringTasks \/ MarkRecurringFired \/ EndTick
           \/ FireRecurringTask \/ Hours
  BY <1>3, <1>8 DEF ClearFinished, UpdateRecurringTask, EnabledRecurringTasks, MarkRecurringFired, EndTick,
                    FireRecurringTask, Hours
<1>9. CASE Crash
  <2>1. DOMAIN req' = Submitters /\ \A r \in Submitters : req'[r] = IdleReq
    BY <1>9 DEF Crash
  <2> QED
    BY <2>1, IdleWindowed DEF WindowsInv
<1>10. CASE UNCHANGED vars
  BY <1>3, <1>10 DEF vars
<1> QED
  BY <1>4, <1>5, <1>6, <1>7, <1>8, <1>9, <1>10 DEF Next

(* For every calendar and every preset, a run submitted with a preset goes   *)
(* to the next moment it may run: nextWindow skips no eligible hour and      *)
(* starts in no ineligible one, and an inverted preset starts no later than  *)
(* the end of the block it is in.  The one exception is a preset with an     *)
(* interval nested in another.                                               *)
THEOREM WindowsAreNext == Spec => []WindowIsNext
<1>1. Init => LimitsInv /\ WindowsInv
  BY LimitsInit, WindowsInit
<1>2. LimitsInv /\ WindowsInv /\ [Next]_vars => LimitsInv' /\ WindowsInv'
  BY LimitsNext, WindowsNext
<1>3. WindowsInv => WindowIsNext
  BY ResolvedIsNext DEF WindowsInv, Windowed, WindowIsNext
<1> QED
  BY <1>1, <1>2, <1>3, PTL DEF Spec
=============================================================================
