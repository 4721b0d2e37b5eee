--------------------------- MODULE ForecastProofs ---------------------------
(***************************************************************************)
(* Theorems of forecast settlement, for every number of instances and      *)
(* checkpoints, every calendar, and every late, missing or wrong answer.   *)
(***************************************************************************)
EXTENDS Forecast, SumLemmas, TLAPS

Kinds == {"none", "wake", "source", "mark", "settle", "final"}
Answers == {"", "match", "mismatch"}

(* What is a row of prediction_marks, and of prediction_sets. *)
MarkRow(r) ==
  /\ r = [status |-> r.status, code |-> r.code, attempts |-> r.attempts, next |-> r.next,
          session |-> r.session, bar |-> r.bar, start |-> r.start]
  /\ r.status \in Open \cup Terminal
SetRow(r) ==
  /\ r = [check |-> r.check, start |-> r.start, here |-> r.here]
  /\ r.check \in Open \cup Answered \cup {"refused_final"}

(* A pass knows the start of the set or that it had none. *)
PassRow(p) ==
  pass[p].on =>
    /\ Read(p) \subseteq Checkpoints
    /\ pass[p].set.check \notin Open => pass[p].set.check = set.check /\ pass[p].set.start = set.start

Shapes ==
  /\ marks = [m \in Checkpoints |-> marks[m]] /\ \A m \in Checkpoints : MarkRow(marks[m])
  /\ SetRow(set)
  /\ DOMAIN pass = Evaluators /\ \A p \in Evaluators : PassRow(p)

(* A set that was given up has no open mark. *)
GivenUpEnds == set.check = "refused_final" => \A m \in Checkpoints : marks[m].status \in Terminal

StartInv == Shapes /\ GivenUpEnds /\ OneStart

(* One more failure is enough to end a mark, as its pass has read it. *)
Tried(p, m) == pass[p].marks[m].attempts + 1 >= MinAttempts

(* What a plan may be: it settles marks from a start it writes itself or   *)
(* from the stored one its pass has read, never when it gives up; and it   *)
(* ends only marks that failed often enough.                               *)
PlanOK(p, plan) ==
  /\ plan.check \in Answers /\ plan.terminal \in BOOLEAN
  /\ plan.terminal => plan.check = ""
  /\ \A m \in Read(p) : plan.acts[m].kind \in Kinds
  /\ (\E m \in Read(p) : plan.acts[m].kind = "settle") =>
       /\ ~plan.terminal
       /\ plan.check = "" => pass[p].set.check \notin Open /\ plan.start = pass[p].set.start
  /\ \A m \in Read(p) : plan.acts[m].kind = "final" => Tried(p, m)
  /\ plan.terminal => \A m \in Read(p) : plan.acts[m].kind = "mark" /\ Tried(p, m)

(* A plan as it is first made. *)
LEMMA PlanParts ==
  ASSUME NEW start, NEW acts
  PROVE  /\ Plan(start, acts).acts = acts /\ Plan(start, acts).start = start
         /\ Plan(start, acts).check = ""
         /\ Plan(start, acts).terminal \in BOOLEAN /\ ~Plan(start, acts).terminal
  BY DEF Plan

(* The kinds of the acts. *)
LEMMA ActKinds ==
  /\ Act.kind = "none"
  /\ \A t : WakeUp(t).kind = "wake"
  /\ \A class, code : Refuse(class, code).kind = class
  BY DEF Act, WakeUp, Refuse

(* A plan that only wakes or refuses. *)
LEMMA QuietPlan ==
  ASSUME NEW p, NEW acts,
         \A m \in Read(p) : acts[m].kind \in {"none", "wake", "source", "mark"}
  PROVE  PlanOK(p, Plan(NoStart, acts))
<1> DEFINE plan == Plan(NoStart, acts)
<1>1. plan.acts = acts /\ plan.check = "" /\ plan.terminal \in BOOLEAN /\ ~plan.terminal
  BY DEF Plan
<1> HIDE DEF plan
<1>2. PlanOK(p, plan)
  BY <1>1 DEF PlanOK, Kinds, Answers
<1> QED
  BY <1>2 DEF plan

(* The plan of a failed delivery (SourceFailed) ends and settles nothing. *)
LEMMA SourcePlan == ASSUME NEW p PROVE PlanOK(p, SourceFailed(p))
<1> DEFINE acts == [m \in Read(p) |-> LET wake == WakeAt(pass[p].set, m) IN
                     IF now < wake THEN WakeUp(wake) ELSE Refuse("source", "fetch_failed")]
<1>1. \A m \in Read(p) : acts[m].kind \in {"none", "wake", "source", "mark"}
  BY ActKinds
<1> HIDE DEF acts
<1>2. PlanOK(p, Plan(NoStart, acts))
  BY <1>1, QuietPlan
<1> QED
  BY <1>2 DEF SourceFailed, acts

(* Nor does the plan of a start that is not due yet (NotDue). *)
LEMMA NotDuePlan == ASSUME NEW p PROVE PlanOK(p, NotDue(p))
<1> DEFINE acts == [m \in Read(p) |-> LET wake == WakeAt(pass[p].set, m) IN
                     WakeUp(IF now < wake THEN wake ELSE NotYetShown)]
<1>1. \A m \in Read(p) : acts[m].kind \in {"none", "wake", "source", "mark"}
  BY ActKinds
<1> HIDE DEF acts
<1>2. PlanOK(p, Plan(NoStart, acts))
  BY <1>1, QuietPlan
<1> QED
  BY <1>2 DEF NotDue, acts

(* The plan of a stock without a price gives up only after enough attempts. *)
LEMMA NoBasePlan == ASSUME NEW p, NEW s0, NEW days PROVE PlanOK(p, NoBase(p, s0, days))
<1> DEFINE acts == [m \in Read(p) |-> Refuse("mark", "no_base")]
           ends == /\ PastDue(days, s0) >= RetryTicks
                   /\ \A m \in Read(p) : pass[p].marks[m].attempts + 1 >= MinAttempts
           quiet == Plan(NoStart, acts)
           plan == [quiet EXCEPT !.terminal = ends]
<1>1. \A m \in Read(p) : acts[m].kind = "mark"
  BY ActKinds
<1>2. ends \in BOOLEAN /\ (ends => \A m \in Read(p) : Tried(p, m))
  BY DEF Tried
<1> HIDE DEF acts, ends
<1>3. /\ plan.acts = acts /\ plan.check = "" /\ plan.terminal = ends
  BY DEF Plan
<1>4. PlanOK(p, plan)
  BY <1>1, <1>2, <1>3 DEF PlanOK, Kinds, Answers
<1> QED
  BY <1>4 DEF NoBase, acts, ends

(* settleMark settles a mark or refuses it. *)
LEMMA SettleKinds ==
  ASSUME NEW d, NEW start, NEW days, NEW index, NEW body, NEW adj, NEW valve
  PROVE  SettleMark(d, start, days, index, body, adj, valve).kind \in {"mark", "source", "settle"}
<1>1. [Act EXCEPT !.kind = "settle", !.session = d, !.bar = LastBar(Bars(body), d)].kind = "settle"
  BY DEF Act
<1> QED
  BY <1>1, ActKinds DEF SettleMark

(* A pass ends only marks that failed often enough. *)
LEMMA SettleMarksKinds ==
  ASSUME NEW p, NEW start, NEW days, NEW index, NEW body, NEW reply, NEW valve, NEW c \in Read(p)
  PROVE  LET act == SettleMarks(p, start, days, index, body, reply, valve)[c] IN
         act.kind \in Kinds /\ (act.kind = "final" => Tried(p, c))
<1> DEFINE act(a) == SettleMark(DueOn(days, start.s0, c), start, days, index, body, a, valve)
           ended(a) == [act(a) EXCEPT !.kind = "final"]
<1>1. \A a : act(a).kind \in {"mark", "source", "settle"}
  <2> HIDE DEF act
  <2> QED
    BY SettleKinds DEF act
<1>2. \A a : ended(a).kind = "final"
  BY DEF SettleMark, Refuse, Act
<1>3. \A a : Exhausted(pass[p].marks[c], act(a).kind, days, DueOn(days, start.s0, c)) => Tried(p, c)
  BY DEF Exhausted, Tried
<1> DEFINE res == SettleMarks(p, start, days, index, body, reply, valve)[c]
<1>4. \/ res = Act \/ res = Refuse("source", "fetch_failed")
      \/ \E t : res = WakeUp(t)
      \/ \E a : res = act(a)
      \/ \E a : /\ Exhausted(pass[p].marks[c], act(a).kind, days, DueOn(days, start.s0, c))
               /\ res = ended(a)
  BY DEF SettleMarks
<1> HIDE DEF res, act, ended
<1>5. res.kind \in Kinds /\ (res.kind = "final" => Tried(p, c))
  BY <1>1, <1>2, <1>3, <1>4, ActKinds DEF Kinds
<1> QED
  BY <1>5 DEF res

(* Settling from a start: the stored one, or the one the plan writes. *)
LEMMA SettlingPlan ==
  ASSUME NEW p, NEW start, NEW days, NEW index, NEW body, NEW reply, NEW valve, NEW check \in Answers,
         check = "" => pass[p].set.check \notin Open /\ start = pass[p].set.start
  PROVE  PlanOK(p, [Plan(start, SettleMarks(p, start, days, index, body, reply, valve)) EXCEPT !.check = check])
<1> DEFINE acts == SettleMarks(p, start, days, index, body, reply, valve)
           plan == [Plan(start, acts) EXCEPT !.check = check]
<1>1. \A m \in Read(p) : acts[m].kind \in Kinds /\ (acts[m].kind = "final" => Tried(p, m))
  BY SettleMarksKinds
<1> HIDE DEF acts
<1>2. /\ plan.acts = acts /\ plan.check = check /\ plan.start = start
      /\ plan.terminal \in BOOLEAN /\ ~plan.terminal
  BY DEF Plan
<1> HIDE DEF plan
<1>3. PlanOK(p, plan)
  BY <1>1, <1>2 DEF PlanOK
<1> QED
  BY <1>3 DEF plan, acts

(* predBaseCheck waits or answers. *)
LEMMA CheckAnswers ==
  ASSUME NEW bars, NEW days, NEW unver
  PROVE  PredBaseCheck(bars, days, unver) \in {"wait", "match", "mismatch"}
  BY DEF PredBaseCheck

(* The plans of findStart. *)
LEMMA StartPlan ==
  ASSUME NEW p, NEW days, NEW body, NEW wide, NEW reply, NEW valve
  PROVE  PlanOK(p, FindStart(p, days, body, wide, reply, valve))
<1> DEFINE s0 == PredS0(days)
           check == PredBaseCheck(Bars(body), days, Unverifiable(body))
           looks == StartBar(Bars(body), s0) = None
           seen == IF looks THEN [body EXCEPT !.floor = None] ELSE body
           start == [s0 |-> s0, base |-> StartBar(Bars(seen), s0), ed |-> body.ed]
           index == IF looks /\ wide = "both" THEN days \cup {d \in mix.trades : d < 0} ELSE days
           acts == [m \in Read(p) |-> Refuse("source", "fetch_failed")]
           settling == [Plan(start, SettleMarks(p, start, days, index, seen, reply, valve)) EXCEPT !.check = check]
<1>1. PlanOK(p, Plan(NoStart, acts))
  <2>1. \A m \in Read(p) : acts[m].kind \in {"none", "wake", "source", "mark"}
    BY ActKinds
  <2> HIDE DEF acts
  <2> QED
    BY <2>1, QuietPlan
<1>2. check # "wait" => PlanOK(p, settling)
  <2> SUFFICES ASSUME check # "wait" PROVE PlanOK(p, settling)
    OBVIOUS
  <2>1. check \in Answers /\ check # ""
    BY CheckAnswers DEF Answers
  <2> HIDE DEF check, start, index, seen
  <2> QED
    BY <2>1, SettlingPlan
<1>3. PlanOK(p, NotDue(p)) /\ PlanOK(p, NoBase(p, s0, days))
  BY NotDuePlan, NoBasePlan
<1>4. FindStart(p, days, body, wide, reply, valve) =
        IF check = "wait" \/ s0 = None THEN NotDue(p)
        ELSE IF looks /\ wide = "none" THEN Plan(NoStart, acts)
        ELSE IF start.base = None THEN NoBase(p, s0, days)
        ELSE settling
  BY DEF FindStart
<1> HIDE DEF check, start, index, seen, settling, acts, looks, s0
<1> QED
  BY <1>1, <1>2, <1>3, <1>4

(* The plans of evaluateSet. *)
LEMMA EvaluatePlan ==
  ASSUME NEW p, NEW slot, NEW body, NEW wide, NEW reply, NEW valve
  PROVE  PlanOK(p, EvaluateSet(p, slot, body, wide, reply, valve))
<1> DEFINE days == Completed(slot)
           row == pass[p].set
           plan == Plan(row.start, SettleMarks(p, row.start, days, days, body, reply, valve))
<1>1. PlanOK(p, SourceFailed(p)) /\ PlanOK(p, FindStart(p, days, body, wide, reply, valve))
  BY SourcePlan, StartPlan
<1>2. row.check \notin Open => PlanOK(p, plan)
  <2> SUFFICES ASSUME row.check \notin Open PROVE PlanOK(p, plan)
    OBVIOUS
  <2> DEFINE acts == SettleMarks(p, row.start, days, days, body, reply, valve)
  <2>1. \A m \in Read(p) : acts[m].kind \in Kinds /\ (acts[m].kind = "final" => Tried(p, m))
    BY SettleMarksKinds
  <2> HIDE DEF acts
  <2> DEFINE quiet == Plan(row.start, acts)
  <2>2. /\ quiet.acts = acts /\ quiet.check = "" /\ quiet.start = row.start
        /\ quiet.terminal \in BOOLEAN /\ ~quiet.terminal
    BY DEF Plan
  <2> HIDE DEF quiet
  <2>3. PlanOK(p, quiet)
    BY <2>1, <2>2 DEF PlanOK, Answers
  <2> QED
    BY <2>3 DEF quiet, acts
<1>3. EvaluateSet(p, slot, body, wide, reply, valve) =
        IF Bars(body) = {} /\ Unverifiable(body) = None THEN SourceFailed(p)
        ELSE IF row.check \in Open THEN FindStart(p, days, body, wide, reply, valve)
        ELSE plan
  BY DEF EvaluateSet
<1> HIDE DEF plan, days, row
<1> QED
  BY <1>1, <1>2, <1>3

-----------------------------------------------------------------------------
(* What the transaction does to a row. *)
LEMMA WrittenRow ==
  ASSUME NEW m, MarkRow(marks[m]), NEW act, act.kind \in Kinds
  PROVE  /\ MarkRow(Written(m, act))
         /\ marks[m].status \in Terminal => Written(m, act) = marks[m]
         /\ marks[m].status \notin Terminal =>
              /\ Written(m, act).status = "resolved" <=> act.kind = "settle"
              /\ Written(m, act).status = "refused_final" <=> act.kind = "final"
<1>1. CASE marks[m].status \in Terminal
  BY <1>1 DEF Written
<1>2. CASE marks[m].status \notin Terminal
  <2>1. CASE act.kind = "wake"
    BY <1>2, <2>1 DEF Written, MarkRow, Open, Terminal
  <2>2. CASE act.kind = "source"
    BY <1>2, <2>2 DEF Written, MarkRow, Open, Terminal
  <2>3. CASE act.kind = "mark"
    BY <1>2, <2>3 DEF Written, MarkRow, Open, Terminal
  <2>4. CASE act.kind = "final"
    BY <1>2, <2>4 DEF Written, MarkRow, Open, Terminal
  <2>5. CASE act.kind = "settle"
    BY <1>2, <2>5 DEF Written, MarkRow, Open, Terminal
  <2>6. CASE act.kind = "none"
    BY <1>2, <2>6 DEF Written, MarkRow, Open, Terminal
  <2> QED
    BY <2>1, <2>2, <2>3, <2>4, <2>5, <2>6 DEF Kinds
<1> QED
  BY <1>1, <1>2

(* The backoff leaves the kind of an act. *)
LEMMA PutOffKind ==
  ASSUME NEW p, NEW m, NEW act
  PROVE  PutOff(p, m, act).kind = act.kind
  BY DEF PutOff

(* Giving up ends a mark, and keeps one that had ended. *)
LEMMA GivenUpRow ==
  ASSUME NEW r, MarkRow(r)
  PROVE  /\ MarkRow(GivenUp(r)) /\ GivenUp(r).status \in Terminal
         /\ r.status \in Terminal => GivenUp(r) = r
         /\ GivenUp(r).status = "resolved" => r.status = "resolved"
  BY DEF GivenUp, MarkRow, Open, Terminal

(* The row of m after the writes of a plan that is applied. *)
RowAfter(p, plan, m) ==
  IF m \in Read(p)
  THEN LET new == Written(m, PutOff(p, m, plan.acts[m])) IN
       IF plan.acts[m].kind = "settle" /\ new # marks[m] THEN [new EXCEPT !.start = plan.start] ELSE new
  ELSE marks[m]

MarkAfter(p, plan, m) == IF plan.terminal THEN GivenUp(RowAfter(p, plan, m)) ELSE RowAfter(p, plan, m)

(* A mark ends only by the act of a plan that read it. *)
LEMMA AfterPlan ==
  ASSUME NEW p, NEW plan, PlanOK(p, plan), NEW m, MarkRow(marks[m])
  PROVE  LET new == RowAfter(p, plan, m) IN
         /\ MarkRow(new)
         /\ marks[m].status \in Terminal => new = marks[m]
         /\ marks[m].status \notin Terminal /\ new.status = "resolved" =>
              m \in Read(p) /\ plan.acts[m].kind = "settle" /\ new.start = plan.start
         /\ marks[m].status \notin Terminal /\ new.status = "refused_final" =>
              m \in Read(p) /\ plan.acts[m].kind = "final"
<1>1. CASE m \notin Read(p)
  BY <1>1 DEF RowAfter, Terminal, MarkRow, Open
<1>2. CASE m \in Read(p)
  <2> DEFINE act == PutOff(p, m, plan.acts[m])
             new == Written(m, act)
  <2>1. act.kind = plan.acts[m].kind /\ act.kind \in Kinds
    <3>1. plan.acts[m].kind \in Kinds
      BY <1>2 DEF PlanOK
    <3>2. act.kind = plan.acts[m].kind
      BY PutOffKind
    <3> QED
      BY <3>1, <3>2
  <2> HIDE DEF act
  <2>2. /\ MarkRow(new)
        /\ marks[m].status \in Terminal => new = marks[m]
        /\ marks[m].status \notin Terminal =>
             /\ new.status = "resolved" <=> act.kind = "settle"
             /\ new.status = "refused_final" <=> act.kind = "final"
    BY <2>1, WrittenRow
  <2> HIDE DEF new
  <2>3. RowAfter(p, plan, m) =
          IF plan.acts[m].kind = "settle" /\ new # marks[m] THEN [new EXCEPT !.start = plan.start] ELSE new
    BY <1>2 DEF RowAfter, new, act
  <2>4. LET started == [new EXCEPT !.start = plan.start] IN
        /\ MarkRow(started) /\ started.status = new.status /\ started.start = plan.start
    BY <2>2 DEF MarkRow
  <2>5. CASE marks[m].status \in Terminal
    BY <2>2, <2>3, <2>5
  <2>6. CASE marks[m].status \notin Terminal
    <3>1. new.status = "resolved" => new # marks[m]
      BY <2>6 DEF Terminal
    <3> QED
      BY <1>2, <2>1, <2>2, <2>3, <2>4, <2>6, <3>1
  <2> QED
    BY <2>5, <2>6
<1> QED
  BY <1>1, <1>2

(* The transaction, with its rows named. *)
LEMMA Applied ==
  ASSUME NEW p, NEW plan, ApplyPlan(p, plan), ~UNCHANGED <<set, marks, failures>>
  PROVE  /\ set.here /\ ~Raced(plan)
         /\ set' = IF set.check \notin Open THEN set
                   ELSE IF plan.terminal THEN [set EXCEPT !.check = "refused_final"]
                   ELSE IF plan.check # "" THEN [set EXCEPT !.check = plan.check, !.start = plan.start]
                   ELSE set
         /\ marks' = [m \in Checkpoints |-> MarkAfter(p, plan, m)]
         /\ failures' = [m \in Checkpoints |->
                           IF /\ m \in Read(p) /\ plan.acts[m].kind \in {"mark", "final"}
                              /\ marks[m].status \notin Terminal
                           THEN OneMore(failures[m]) ELSE failures[m]]
  BY DEF ApplyPlan, MarkAfter, RowAfter

LEMMA MarkApplied ==
  ASSUME NEW p, NEW plan, ApplyPlan(p, plan), ~UNCHANGED <<set, marks, failures>>, NEW m \in Checkpoints
  PROVE  marks'[m] = IF plan.terminal THEN GivenUp(RowAfter(p, plan, m)) ELSE RowAfter(p, plan, m)
<1>1. marks' = [c \in Checkpoints |-> MarkAfter(p, plan, c)]
  BY DEF ApplyPlan, MarkAfter, RowAfter
<1>2. marks'[m] = MarkAfter(p, plan, m)
  BY <1>1
<1> QED
  BY <1>2 DEF MarkAfter

(* A transaction keeps the start of the set and what has ended, and        *)
(* measures every mark it settles from that start.                         *)
LEMMA ApplyKeeps ==
  ASSUME StartInv, NEW p \in Evaluators, pass[p].on, NEW plan, PlanOK(p, plan), ApplyPlan(p, plan)
  PROVE  /\ marks' = [m \in Checkpoints |-> marks'[m]]
         /\ \A m \in Checkpoints : MarkRow(marks'[m])
         /\ SetRow(set') /\ GivenUpEnds' /\ OneStart'
         /\ \A m \in Checkpoints : marks[m].status \in Terminal => marks'[m] = marks[m]
         /\ set.check \notin Open => set'.check = set.check /\ set'.start = set.start
<1>1. CASE UNCHANGED <<set, marks, failures>>
  BY <1>1 DEF StartInv, Shapes, GivenUpEnds, OneStart, SetRow, MarkRow
<1>2. CASE ~UNCHANGED <<set, marks, failures>>
  <2> DEFINE after(m) == RowAfter(p, plan, m)
  <2>1. /\ \A m \in Checkpoints : MarkRow(marks[m])
        /\ SetRow(set) /\ PassRow(p) /\ GivenUpEnds /\ OneStart
    BY DEF StartInv, Shapes
  <2>2. \A m \in Checkpoints :
          /\ MarkRow(after(m))
          /\ marks[m].status \in Terminal => after(m) = marks[m]
          /\ marks[m].status \notin Terminal /\ after(m).status = "resolved" =>
               m \in Read(p) /\ plan.acts[m].kind = "settle" /\ after(m).start = plan.start
    BY <2>1, AfterPlan
  <2> HIDE DEF after
  <2>3. \A m \in Checkpoints : marks'[m] = IF plan.terminal THEN GivenUp(after(m)) ELSE after(m)
    BY <1>2, MarkApplied DEF after
  <2>4. marks' = [m \in Checkpoints |-> marks'[m]]
    BY <1>2, Applied
  <2>5. ~Raced(plan) /\ set' = IF set.check \notin Open THEN set
                   ELSE IF plan.terminal THEN [set EXCEPT !.check = "refused_final"]
                   ELSE IF plan.check # "" THEN [set EXCEPT !.check = plan.check, !.start = plan.start]
                   ELSE set
    BY <1>2, Applied
  <2>6. \A m \in Checkpoints : MarkRow(marks'[m])
    BY <2>2, <2>3, GivenUpRow
  <2>7. \A m \in Checkpoints : marks[m].status \in Terminal => marks'[m] = marks[m]
    BY <2>2, <2>3, GivenUpRow
  <2>8. plan.check \in Answers /\ (plan.terminal => plan.check = "")
    BY DEF PlanOK
  <2>9. SetRow(set')
    BY <2>1, <2>5, <2>8 DEF SetRow, Answers, Answered, Open
  <2>10. set.check \notin Open => set'.check = set.check /\ set'.start = set.start
    BY <2>5
  <2>11. GivenUpEnds'
    <3> SUFFICES ASSUME set'.check = "refused_final", NEW m \in Checkpoints
                 PROVE  marks'[m].status \in Terminal
      BY DEF GivenUpEnds
    <3>1. CASE set.check = "refused_final"
      BY <2>1, <2>7, <3>1 DEF GivenUpEnds
    <3>2. CASE set.check # "refused_final"
      <4>1. plan.terminal
        BY <2>1, <2>5, <2>8, <3>2 DEF SetRow, Answers, Answered
      <4> QED
        BY <2>2, <2>3, <4>1, GivenUpRow
    <3> QED
      BY <3>1, <3>2
  <2>12. OneStart'
    <3> SUFFICES ASSUME NEW m \in Checkpoints, marks'[m].status = "resolved"
                 PROVE  set'.check \in Answered /\ marks'[m].start = set'.start
      BY DEF OneStart
    <3>1. CASE marks[m].status \in Terminal
      <4>1. set.check \in Answered /\ marks'[m].start = set.start
        BY <2>1, <2>7, <3>1 DEF OneStart
      <4> QED
        BY <4>1, <2>10 DEF Answered, Open
    <3>2. CASE marks[m].status \notin Terminal
      <4>1. after(m).status = "resolved"
        BY <2>2, <2>3, GivenUpRow
      <4>2. m \in Read(p) /\ plan.acts[m].kind = "settle" /\ after(m).start = plan.start
        BY <2>2, <3>2, <4>1
      <4>3. ~plan.terminal /\ (plan.check = "" => pass[p].set.check \notin Open /\ plan.start = pass[p].set.start)
        BY <4>2 DEF PlanOK
      <4>4. marks'[m].start = plan.start
        BY <2>3, <4>2, <4>3
      <4>5. CASE plan.check = ""
        <5>1. pass[p].set.check = set.check /\ plan.start = set.start /\ set.check \notin Open
          BY <2>1, <4>3, <4>5 DEF PassRow
        <5>2. set.check # "refused_final"
          BY <2>1, <3>2 DEF GivenUpEnds
        <5> QED
          BY <2>1, <2>10, <4>4, <5>1, <5>2 DEF SetRow
      <4>6. CASE plan.check # ""
        <5>1. set.check \in Open
          BY <2>5, <4>6 DEF Raced
        <5>2. set' = [set EXCEPT !.check = plan.check, !.start = plan.start]
          BY <2>5, <4>3, <4>6, <5>1
        <5> QED
          BY <2>1, <2>8, <4>4, <4>6, <5>2 DEF SetRow, Answers, Answered
      <4> QED
        BY <4>5, <4>6
    <3> QED
      BY <3>1, <3>2
  <2> QED
    BY <2>4, <2>6, <2>7, <2>9, <2>10, <2>11, <2>12
<1> QED
  BY <1>1, <1>2

-----------------------------------------------------------------------------
(* What every step keeps: a conclusion and the start of the set. *)
Stands ==
  /\ \A m \in Checkpoints : marks[m].status \in Terminal => marks'[m] = marks[m]
  /\ set.check \notin Open => set'.check = set.check /\ set'.start = set.start

(* A new set has the invariant. *)
LEMMA StartInit == Init => StartInv
<1> SUFFICES ASSUME Init PROVE StartInv
  OBVIOUS
<1>1. \A m \in Checkpoints : MarkRow(marks[m]) /\ marks[m].status = "pending"
  BY DEF Init, NewMark, MarkRow, Open
<1>2. SetRow(set) /\ set.check = "pending"
  BY DEF Init, SetRow, Open
<1>3. DOMAIN pass = Evaluators /\ \A p \in Evaluators : ~pass[p].on
  BY DEF Init, Idle
<1>4. marks = [m \in Checkpoints |-> marks[m]]
  BY DEF Init
<1> QED
  BY <1>1, <1>2, <1>3, <1>4 DEF StartInv, Shapes, PassRow, GivenUpEnds, OneStart

(* A pass that ends writes its plan, or nothing in mode 2. *)
LEMMA FinishKeeps ==
  ASSUME StartInv, NEW p \in Evaluators, pass[p].on, NEW plan, PlanOK(p, plan), Finish(p, plan)
  PROVE  StartInv' /\ Stands
<1>1. /\ marks' = [m \in Checkpoints |-> marks'[m]]
      /\ \A m \in Checkpoints : MarkRow(marks'[m])
      /\ SetRow(set') /\ GivenUpEnds' /\ OneStart' /\ Stands
  <2>1. CASE pass[p].mode = "on"
    <3>1. ApplyPlan(p, plan)
      BY <2>1 DEF Finish
    <3> QED
      BY <3>1, ApplyKeeps DEF Stands
  <2>2. CASE pass[p].mode # "on"
    BY <2>2 DEF Finish, StartInv, Shapes, GivenUpEnds, OneStart, Stands, SetRow, MarkRow
  <2> QED
    BY <2>1, <2>2
<1>2. DOMAIN pass' = Evaluators /\ \A q \in Evaluators : PassRow(q)'
  <2>1. pass' = [pass EXCEPT ![p] = Idle] /\ DOMAIN pass = Evaluators /\ ~Idle.on
    BY DEF Finish, StartInv, Shapes, Idle
  <2> SUFFICES ASSUME NEW q \in Evaluators, pass'[q].on PROVE PassRow(q)'
    BY <2>1 DEF PassRow
  <2>2. pass'[q] = pass[q] /\ pass[q].on
    BY <2>1
  <2>3. PassRow(q)
    BY DEF StartInv, Shapes
  <2> QED
    BY <1>1, <2>2, <2>3 DEF PassRow, Stands, Read
<1> QED
  BY <1>1, <1>2 DEF StartInv, Shapes

(* Every step keeps the invariant and what was concluded. *)
LEMMA StartNext ==
  ASSUME StartInv, [Next]_vars PROVE StartInv' /\ Stands
<1>1. CASE UNCHANGED vars
  BY <1>1 DEF vars, StartInv, Shapes, PassRow, Read, GivenUpEnds, OneStart, Stands, SetRow, MarkRow
<1>2. CASE Tick \/ \E x \in {"off", "dry", "on"} : SetMode(x)
  <2>1. UNCHANGED <<set, marks, pass>>
    BY <1>2 DEF Tick, SetMode
  <2> QED
    BY <2>1 DEF StartInv, Shapes, PassRow, Read, GivenUpEnds, OneStart, Stands, SetRow, MarkRow
<1>3. CASE Purge
  <2>1. /\ SetRow(set') /\ set'.check = set.check /\ set'.start = set.start
        /\ UNCHANGED <<marks, pass>>
    BY <1>3 DEF Purge, StartInv, Shapes, SetRow
  <2> QED
    BY <2>1 DEF StartInv, Shapes, PassRow, Read, GivenUpEnds, OneStart, Stands, MarkRow
<1>4. ASSUME NEW p \in Evaluators, Begin(p) PROVE StartInv' /\ Stands
  <2>1. UNCHANGED <<set, marks>> /\ DOMAIN pass' = Evaluators
    BY <1>4 DEF Begin, StartInv, Shapes
  <2>2. ASSUME NEW q \in Evaluators PROVE PassRow(q)'
    <3>1. CASE q = p
      <4>1. /\ pass'[q].set = set
            /\ pass'[q].marks = [m \in {c \in Checkpoints : marks[c].status \notin Terminal} |-> marks[m]]
        BY <1>4, <3>1 DEF Begin, StartInv, Shapes
      <4> QED
        BY <2>1, <4>1 DEF PassRow, Read
    <3>2. CASE q # p
      <4>1. pass'[q] = pass[q] /\ PassRow(q)
        BY <1>4, <3>2 DEF Begin, StartInv, Shapes
      <4> QED
        BY <2>1, <4>1 DEF PassRow, Read
    <3> QED
      BY <3>1, <3>2
  <2> QED
    BY <2>1, <2>2 DEF StartInv, Shapes, GivenUpEnds, OneStart, Stands, SetRow, MarkRow
<1>5. ASSUME NEW p \in Evaluators, WakeOnly(p) PROVE StartInv' /\ Stands
  <2> DEFINE acts == [m \in Read(p) |-> WakeUp(Future(p, m))]
  <2>1. pass[p].on /\ Finish(p, Plan(NoStart, acts))
    BY <1>5 DEF WakeOnly
  <2>2. \A m \in Read(p) : acts[m].kind \in {"none", "wake", "source", "mark"}
    BY ActKinds
  <2> HIDE DEF acts
  <2>3. PlanOK(p, Plan(NoStart, acts))
    BY <2>2, QuietPlan
  <2> QED
    BY <2>1, <2>3, FinishKeeps
<1>6. ASSUME NEW p \in Evaluators, FetchFails(p) PROVE StartInv' /\ Stands
  BY <1>6, SourcePlan, FinishKeeps DEF FetchFails
<1>7. ASSUME NEW p \in Evaluators, Evaluate(p) PROVE StartInv' /\ Stands
  <2>1. PICK slot, body, wide, reply, valve : Finish(p, EvaluateSet(p, slot, body, wide, reply, valve))
    BY <1>7 DEF Evaluate
  <2>2. pass[p].on
    BY <1>7 DEF Evaluate
  <2> QED
    BY <2>1, <2>2, EvaluatePlan, FinishKeeps
<1>8. ASSUME NEW p \in Evaluators, Abandon(p) PROVE StartInv' /\ Stands
  <2>1. /\ UNCHANGED <<set, marks>> /\ DOMAIN pass' = Evaluators
        /\ \A q \in Evaluators : pass'[q] = pass[q] \/ ~pass'[q].on
    BY <1>8 DEF Abandon, StartInv, Shapes, Idle
  <2>2. \A q \in Evaluators : PassRow(q)'
    BY <2>1 DEF StartInv, Shapes, PassRow, Read
  <2> QED
    BY <2>1, <2>2 DEF StartInv, Shapes, GivenUpEnds, OneStart, Stands, SetRow, MarkRow
<1> QED
  BY <1>1, <1>2, <1>3, <1>4, <1>5, <1>6, <1>7, <1>8 DEF Next

(* Every settled mark is measured from the one start that is stored,       *)
(* whatever passes overlapped and whatever bodies they saw.                *)
THEOREM MeasuredFromOneStart == Spec => []OneStart
<1>1. Init => StartInv
  BY StartInit
<1>2. StartInv /\ [Next]_vars => StartInv'
  BY StartNext
<1>3. StartInv => OneStart
  BY DEF StartInv
<1> QED
  BY <1>1, <1>2, <1>3, PTL DEF Spec

(* A settled or ended mark is never written again, and the start of a set  *)
(* is fixed once (ApplyForecastPlan).                                      *)
THEOREM ConclusionsStandForEver == Spec => ConclusionsStand
<1>1. Init => StartInv
  BY StartInit
<1>2. StartInv /\ [Next]_vars => StartInv' /\ [Stands]_vars
  BY StartNext
<1>3. [Stands]_vars <=>
      [/\ \A m \in Checkpoints : marks[m].status \in Terminal => marks'[m] = marks[m]
       /\ set.check \notin Open => set'.check = set.check /\ set'.start = set.start]_vars
  BY DEF Stands
<1> QED
  BY <1>1, <1>2, <1>3, PTL DEF Spec, ConclusionsStand

-----------------------------------------------------------------------------
(* The attempts of a mark are failures about its own data, and a pass      *)
(* knows no more of them than there were, of every mark still open.        *)
PassCounts(p) ==
  pass[p].on => \A m \in Checkpoints :
    /\ marks[m].status \notin Terminal => m \in Read(p)
    /\ m \in Read(p) => pass[p].marks[m].attempts \in Nat /\ pass[p].marks[m].attempts <= failures[m]

Counted(m) ==
  /\ failures[m] \in 0..MinAttempts
  /\ marks[m].attempts \in Nat /\ marks[m].attempts <= failures[m]
  /\ marks[m].status = "refused_final" => failures[m] >= MinAttempts

CountInv ==
  /\ \A m \in Checkpoints : Counted(m)
  /\ \A p \in Evaluators : PassCounts(p)

(* Counting up to the number of attempts that ends a mark. *)
LEMMA Counting ==
  ASSUME NEW n \in 0..MinAttempts
  PROVE  /\ OneMore(n) \in 0..MinAttempts /\ n <= OneMore(n)
         /\ n + 1 >= MinAttempts => OneMore(n) >= MinAttempts
         /\ \A k \in Nat : k <= n => OneMore(k) \in Nat /\ OneMore(k) <= OneMore(n)
  BY ForecastAssumption DEF OneMore, Least

(* A write counts an attempt for a failure about the mark itself. *)
LEMMA WrittenAttempts ==
  ASSUME NEW m, MarkRow(marks[m]), NEW act, act.kind \in Kinds
  PROVE  Written(m, act).attempts =
           IF act.kind \in {"mark", "final"} /\ marks[m].status \notin Terminal
           THEN OneMore(marks[m].attempts) ELSE marks[m].attempts
<1>1. CASE marks[m].status \in Terminal
  BY <1>1 DEF Written
<1>2. CASE marks[m].status \notin Terminal
  <2>1. CASE act.kind \in {"wake", "source", "none", "settle"}
    BY <1>2, <2>1 DEF Written, MarkRow
  <2>2. CASE act.kind = "mark"
    BY <1>2, <2>2 DEF Written, MarkRow
  <2>3. CASE act.kind = "final"
    BY <1>2, <2>3 DEF Written, MarkRow
  <2> QED
    BY <1>2, <2>1, <2>2, <2>3 DEF Kinds
<1> QED
  BY <1>1, <1>2

(* And so does a transaction. *)
LEMMA AfterAttempts ==
  ASSUME NEW p, NEW plan, PlanOK(p, plan), NEW m, MarkRow(marks[m])
  PROVE  RowAfter(p, plan, m).attempts =
           IF /\ m \in Read(p) /\ plan.acts[m].kind \in {"mark", "final"}
              /\ marks[m].status \notin Terminal
           THEN OneMore(marks[m].attempts) ELSE marks[m].attempts
<1>1. CASE m \notin Read(p)
  BY <1>1 DEF RowAfter
<1>2. CASE m \in Read(p)
  <2> DEFINE act == PutOff(p, m, plan.acts[m])
             new == Written(m, act)
  <2>1. plan.acts[m].kind \in Kinds
    BY <1>2 DEF PlanOK
  <2>2. act.kind = plan.acts[m].kind
    BY PutOffKind
  <2> HIDE DEF act
  <2>3. new.attempts = IF plan.acts[m].kind \in {"mark", "final"} /\ marks[m].status \notin Terminal
                       THEN OneMore(marks[m].attempts) ELSE marks[m].attempts
    BY <2>1, <2>2, WrittenAttempts
  <2>4. MarkRow(new)
    BY <2>1, <2>2, WrittenRow
  <2> HIDE DEF new
  <2>5. [new EXCEPT !.start = plan.start].attempts = new.attempts
    BY <2>4 DEF MarkRow
  <2> QED
    BY <1>2, <2>3, <2>5 DEF RowAfter, new, act
<1> QED
  BY <1>1, <1>2

(* A transaction counts a failure wherever it counts an attempt, and ends  *)
(* a mark only with enough of them.                                        *)
LEMMA ApplyCounts ==
  ASSUME StartInv, CountInv, NEW p \in Evaluators, pass[p].on, NEW plan, PlanOK(p, plan), ApplyPlan(p, plan)
  PROVE  \A m \in Checkpoints : Counted(m)' /\ failures'[m] >= failures[m]
<1>1. CASE UNCHANGED <<set, marks, failures>>
  BY <1>1, ForecastAssumption DEF CountInv, Counted
<1>2. CASE ~UNCHANGED <<set, marks, failures>>
  <2> SUFFICES ASSUME NEW m \in Checkpoints PROVE Counted(m)' /\ failures'[m] >= failures[m]
    OBVIOUS
  <2> DEFINE new == RowAfter(p, plan, m)
             counts == /\ m \in Read(p) /\ plan.acts[m].kind \in {"mark", "final"}
                       /\ marks[m].status \notin Terminal
  <2>1. MarkRow(marks[m]) /\ Counted(m) /\ PassCounts(p)
    BY DEF StartInv, Shapes, CountInv
  <2>2. marks'[m] = IF plan.terminal THEN GivenUp(new) ELSE new
    BY <1>2, MarkApplied
  <2>3. failures'[m] = IF counts THEN OneMore(failures[m]) ELSE failures[m]
    <3>1. failures' = [c \in Checkpoints |->
                        IF /\ c \in Read(p) /\ plan.acts[c].kind \in {"mark", "final"}
                           /\ marks[c].status \notin Terminal
                        THEN OneMore(failures[c]) ELSE failures[c]]
      BY <1>2, Applied
    <3> QED
      BY <3>1
  <2>4. /\ MarkRow(new)
        /\ marks[m].status \in Terminal => new = marks[m]
        /\ marks[m].status \notin Terminal /\ new.status = "refused_final" =>
             m \in Read(p) /\ plan.acts[m].kind = "final"
    BY <2>1, AfterPlan
  <2>5. new.attempts = IF counts THEN OneMore(marks[m].attempts) ELSE marks[m].attempts
    BY <2>1, AfterAttempts
  <2>6. (m \in Read(p) /\ plan.acts[m].kind = "final") \/ (plan.terminal /\ m \in Read(p)) =>
          Tried(p, m) /\ plan.acts[m].kind \in {"mark", "final"}
    BY DEF PlanOK
  <2> HIDE DEF new
  <2>7. marks'[m].attempts = new.attempts
    BY <2>2, <2>4 DEF GivenUp, MarkRow
  <2>8. failures'[m] \in 0..MinAttempts /\ failures'[m] >= failures[m]
    BY <2>1, <2>3, Counting, ForecastAssumption DEF Counted
  <2>9. marks'[m].attempts \in Nat /\ marks'[m].attempts <= failures'[m]
    BY <2>1, <2>3, <2>5, <2>7, Counting DEF Counted
  <2>10. ASSUME marks'[m].status = "refused_final" PROVE failures'[m] >= MinAttempts
    <3>1. CASE marks[m].status \in Terminal
      <4>1. marks[m].status = "refused_final"
        BY <2>2, <2>4, <2>10, <3>1, GivenUpRow
      <4> QED
        BY <2>1, <2>8, <4>1, ForecastAssumption DEF Counted
    <3>2. CASE marks[m].status \notin Terminal
      <4>1. counts /\ Tried(p, m)
        <5>1. CASE plan.terminal
          BY <2>1, <2>6, <3>2, <5>1 DEF PassCounts
        <5>2. CASE ~plan.terminal
          BY <2>2, <2>4, <2>6, <2>10, <3>2, <5>2
        <5> QED
          BY <5>1, <5>2
      <4>2. failures[m] \in 0..MinAttempts /\ failures[m] + 1 >= MinAttempts
        BY <2>1, <4>1, ForecastAssumption DEF PassCounts, Counted, Tried
      <4> QED
        BY <2>3, <4>1, <4>2, Counting
    <3> QED
      BY <3>1, <3>2
  <2> QED
    BY <2>8, <2>9, <2>10 DEF Counted
<1> QED
  BY <1>1, <1>2

(* Nothing has failed at first. *)
LEMMA CountInit == Init => CountInv
<1> SUFFICES ASSUME Init PROVE CountInv
  OBVIOUS
<1>1. \A m \in Checkpoints : marks[m].status = "pending" /\ marks[m].attempts = 0 /\ failures[m] = 0
  BY DEF Init, NewMark
<1>2. \A p \in Evaluators : ~pass[p].on
  BY DEF Init, Idle
<1> QED
  BY <1>1, <1>2, ForecastAssumption DEF CountInv, Counted, PassCounts

(* What a pass has read stays a lower bound of what has happened. *)
LEMMA PassCountsKept ==
  ASSUME NEW p \in Evaluators, PassCounts(p), pass'[p] = pass[p] \/ ~pass'[p].on, Stands,
         \A m \in Checkpoints : /\ failures[m] \in Nat /\ failures'[m] \in Nat
                                 /\ failures'[m] >= failures[m]
  PROVE  PassCounts(p)'
<1> SUFFICES ASSUME pass'[p].on, NEW m \in Checkpoints
             PROVE  /\ marks'[m].status \notin Terminal => m \in Read(p)'
                    /\ m \in Read(p)' => /\ pass'[p].marks[m].attempts \in Nat
                                          /\ pass'[p].marks[m].attempts <= failures'[m]
  BY DEF PassCounts
<1>1. pass'[p] = pass[p] /\ pass[p].on /\ Read(p)' = Read(p)
  BY DEF Read
<1> QED
  BY <1>1 DEF PassCounts, Stands

(* The end of a pass keeps the counts. *)
LEMMA FinishCounts ==
  ASSUME StartInv, CountInv, NEW p \in Evaluators, pass[p].on, NEW plan, PlanOK(p, plan), Finish(p, plan)
  PROVE  CountInv'
<1>1. \A m \in Checkpoints : Counted(m)' /\ failures'[m] >= failures[m]
  <2>1. CASE pass[p].mode = "on"
    BY <2>1, ApplyCounts DEF Finish
  <2>2. CASE pass[p].mode # "on"
    BY <2>2, ForecastAssumption DEF Finish, CountInv, Counted
  <2> QED
    BY <2>1, <2>2
<1>2. \A q \in Evaluators : pass'[q] = pass[q] \/ ~pass'[q].on
  BY DEF Finish, StartInv, Shapes, Idle
<1>3. Stands
  BY FinishKeeps
<1>4. \A m \in Checkpoints : failures[m] \in Nat /\ failures'[m] \in Nat
  BY <1>1, ForecastAssumption DEF CountInv, Counted
<1>5. \A q \in Evaluators : PassCounts(q)'
  BY <1>1, <1>2, <1>3, <1>4, PassCountsKept DEF CountInv
<1> QED
  BY <1>1, <1>5 DEF CountInv

(* And so does every step. *)
LEMMA CountNext ==
  ASSUME StartInv, CountInv, [Next]_vars PROVE CountInv'
<1>1. CASE UNCHANGED vars
  BY <1>1 DEF vars, CountInv, Counted, PassCounts, Read
<1>2. CASE Purge \/ Tick \/ \E x \in {"off", "dry", "on"} : SetMode(x)
  <2>1. UNCHANGED <<marks, pass, failures>>
    BY <1>2 DEF Tick, SetMode, Purge
  <2> QED
    BY <2>1 DEF CountInv, Counted, PassCounts, Read
<1>3. ASSUME NEW p \in Evaluators, Begin(p) PROVE CountInv'
  <2>1. /\ UNCHANGED <<marks, failures>>
        /\ pass'[p].marks = [m \in {c \in Checkpoints : marks[c].status \notin Terminal} |-> marks[m]]
        /\ \A q \in Evaluators : q # p => pass'[q] = pass[q]
    BY <1>3 DEF Begin, StartInv, Shapes
  <2>2. \A q \in Evaluators : PassCounts(q)'
    BY <2>1 DEF CountInv, Counted, PassCounts, Read
  <2> QED
    BY <2>1, <2>2 DEF CountInv, Counted
<1>4. ASSUME NEW p \in Evaluators, WakeOnly(p) PROVE CountInv'
  <2> DEFINE acts == [m \in Read(p) |-> WakeUp(Future(p, m))]
  <2>1. pass[p].on /\ Finish(p, Plan(NoStart, acts))
    BY <1>4 DEF WakeOnly
  <2>2. \A m \in Read(p) : acts[m].kind \in {"none", "wake", "source", "mark"}
    BY ActKinds
  <2> HIDE DEF acts
  <2>3. PlanOK(p, Plan(NoStart, acts))
    BY <2>2, QuietPlan
  <2> QED
    BY <2>1, <2>3, FinishCounts
<1>5. ASSUME NEW p \in Evaluators, FetchFails(p) PROVE CountInv'
  BY <1>5, SourcePlan, FinishCounts DEF FetchFails
<1>6. ASSUME NEW p \in Evaluators, Evaluate(p) PROVE CountInv'
  <2>1. PICK slot, body, wide, reply, valve : Finish(p, EvaluateSet(p, slot, body, wide, reply, valve))
    BY <1>6 DEF Evaluate
  <2>2. pass[p].on
    BY <1>6 DEF Evaluate
  <2> QED
    BY <2>1, <2>2, EvaluatePlan, FinishCounts
<1>7. ASSUME NEW p \in Evaluators, Abandon(p) PROVE CountInv'
  <2>1. UNCHANGED <<marks, failures>> /\ \A q \in Evaluators : pass'[q] = pass[q] \/ ~pass'[q].on
    BY <1>7 DEF Abandon, StartInv, Shapes, Idle
  <2> QED
    BY <2>1 DEF CountInv, Counted, PassCounts, Read
<1> QED
  BY <1>1, <1>2, <1>3, <1>4, <1>5, <1>6, <1>7 DEF Next

(* No outage, late calendar or abandoned pass ends a mark: a mark that was *)
(* given up failed on its own data as often as the program demands.        *)
THEOREM OutagesEndNothing == Spec => []FailedEnough
<1> DEFINE Inv == StartInv /\ CountInv
<1>1. Init => Inv
  BY StartInit, CountInit
<1>2. Inv /\ [Next]_vars => Inv'
  BY StartNext, CountNext
<1>3. Inv => FailedEnough
  BY DEF CountInv, Counted, FailedEnough
<1> QED
  BY <1>1, <1>2, <1>3, PTL DEF Spec

-----------------------------------------------------------------------------
(***************************************************************************)
(* What a mark is measured on, and when it is given up, for every calendar *)
(* and every late body: a calendar that lags is a prefix of the true one,  *)
(* and the sessions counted on a prefix are the sessions of the whole.     *)
(***************************************************************************)

(* Max is the greatest element. *)
LEMMA MaxIs ==
  ASSUME NEW S, S \subseteq Int, NEW a \in S, \A y \in S : y <= a
  PROVE  Max(S) = a
<1>1. Max(S) \in S /\ \A y \in S : Max(S) >= y
  BY DEF Max
<1>2. Max(S) \in Int /\ a \in Int /\ a <= Max(S) /\ Max(S) <= a
  BY <1>1
<1> QED
  BY <1>2

(* The least element of a set that is closed downwards in another. *)
LEMMA PrefixMin ==
  ASSUME NEW B, B \subseteq Nat, NEW A, A \subseteq B, A # {},
         \A a \in A, y \in B : y <= a => y \in A
  PROVE  Min(A) \in A /\ Min(A) = Min(B)
<1>1. PICK a \in A : \A y \in A : a <= y
  BY LeastNat
<1>2. \A y \in B : a <= y
  BY <1>1
<1>3. A \subseteq Int /\ B \subseteq Int /\ a \in B
  OBVIOUS
<1>4. Min(A) = a
  BY <1>1, <1>3, MinIs
<1>5. Min(B) = a
  BY <1>2, <1>3, MinIs
<1> QED
  BY <1>4, <1>5

(* Last is the greatest element of a bounded set, or None. *)
LEMMA LastOf ==
  ASSUME NEW S, NEW k \in Nat, S \subseteq (None + 1)..k
  PROVE  IF S = {} THEN Last(S) = None
         ELSE Last(S) \in S /\ Last(S) > None /\ \A y \in S : y <= Last(S)
<1>1. CASE S = {}
  BY <1>1 DEF Last
<1>2. CASE S # {}
  <2> DEFINE T == {k - x : x \in S}
  <2>1. T \subseteq Nat /\ T # {}
    <3>1. \A x \in S : k - x \in Nat
      BY DEF None
    <3> QED
      BY <1>2, <3>1
  <2>2. PICK b \in T : \A y \in T : b <= y
    BY <2>1, LeastNat
  <2>3. PICK a \in S : b = k - a
    OBVIOUS
  <2>4. \A y \in S : k - y \in T
    OBVIOUS
  <2> HIDE DEF T
  <2>5. S \subseteq Int
    BY DEF None
  <2>6. \A y \in S : y <= a
    BY <2>2, <2>3, <2>4, <2>5
  <2>7. Max(S) = a
    BY <2>5, <2>6, MaxIs
  <2> QED
    BY <1>2, <2>6, <2>7 DEF Last, None
<1> QED
  BY <1>1, <1>2

-----------------------------------------------------------------------------
(* The calendar. *)
MixOK == mix \in Mixes /\ now \in Nat

(* The calendar and the trades, as the assumption bounds them. *)
LEMMA MixFacts ==
  ASSUME MixOK
  PROVE  /\ mix.sessions \subseteq Nat /\ mix.sessions \subseteq Int /\ IsFiniteSet(mix.sessions)
         /\ Day(Horizon) \in Nat
         /\ mix.trades \subseteq (None + 1)..Day(Horizon) /\ mix.trades \subseteq Int
<1>1. mix.sessions \subseteq 0..Day(Horizon) /\ mix.trades \subseteq (None + 1)..Day(Horizon)
  BY ForecastAssumption DEF MixOK
<1>2. Day(Horizon) \in Nat
  BY ForecastAssumption DEF Day
<1>3. IsFiniteSet(0..Day(Horizon))
  BY <1>2, FS_Interval
<1>4. IsFiniteSet(mix.sessions)
  BY <1>1, <1>3, FS_Subset
<1> QED
  BY <1>1, <1>2, <1>4 DEF None

(* A calendar printed earlier is a prefix of a later one. *)
LEMMA CompletedPrefix ==
  ASSUME MixOK, NEW t \in Int
  PROVE  /\ Completed(t) \subseteq mix.sessions
         /\ \A x \in Completed(t), y \in mix.sessions : y <= x => y \in Completed(t)
         /\ \A u \in Int : t <= u => Completed(t) \subseteq Completed(u)
  BY MixFacts DEF Completed, CloseOf

(* Sessions that have passed stay passed. *)
LEMMA PastDueGrows ==
  ASSUME MixOK, NEW t \in Int, NEW u \in Int, t <= u, NEW due
  PROVE  /\ PastDue(Completed(t), due) \in Nat /\ PastDue(Completed(u), due) \in Nat
         /\ PastDue(Completed(t), due) <= PastDue(Completed(u), due)
<1> DEFINE A == {d \in Completed(t) : d > due}
           B == {d \in Completed(u) : d > due}
<1>1. A \subseteq B /\ B \subseteq mix.sessions
  BY CompletedPrefix
<1>2. IsFiniteSet(B)
  BY <1>1, MixFacts, FS_Subset
<1>3. Cardinality(A) <= Cardinality(B) /\ IsFiniteSet(A)
  BY <1>1, <1>2, FS_Subset
<1>4. Cardinality(A) \in Nat /\ Cardinality(B) \in Nat
  BY <1>2, <1>3, FS_CardinalityType
<1> QED
  BY <1>3, <1>4 DEF PastDue

(* The start a calendar decides on is the start the whole calendar does. *)
LEMMA StartStable ==
  ASSUME MixOK, NEW t \in Int, PredS0(Completed(t)) # None
  PROVE  PredS0(Completed(t)) \in Completed(t) /\ PredS0(Completed(t)) = PredS0(mix.sessions)
<1> DEFINE A == {d \in Completed(t) : d > MadeOn \/ (d = MadeOn /\ ~Evening(mix.made))}
           B == {d \in mix.sessions : d > MadeOn \/ (d = MadeOn /\ ~Evening(mix.made))}
<1>1. /\ B \subseteq Nat /\ A \subseteq B /\ A \subseteq Completed(t)
      /\ \A a \in A, y \in B : y <= a => y \in A
  BY MixFacts, CompletedPrefix
<1>2. /\ PredS0(Completed(t)) = IF A = {} THEN None ELSE Min(A)
      /\ PredS0(mix.sessions) = IF B = {} THEN None ELSE Min(B)
  BY DEF PredS0
<1> HIDE DEF A, B
<1>3. A # {} /\ B # {}
  BY <1>1, <1>2
<1>4. Min(A) \in A /\ Min(A) = Min(B)
  BY <1>1, <1>3, PrefixMin
<1> QED
  BY <1>1, <1>2, <1>3, <1>4

(* And so is the session a checkpoint is due on. *)
LEMMA DueStable ==
  ASSUME MixOK, NEW t \in Int, NEW s0, NEW m, DueOn(Completed(t), s0, m) # None
  PROVE  DueOn(Completed(t), s0, m) \in Completed(t) /\ DueOn(Completed(t), s0, m) = NthSession(s0, m)
<1> DEFINE A == {d \in Completed(t) :
                  Cardinality({x \in Completed(t) : s0 < x /\ x <= d}) = Nth[m] /\ d > s0}
           B == {d \in mix.sessions :
                  Cardinality({x \in mix.sessions : s0 < x /\ x <= d}) = Nth[m] /\ d > s0}
<1>1. \A d \in Completed(t) :
        {x \in Completed(t) : s0 < x /\ x <= d} = {x \in mix.sessions : s0 < x /\ x <= d}
  BY CompletedPrefix
<1>2. Completed(t) \subseteq mix.sessions /\ mix.sessions \subseteq Nat
  BY MixFacts, CompletedPrefix
<1>3. A = {d \in Completed(t) :
            Cardinality({x \in mix.sessions : s0 < x /\ x <= d}) = Nth[m] /\ d > s0}
  BY <1>1
<1>4. /\ B \subseteq Nat /\ A \subseteq B /\ A \subseteq Completed(t)
      /\ \A a \in A, y \in B : y <= a => y \in A
  BY <1>2, <1>3, CompletedPrefix
<1>5. /\ DueOn(Completed(t), s0, m) = IF s0 \in Completed(t) /\ A # {} THEN Min(A) ELSE None
      /\ NthSession(s0, m) = IF s0 \in mix.sessions /\ B # {} THEN Min(B) ELSE None
  BY DEF DueOn, NthSession
<1> HIDE DEF A, B
<1>6. A # {} /\ B # {} /\ s0 \in Completed(t) /\ s0 \in mix.sessions
  BY <1>2, <1>4, <1>5
<1>7. Min(A) \in A /\ Min(A) = Min(B)
  BY <1>4, <1>6, PrefixMin
<1> QED
  BY <1>4, <1>5, <1>6, <1>7

-----------------------------------------------------------------------------
(* The bars of a body. *)
IsBody(body) ==
  /\ body = [at |-> body.at, stamped |-> body.stamped, ed |-> body.ed, floor |-> body.floor]
  /\ body.at \in Int /\ body.at <= now /\ body.floor \in Int

(* A body holds only prices of the stock. *)
LEMMA BarsFacts ==
  ASSUME MixOK, NEW body
  PROVE  Bars(body) \subseteq Printed(body) /\ Printed(body) \subseteq mix.trades
  BY DEF Bars, Printed

(* The last bar up to a day. *)
LEMMA LastBarOf ==
  ASSUME MixOK, NEW bars, bars \subseteq mix.trades, NEW d
  PROVE  IF {x \in bars : x <= d} = {} THEN LastBar(bars, d) = None
         ELSE /\ LastBar(bars, d) \in bars /\ LastBar(bars, d) <= d /\ LastBar(bars, d) > None
              /\ \A y \in bars : y <= d => y <= LastBar(bars, d)
<1> DEFINE S == {x \in bars : x <= d}
<1>1. S \subseteq (None + 1)..Day(Horizon) /\ Day(Horizon) \in Nat
  BY MixFacts
<1>2. IF S = {} THEN Last(S) = None
      ELSE Last(S) \in S /\ Last(S) > None /\ \A y \in S : y <= Last(S)
  BY <1>1, LastOf
<1> QED
  BY <1>2 DEF LastBar

(* A body that proves its session current holds the last price of the      *)
(* stock by then (newestBarFinal, stampProvesCurrent).                     *)
LEMMA CurrentIsLast ==
  ASSUME MixOK, NEW body, IsBody(body), NEW d \in Int,
         LastBar(Bars(body), d) # None, LastBar(Bars(body), d) >= d \/ ProvesCurrent(body, d)
  PROVE  LastBar(Bars(body), d) = LastBar(mix.trades, d)
<1> DEFINE bars == Bars(body)
           b == LastBar(bars, d)
           S == {x \in mix.trades : x <= d}
<1>1. bars \subseteq Printed(body) /\ bars \subseteq mix.trades /\ mix.trades \subseteq Int
  BY BarsFacts, MixFacts
<1>2. b \in bars /\ b <= d /\ b > None /\ \A y \in bars : y <= d => y <= b
  BY <1>1, LastBarOf
<1>3. ASSUME NEW y \in mix.trades, y <= d, b < y PROVE FALSE
  <2>1. ProvesCurrent(body, d)
    BY <1>1, <1>2, <1>3
  <2>2. Day(body.at) \in Int /\ b >= body.floor /\ b \in Int /\ y \in Int
    BY <1>1, <1>2 DEF Printed, IsBody, Day
  <2>3. y \in Printed(body)
    BY <1>3, <2>1, <2>2 DEF Printed, ProvesCurrent, IsBody
  <2>4. y \in bars
    <3>1. CASE NewestFinal(body)
      BY <2>3, <3>1 DEF Bars
    <3>2. CASE ~NewestFinal(body)
      <4>1. Day(body.at) > d /\ ~(Last(Printed(body)) < Day(body.at))
        BY <2>1, <3>2 DEF NewestFinal, ProvesCurrent
      <4>2. Printed(body) \subseteq (None + 1)..Day(Horizon) /\ Day(Horizon) \in Nat
        BY MixFacts, BarsFacts
      <4>3. Last(Printed(body)) \in Printed(body)
        BY <2>3, <4>2, LastOf
      <4>4. Last(Printed(body)) \in Int
        BY <4>3, BarsFacts, MixFacts
      <4>5. y # Last(Printed(body))
        BY <1>3, <2>2, <4>1, <4>4
      <4> QED
        BY <2>3, <3>2, <4>5 DEF Bars
    <3> QED
      BY <3>1, <3>2
  <2> QED
    BY <1>2, <1>3, <2>2, <2>4
<1>4. S \subseteq Int /\ b \in S /\ \A y \in S : y <= b
  BY <1>1, <1>2, <1>3
<1>5. Max(S) = b
  BY <1>4, MaxIs
<1> QED
  BY <1>4, <1>5 DEF LastBar, Last

-----------------------------------------------------------------------------
(* What is stored of a mark that ended. *)
LateEnough(due) == PastDue(Completed(now), due) >= RetryTicks
SettledRight(session, bar, s0, m) ==
  /\ session = NthSession(s0, m) /\ session \in Completed(now)
  /\ bar = LastBar(mix.trades, session) \/ PastDue(Completed(now), session) >= Silence

(* settleMark settles on the last price of the stock, or after a silence. *)
LEMMA SettleMarkRight ==
  ASSUME MixOK, NEW d \in Int, NEW start, start.base \in Int, start.base > None, NEW days, NEW index,
         NEW body, IsBody(body), NEW adj, NEW valve,
         PastDue(days, d) \in Int
  PROVE  LET act == SettleMark(d, start, days, index, body, adj, valve) IN
         /\ act.code # "no_base"
         /\ act.kind = "settle" =>
              /\ act.session = d
              /\ act.bar = LastBar(mix.trades, d) \/ PastDue(days, d) >= Silence
<1> DEFINE bar == LastBar(Bars(body), d)
           unproven == bar < d /\ ~ProvesCurrent(body, d)
           act == SettleMark(d, start, days, index, body, adj, valve)
           settled == [Act EXCEPT !.kind = "settle", !.session = d, !.bar = bar]
<1>1. /\ settled.kind = "settle" /\ settled.session = d /\ settled.bar = bar /\ settled.code = ""
  BY DEF Act
<1>2. \A class, code : Refuse(class, code).kind = class /\ Refuse(class, code).code = code
  BY DEF Refuse, Act
<1>3. \/ \E class \in {"mark", "source"}, code \in {"unverifiable", "no_bar", "anchor_mismatch",
             "calendar_mismatch", "calendar_lag", "stale_bar", "fetch_failed"} : act = Refuse(class, code)
      \/ /\ act = settled /\ ~(bar < start.base)
         /\ unproven => ~(PastDue(days, d) < Silence)
  BY DEF SettleMark
<1>4. ASSUME act = settled, ~(bar < start.base), unproven => ~(PastDue(days, d) < Silence)
      PROVE  bar = LastBar(mix.trades, d) \/ PastDue(days, d) >= Silence
  <2>1. CASE unproven
    BY <1>4, <2>1, ForecastAssumption
  <2>2. CASE ~unproven
    <3>1. Bars(body) \subseteq mix.trades /\ mix.trades \subseteq Int
      BY BarsFacts, MixFacts
    <3>2. bar \in Int
      BY <3>1, LastBarOf DEF None
    <3>3. bar # None /\ (bar >= d \/ ProvesCurrent(body, d))
      BY <1>4, <2>2, <3>2 DEF None
    <3> QED
      BY <3>3, CurrentIsLast
  <2> QED
    BY <2>1, <2>2
<1> HIDE DEF act, settled
<1>5. CASE \E class \in {"mark", "source"}, code \in {"unverifiable", "no_bar", "anchor_mismatch",
             "calendar_mismatch", "calendar_lag", "stale_bar", "fetch_failed"} : act = Refuse(class, code)
  <2>1. act.code # "no_base" /\ act.kind # "settle"
    BY <1>2, <1>5
  <2> QED
    BY <2>1 DEF act
<1>6. CASE /\ act = settled /\ ~(bar < start.base)
           /\ unproven => ~(PastDue(days, d) < Silence)
  <2>1. act.code # "no_base" /\ act.session = d /\ (act.bar = LastBar(mix.trades, d) \/ PastDue(days, d) >= Silence)
    BY <1>1, <1>4, <1>6
  <2> QED
    BY <2>1 DEF act
<1> QED
  BY <1>3, <1>5, <1>6

(* What a pass decides of a mark from the sessions a calendar shows. *)
LEMMA SettleMarksDated ==
  ASSUME MixOK, NEW t \in Int, t <= now, NEW p, NEW start, start.base \in Int, start.base > None,
         NEW index, NEW body, IsBody(body), NEW reply, NEW valve, NEW c \in Read(p)
  PROVE  LET act == SettleMarks(p, start, Completed(t), index, body, reply, valve)[c] IN
         /\ act.kind = "final" => act.code # "no_base" /\ LateEnough(NthSession(start.s0, c))
         /\ act.kind = "settle" => SettledRight(act.session, act.bar, start.s0, c)
<1> DEFINE days == Completed(t)
           d == DueOn(days, start.s0, c)
           one(adj) == SettleMark(d, start, days, index, body, adj, valve)
           ended(adj) == [one(adj) EXCEPT !.kind = "final"]
           result == SettleMarks(p, start, days, index, body, reply, valve)[c]
<1>1. \/ result.kind \notin {"final", "settle"}
      \/ /\ d # None
         /\ \E adj : \/ /\ result = one(adj)
                      \/ /\ result = ended(adj) /\ PastDue(days, d) >= RetryTicks
  BY ActKinds DEF SettleMarks, Exhausted, Act
<1>2. CASE result.kind \notin {"final", "settle"}
  BY <1>2
<1>3. ASSUME d # None, NEW adj, result = one(adj) \/ (result = ended(adj) /\ PastDue(days, d) >= RetryTicks)
      PROVE  /\ result.kind = "final" => result.code # "no_base" /\ LateEnough(NthSession(start.s0, c))
             /\ result.kind = "settle" => SettledRight(result.session, result.bar, start.s0, c)
  <2>1. d \in days /\ d = NthSession(start.s0, c)
    BY <1>3, DueStable
  <2>2. d \in Int /\ d \in Completed(now)
    BY <2>1, CompletedPrefix, MixFacts DEF MixOK
  <2>3. /\ PastDue(days, d) \in Int /\ PastDue(Completed(now), d) \in Int
        /\ PastDue(days, d) <= PastDue(Completed(now), d)
    BY PastDueGrows DEF MixOK
  <2> DEFINE act == one(adj)
             done == [act EXCEPT !.kind = "final"]
  <2>4. /\ act.code # "no_base"
        /\ act.kind = "settle" =>
              /\ act.session = d
              /\ act.bar = LastBar(mix.trades, d) \/ PastDue(days, d) >= Silence
    BY <2>2, <2>3, SettleMarkRight
  <2>5. act.kind \in {"mark", "source", "settle"}
    BY SettleKinds
  <2>6. done.code = act.code /\ done.kind = "final"
    BY DEF SettleMark, Refuse, Act
  <2>7. RetryTicks \in Int /\ Silence \in Int
    BY ForecastAssumption
  <2>8. result = act \/ (result = done /\ PastDue(days, d) >= RetryTicks)
    BY <1>3
  <2> HIDE DEF act, done, result, d, days
  <2>9. CASE result = act
    BY <2>1, <2>2, <2>3, <2>4, <2>5, <2>7, <2>9 DEF SettledRight
  <2>10. CASE result = done /\ PastDue(days, d) >= RetryTicks
    BY <2>1, <2>3, <2>4, <2>6, <2>7, <2>10 DEF LateEnough
  <2> QED
    BY <2>8, <2>9, <2>10
<1> QED
  BY <1>1, <1>2, <1>3

-----------------------------------------------------------------------------
(* The plans. *)
StartKnown(start) ==
  start.s0 = PredS0(mix.sessions) /\ start.base \in Int /\ start.base > None

PlanDated(p, plan) ==
  /\ plan.check # "" => StartKnown(plan.start)
  /\ \A m \in Read(p) :
       LET act == plan.acts[m] IN
       /\ act.kind = "final" =>
            act.code # "no_base" /\ LateEnough(NthSession(PredS0(mix.sessions), m))
       /\ act.kind = "settle" => SettledRight(act.session, act.bar, PredS0(mix.sessions), m)
  /\ plan.terminal => LateEnough(PredS0(mix.sessions))

(* A plan that ends nothing claims nothing. *)
LEMMA QuietDated ==
  ASSUME NEW p, NEW acts, \A m \in Read(p) : acts[m].kind \in {"none", "wake", "source", "mark"}
  PROVE  PlanDated(p, Plan(NoStart, acts))
<1> DEFINE plan == Plan(NoStart, acts)
<1>1. plan.acts = acts /\ plan.check = "" /\ ~plan.terminal
  BY DEF Plan
<1> HIDE DEF plan
<1>2. PlanDated(p, plan)
  BY <1>1 DEF PlanDated
<1> QED
  BY <1>2 DEF plan

(* A failed delivery ends nothing. *)
LEMMA SourceDated == ASSUME NEW p PROVE PlanDated(p, SourceFailed(p))
<1> DEFINE acts == [m \in Read(p) |-> LET wake == WakeAt(pass[p].set, m) IN
                     IF now < wake THEN WakeUp(wake) ELSE Refuse("source", "fetch_failed")]
<1>1. \A m \in Read(p) : acts[m].kind \in {"none", "wake", "source", "mark"}
  BY ActKinds
<1> HIDE DEF acts
<1>2. PlanDated(p, Plan(NoStart, acts))
  BY <1>1, QuietDated
<1> QED
  BY <1>2 DEF SourceFailed, acts

(* A start that is not due ends nothing. *)
LEMMA NotDueDated == ASSUME NEW p PROVE PlanDated(p, NotDue(p))
<1> DEFINE acts == [m \in Read(p) |-> LET wake == WakeAt(pass[p].set, m) IN
                     WakeUp(IF now < wake THEN wake ELSE NotYetShown)]
<1>1. \A m \in Read(p) : acts[m].kind \in {"none", "wake", "source", "mark"}
  BY ActKinds
<1> HIDE DEF acts
<1>2. PlanDated(p, Plan(NoStart, acts))
  BY <1>1, QuietDated
<1> QED
  BY <1>2 DEF NotDue, acts

(* A set is given up only long enough after its start. *)
LEMMA NoBaseDated ==
  ASSUME MixOK, NEW t \in Int, t <= now, PredS0(Completed(t)) # None, NEW p
  PROVE  PlanDated(p, NoBase(p, PredS0(Completed(t)), Completed(t)))
<1> DEFINE s0 == PredS0(Completed(t))
           days == Completed(t)
           acts == [m \in Read(p) |-> Refuse("mark", "no_base")]
           ends == /\ PastDue(days, s0) >= RetryTicks
                   /\ \A m \in Read(p) : pass[p].marks[m].attempts + 1 >= MinAttempts
           quiet == Plan(NoStart, acts)
           plan == [quiet EXCEPT !.terminal = ends]
<1>1. \A m \in Read(p) : acts[m].kind = "mark"
  BY ActKinds
<1>2. ends \in BOOLEAN /\ (ends => LateEnough(PredS0(mix.sessions)))
  <2>1. s0 = PredS0(mix.sessions)
    BY StartStable
  <2>2. /\ PastDue(days, s0) \in Int /\ PastDue(Completed(now), s0) \in Int /\ RetryTicks \in Int
        /\ PastDue(days, s0) <= PastDue(Completed(now), s0)
    BY PastDueGrows, ForecastAssumption DEF MixOK
  <2> HIDE DEF s0, days
  <2>3. PastDue(days, s0) >= RetryTicks => PastDue(Completed(now), s0) >= RetryTicks
    BY <2>2
  <2> QED
    BY <2>1, <2>3 DEF LateEnough
<1> HIDE DEF acts, ends
<1>3. /\ plan.acts = acts /\ plan.check = "" /\ plan.terminal = ends
  BY DEF Plan
<1> HIDE DEF plan
<1>4. PlanDated(p, plan)
  BY <1>1, <1>2, <1>3 DEF PlanDated
<1> QED
  BY <1>4 DEF plan, NoBase, acts, ends

(* A plan that settles from the start of the whole calendar. *)
LEMMA SettlingDated ==
  ASSUME MixOK, NEW t \in Int, t <= now, NEW p, NEW start, StartKnown(start),
         NEW index, NEW body, IsBody(body), NEW reply, NEW valve,
         NEW plan, plan.acts = SettleMarks(p, start, Completed(t), index, body, reply, valve),
         plan.start = start, ~plan.terminal
  PROVE  PlanDated(p, plan)
<1>1. start.base \in Int /\ start.base > None /\ start.s0 = PredS0(mix.sessions)
  BY DEF StartKnown
<1>2. ASSUME NEW m \in Read(p)
      PROVE  LET act == plan.acts[m] IN
             /\ act.kind = "final" =>
                  act.code # "no_base" /\ LateEnough(NthSession(PredS0(mix.sessions), m))
             /\ act.kind = "settle" => SettledRight(act.session, act.bar, PredS0(mix.sessions), m)
  BY <1>1, <1>2, SettleMarksDated
<1> QED
  BY <1>2 DEF PlanDated

(* The start a pass settles on when it is the first to know it. *)
LEMMA StartFound ==
  ASSUME MixOK, NEW t \in Int, PredS0(Completed(t)) # None, NEW body,
         StartBar(Bars(body), PredS0(Completed(t))) # None
  PROVE  /\ PredS0(Completed(t)) = PredS0(mix.sessions)
         /\ StartBar(Bars(body), PredS0(Completed(t))) \in Int
         /\ StartBar(Bars(body), PredS0(Completed(t))) > None
<1> DEFINE s0 == PredS0(Completed(t))
<1>1. s0 = PredS0(mix.sessions)
  BY StartStable
<1> HIDE DEF s0
<1>2. Bars(body) \subseteq mix.trades
  BY BarsFacts
<1>3. \A x \in mix.trades : x \in Int /\ x > None
  BY MixFacts DEF None
<1>4. CASE s0 \in Bars(body)
  BY <1>1, <1>2, <1>3, <1>4 DEF StartBar, s0
<1>5. CASE s0 \notin Bars(body)
  <2>1. StartBar(Bars(body), s0) = LastBar(Bars(body), s0)
    BY <1>5 DEF StartBar
  <2>2. LastBar(Bars(body), s0) # None
    BY <2>1 DEF s0
  <2>3. LastBar(Bars(body), s0) \in Bars(body)
    BY <1>2, <2>2, LastBarOf
  <2> QED
    BY <1>1, <1>2, <1>3, <2>1, <2>3 DEF s0
<1> QED
  BY <1>4, <1>5

(* findStart decides nothing on a calendar that does not show the start. *)
LEMMA FindStartDated ==
  ASSUME MixOK, NEW t \in Int, t <= now, NEW p, NEW body, IsBody(body), NEW wide, NEW reply, NEW valve
  PROVE  PlanDated(p, FindStart(p, Completed(t), body, wide, reply, valve))
<1> DEFINE days == Completed(t)
           s0 == PredS0(days)
           check == PredBaseCheck(Bars(body), days, Unverifiable(body))
           looks == StartBar(Bars(body), s0) = None
           seen == IF looks THEN [body EXCEPT !.floor = None] ELSE body
           start == [s0 |-> s0, base |-> StartBar(Bars(seen), s0), ed |-> body.ed]
           index == IF looks /\ wide = "both" THEN days \cup {d \in mix.trades : d < 0} ELSE days
           acts == [m \in Read(p) |-> Refuse("source", "fetch_failed")]
           quiet == Plan(start, SettleMarks(p, start, days, index, seen, reply, valve))
           settling == [quiet EXCEPT !.check = check]
<1>1. PlanDated(p, Plan(NoStart, acts))
  <2>1. \A m \in Read(p) : acts[m].kind \in {"none", "wake", "source", "mark"}
    BY ActKinds
  <2> HIDE DEF acts
  <2> QED
    BY <2>1, QuietDated
<1>2. ASSUME s0 # None, start.base # None PROVE PlanDated(p, settling)
  <2>1. IsBody(seen)
    <3> DEFINE wider == [body EXCEPT !.floor = None]
    <3>1. IsBody(wider)
      BY DEF IsBody, None
    <3> QED
      BY <3>1
  <2>2. StartKnown(start)
    <3> HIDE DEF seen
    <3> QED
      BY <1>2, StartFound DEF StartKnown
  <2>3. /\ settling.acts = SettleMarks(p, start, days, index, seen, reply, valve)
        /\ settling.start = start /\ ~settling.terminal
    BY DEF Plan
  <2> HIDE DEF settling, start, index, seen
  <2> QED
    BY <2>1, <2>2, <2>3, SettlingDated
<1>3. PlanDated(p, NotDue(p)) /\ (s0 # None => PlanDated(p, NoBase(p, s0, days)))
  BY NotDueDated, NoBaseDated
<1>4. FindStart(p, days, body, wide, reply, valve) =
        IF check = "wait" \/ s0 = None THEN NotDue(p)
        ELSE IF looks /\ wide = "none" THEN Plan(NoStart, acts)
        ELSE IF start.base = None THEN NoBase(p, s0, days)
        ELSE settling
  BY DEF FindStart
<1> HIDE DEF check, start, index, seen, settling, acts, looks, s0
<1> QED
  BY <1>1, <1>2, <1>3, <1>4

(* And neither does evaluateSet, on a start that is stored. *)
LEMMA EvaluateDated ==
  ASSUME MixOK, NEW t \in Int, t <= now, NEW p, NEW body, IsBody(body), NEW wide, NEW reply, NEW valve,
         pass[p].set.check \notin Open => StartKnown(pass[p].set.start)
  PROVE  PlanDated(p, EvaluateSet(p, t, body, wide, reply, valve))
<1> DEFINE days == Completed(t)
           row == pass[p].set
           plan == Plan(row.start, SettleMarks(p, row.start, days, days, body, reply, valve))
<1>1. PlanDated(p, SourceFailed(p)) /\ PlanDated(p, FindStart(p, days, body, wide, reply, valve))
  BY SourceDated, FindStartDated
<1>2. ASSUME row.check \notin Open PROVE PlanDated(p, plan)
  <2>1. /\ plan.acts = SettleMarks(p, row.start, days, days, body, reply, valve)
        /\ plan.start = row.start /\ ~plan.terminal
    BY DEF Plan
  <2> HIDE DEF plan
  <2> QED
    BY <1>2, <2>1, SettlingDated
<1>3. EvaluateSet(p, t, body, wide, reply, valve) =
        IF Bars(body) = {} /\ Unverifiable(body) = None THEN SourceFailed(p)
        ELSE IF row.check \in Open THEN FindStart(p, days, body, wide, reply, valve)
        ELSE plan
  BY DEF EvaluateSet
<1> HIDE DEF plan, days, row
<1> QED
  BY <1>1, <1>2, <1>3

(* What a fetch may bring. *)
LEMMA BodyFacts ==
  ASSUME MixOK
  PROVE  /\ \A t \in Ages : t \in Int /\ t <= now
         /\ \A body \in Bodies : IsBody(body)
<1>1. \A t \in Ages : t \in Int /\ t <= now
  BY ForecastAssumption DEF Ages, MixOK
<1>2. ASSUME NEW body \in Bodies PROVE IsBody(body)
  <2> DEFINE eds == IF "revised" \in mix.ops THEN {0, 1} ELSE {0}
             bare == [at |-> now, stamped |-> FALSE, ed |-> 0, floor |-> 0]
  <2>1. body \in [at : Ages, stamped : {TRUE}, ed : eds, floor : {0}] \/ body = bare
    BY <1>2 DEF Bodies
  <2>2. CASE body = bare
    BY <2>2 DEF IsBody, MixOK
  <2> HIDE DEF eds
  <2>3. CASE body \in [at : Ages, stamped : {TRUE}, ed : eds, floor : {0}]
    <3>1. body = [at |-> body.at, stamped |-> body.stamped, ed |-> body.ed, floor |-> body.floor]
      BY <2>3
    <3>2. body.at \in Ages /\ body.floor = 0
      BY <2>3
    <3> QED
      BY <1>1, <3>1, <3>2 DEF IsBody
  <2> QED
    BY <2>1, <2>2, <2>3
<1> QED
  BY <1>1, <1>2

-----------------------------------------------------------------------------
(* The rows. *)
Dated(m) ==
  /\ marks[m].status = "resolved" =>
       SettledRight(marks[m].session, marks[m].bar, PredS0(mix.sessions), m)
  /\ marks[m].status = "refused_final" =>
       LateEnough(IF marks[m].code = "no_base" THEN PredS0(mix.sessions)
                  ELSE NthSession(PredS0(mix.sessions), m))

DateInv ==
  /\ mix \in Mixes /\ now \in 0..Horizon /\ mode \in {"off", "dry", "on"}
  /\ set.check \in Answered => StartKnown(set.start)
  /\ \A p \in Evaluators : pass[p].on => pass[p].set.check # "refused_final"
  /\ \A m \in Checkpoints : Dated(m)

(* What is written of a mark that ends is what its plan says. *)
LEMMA WrittenEnds ==
  ASSUME NEW m, MarkRow(marks[m]), marks[m].status \notin Terminal, NEW act
  PROVE  /\ act.kind = "settle" =>
              Written(m, act).session = act.session /\ Written(m, act).bar = act.bar
         /\ act.kind = "final" => Written(m, act).code = act.code
  BY DEF Written, MarkRow

(* And so is what the transaction leaves of it. *)
LEMMA AfterEnds ==
  ASSUME NEW p, NEW plan, PlanOK(p, plan), NEW m, MarkRow(marks[m]), marks[m].status \notin Terminal,
         m \in Read(p)
  PROVE  LET new == RowAfter(p, plan, m) IN
         /\ plan.acts[m].kind = "settle" =>
              new.session = plan.acts[m].session /\ new.bar = plan.acts[m].bar
         /\ plan.acts[m].kind = "final" => new.code = plan.acts[m].code
<1> DEFINE act == plan.acts[m]
           new == Written(m, act)
           started == [new EXCEPT !.start = plan.start]
<1>1. CASE act.kind \in {"settle", "final"}
  <2>1. PutOff(p, m, act) = act
    BY <1>1 DEF PutOff
  <2>2. /\ act.kind = "settle" => new.session = act.session /\ new.bar = act.bar
        /\ act.kind = "final" => new.code = act.code
    BY WrittenEnds
  <2>3. MarkRow(new)
    BY <1>1, WrittenRow DEF Kinds
  <2> HIDE DEF new
  <2>4. started.session = new.session /\ started.bar = new.bar
    BY <2>3 DEF MarkRow
  <2>5. RowAfter(p, plan, m) = IF act.kind = "settle" /\ new # marks[m] THEN started ELSE new
    BY <2>1 DEF RowAfter, new
  <2> HIDE DEF started, act
  <2>6. act.kind = "settle" => act.kind # "final"
    OBVIOUS
  <2>7. /\ act.kind = "settle" => RowAfter(p, plan, m).session = act.session
                                  /\ RowAfter(p, plan, m).bar = act.bar
        /\ act.kind = "final" => RowAfter(p, plan, m).code = act.code
    BY <2>2, <2>4, <2>5, <2>6
  <2> QED
    BY <2>7 DEF act
<1>2. CASE act.kind \notin {"settle", "final"}
  BY <1>2
<1> QED
  BY <1>1, <1>2

(* What was right of a mark when it was written is right after the step. *)
LEMMA DatedNow ==
  ASSUME UNCHANGED <<mix, now>>, NEW m,
         marks'[m].status = "resolved" =>
           SettledRight(marks'[m].session, marks'[m].bar, PredS0(mix.sessions), m),
         marks'[m].status = "refused_final" =>
           LateEnough(IF marks'[m].code = "no_base" THEN PredS0(mix.sessions)
                      ELSE NthSession(PredS0(mix.sessions), m))
  PROVE  Dated(m)'
<1>1. Completed(now)' = Completed(now)
  BY DEF Completed
<1>2. PredS0(mix.sessions)' = PredS0(mix.sessions)
  BY DEF PredS0, MadeOn
<1>3. NthSession(PredS0(mix.sessions), m)' = NthSession(PredS0(mix.sessions), m)
  BY <1>2 DEF NthSession, DueOn
<1>4. mix'.trades = mix.trades
  OBVIOUS
<1> QED
  BY <1>1, <1>2, <1>3, <1>4 DEF Dated, SettledRight, LateEnough

(* A transaction writes what its plan found. *)
LEMMA ApplyDated ==
  ASSUME StartInv, DateInv, NEW p \in Evaluators, pass[p].on, NEW plan, PlanOK(p, plan),
         PlanDated(p, plan), ApplyPlan(p, plan), UNCHANGED <<mix, now>>
  PROVE  /\ (set.check \in Answered => StartKnown(set.start))'
         /\ \A m \in Checkpoints : Dated(m)'
<1>1. CASE UNCHANGED <<set, marks, failures>>
  <2>1. (set.check \in Answered => StartKnown(set.start))'
    BY <1>1 DEF DateInv, StartKnown, PredS0, MadeOn
  <2>2. ASSUME NEW m \in Checkpoints PROVE Dated(m)'
    <3> DEFINE final == marks'[m]
               s0 == PredS0(mix.sessions)
    <3>1. /\ final.status = "resolved" => SettledRight(final.session, final.bar, s0, m)
          /\ final.status = "refused_final" =>
               LateEnough(IF final.code = "no_base" THEN s0 ELSE NthSession(s0, m))
      <4>1. Dated(m) /\ final = marks[m]
        BY <1>1 DEF DateInv
      <4> QED
        BY <4>1 DEF Dated
    <3> QED
      BY <3>1, DatedNow
  <2> QED
    BY <2>1, <2>2
<1>2. CASE ~UNCHANGED <<set, marks, failures>>
  <2>1. SetRow(set) /\ (set.check \in Answered => StartKnown(set.start))
    BY DEF StartInv, Shapes, DateInv
  <2>2. set' = IF set.check \notin Open THEN set
               ELSE IF plan.terminal THEN [set EXCEPT !.check = "refused_final"]
               ELSE IF plan.check # "" THEN [set EXCEPT !.check = plan.check, !.start = plan.start]
               ELSE set
    BY <1>2, Applied
  <2>3. plan.check # "" => StartKnown(plan.start)
    BY DEF PlanDated
  <2>4. set'.check \in Answered => StartKnown(set'.start)
    BY <2>1, <2>2, <2>3 DEF SetRow, Open, Answered
  <2>5. ASSUME NEW m \in Checkpoints PROVE Dated(m)'
    <3> DEFINE new == RowAfter(p, plan, m)
               s0 == PredS0(mix.sessions)
               final == marks'[m]
    <3>1. final = IF plan.terminal THEN GivenUp(new) ELSE new
      BY <1>2, MarkApplied
    <3>2. MarkRow(marks[m]) /\ Dated(m)
      BY DEF StartInv, Shapes, DateInv
    <3>3. /\ MarkRow(new)
          /\ marks[m].status \in Terminal => new = marks[m]
          /\ marks[m].status \notin Terminal /\ new.status = "resolved" =>
               m \in Read(p) /\ plan.acts[m].kind = "settle"
          /\ marks[m].status \notin Terminal /\ new.status = "refused_final" =>
               m \in Read(p) /\ plan.acts[m].kind = "final"
      BY <3>2, AfterPlan
    <3>4. \/ final = new
          \/ final.status = "refused_final" /\ final.code = "no_base" /\ LateEnough(s0)
      <4>1. plan.terminal => LateEnough(s0)
        BY DEF PlanDated
      <4>2. GivenUp(new) = new \/ (GivenUp(new).status = "refused_final" /\ GivenUp(new).code = "no_base")
        BY <3>3 DEF GivenUp, MarkRow
      <4> QED
        BY <3>1, <4>1, <4>2
    <3>5. /\ new.status = "resolved" => SettledRight(new.session, new.bar, s0, m)
          /\ new.status = "refused_final" =>
               LateEnough(IF new.code = "no_base" THEN s0 ELSE NthSession(s0, m))
      <4>1. CASE marks[m].status \in Terminal
        BY <3>2, <3>3, <4>1 DEF Dated
      <4>2. CASE marks[m].status \notin Terminal
        <5>1. ASSUME new.status = "resolved" PROVE SettledRight(new.session, new.bar, s0, m)
          <6>1. m \in Read(p) /\ plan.acts[m].kind = "settle"
            BY <3>3, <4>2, <5>1
          <6>2. new.session = plan.acts[m].session /\ new.bar = plan.acts[m].bar
            BY <3>2, <4>2, <6>1, AfterEnds
          <6> HIDE DEF new
          <6> QED
            BY <6>1, <6>2 DEF PlanDated
        <5>2. ASSUME new.status = "refused_final"
              PROVE  LateEnough(IF new.code = "no_base" THEN s0 ELSE NthSession(s0, m))
          <6>1. m \in Read(p) /\ plan.acts[m].kind = "final"
            BY <3>3, <4>2, <5>2
          <6>2. new.code = plan.acts[m].code
            BY <3>2, <4>2, <6>1, AfterEnds
          <6>3. plan.acts[m].code # "no_base" /\ LateEnough(NthSession(s0, m))
            BY <6>1 DEF PlanDated
          <6> HIDE DEF new
          <6> QED
            BY <6>2, <6>3
        <5> QED
          BY <5>1, <5>2
      <4> QED
        BY <4>1, <4>2
    <3> HIDE DEF new
    <3>6. /\ final.status = "resolved" => SettledRight(final.session, final.bar, s0, m)
          /\ final.status = "refused_final" =>
               LateEnough(IF final.code = "no_base" THEN s0 ELSE NthSession(s0, m))
      BY <3>4, <3>5
    <3> QED
      BY <3>6, DatedNow
  <2> QED
    BY <2>4, <2>5 DEF StartKnown, PredS0, MadeOn
<1> QED
  BY <1>1, <1>2

(* What was late enough or over stays so. *)
LEMMA TimePasses ==
  ASSUME StartInv, DateInv, mix' = mix, now' = now \/ (now' = now + 1 /\ now < Horizon),
         mode' \in {"off", "dry", "on"}, marks' = marks,
         set'.check = set.check, set'.start = set.start,
         \A p \in Evaluators : pass'[p].on => pass'[p].set.check # "refused_final"
  PROVE  DateInv'
<1>1. MixOK /\ now \in Int /\ now' \in Int /\ now <= now' /\ now' \in 0..Horizon
  BY ForecastAssumption DEF DateInv, MixOK
<1>2. \A due : PastDue(Completed(now), due) \in Int /\ PastDue(Completed(now'), due) \in Int
               /\ PastDue(Completed(now), due) <= PastDue(Completed(now'), due)
  BY <1>1, PastDueGrows
<1>3. Completed(now) \subseteq Completed(now')
  BY <1>1, CompletedPrefix
<1>4. Completed(now)' = Completed(now')
  BY DEF Completed
<1>5. RetryTicks \in Int /\ Silence \in Int
  BY ForecastAssumption
<1>6. ASSUME NEW due, LateEnough(due) PROVE PastDue(Completed(now'), due) >= RetryTicks
  BY <1>2, <1>5, <1>6 DEF LateEnough
<1>7. ASSUME NEW session, NEW bar, NEW s0, NEW m, SettledRight(session, bar, s0, m)
      PROVE  /\ session = NthSession(s0, m) /\ session \in Completed(now')
             /\ bar = LastBar(mix.trades, session) \/ PastDue(Completed(now'), session) >= Silence
  BY <1>2, <1>3, <1>5, <1>7 DEF SettledRight
<1>8. PredS0(mix.sessions)' = PredS0(mix.sessions)
  BY DEF PredS0, MadeOn
<1>9. ASSUME NEW m \in Checkpoints PROVE Dated(m)'
  <2> DEFINE row == marks[m]
             s0 == PredS0(mix.sessions)
  <2>1. /\ row.status = "resolved" => SettledRight(row.session, row.bar, s0, m)
        /\ row.status = "refused_final" =>
             LateEnough(IF row.code = "no_base" THEN s0 ELSE NthSession(s0, m))
    BY DEF DateInv, Dated
  <2>2. /\ row.status = "resolved" =>
              /\ row.session = NthSession(s0, m) /\ row.session \in Completed(now')
              /\ \/ row.bar = LastBar(mix.trades, row.session)
                 \/ PastDue(Completed(now'), row.session) >= Silence
        /\ row.status = "refused_final" =>
             PastDue(Completed(now'), IF row.code = "no_base" THEN s0 ELSE NthSession(s0, m)) >= RetryTicks
    BY <1>6, <1>7, <2>1
  <2>3. NthSession(s0, m)' = NthSession(s0, m) /\ s0' = s0 /\ row' = row
    BY <1>8 DEF NthSession
  <2> QED
    BY <1>4, <2>2, <2>3 DEF Dated, SettledRight, LateEnough
<1>10. (set.check \in Answered => StartKnown(set.start))'
  BY <1>8 DEF DateInv, StartKnown
<1> QED
  BY <1>1, <1>9, <1>10 DEF DateInv

(* The end of a pass keeps the dates. *)
LEMMA FinishDated ==
  ASSUME StartInv, DateInv, NEW p \in Evaluators, pass[p].on, NEW plan, PlanOK(p, plan),
         PlanDated(p, plan), Finish(p, plan)
  PROVE  DateInv'
<1>1. /\ \A q \in Evaluators : pass'[q] = pass[q] \/ ~pass'[q].on
      /\ UNCHANGED <<mix, now, mode>>
  BY DEF Finish, StartInv, Shapes, Idle
<1>2. \A q \in Evaluators : pass'[q].on => pass'[q].set.check # "refused_final"
  BY <1>1 DEF DateInv
<1>3. CASE pass[p].mode = "on"
  <2>1. /\ (set.check \in Answered => StartKnown(set.start))'
        /\ \A m \in Checkpoints : Dated(m)'
    BY <1>1, <1>3, ApplyDated DEF Finish
  <2> QED
    BY <1>1, <1>2, <2>1 DEF DateInv
<1>4. CASE pass[p].mode # "on"
  BY <1>1, <1>2, <1>4, TimePasses DEF Finish, DateInv
<1> QED
  BY <1>3, <1>4

(* A new set has ended nothing. *)
LEMMA DateInit == Init => DateInv
<1> SUFFICES ASSUME Init PROVE DateInv
  OBVIOUS
<1>1. \A m \in Checkpoints : marks[m].status = "pending"
  BY DEF Init, NewMark
<1>2. \A p \in Evaluators : ~pass[p].on
  BY DEF Init, Idle
<1>3. set.check = "pending" /\ mode = "on" /\ mix \in Mixes /\ now \in 0..Horizon
  BY ForecastAssumption DEF Init
<1> QED
  BY <1>1, <1>2, <1>3 DEF DateInv, Dated, Answered

(* Every step keeps the dates. *)
LEMMA DateNext ==
  ASSUME StartInv, DateInv, [Next]_vars PROVE DateInv'
<1>0. /\ mode \in {"off", "dry", "on"}
      /\ \A q \in Evaluators : pass[q].on => pass[q].set.check # "refused_final"
  BY DEF DateInv
<1>m. MixOK
  BY ForecastAssumption DEF DateInv, MixOK
<1>1. CASE UNCHANGED vars
  BY <1>0, <1>1, TimePasses DEF vars
<1>2. CASE Tick \/ \E x \in {"off", "dry", "on"} : SetMode(x)
  BY <1>0, <1>2, TimePasses DEF Tick, SetMode
<1>3. CASE Purge
  <2>1. set'.check = set.check /\ set'.start = set.start
    BY <1>3 DEF Purge, StartInv, Shapes, SetRow
  <2> QED
    BY <1>0, <1>3, <2>1, TimePasses DEF Purge
<1>4. ASSUME NEW p \in Evaluators, Begin(p) PROVE DateInv'
  <2>1. set.check # "refused_final"
    BY <1>4 DEF Begin, HasWork, Due, StartInv, GivenUpEnds
  <2>2. \A q \in Evaluators : pass'[q].on => pass'[q].set.check # "refused_final"
    BY <1>0, <1>4, <2>1 DEF Begin, StartInv, Shapes
  <2> QED
    BY <1>0, <1>4, <2>2, TimePasses DEF Begin
<1>5. ASSUME NEW p \in Evaluators, WakeOnly(p) PROVE DateInv'
  <2> DEFINE acts == [m \in Read(p) |-> WakeUp(Future(p, m))]
  <2>1. pass[p].on /\ Finish(p, Plan(NoStart, acts))
    BY <1>5 DEF WakeOnly
  <2>2. \A m \in Read(p) : acts[m].kind \in {"none", "wake", "source", "mark"}
    BY ActKinds
  <2> HIDE DEF acts
  <2>3. PlanOK(p, Plan(NoStart, acts)) /\ PlanDated(p, Plan(NoStart, acts))
    BY <2>2, QuietPlan, QuietDated
  <2> QED
    BY <2>1, <2>3, FinishDated
<1>6. ASSUME NEW p \in Evaluators, FetchFails(p) PROVE DateInv'
  BY <1>6, SourcePlan, SourceDated, FinishDated DEF FetchFails
<1>7. ASSUME NEW p \in Evaluators, Evaluate(p) PROVE DateInv'
  <2>1. PICK slot \in Ages, body \in Bodies : \E wide, reply, valve :
          Finish(p, EvaluateSet(p, slot, body, wide, reply, valve))
    BY <1>7 DEF Evaluate
  <2>2. PICK wide, reply, valve : Finish(p, EvaluateSet(p, slot, body, wide, reply, valve))
    BY <2>1
  <2>3. pass[p].on /\ slot \in Int /\ slot <= now /\ IsBody(body)
    BY <1>7, <1>m, BodyFacts DEF Evaluate
  <2>4. pass[p].set.check \notin Open => StartKnown(pass[p].set.start)
    BY <2>3 DEF StartInv, Shapes, PassRow, SetRow, DateInv
  <2> QED
    BY <1>m, <2>2, <2>3, <2>4, EvaluatePlan, EvaluateDated, FinishDated
<1>8. ASSUME NEW p \in Evaluators, Abandon(p) PROVE DateInv'
  <2>1. \A q \in Evaluators : pass'[q].on => pass'[q].set.check # "refused_final"
    BY <1>0, <1>8 DEF Abandon, StartInv, Shapes, Idle
  <2> QED
    BY <1>0, <1>8, <2>1, TimePasses DEF Abandon
<1> QED
  BY <1>1, <1>2, <1>3, <1>4, <1>5, <1>6, <1>7, <1>8 DEF Next

-----------------------------------------------------------------------------
(* The type invariant of the evaluator. *)
LEMMA TypesHold == StartInv /\ DateInv => TypeOK
  BY DEF StartInv, Shapes, DateInv, TypeOK, MarkRow, SetRow, PassRow, Open

(* A settled mark is measured on its own session of the calendar, after    *)
(* it, from the stored start, and on the last price the stock had by then, *)
(* or after a silence that confirms a halt: whatever late or wrong body    *)
(* the pass that settled it had, and however passes overlapped.            *)
THEOREM MarksMeasuredRight == Spec => []MeasuredRight
<1> DEFINE Inv == StartInv /\ DateInv
<1>1. Init => Inv
  BY StartInit, DateInit
<1>2. Inv /\ [Next]_vars => Inv'
  BY StartNext, DateNext
<1>3. Inv => MeasuredRight
  <2> SUFFICES ASSUME StartInv, DateInv PROVE MeasuredRight
    OBVIOUS
  <2>1. TypeOK /\ OneStart
    BY TypesHold DEF StartInv
  <2>2. set.check \in Answered => set.start.s0 = PredS0(mix.sessions)
    BY DEF DateInv, StartKnown
  <2>3. ASSUME NEW m \in Checkpoints, marks[m].status = "resolved"
        PROVE  /\ marks[m].session = NthSession(set.start.s0, m) /\ CloseOf(marks[m].session) <= now
               /\ \/ marks[m].bar = LastBar(mix.trades, marks[m].session)
                  \/ PastDue(Completed(now), marks[m].session) >= Silence
    <3>1. SettledRight(marks[m].session, marks[m].bar, PredS0(mix.sessions), m)
      BY <2>3 DEF DateInv, Dated
    <3>2. set.start.s0 = PredS0(mix.sessions)
      BY <2>1, <2>2, <2>3 DEF OneStart
    <3> QED
      BY <3>1, <3>2 DEF SettledRight, Completed
  <2> QED
    BY <2>1, <2>2, <2>3 DEF MeasuredRight
<1> QED
  BY <1>1, <1>2, <1>3, PTL DEF Spec

(* A mark is given up only when enough sessions have passed since it was   *)
(* due, by the whole calendar, and it failed often enough on its own data. *)
THEOREM GivenUpIsExhausted == Spec => []FinalIsExhausted
<1> DEFINE Inv == StartInv /\ CountInv /\ DateInv
<1>1. Init => Inv
  BY StartInit, CountInit, DateInit
<1>2. Inv /\ [Next]_vars => Inv'
  BY StartNext, CountNext, DateNext
<1>3. Inv => FinalIsExhausted
  BY DEF CountInv, Counted, FailedEnough, DateInv, Dated, LateEnough, FinalIsExhausted
<1> QED
  BY <1>1, <1>2, <1>3, PTL DEF Spec
=============================================================================
