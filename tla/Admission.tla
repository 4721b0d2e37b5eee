------------------------------ MODULE Admission ------------------------------
(***************************************************************************)
(* Multifactor priority over time: the runs waiting for a slot, the score  *)
(* each is given at a tick (internal/queue/priority.go and jobFactors of   *)
(* internal/app/batch_run.go), and what the ticks of internal/queue then   *)
(* make of the queue.  RunQueue models one decision and everything around  *)
(* it; this module models the sequence of decisions.                       *)
(*                                                                         *)
(* Factors are small integers instead of fractions of 1; Boost stands for  *)
(* urgentBoost and idleBoost (both 1e9).                                   *)
(***************************************************************************)
EXTENDS QueueAdmit

CONSTANTS
  Bases,      \* base priorities of normal runs
  AgeMax,     \* where the age factor saturates (batch_prio_age_hours)
  Fairs,      \* fair-share factors of the submitters
  WBase, WAge, WFair,  \* the weights, any non-negative admin setting
  Boost,      \* urgentBoost = idleBoost
  Budgets,    \* values the admin may set batch_max_concurrent_jobs to
  Reserved,   \* batch_reserved_slots
  MaxQueue,   \* bound: runs waiting at once
  Tags        \* {FALSE}, or BOOLEAN to mark one run and follow it

ASSUME AdmissionAssumption ==
  /\ Bases \subseteq Nat /\ Fairs \subseteq Nat /\ AgeMax \in Nat
  /\ WBase \in Nat /\ WAge \in Nat /\ WFair \in Nat /\ Boost \in Nat
  /\ Budgets \subseteq Nat \ {0} /\ Reserved \in Nat /\ MaxQueue \in Nat
  /\ Tags \subseteq BOOLEAN

VARIABLES
  queue,      \* waiting runs in id order, so a run's position stands for its id
  running,    \* runs in flight
  budget      \* batch_max_concurrent_jobs

vars == <<queue, running, budget>>

Entry == [class : {"urgent", "normal", "idle"}, base : Bases \cup {0}, age : 0..AgeMax,
          fair : Fairs, tag : BOOLEAN]

(* Mutants of Score: urgent runs get no boost; idle runs no penalty; the   *)
(* age factor counts against a run.                                        *)
ScoreNoBoost(e) == WBase * e.base + WAge * e.age + WFair * e.fair
                   - (IF e.class = "idle" THEN Boost ELSE 0)
ScoreNoPenalty(e) == WBase * e.base + WAge * e.age + WFair * e.fair
                     + (IF e.class = "urgent" THEN Boost ELSE 0)
ScoreYoungFirst(e) == WBase * e.base - WAge * e.age + WFair * e.fair
                      + (IF e.class = "urgent" THEN Boost ELSE IF e.class = "idle" THEN -Boost ELSE 0)
(* Weights.Score. *)
Score(e) == WBase * e.base + WAge * e.age + WFair * e.fair
            + (CASE e.class = "urgent" -> Boost [] e.class = "idle" -> -Boost [] OTHER -> 0)

Waiting     == DOMAIN queue
Scores      == [k \in Waiting |-> Score(queue[k])]
UrgentFlags == [k \in Waiting |-> queue[k].class = "urgent"]
Chosen      == AdmitLoop(Waiting, Scores, UrgentFlags, running, budget, Reserved)
(* The queue without the runs at the positions in S. *)
Without(S) ==
  LET kept == Waiting \ S
      nth(n) == CHOOSE k \in kept : Cardinality({m \in kept : m < k}) = n - 1
  IN  [n \in 1..Cardinality(kept) |-> queue[nth(n)]]

-----------------------------------------------------------------------------
Init == queue = <<>> /\ running = 0 /\ budget \in Budgets

(* A submission becomes due: parsePriority gives an urgent or idle run the *)
(* base 0.                                                                 *)
Arrive(c, b, f, t) ==
  /\ Len(queue) < MaxQueue
  /\ c # "normal" => b = 0
  /\ t => \A k \in Waiting : ~queue[k].tag
  /\ queue' = Append(queue, [class |-> c, base |-> b, age |-> 0, fair |-> f, tag |-> t])
  /\ UNCHANGED <<running, budget>>

(* Time passes for every waiting run; the factor saturates at AgeMax. *)
GrowOlder ==
  /\ queue' = [k \in Waiting |->
                 [queue[k] EXCEPT !.age = IF @ < AgeMax THEN @ + 1 ELSE AgeMax]]
  /\ UNCHANGED <<running, budget>>

(* scheduleTick: score, admit, start. *)
Tick ==
  /\ queue' = Without(Chosen)
  /\ running' = running + Cardinality(Chosen)
  /\ UNCHANGED budget

(* A run ends. *)
Finish == running > 0 /\ running' = running - 1 /\ UNCHANGED <<queue, budget>>

(* apiBatchConfigSave: the budget may also be lowered below what is in flight. *)
SetBudget(n) == budget' = n /\ n # budget /\ UNCHANGED <<queue, running>>

Next ==
  \/ \E c \in {"urgent", "normal", "idle"}, b \in Bases \cup {0}, f \in Fairs, t \in Tags :
       Arrive(c, b, f, t)
  \/ GrowOlder \/ Tick \/ Finish
  \/ \E n \in Budgets : SetBudget(n)

Spec == Init /\ [][Next]_vars

(* Ticks keep coming (every event and a timer run one), runs end, time passes. *)
FairSpec == Spec /\ WF_vars(Tick) /\ WF_vars(Finish) /\ WF_vars(GrowOlder)

-----------------------------------------------------------------------------
(* The queue holds entries of the right shape; in flight never exceeds the *)
(* largest budget there was.                                               *)
TypeOK ==
  /\ queue \in Seq(Entry) /\ Len(queue) <= MaxQueue
  /\ running \in Nat /\ \E n \in Budgets : running <= n
  /\ budget \in Budgets

(* The loop of queue.Admit computes the one set that Admitted describes:   *)
(* the decision RunQueue is built on is the one the code takes.            *)
LoopMatchesSpec ==
  {S \in SUBSET Waiting : Admitted(S, Waiting, Scores, UrgentFlags, running, budget, Reserved)}
    = {Chosen}

(* A tick starts the best-ranked runs and no others: whoever it leaves     *)
(* waiting is outranked by everyone it starts.  The reserved slots never   *)
(* let an urgent run pass a better-scored one, for it always leads.        *)
AdmitsByRank ==
  \A x \in Chosen, y \in Waiting \ Chosen : Outranks(x, y, Scores)

(* A tick leaves no slot unused while a run waits. *)
WorkConserving ==
  Chosen # Waiting => running + Cardinality(Chosen) >= budget

(* An idle run starts only when no other candidate is left waiting. *)
IdleRunsLast ==
  \A x \in Chosen : queue[x].class = "idle" =>
    \A y \in Waiting \ Chosen : queue[y].class = "idle"

(* What a tick admits: the best-ranked runs, as many as there are slots,   *)
(* the idle ones last, and never more in flight than a budget allowed.     *)
AdmissionSound == TypeOK /\ AdmitsByRank /\ WorkConserving /\ IdleRunsLast

(* No normal run starts while an urgent one is left waiting. *)
UrgentOutranksNormal ==
  \A x \in Chosen : queue[x].class # "urgent" =>
    \A y \in Waiting \ Chosen : queue[y].class # "urgent"

(* The marked run waits, of class c, and no submitter has a better fair-share factor. *)
Marked(c) ==
  \E k \in Waiting : queue[k].tag /\ queue[k].class = c /\ \A f \in Fairs : f <= queue[k].fair

(* An urgent run of the best-entitled submitter is started in the end,     *)
(* however many urgent runs follow it: waiting raises its score.           *)
UrgentServed == Marked("urgent") ~> ~Marked("urgent")

(* A normal run is started in the end, however many urgent runs follow it. *)
NormalServed == Marked("normal") ~> ~Marked("normal")
=============================================================================
