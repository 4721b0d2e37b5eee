----------------------------- MODULE QueueAdmit -----------------------------
(***************************************************************************)
(* The admission decision of the run queue: package internal/queue.  It is *)
(* pure: a set of waiting runs, each with a score and an urgent flag, the  *)
(* number of runs in flight, and a plan (budget and reserved slots) give   *)
(* the set of runs to start now.                                           *)
(*                                                                         *)
(* The code is a loop over the runs in rank order that carries two         *)
(* counters (AdmitLoop).  Admitted states the same decision as a condition *)
(* on the chosen set, so that specifications and proofs can use it without *)
(* unfolding a recursion; Admission checks that the two agree.             *)
(***************************************************************************)
EXTENDS Integers, FiniteSets, Sequences

(* Rank order of byScore: higher score first, equal scores by id. *)
Outranks(x, y, score) ==
  \/ score[x] > score[y]
  \/ score[x] = score[y] /\ x < y

(* Plan.Reserved clamped to [0, Budget-1]: the whole budget is never held back. *)
Reserve(budget, reserved) ==
  LET capped == IF reserved > budget - 1 THEN budget - 1 ELSE reserved
  IN  IF capped < 0 THEN 0 ELSE capped

(* Ahead: how many waiting runs would be dequeued before x. *)
Ahead(x, waiting, score) ==
  Cardinality({y \in waiting : y # x /\ Outranks(y, x, score)})

(* Mutant of Keep: the whole reserve, however few urgent runs wait. *)
KeepWhole(reserve, urgentWaiting) == reserve
(* The slots kept from a normal run while urgent ones wait. *)
Keep(reserve, urgentWaiting) ==
  IF urgentWaiting < reserve THEN urgentWaiting ELSE reserve

(* Mutant of Takes: an urgent run is taken without a free slot. *)
TakesNoFree(isUrgent, free, urgentWaiting, reserve) ==
  isUrgent \/ free > Keep(reserve, urgentWaiting)
(* The loop's verdict on one run, given the free slots and the urgent runs *)
(* that are left when the loop reaches it.                                 *)
Takes(isUrgent, free, urgentWaiting, reserve) ==
  free > 0 /\ (isUrgent \/ free > Keep(reserve, urgentWaiting))

(* Mutant of AdmitLoop: an admitted urgent run still counts as waiting. *)
AdmitLoopKeepsCount(waiting, score, urgent, inFlight, budget, reserved) ==
  LET n      == Cardinality(waiting)
      sorted == [k \in 1..n |->
                   CHOOSE x \in waiting : Ahead(x, waiting, score) = k - 1]
      uw     == Cardinality({x \in waiting : urgent[x]})
      acc[k \in 0..n] ==
        IF k = 0 THEN [out |-> {}, free |-> budget - inFlight]
        ELSE LET a == acc[k-1]
                 x == sorted[k]
             IN  IF Takes(urgent[x], a.free, uw, Reserve(budget, reserved))
                 THEN [out |-> a.out \cup {x}, free |-> a.free - 1]
                 ELSE a
  IN  IF budget - inFlight <= 0 THEN {} ELSE acc[n].out

(***************************************************************************)
(* The loop of Admit: sorted is byScore(waiting); the accumulator holds    *)
(* what the Go variables out, free and urgentWaiting hold.                 *)
(***************************************************************************)
AdmitLoop(waiting, score, urgent, inFlight, budget, reserved) ==
  LET n      == Cardinality(waiting)
      sorted == [k \in 1..n |->
                   CHOOSE x \in waiting : Ahead(x, waiting, score) = k - 1]
      start  == [out  |-> {}, free |-> budget - inFlight,
                 uw   |-> Cardinality({x \in waiting : urgent[x]})]
      acc[k \in 0..n] ==
        IF k = 0 THEN start
        ELSE LET a == acc[k-1]
                 x == sorted[k]
             IN  IF Takes(urgent[x], a.free, a.uw, Reserve(budget, reserved))
                 THEN [out  |-> a.out \cup {x},
                       free |-> a.free - 1,
                       uw   |-> IF urgent[x] THEN a.uw - 1 ELSE a.uw]
                 ELSE a
  IN  IF budget - inFlight <= 0 THEN {} ELSE acc[n].out

(***************************************************************************)
(* The same decision as a condition on the set S it returns: S fits in the *)
(* free slots, and a run is in S exactly when the slots left by the chosen *)
(* runs that outrank it still cover it and what is kept for the urgent     *)
(* runs behind it.                                                         *)
(***************************************************************************)
Admitted(S, waiting, score, urgent, inFlight, budget, reserved) ==
  LET free == budget - inFlight
  IN  /\ S \subseteq waiting
      /\ S # {} => Cardinality(S) <= free
      /\ \A x \in waiting :
           x \in S <=>
             Takes(urgent[x],
                   free - Cardinality({y \in S : Outranks(y, x, score)}),
                   Cardinality({y \in waiting : urgent[y] /\ y # x /\ ~Outranks(y, x, score)}),
                   Reserve(budget, reserved))
=============================================================================
