------------------------ MODULE VendorSchedulerProofs ------------------------
(***************************************************************************)
(* Theorems of the vendor scheduler, for every number of requests, every   *)
(* priority, policy, ceiling, cooldown and answer of the vendor.           *)
(***************************************************************************)
EXTENDS VendorScheduler, SumLemmas, SequenceTheorems, TLAPS

-----------------------------------------------------------------------------
(* The queue. *)

(* q holds the readers of S, each once. *)
Queues(q, S) ==
  /\ q \in Seq(Requests) /\ {q[k] : k \in 1..Len(q)} = S /\ Len(q) = Cardinality(S)
  /\ \A k, l \in 1..Len(q) : q[k] = q[l] => k = l

(* A reader that joins is the last. *)
LEMMA QueueJoined ==
  ASSUME NEW S, S \subseteq Requests, NEW q, Queues(q, S), NEW r \in Requests, r \notin S
  PROVE  Queues(Append(q, r), S \cup {r}) /\ Len(Append(q, r)) = Len(q) + 1
<1> DEFINE a == Append(q, r)
<1>1. /\ a \in Seq(Requests) /\ Len(a) = Len(q) + 1 /\ Len(q) \in Nat
      /\ \A k \in 1..Len(q) : a[k] = q[k]
      /\ a[Len(q) + 1] = r
  BY AppendProperties, LenProperties DEF Queues
<1> HIDE DEF a
<1>2. 1..Len(a) = (1..Len(q)) \cup {Len(q) + 1}
  BY <1>1
<1>3. {a[k] : k \in 1..Len(a)} = S \cup {r}
  BY <1>1, <1>2 DEF Queues
<1>4. Len(a) = Cardinality(S \cup {r})
  <2>1. IsFiniteSet(S)
    BY SchedulerAssumption, FS_Subset
  <2>2. Cardinality(S \cup {r}) = Cardinality(S) + 1
    BY <2>1, FS_AddElement
  <2> QED
    BY <1>1, <2>2 DEF Queues
<1>5. \A k, l \in 1..Len(a) : a[k] = a[l] => k = l
  BY <1>1, <1>2 DEF Queues
<1> QED
  BY <1>1, <1>3, <1>4, <1>5 DEF Queues, a

(* A reader that leaves is taken out where it stands. *)
LEMMA QueueLeft ==
  ASSUME NEW S, S \subseteq Requests, NEW q, Queues(q, S), NEW r \in Requests
  PROVE  Queues(Removed(q, r), S \ {r}) /\ Len(Removed(q, r)) <= Len(q)
<1>1. q \in Seq(Requests) /\ Len(q) \in Nat /\ DOMAIN q = 1..Len(q)
  BY LenProperties DEF Queues
<1>2. CASE ~Contains(q, r)
  <2>1. r \notin S
    BY <1>2 DEF Contains, Queues
  <2>2. S \ {r} = S /\ Removed(q, r) = q
    BY <1>2, <2>1 DEF Removed
  <2>3. Queues(Removed(q, r), S \ {r})
    BY <2>2
  <2>4. Len(Removed(q, r)) <= Len(q)
    BY <1>1, <2>2
  <2> QED
    BY <2>3, <2>4
<1>3. CASE Contains(q, r)
  <2> DEFINE i == CHOOSE k \in DOMAIN q : q[k] = r
             head == SubSeq(q, 1, i - 1)
             tail == SubSeq(q, i + 1, Len(q))
             s == head \o tail
  <2>1. i \in 1..Len(q) /\ q[i] = r
    BY <1>1, <1>3 DEF Contains
  <2>2. Removed(q, r) = s
    BY <1>3 DEF Removed, RemoveAt
  <2> HIDE DEF i
  <2>3. \A k \in 1..Len(q) : q[k] \in Requests
    BY <1>1
  <2>4. /\ head \in Seq(Requests) /\ Len(head) = i - 1
        /\ \A k \in 1..(i - 1) : head[k] = q[k]
    <3>1. 1 \in Int /\ i - 1 \in Int /\ \A k \in 1..(i - 1) : q[k] \in Requests
      BY <2>1, <2>3
    <3>2. /\ head \in Seq(Requests) /\ Len(head) = IF 1 <= i - 1 THEN i - 1 - 1 + 1 ELSE 0
          /\ \A k \in 1..(i - 1 - 1 + 1) : head[k] = q[1 + k - 1]
      BY <3>1, SubSeqProperties
    <3> QED
      BY <2>1, <3>2
  <2>5. /\ tail \in Seq(Requests) /\ Len(tail) = Len(q) - i
        /\ \A k \in 1..(Len(q) - i) : tail[k] = q[i + k]
    <3>1. i + 1 \in Int /\ Len(q) \in Int /\ \A k \in (i + 1)..Len(q) : q[k] \in Requests
      BY <1>1, <2>1, <2>3
    <3>2. /\ tail \in Seq(Requests) /\ Len(tail) = IF i + 1 <= Len(q) THEN Len(q) - (i + 1) + 1 ELSE 0
          /\ \A k \in 1..(Len(q) - (i + 1) + 1) : tail[k] = q[(i + 1) + k - 1]
      BY <3>1, SubSeqProperties
    <3> HIDE DEF tail
    <3> DEFINE n == Len(q)
    <3>3. n \in Nat /\ i \in 1..n
      BY <1>1, <2>1
    <3> HIDE DEF n
    <3>4. Len(tail) = IF i + 1 <= n THEN n - (i + 1) + 1 ELSE 0
      BY <3>2 DEF n
    <3>5. Len(tail) = n - i
      BY <3>3, <3>4
    <3>6. \A k \in 1..(n - i) : k \in 1..(n - (i + 1) + 1) /\ (i + 1) + k - 1 = i + k
      BY <3>3
    <3>7. \A k \in 1..(n - i) : tail[k] = q[i + k]
      BY <3>2, <3>6 DEF n
    <3> QED
      BY <3>2, <3>5, <3>7 DEF n
  <2> HIDE DEF head, tail
  <2>6. /\ s \in Seq(Requests) /\ Len(s) = Len(q) - 1
        /\ \A k \in 1..Len(s) : s[k] = IF k < i THEN q[k] ELSE q[k + 1]
    <3>1. /\ s \in Seq(Requests) /\ Len(s) = Len(head) + Len(tail)
          /\ \A k \in 1..(Len(head) + Len(tail)) : s[k] = IF k <= Len(head) THEN head[k] ELSE tail[k - Len(head)]
      BY <2>4, <2>5, ConcatProperties
    <3> QED
      BY <1>1, <2>1, <2>4, <2>5, <3>1
  <2> HIDE DEF s
  <2>7. r \in S
    BY <2>1 DEF Queues
  <2>8. {s[k] : k \in 1..Len(s)} = S \ {r}
    <3>1. ASSUME NEW k \in 1..Len(s) PROVE s[k] \in S \ {r}
      BY <1>1, <2>1, <2>6 DEF Queues
    <3>2. ASSUME NEW x \in S \ {r} PROVE \E k \in 1..Len(s) : s[k] = x
      <4>1. PICK l \in 1..Len(q) : q[l] = x
        BY DEF Queues
      <4>2. l < i \/ l > i
        BY <2>1, <4>1
      <4>3. CASE l < i
        BY <1>1, <2>1, <2>6, <4>1, <4>3
      <4>4. CASE l > i
        <5>1. l - 1 \in 1..Len(s) /\ ~(l - 1 < i) /\ (l - 1) + 1 = l
          BY <1>1, <2>1, <2>6, <4>4
        <5> QED
          BY <2>6, <4>1, <5>1
      <4> QED
        BY <4>2, <4>3, <4>4
    <3> QED
      BY <3>1, <3>2
  <2>9. Len(s) = Cardinality(S \ {r})
    <3>1. IsFiniteSet(S)
      BY SchedulerAssumption, FS_Subset
    <3>2. Cardinality(S \ {r}) = Cardinality(S) - 1
      BY <2>7, <3>1, FS_RemoveElement
    <3> QED
      BY <2>6, <3>2 DEF Queues
  <2>10. \A k, l \in 1..Len(s) : s[k] = s[l] => k = l
    BY <1>1, <2>1, <2>6 DEF Queues
  <2>11. Queues(Removed(q, r), S \ {r})
    BY <2>2, <2>6, <2>8, <2>9, <2>10 DEF Queues
  <2>12. Len(Removed(q, r)) <= Len(q)
    BY <1>1, <2>2, <2>6
  <2> QED
    BY <2>11, <2>12
<1> QED
  BY <1>2, <1>3


(* Some reader has its turn while one is alive. *)
LEMMA TurnExists ==
  ASSUME NEW q, q \in Seq(Requests), \A k \in DOMAIN q : mix.prio[q[k]] \in Nat, Alive(q) # {}
  PROVE  FirstOf(q) # {}
<1>1. Alive(q) \subseteq DOMAIN q /\ DOMAIN q \subseteq Nat
  BY LenProperties DEF Alive
<1> DEFINE prios == {mix.prio[q[k]] : k \in Alive(q)}
<1>2. prios \subseteq Nat /\ prios # {}
  BY <1>1
<1>3. PICK p \in prios : \A x \in prios : p <= x
  BY <1>2, LeastNat
<1> DEFINE best == {k \in Alive(q) : mix.prio[q[k]] = p}
<1>4. best \subseteq Nat /\ best # {}
  BY <1>1, <1>3
<1>5. PICK k \in best : \A j \in best : k <= j
  BY <1>4, LeastNat
<1>6. ASSUME NEW j \in Alive(q)
      PROVE  mix.prio[q[k]] < mix.prio[q[j]] \/ (mix.prio[q[k]] = mix.prio[q[j]] /\ k <= j)
  <2>1. p <= mix.prio[q[j]] /\ p \in Nat /\ mix.prio[q[j]] \in Nat
    BY <1>2, <1>3
  <2> QED
    BY <1>5, <2>1
<1>7. q[k] \in FirstOf(q)
  BY <1>5, <1>6 DEF FirstOf
<1> QED
  BY <1>7

(* Whoever has its turn has no better reader alive in the queue. *)
LEMMA TurnIsBest ==
  ASSUME NEW q, q \in Seq(Requests), NEW r, Turn(q, r),
         \A k \in DOMAIN q : mix.prio[q[k]] \in Nat, NEW j \in Alive(q)
  PROVE  q[j] = r \/ mix.prio[r] <= mix.prio[q[j]]
<1>1. FirstOf(q) = {r}
  BY TurnExists DEF Turn
<1>2. PICK k \in Alive(q) : /\ q[k] = r
                            /\ mix.prio[q[k]] < mix.prio[q[j]] \/ mix.prio[q[k]] = mix.prio[q[j]]
  BY <1>1 DEF FirstOf
<1>3. mix.prio[q[k]] \in Nat /\ mix.prio[q[j]] \in Nat
  BY DEF Alive
<1> QED
  BY <1>2, <1>3

-----------------------------------------------------------------------------
(* The requests, and the source. *)

Pcs == {"new", "asleep", "flying", "done"}
Request == [pc : Pcs, at : Nat, timer : Nat, notified : BOOLEAN, dead : BOOLEAN, probe : BOOLEAN]

(* Columns and locals hold values of their kind, and the queue the readers that sleep. *)
Kinds ==
  /\ mix \in Mixes /\ clock \in 0..Horizon /\ policy \in Policies
  /\ req \in [Requests -> Request] /\ \A r \in Requests : req[r].pc # "done" => r \in DOMAIN mix.prio
  /\ streak \in Nat /\ probing \in BOOLEAN
  /\ coolingUntil \in Nat \cup {Never} /\ asked \in Nat \cup {Never}
  /\ lastStart \in Nat \cup {Never} /\ lastBackground \in Nat \cup {Never}
  /\ lastStart # Never => next = lastStart + policy.every
  /\ lastBackground # Never => nextBackground = lastBackground + policy.background
  /\ lastStart = Never => next = Never
  /\ lastBackground = Never => nextBackground = Never

Queued == Queues(queue, In("asleep")) /\ Len(queue) <= QueueLimit

(* Of a cooldown nothing in flight but its probe sees the end. *)
Flights ==
  /\ \A r \in Flying :
       /\ req[r].timer <= clock /\ clock <= req[r].timer + FlightMax
       /\ streak > 0 /\ ~req[r].probe => req[r].timer + FlightMax < coolingUntil
       /\ req[r].probe => probing /\ Flying = {r}
  /\ probing => streak > 0 /\ clock >= coolingUntil /\ \E r \in Flying : req[r].probe
  /\ IF streak > 0 THEN coolingUntil >= asked /\ coolingUntil # Never ELSE clock >= asked

(* The ceiling, and as many refusals in a row as requests that have ended, at most. *)
Counts ==
  /\ inFlight <= Concurrency /\ backgroundInFlight <= 1
  /\ streak <= Cardinality(In("done"))

SchedulerInv == Kinds /\ Queued /\ Flights /\ Counts

(* The moments the scheduler keeps are numbers. *)
LEMMA Moments ==
  ASSUME SchedulerInv
  PROVE  /\ clock \in 0..Horizon /\ clock \in Nat /\ clock \in Int
         /\ {Horizon, FlightMax, QueueLimit, Concurrency} \subseteq Nat
         /\ policy.every \in Nat /\ policy.background \in Nat /\ streak \in Nat
         /\ coolingUntil \in Nat \cup {Never} /\ coolingUntil \in Int /\ asked \in Int
         /\ next \in Int /\ nextBackground \in Int
<1>1. {Horizon, FlightMax, QueueLimit, Concurrency} \subseteq Nat
  BY SchedulerAssumption
<1>2. clock \in 0..Horizon /\ policy \in Policies /\ streak \in Nat
  BY DEF SchedulerInv, Kinds
<1>3. coolingUntil \in Nat \cup {Never} /\ asked \in Nat \cup {Never}
  BY DEF SchedulerInv, Kinds
<1>4. /\ lastStart \in Nat \cup {Never} /\ lastBackground \in Nat \cup {Never}
      /\ lastStart # Never => next = lastStart + policy.every
      /\ lastBackground # Never => nextBackground = lastBackground + policy.background
      /\ lastStart = Never => next = Never
      /\ lastBackground = Never => nextBackground = Never
  BY DEF SchedulerInv, Kinds
<1>5. policy.every \in Nat /\ policy.background \in Nat
  BY <1>2, SchedulerAssumption
<1>6. clock \in Nat
  BY <1>1, <1>2
<1>7. Never \in Int
  BY DEF Never
<1>8. coolingUntil \in Int /\ asked \in Int
  BY <1>3, <1>7
<1>9. next \in Int /\ nextBackground \in Int
  BY <1>4, <1>5, <1>7
<1> QED
  BY <1>1, <1>2, <1>3, <1>5, <1>6, <1>8, <1>9

-----------------------------------------------------------------------------
(* A request that moves, and the others where they are. *)

(* rq differs from the requests in what has been told only. *)
Alike(rq) ==
  /\ rq \in [Requests -> Request]
  /\ \A x \in Requests : /\ rq[x].pc = req[x].pc /\ rq[x].timer = req[x].timer
                         /\ rq[x].probe = req[x].probe /\ rq[x].dead = req[x].dead

(* After the step r is at pc, and every other request where it was. *)
Moves(r, pc) ==
  /\ req' \in [Requests -> Request] /\ req'[r].pc = pc
  /\ \A x \in Requests \ {r} : /\ req'[x].pc = req[x].pc /\ req'[x].timer = req[x].timer
                               /\ req'[x].probe = req[x].probe

(* Telling the sleepers moves nobody. *)
LEMMA NotifiedAlike ==
  ASSUME NEW rq, Alike(rq) PROVE Alike(Notified(rq)) /\ \A q, r : Alike(Told(q, r, rq))
<1>1. ASSUME NEW x \in Requests
      PROVE  LET told == [rq[x] EXCEPT !.notified = TRUE] IN
             /\ told \in Request /\ told.pc = rq[x].pc /\ told.timer = rq[x].timer
             /\ told.probe = rq[x].probe /\ told.dead = rq[x].dead
  BY DEF Alike, Request
<1>2. Alike(Notified(rq))
  BY <1>1 DEF Alike, Notified
<1> QED
  BY <1>2 DEF Told

(* Where everyone is after one has moved. *)
LEMMA Moved ==
  ASSUME NEW r \in Requests, NEW pc, Moves(r, pc)
  PROVE  \A at : In(at)' = IF at = pc THEN In(at) \cup {r} ELSE In(at) \ {r}
  BY DEF Moves, In

(* One more or one fewer. *)
LEMMA Card ==
  ASSUME NEW S, S \subseteq Requests, NEW r
  PROVE  /\ IsFiniteSet(S) /\ Cardinality(S) \in Nat
         /\ r \notin S => Cardinality(S \cup {r}) = Cardinality(S) + 1
         /\ r \in S => S \cup {r} = S
         /\ Cardinality(S \ {r}) <= Cardinality(S)
         /\ S = {} => Cardinality(S) = 0
         /\ Cardinality(S) = 0 => S = {}
         /\ Cardinality(S) <= Cardinality(Requests) /\ Cardinality(Requests) \in Nat
<1>1. IsFiniteSet(S) /\ IsFiniteSet(Requests) /\ Cardinality(S) <= Cardinality(Requests)
  BY SchedulerAssumption, FS_Subset
<1>2. Cardinality(S) \in Nat /\ Cardinality(Requests) \in Nat /\ (Cardinality(S) = 0 <=> S = {})
  BY <1>1, FS_CardinalityType, FS_EmptySet
<1>3. r \notin S => Cardinality(S \cup {r}) = Cardinality(S) + 1
  BY <1>1, FS_AddElement
<1>4. Cardinality(S \ {r}) <= Cardinality(S)
  BY <1>1, FS_Subset
<1> QED
  BY <1>1, <1>2, <1>3, <1>4

(* The queue and the requests as a turn of acquire's loop begins. *)
Looks(r, q, rq) ==
  /\ Alike(rq) /\ req[r].pc \in {"new", "asleep"}
  /\ Len(q) <= QueueLimit
  /\ Queues(q, In("asleep")) \/ Queues(q, In("asleep") \cup {r})

(* What ends in the queue after a removal. *)
LEMMA RemovedQueue ==
  ASSUME NEW r \in Requests, NEW q, NEW rq, Looks(r, q, rq), queue' = Removed(q, r),
         In("asleep")' = In("asleep") \ {r}
  PROVE  Queued'
<1>1. In("asleep") \subseteq Requests /\ In("asleep") \cup {r} \subseteq Requests
  BY DEF In
<1>2. QueueLimit \in Int /\ Len(q) <= QueueLimit
  BY SchedulerAssumption DEF Looks
<1>3. ASSUME NEW S, S \subseteq Requests, Queues(q, S), S \ {r} = In("asleep") \ {r} PROVE Queued'
  <2>1. Queues(queue', S \ {r}) /\ Len(queue') <= Len(q)
    BY <1>3, QueueLeft
  <2>2. Len(queue') \in Int /\ Len(q) \in Int
    <3>1. queue' \in Seq(Requests) /\ q \in Seq(Requests)
      BY <1>3, <2>1 DEF Queues
    <3> QED
      BY <3>1
  <2>3. Queues(queue', In("asleep")')
    BY <1>3, <2>1
  <2>4. Queues(queue, In("asleep"))'
    BY <2>3 DEF Queues
  <2> QED
    BY <1>2, <2>1, <2>2, <2>4 DEF Queued
<1> QED
  BY <1>1, <1>3 DEF Looks

(* What is in flight is as it was. *)
SameFlights ==
  /\ Flying' = Flying
  /\ \A x \in Flying : req'[x].timer = req[x].timer /\ req'[x].probe = req[x].probe
  /\ UNCHANGED <<mix, clock, coolingUntil, streak, probing, asked>>

(* Then what is known of the flights and the counts remains. *)
LEMMA SameFlightsKept ==
  ASSUME Flights, Counts, SameFlights, streak \in Nat, In("done") \subseteq In("done")'
  PROVE  Flights' /\ Counts'
<1>1. Flights'
  BY DEF SameFlights, Flights
<1>2. \A x : IsBackground(x)' <=> IsBackground(x)
  BY DEF SameFlights, IsBackground
<1>3. inFlight' = inFlight /\ backgroundInFlight' = backgroundInFlight
  BY <1>2 DEF SameFlights, inFlight, backgroundInFlight
<1>4. streak' <= Cardinality(In("done"))'
  <2> DEFINE before == In("done")
             after == In("done")'
  <2>1. after \subseteq Requests /\ before \subseteq after
    BY DEF In
  <2>2. streak' = streak /\ streak <= Cardinality(before)
    BY DEF SameFlights, Counts
  <2> HIDE DEF before, after
  <2>3. IsFiniteSet(after)
    BY <2>1, SchedulerAssumption, FS_Subset
  <2>4. IsFiniteSet(before) /\ Cardinality(before) <= Cardinality(after)
    BY <2>1, <2>3, FS_Subset
  <2>5. Cardinality(before) \in Nat /\ Cardinality(after) \in Nat
    BY <2>3, <2>4, FS_CardinalityType
  <2>6. streak' <= Cardinality(after)
    BY <2>2, <2>4, <2>5
  <2> QED
    BY <2>6 DEF after
<1> QED
  BY <1>1, <1>3, <1>4 DEF Counts

(* Turned away, a request leaves the others as they were. *)
LEMMA LeaveKeeps ==
  ASSUME SchedulerInv, NEW r \in Requests, NEW q, NEW rq, Looks(r, q, rq), Leave(r, q, rq)
  PROVE  SchedulerInv'
<1>1. Moves(r, "done")
  <2>1. Alike(Told(q, r, rq))
    BY NotifiedAlike DEF Looks
  <2>2. Done \in Request /\ Done.pc = "done"
    BY DEF Done, New, Request, Pcs
  <2>3. req' = [Told(q, r, rq) EXCEPT ![r] = Done]
    BY DEF Leave
  <2> QED
    BY <2>1, <2>2, <2>3 DEF Moves, Alike
<1>2. \A at : In(at)' = IF at = "done" THEN In(at) \cup {r} ELSE In(at) \ {r}
  BY <1>1, Moved
<1>3. r \notin Flying
  BY DEF Looks, In, Flying
<1>4. SameFlights
  BY <1>1, <1>2, <1>3 DEF SameFlights, Flying, Leave, Moves, In, history
<1>5. Flights' /\ Counts'
  BY <1>2, <1>4, SameFlightsKept DEF SchedulerInv, Kinds
<1>6. Queued'
  BY <1>2, RemovedQueue DEF Leave
<1>7. Kinds'
  BY <1>1 DEF SchedulerInv, Kinds, Leave, Moves, history
<1> QED
  BY <1>5, <1>6, <1>7 DEF SchedulerInv

(* Asleep, a reader is in the queue. *)
LEMMA SleepKeeps ==
  ASSUME SchedulerInv, NEW r \in Requests, NEW q, NEW rq, Looks(r, q, rq), Sleep(r, q, rq),
         ~IsBackground(r), Queues(q, In("asleep") \cup {r}), r \in DOMAIN mix.prio
  PROVE  SchedulerInv'
<1> DEFINE until == IF Ready(r) > clock THEN Ready(r) ELSE clock + QueueWait
           resting == [rq[r] EXCEPT !.pc = "asleep", !.notified = FALSE, !.timer = until]
<1>0. clock \in Nat /\ policy.every \in Nat /\ QueueWait \in Nat
  BY SchedulerAssumption DEF SchedulerInv, Kinds
<1>1. until \in Nat
  <2>1. Ready(r) = next /\ next \in Int
    BY <1>0 DEF Ready, SchedulerInv, Kinds, Never
  <2> QED
    BY <1>0, <2>1
<1>2. Moves(r, "asleep")
  <2>1. rq[r] \in Request
    BY DEF Looks, Alike
  <2>2. resting \in Request /\ resting.pc = "asleep"
    BY <1>1, <2>1 DEF Request, Pcs
  <2>3. req' = [rq EXCEPT ![r] = resting]
    BY DEF Sleep
  <2> HIDE DEF resting
  <2> QED
    BY <2>2, <2>3 DEF Moves, Looks, Alike
<1>3. \A at : In(at)' = IF at = "asleep" THEN In(at) \cup {r} ELSE In(at) \ {r}
  BY <1>2, Moved
<1>4. r \notin Flying /\ r \notin In("done")
  BY DEF Looks, In, Flying
<1>5. SameFlights
  BY <1>2, <1>3, <1>4 DEF SameFlights, Flying, Sleep, Moves, In, history
<1>6. Flights' /\ Counts'
  <2>1. In("done") \subseteq In("done")'
    BY <1>3, <1>4
  <2> QED
    BY <1>5, <2>1, SameFlightsKept DEF SchedulerInv, Kinds
<1>7. Queued'
  <2>1. Queues(q, In("asleep")') /\ Len(q) <= QueueLimit
    BY <1>3 DEF Looks
  <2>2. queue' = q
    BY DEF Sleep
  <2> QED
    BY <2>1, <2>2 DEF Queued, Queues
<1>8. Kinds'
  BY <1>2 DEF SchedulerInv, Kinds, Sleep, Moves, history
<1> QED
  BY <1>6, <1>7, <1>8 DEF SchedulerInv

(* A request once it is sent. *)
Sent(w, t, b) == [w EXCEPT !.pc = "flying", !.timer = t, !.probe = b]

(* It is a request, with what was set. *)
LEMMA SentRequest ==
  ASSUME NEW w \in Request, NEW t \in Nat, NEW b \in BOOLEAN
  PROVE  Sent(w, t, b) \in Request /\ Sent(w, t, b).pc = "flying" /\ Sent(w, t, b).timer = t /\ Sent(w, t, b).probe = b
  BY DEF Sent, Request, Pcs

(* Sent, a request has a slot; the probe has the source for itself. *)
LEMMA StartKeeps ==
  ASSUME SchedulerInv, NEW r \in Requests, NEW q, NEW rq, Looks(r, q, rq), Start(r, q, rq),
         ~Cooling, Capacity(r), r \in DOMAIN mix.prio
  PROVE  SchedulerInv'
<1> DEFINE sent == Sent(Told(q, r, rq)[r], clock, streak > 0)
<1>0. /\ clock \in Nat /\ clock \in 0..Horizon /\ policy.every \in Nat /\ policy.background \in Nat
      /\ FlightMax \in Nat
      /\ streak \in Nat /\ Concurrency \in Nat /\ coolingUntil \in Int /\ asked \in Int
  BY Moments
<1>1. Moves(r, "flying") /\ req'[r].timer = clock /\ req'[r].probe = (streak > 0)
  <2>1. Alike(Told(q, r, rq))
    BY NotifiedAlike DEF Looks
  <2>2. sent \in Request /\ sent.pc = "flying" /\ sent.timer = clock /\ sent.probe = (streak > 0)
    <3>1. Told(q, r, rq)[r] \in Request
      BY <2>1 DEF Alike
    <3>2. (streak > 0) \in BOOLEAN
      OBVIOUS
    <3> QED
      BY <1>0, <3>1, <3>2, SentRequest, Zenon
  <2>3. req' = [Told(q, r, rq) EXCEPT ![r] = sent]
    BY DEF Start, Sent
  <2> HIDE DEF sent
  <2> QED
    BY <2>1, <2>2, <2>3 DEF Moves, Alike
<1>2. \A at : In(at)' = IF at = "flying" THEN In(at) \cup {r} ELSE In(at) \ {r}
  BY <1>1, Moved
<1>3. r \notin Flying /\ r \notin In("done") /\ Flying' = Flying \cup {r} /\ Flying \subseteq Requests
  BY <1>2 DEF Looks, In, Flying
<1>4. streak > 0 => Flying = {}
  <2> SUFFICES ASSUME streak > 0, NEW x \in Flying PROVE FALSE
    OBVIOUS
  <2>1. ~req[x].probe
    BY DEF SchedulerInv, Flights, Cooling
  <2>2. req[x].timer + FlightMax < coolingUntil /\ clock <= req[x].timer + FlightMax
    BY <2>1 DEF SchedulerInv, Flights
  <2>3. req[x].timer \in Nat
    BY <1>3 DEF SchedulerInv, Kinds, Request
  <2> QED
    BY <1>0, <2>2, <2>3 DEF Cooling
<1>5. Flights'
  <2>1. UNCHANGED <<clock, coolingUntil, streak, asked>> /\ probing' = (streak > 0)
    BY DEF Start
  <2>2. ~(clock < coolingUntil) /\ ~probing
    BY DEF Cooling
  <2>3. \A x \in Flying : req'[x].timer = req[x].timer /\ req'[x].probe = req[x].probe
    BY <1>1, <1>3 DEF Moves
  <2>4. ASSUME NEW x \in Flying'
        PROVE  /\ req'[x].timer <= clock' /\ clock' <= req'[x].timer + FlightMax
               /\ streak' > 0 /\ ~req'[x].probe => req'[x].timer + FlightMax < coolingUntil'
               /\ req'[x].probe => probing' /\ Flying' = {x}
    <3>1. CASE x = r
      <4>1. req'[x].timer = clock' /\ clock' <= req'[x].timer + FlightMax
        BY <1>0, <1>1, <2>1, <3>1
      <4>2. req'[x].probe <=> streak' > 0
        BY <1>1, <2>1, <3>1
      <4>3. streak' > 0 => probing' /\ Flying' = {x}
        BY <1>3, <1>4, <2>1, <3>1
      <4> QED
        BY <1>0, <2>1, <4>1, <4>2, <4>3
    <3>2. CASE x # r
      <4>1. x \in Flying
        BY <1>3, <3>2
      <4>2. ~(streak > 0)
        BY <1>4, <4>1
      <4>3. ~req[x].probe
        BY <2>2, <4>1 DEF SchedulerInv, Flights
      <4> QED
        BY <2>1, <2>3, <4>1, <4>2, <4>3 DEF SchedulerInv, Flights
    <3> QED
      BY <3>1, <3>2
  <2>5. probing' => streak' > 0 /\ clock' >= coolingUntil' /\ \E x \in Flying' : req'[x].probe
    <3>1. probing' => streak > 0
      BY <2>1
    <3>2. streak > 0 => \E x \in Flying' : req'[x].probe
      BY <1>1, <1>3
    <3>3. clock' >= coolingUntil'
      <4>1. clock' = clock /\ coolingUntil' = coolingUntil
        BY <2>1
      <4>2. clock >= coolingUntil
        BY <1>0, <2>2
      <4> QED
        BY <4>1, <4>2
    <3>4. streak' = streak
      BY <2>1
    <3> QED
      BY <3>1, <3>2, <3>3, <3>4
  <2>6. IF streak' > 0 THEN coolingUntil' >= asked' /\ coolingUntil' # Never ELSE clock' >= asked'
    BY <2>1 DEF SchedulerInv, Flights
  <2> QED
    BY <2>4, <2>5, <2>6 DEF Flights
<1>6. Counts'
  <2> DEFINE B == {x \in Flying : IsBackground(x)}
  <2>1. inFlight' <= Concurrency
    <3>1. inFlight' = Cardinality(Flying \cup {r})
      BY <1>3 DEF inFlight
    <3>2. Cardinality(Flying \cup {r}) = inFlight + 1 /\ inFlight \in Nat
      BY <1>3, Card DEF inFlight
    <3>3. inFlight < Concurrency
      BY DEF Capacity
    <3> QED
      BY <1>0, <3>1, <3>2, <3>3
  <2>2. backgroundInFlight' = Cardinality(IF IsBackground(r) THEN B \cup {r} ELSE B)
    <3>1. \A x : IsBackground(x)' <=> IsBackground(x)
      BY DEF Start, IsBackground
    <3>2. {x \in Flying' : IsBackground(x)'} = IF IsBackground(r) THEN B \cup {r} ELSE B
      BY <1>3, <3>1
    <3> QED
      BY <3>2 DEF backgroundInFlight
  <2>3. backgroundInFlight' <= 1
    <3>1. B \subseteq Requests /\ r \notin B /\ backgroundInFlight = Cardinality(B)
      BY <1>3 DEF backgroundInFlight
    <3> HIDE DEF B
    <3>2. Cardinality(B \cup {r}) = Cardinality(B) + 1
      BY <3>1, Card
    <3>3. CASE IsBackground(r)
      BY <2>2, <3>1, <3>2, <3>3 DEF Capacity
    <3>4. CASE ~IsBackground(r)
      BY <2>2, <3>1, <3>4 DEF SchedulerInv, Counts
    <3> QED
      BY <3>3, <3>4
  <2>4. In("done")' = In("done") /\ streak' = streak
    BY <1>2, <1>3 DEF Start
  <2> QED
    BY <2>1, <2>3, <2>4 DEF SchedulerInv, Counts
<1>7. Queued'
  BY <1>2, RemovedQueue DEF Start
<1>8. Kinds'
  <2>1. /\ next' = clock + policy.every /\ lastStart' = clock
        /\ nextBackground' = (IF IsBackground(r) THEN clock + policy.background ELSE nextBackground)
        /\ lastBackground' = (IF IsBackground(r) THEN clock ELSE lastBackground)
        /\ probing' = (streak > 0)
        /\ UNCHANGED <<mix, clock, policy, coolingUntil, streak, asked>>
    BY DEF Start
  <2>2. clock # Never
    BY <1>0 DEF Never
  <2>3. \A x \in Requests : req'[x].pc # "done" => x \in DOMAIN mix.prio
    BY <1>1 DEF SchedulerInv, Kinds, Moves
  <2> QED
    BY <1>0, <1>1, <2>1, <2>2, <2>3 DEF SchedulerInv, Kinds, Moves
<1> QED
  BY <1>5, <1>6, <1>7, <1>8 DEF SchedulerInv

(* A turn of the loop ends in one of the three. *)
LEMMA AttemptKeeps ==
  ASSUME SchedulerInv, NEW r \in Requests, NEW q, NEW rq, Looks(r, q, rq), Attempt(r, q, rq),
         ~IsBackground(r) => Queues(q, In("asleep") \cup {r})
  PROVE  SchedulerInv'
<1>1. r \in DOMAIN mix.prio
  BY DEF Looks, SchedulerInv, Kinds
<1>2. CASE Leave(r, q, rq)
  BY <1>2, LeaveKeeps
<1>3. CASE ~Refused(r, rq) /\ May(r, q) /\ Start(r, q, rq)
  <2>1. ~Cooling /\ Capacity(r)
    BY <1>3 DEF Refused, May
  <2> QED
    BY <1>1, <1>3, <2>1, StartKeeps
<1>4. CASE ~IsBackground(r) /\ Sleep(r, q, rq)
  BY <1>1, <1>4, SleepKeeps
<1> QED
  BY <1>2, <1>3, <1>4 DEF Attempt

(* A request that comes joins the queue, or is served at once, or is turned away. *)
LEMMA AcquireKeeps ==
  ASSUME SchedulerInv, NEW r \in Requests, Acquire(r) PROVE SchedulerInv'
<1> DEFINE here == [req EXCEPT ![r] = [@ EXCEPT !.at = clock]]
<1>1. req[r].pc = "new" /\ r \notin In("asleep") /\ In("asleep") \subseteq Requests
  BY DEF Acquire, In
<1>2. clock \in Nat
  BY SchedulerAssumption DEF SchedulerInv, Kinds
<1>3. Alike(here) /\ Alike(Notified(here))
  <2>1. req \in [Requests -> Request]
    BY DEF SchedulerInv, Kinds
  <2>2. [req[r] EXCEPT !.at = clock] \in Request
    BY <1>2, <2>1 DEF Request
  <2>3. Alike(here)
    BY <2>1, <2>2 DEF Alike, Request
  <2> QED
    BY <2>3, NotifiedAlike
<1>4. Queues(queue, In("asleep")) /\ Len(queue) <= QueueLimit /\ Len(queue) \in Nat
  BY LenProperties DEF SchedulerInv, Queued, Queues
<1>5. Looks(r, queue, here)
  BY <1>1, <1>3, <1>4 DEF Looks
<1>6. CASE IsBackground(r)
  BY <1>5, <1>6, AttemptKeeps DEF Acquire
<1>7. CASE ~IsBackground(r) /\ Len(queue) >= QueueLimit
  BY <1>5, <1>7, LeaveKeeps DEF Acquire
<1>8. CASE ~IsBackground(r) /\ ~(Len(queue) >= QueueLimit)
  <2>1. Queues(Append(queue, r), In("asleep") \cup {r}) /\ Len(Append(queue, r)) = Len(queue) + 1
    BY <1>1, <1>4, QueueJoined
  <2>2. Len(Append(queue, r)) <= QueueLimit
    BY <1>4, <1>8, <2>1, SchedulerAssumption
  <2>3. Looks(r, Append(queue, r), Notified(here))
    BY <1>1, <1>3, <2>1, <2>2 DEF Looks
  <2> QED
    BY <1>8, <2>1, <2>3, AttemptKeeps DEF Acquire
<1> QED
  BY <1>6, <1>7, <1>8

(* A sleeper that wakes leaves the queue or sleeps on. *)
LEMMA WakeKeeps ==
  ASSUME SchedulerInv, NEW r \in Requests, Wake(r) \/ Expire(r) PROVE SchedulerInv'
<1>1. req[r].pc = "asleep" /\ r \in In("asleep")
  BY DEF Wake, Expire, In
<1>2. Alike(req)
  BY DEF SchedulerInv, Kinds, Alike
<1>3. Queues(queue, In("asleep")) /\ Queues(queue, In("asleep") \cup {r}) /\ Len(queue) <= QueueLimit
  <2>1. In("asleep") \cup {r} = In("asleep")
    BY <1>1
  <2> QED
    BY <2>1 DEF SchedulerInv, Queued
<1>4. Looks(r, queue, req)
  BY <1>1, <1>2, <1>3 DEF Looks
<1> QED
  BY <1>3, <1>4, AttemptKeeps, LeaveKeeps DEF Wake, Expire

-----------------------------------------------------------------------------
(* The end of a flight. *)

(* The later of two moments. *)
LEMMA LaterMoment ==
  ASSUME NEW a \in Int, NEW b \in Int
  PROVE  Later(a, b) \in {a, b} /\ Later(a, b) \in Int /\ Later(a, b) >= a /\ Later(a, b) >= b
  BY DEF Later

(* The ladder's steps are longer than a flight. *)
LEMMA CooldownOutlasts ==
  ASSUME NEW n \in Nat \ {0} PROVE CooldownOf(n) \in Nat /\ FlightMax < CooldownOf(n)
<1>1. /\ Cooldowns \in Seq(Nat) /\ Cooldowns # <<>> /\ DOMAIN Cooldowns = 1..Len(Cooldowns) /\ Len(Cooldowns) \in Nat
      /\ \A k \in DOMAIN Cooldowns : FlightMax < Cooldowns[k]
  BY SchedulerAssumption, LenProperties
<1>2. Len(Cooldowns) # 0
  BY <1>1, EmptySeq
<1> DEFINE k == IF n > Len(Cooldowns) THEN Len(Cooldowns) ELSE n
<1>3. k \in DOMAIN Cooldowns
  BY <1>1, <1>2
<1> QED
  BY <1>1, <1>3 DEF CooldownOf

(* A refusal cools the source past the end of every flight, and as long as the vendor asked. *)
LEMMA RefusalCools ==
  ASSUME SchedulerInv, NEW r \in Flying, NEW wait \in RetryAfters, Cools(r, "refused", wait)
  PROVE  /\ streak' = streak + 1 /\ coolingUntil' \in Nat /\ asked' \in Nat
         /\ coolingUntil' > clock + FlightMax /\ coolingUntil' >= asked'
<1> DEFINE pause == Later(CooldownOf(streak + 1), wait)
<1>0. /\ clock \in Nat /\ FlightMax \in Nat /\ wait \in Nat /\ streak \in Nat
      /\ coolingUntil \in Int /\ asked \in Int
  BY Moments, SchedulerAssumption
<1>1. CooldownOf(streak + 1) \in Nat /\ FlightMax < CooldownOf(streak + 1)
  <2>1. streak + 1 \in Nat \ {0}
    BY <1>0
  <2> QED
    BY <2>1, CooldownOutlasts
<1>2. pause \in Nat /\ pause >= CooldownOf(streak + 1) /\ pause >= wait
  BY <1>0, <1>1, LaterMoment
<1> HIDE DEF pause
<1>3. /\ streak' = streak + 1
      /\ coolingUntil' = Later(coolingUntil, clock + pause)
      /\ asked' = Later(asked, clock + wait)
  BY DEF Cools, pause
<1>4. clock + pause \in Nat /\ clock + wait \in Nat /\ clock + pause > clock + FlightMax /\ clock + pause >= clock + wait
  BY <1>0, <1>1, <1>2
<1>5. coolingUntil' \in Nat /\ coolingUntil' >= coolingUntil /\ coolingUntil' >= clock + pause
  <2>1. coolingUntil' \in Int /\ coolingUntil' >= coolingUntil /\ coolingUntil' >= clock + pause
    BY <1>0, <1>3, <1>4, LaterMoment
  <2> QED
    BY <1>4, <2>1
<1>6. asked' \in {asked, clock + wait} /\ asked' >= clock + wait /\ asked' \in Nat
  <2>1. asked' \in Int /\ asked' \in {asked, clock + wait} /\ asked' >= clock + wait
    BY <1>0, <1>3, <1>4, LaterMoment
  <2> QED
    BY <1>4, <2>1
<1>7. asked <= coolingUntil \/ asked <= clock
  BY <1>0 DEF SchedulerInv, Flights
<1>8. coolingUntil' >= asked'
  BY <1>0, <1>2, <1>4, <1>5, <1>6, <1>7
<1> QED
  BY <1>0, <1>3, <1>4, <1>5, <1>6, <1>8

(* A flight that ends gives its slot back, and the probe the source. *)
LEMMA FinishKeeps ==
  ASSUME SchedulerInv, NEW r \in Requests, Returns(r) PROVE SchedulerInv'
<1> PICK reply \in Replies, wait \in RetryAfters : Finish(r, reply, wait)
  BY DEF Returns
<1>0. /\ clock \in Nat /\ clock \in 0..Horizon /\ FlightMax \in Nat /\ wait \in Nat /\ streak \in Nat
      /\ coolingUntil \in Nat \cup {Never} /\ coolingUntil \in Int /\ asked \in Int /\ Concurrency \in Nat
  BY Moments, SchedulerAssumption
<1>1. Moves(r, "done")
  <2>1. Alike(req)
    BY DEF SchedulerInv, Kinds, Alike
  <2>2. Alike(Notified(req))
    BY <2>1, NotifiedAlike
  <2>3. Done \in Request /\ Done.pc = "done"
    BY DEF Done, New, Request, Pcs
  <2>4. req' = [Notified(req) EXCEPT ![r] = Done]
    BY DEF Finish
  <2> QED
    BY <2>2, <2>3, <2>4 DEF Moves, Alike
<1>2. \A at : In(at)' = IF at = "done" THEN In(at) \cup {r} ELSE In(at) \ {r}
  BY <1>1, Moved
<1>3. /\ r \in Flying /\ Flying \subseteq Requests /\ Flying' = Flying \ {r}
      /\ r \notin In("asleep") /\ r \notin In("done")
  BY <1>2 DEF Finish, In, Flying
<1>4. /\ UNCHANGED <<mix, clock, policy, queue, next, nextBackground, lastStart, lastBackground>>
      /\ probing' = (probing /\ ~req[r].probe) /\ Cools(r, reply, wait)
  BY DEF Finish
<1>5. \A x \in Flying' : x \in Flying /\ x # r /\ req'[x].timer = req[x].timer /\ req'[x].probe = req[x].probe
  BY <1>1, <1>3 DEF Moves
<1>6. ~probing'
  BY <1>3, <1>4 DEF SchedulerInv, Flights
<1>7. \A x \in Flying' : ~req'[x].probe
  <2> SUFFICES ASSUME NEW x \in Flying', req'[x].probe PROVE FALSE
    OBVIOUS
  <2>1. x \in Flying /\ x # r /\ req[x].probe
    BY <1>5
  <2>2. Flying = {x}
    BY <2>1 DEF SchedulerInv, Flights
  <2> QED
    BY <1>3, <2>1, <2>2
<1>8. ASSUME reply = "refused"
      PROVE  /\ Flights' /\ streak' \in Nat /\ streak' <= streak + 1
              /\ coolingUntil' \in Nat \cup {Never} /\ asked' \in Nat \cup {Never}
  <2>1. /\ streak' = streak + 1 /\ coolingUntil' \in Nat /\ asked' \in Nat
        /\ coolingUntil' > clock + FlightMax /\ coolingUntil' >= asked'
    BY <1>3, <1>4, <1>8, RefusalCools
  <2>2. clock' = clock
    BY <1>4
  <2>3. ASSUME NEW x \in Flying'
        PROVE  /\ req'[x].timer <= clock' /\ clock' <= req'[x].timer + FlightMax
               /\ req'[x].timer + FlightMax < coolingUntil'
    <3>1. /\ req'[x].timer = req[x].timer /\ req[x].timer \in Nat
          /\ req[x].timer <= clock /\ clock <= req[x].timer + FlightMax
      <4>1. x \in Flying /\ req'[x].timer = req[x].timer
        BY <1>5
      <4>2. req[x].timer \in Nat
        BY <1>3, <4>1 DEF SchedulerInv, Kinds, Request
      <4>3. req[x].timer <= clock /\ clock <= req[x].timer + FlightMax
        BY <4>1 DEF SchedulerInv, Flights
      <4> QED
        BY <4>1, <4>2, <4>3
    <3> QED
      BY <1>0, <2>1, <2>2, <3>1
  <2>4. coolingUntil' # Never /\ streak' > 0
    BY <1>0, <2>1 DEF Never
  <2>5. Flights'
    BY <1>6, <1>7, <2>1, <2>3, <2>4 DEF Flights
  <2> QED
    BY <1>0, <2>1, <2>5
<1>9. ASSUME reply # "refused", streak' = 0, coolingUntil' = Never, asked' = asked, req[r].probe
       PROVE  /\ Flights' /\ streak' \in Nat /\ streak' <= streak + 1
               /\ coolingUntil' \in Nat \cup {Never} /\ asked' \in Nat \cup {Never}
  <2>1. Flying' = {}
    BY <1>3, <1>9 DEF SchedulerInv, Flights
  <2>2. clock' >= asked'
    <3>1. streak > 0 /\ clock >= coolingUntil /\ coolingUntil >= asked
      BY <1>3, <1>9 DEF SchedulerInv, Flights
    <3>2. clock >= asked
      BY <1>0, <3>1
    <3> QED
      BY <1>4, <1>9, <3>2
  <2>3. ~(streak' > 0)
    BY <1>9
  <2>4. Flights'
    BY <1>6, <2>1, <2>2, <2>3 DEF Flights
  <2>5. streak' \in Nat /\ streak' <= streak + 1 /\ coolingUntil' \in Nat \cup {Never} /\ asked' \in Nat \cup {Never}
    BY <1>0, <1>9 DEF SchedulerInv, Kinds
  <2> QED
    BY <2>4, <2>5
<1>10. ASSUME reply # "refused", UNCHANGED <<streak, coolingUntil, asked>>
       PROVE  /\ Flights' /\ streak' \in Nat /\ streak' <= streak + 1
               /\ coolingUntil' \in Nat \cup {Never} /\ asked' \in Nat \cup {Never}
  <2>1. ASSUME NEW x \in Flying'
        PROVE  /\ req'[x].timer <= clock' /\ clock' <= req'[x].timer + FlightMax
               /\ streak' > 0 => req'[x].timer + FlightMax < coolingUntil'
    <3>1. x \in Flying /\ req'[x].timer = req[x].timer /\ ~req[x].probe
      BY <1>5, <1>7
    <3>2. /\ req[x].timer <= clock /\ clock <= req[x].timer + FlightMax
          /\ streak > 0 => req[x].timer + FlightMax < coolingUntil
      BY <3>1 DEF SchedulerInv, Flights
    <3> QED
      BY <1>4, <1>10, <3>1, <3>2
  <2>2. IF streak' > 0 THEN coolingUntil' >= asked' /\ coolingUntil' # Never ELSE clock' >= asked'
    BY <1>4, <1>10 DEF SchedulerInv, Flights
  <2>3. Flights'
    BY <1>6, <1>7, <2>1, <2>2 DEF Flights
  <2>4. streak' \in Nat /\ streak' <= streak + 1 /\ coolingUntil' \in Nat \cup {Never} /\ asked' \in Nat \cup {Never}
    BY <1>0, <1>10 DEF SchedulerInv, Kinds
  <2> QED
    BY <2>3, <2>4
<1>11. /\ Flights' /\ streak' \in Nat /\ streak' <= streak + 1
       /\ coolingUntil' \in Nat \cup {Never} /\ asked' \in Nat \cup {Never}
  <2>1. \/ reply = "refused"
        \/ reply # "refused" /\ streak' = 0 /\ coolingUntil' = Never /\ asked' = asked /\ req[r].probe
        \/ reply # "refused" /\ UNCHANGED <<streak, coolingUntil, asked>>
    BY <1>4 DEF Cools
  <2> QED
    BY <1>8, <1>9, <1>10, <2>1
<1>12. Counts'
  <2> DEFINE before == In("done")
             B == {x \in Flying : IsBackground(x)}
  <2>1. \A x : IsBackground(x)' <=> IsBackground(x)
    BY <1>4 DEF IsBackground
  <2>2. inFlight' = Cardinality(Flying \ {r}) /\ backgroundInFlight' = Cardinality(B \ {r})
    <3>1. {x \in Flying' : IsBackground(x)'} = B \ {r}
      BY <1>3, <2>1
    <3> QED
      BY <1>3, <3>1 DEF inFlight, backgroundInFlight
  <2>3. B \subseteq Requests /\ before \subseteq Requests /\ In("done")' = before \cup {r} /\ r \notin before
    BY <1>2, <1>3 DEF In
  <2>4. /\ inFlight = Cardinality(Flying) /\ backgroundInFlight = Cardinality(B)
        /\ inFlight <= Concurrency /\ backgroundInFlight <= 1 /\ streak <= Cardinality(before)
    BY DEF SchedulerInv, Counts, inFlight, backgroundInFlight
  <2> HIDE DEF before, B
  <2>5. /\ Cardinality(Flying \ {r}) <= Cardinality(Flying) /\ Cardinality(Flying \ {r}) \in Nat /\ Cardinality(Flying) \in Nat
        /\ Cardinality(B \ {r}) <= Cardinality(B) /\ Cardinality(B \ {r}) \in Nat /\ Cardinality(B) \in Nat
        /\ Cardinality(before) \in Nat /\ Cardinality(before \cup {r}) = Cardinality(before) + 1
    <3>1. Flying \ {r} \subseteq Requests /\ B \ {r} \subseteq Requests
      BY <1>3, <2>3
    <3> QED
      BY <1>3, <2>3, <3>1, Card
  <2>6. streak' <= Cardinality(In("done"))'
    BY <1>0, <1>11, <2>3, <2>4, <2>5
  <2>7. inFlight' <= Concurrency /\ backgroundInFlight' <= 1
    BY <1>0, <2>2, <2>4, <2>5
  <2> QED
    BY <2>6, <2>7 DEF Counts
<1>13. Queued'
  <2>1. In("asleep")' = In("asleep")
    BY <1>2, <1>3
  <2> QED
    BY <1>4, <2>1 DEF SchedulerInv, Queued, Queues
<1>14. Kinds'
  BY <1>1, <1>4, <1>6, <1>11 DEF SchedulerInv, Kinds, Moves
<1> QED
  BY <1>11, <1>12, <1>13, <1>14 DEF SchedulerInv

-----------------------------------------------------------------------------
(* The steps that move nobody. *)

(* Every request is where it was. *)
Stays ==
  /\ req' \in [Requests -> Request]
  /\ \A x \in Requests : /\ req'[x].pc = req[x].pc /\ req'[x].timer = req[x].timer
                         /\ req'[x].probe = req[x].probe

(* Then every set of requests is what it was. *)
LEMMA StaysPut ==
  ASSUME Stays
  PROVE  (\A at : In(at)' = In(at)) /\ Flying' = Flying /\ Flying \subseteq Requests
  BY DEF Stays, In, Flying

(* A context that ends moves nobody: its reader wakes later. *)
LEMMA CancelKeeps ==
  ASSUME SchedulerInv, NEW r \in Requests, Cancel(r) PROVE SchedulerInv'
<1>1. Stays
  <2>1. req \in [Requests -> Request] /\ [req[r] EXCEPT !.dead = TRUE] \in Request
    BY DEF SchedulerInv, Kinds, Request
  <2>2. req' = [req EXCEPT ![r] = [req[r] EXCEPT !.dead = TRUE]]
    BY DEF Cancel
  <2> QED
    BY <2>1, <2>2 DEF Stays, Request
<1>2. (\A at : In(at)' = In(at)) /\ Flying' = Flying /\ Flying \subseteq Requests
  BY <1>1, StaysPut
<1>3. Flights' /\ Counts'
  <2>1. SameFlights
    BY <1>1, <1>2 DEF SameFlights, Stays, Cancel, source, history
  <2> QED
    BY <1>2, <2>1, SameFlightsKept DEF SchedulerInv, Kinds
<1>4. Queued'
  BY <1>2 DEF SchedulerInv, Queued, Queues, Cancel, source
<1>5. Kinds'
  BY <1>1 DEF SchedulerInv, Kinds, Stays, Cancel, source, history
<1> QED
  BY <1>3, <1>4, <1>5 DEF SchedulerInv

(* The spacing is counted from the last start under the new policy too. *)
LEMMA ConfigureKeeps ==
  ASSUME SchedulerInv, NEW p \in Policies, Configure(p) PROVE SchedulerInv'
<1>1. Stays
  <2>1. Alike(req)
    BY DEF SchedulerInv, Kinds, Alike
  <2>2. Alike(Notified(req)) /\ req' = Notified(req)
    BY <2>1, NotifiedAlike DEF Configure
  <2> QED
    BY <2>2 DEF Stays, Alike
<1>2. (\A at : In(at)' = In(at)) /\ Flying' = Flying /\ Flying \subseteq Requests
  BY <1>1, StaysPut
<1>3. Flights' /\ Counts'
  <2>1. SameFlights
    BY <1>1, <1>2 DEF SameFlights, Stays, Configure, history
  <2> QED
    BY <1>2, <2>1, SameFlightsKept DEF SchedulerInv, Kinds
<1>4. Queued'
  BY <1>2 DEF SchedulerInv, Queued, Queues, Configure
<1>5. /\ policy.every \in Nat /\ policy.background \in Nat /\ p.every \in Nat /\ p.background \in Nat
  BY SchedulerAssumption DEF SchedulerInv, Kinds
<1>6. /\ lastStart # Never => Shifted(next, policy.every, p.every) = lastStart + p.every
      /\ lastStart = Never => Shifted(next, policy.every, p.every) = Never
  BY <1>5 DEF SchedulerInv, Kinds, Shifted, Never
<1>7. /\ lastBackground # Never => Shifted(nextBackground, policy.background, p.background) = lastBackground + p.background
      /\ lastBackground = Never => Shifted(nextBackground, policy.background, p.background) = Never
  BY <1>5 DEF SchedulerInv, Kinds, Shifted, Never
<1>8. Kinds'
  BY <1>1, <1>6, <1>7 DEF SchedulerInv, Kinds, Stays, Configure, history
<1> QED
  BY <1>3, <1>4, <1>8 DEF SchedulerInv

(* Time passes, and no flight outlives the client's timeout. *)
LEMMA TickKeeps ==
  ASSUME SchedulerInv, Tick PROVE SchedulerInv'
<1>0. /\ clock \in Nat /\ Horizon \in Nat /\ FlightMax \in Nat /\ clock' = clock + 1 /\ clock < Horizon
      /\ coolingUntil \in Int /\ asked \in Int
  BY Moments DEF Tick
<1>1. UNCHANGED <<mix, policy, queue, next, nextBackground, coolingUntil, streak, probing, req,
                  lastStart, lastBackground, asked>>
  BY DEF Tick, source, history
<1>2. (\A at : In(at)' = In(at)) /\ Flying' = Flying /\ Flying \subseteq Requests
  BY <1>1 DEF In, Flying
<1>3. \A r \in Flying : req[r].timer \in Nat /\ req[r].timer <= clock /\ clock < req[r].timer + FlightMax
  BY <1>2 DEF SchedulerInv, Kinds, Flights, Request, Tick
<1>4. Flights'
  <2>1. \A r \in Flying' : req'[r].timer <= clock' /\ clock' <= req'[r].timer + FlightMax
    BY <1>0, <1>1, <1>2, <1>3
  <2>2. \A r \in Flying' :
          /\ streak' > 0 /\ ~req'[r].probe => req'[r].timer + FlightMax < coolingUntil'
          /\ req'[r].probe => probing' /\ Flying' = {r}
    BY <1>1, <1>2 DEF SchedulerInv, Flights
  <2>3. probing' => streak' > 0 /\ clock' >= coolingUntil' /\ \E r \in Flying' : req'[r].probe
    <3>1. clock >= coolingUntil => clock' >= coolingUntil'
      BY <1>0, <1>1
    <3> QED
      BY <1>1, <1>2, <3>1 DEF SchedulerInv, Flights
  <2>4. IF streak' > 0 THEN coolingUntil' >= asked' /\ coolingUntil' # Never ELSE clock' >= asked'
    <3>1. clock >= asked => clock' >= asked'
      BY <1>0, <1>1
    <3> QED
      BY <1>1, <3>1 DEF SchedulerInv, Flights
  <2> QED
    BY <2>1, <2>2, <2>3, <2>4 DEF Flights
<1>5. Counts'
  <2>1. \A x : IsBackground(x)' <=> IsBackground(x)
    BY <1>1 DEF IsBackground
  <2> QED
    BY <1>1, <1>2, <2>1 DEF SchedulerInv, Counts, inFlight, backgroundInFlight
<1>6. Queued'
  BY <1>1, <1>2 DEF SchedulerInv, Queued, Queues
<1>7. Kinds'
  BY <1>0, <1>1 DEF SchedulerInv, Kinds
<1> QED
  BY <1>4, <1>5, <1>6, <1>7 DEF SchedulerInv

-----------------------------------------------------------------------------
(* The invariant. *)

(* An idle source satisfies it. *)
LEMMA SchedulerInit == Init => SchedulerInv
<1> SUFFICES ASSUME Init PROVE SchedulerInv
  OBVIOUS
<1>1. New \in Request /\ Done \in Request /\ New.pc = "new" /\ Done.pc = "done"
  BY DEF New, Done, Request, Pcs
<1>2. /\ req \in [Requests -> Request]
      /\ \A r \in Requests : req[r].pc \in {"new", "done"} /\ (req[r].pc # "done" => r \in DOMAIN mix.prio)
  BY <1>1 DEF Init
<1>3. In("asleep") = {} /\ Flying = {}
  BY <1>2 DEF In, Flying
<1>4. Kinds
  <2>1. clock = 0 /\ 0 \in 0..Horizon
    BY SchedulerAssumption DEF Init
  <2>2. policy \in Policies
    BY SchedulerAssumption DEF Init
  <2> QED
    BY <1>2, <2>1, <2>2 DEF Init, Kinds
<1>5. Queued
  <2>1. Cardinality({}) = 0
    BY FS_EmptySet
  <2>2. queue = <<>> /\ QueueLimit \in Nat
    BY SchedulerAssumption DEF Init
  <2> QED
    BY <1>3, <2>1, <2>2 DEF Queued, Queues
<1>6. Flights
  BY <1>3 DEF Init, Flights, Never
<1>7. Counts
  <2>1. inFlight = 0 /\ backgroundInFlight = 0
    BY <1>3, FS_EmptySet DEF inFlight, backgroundInFlight
  <2>2. Cardinality(In("done")) \in Nat
    BY Card DEF In
  <2> QED
    BY <2>1, <2>2, SchedulerAssumption DEF Init, Counts
<1> QED
  BY <1>4, <1>5, <1>6, <1>7 DEF SchedulerInv

(* Every step keeps it. *)
LEMMA SchedulerNext == SchedulerInv /\ [Next]_vars => SchedulerInv'
<1> SUFFICES ASSUME SchedulerInv, [Next]_vars PROVE SchedulerInv'
  OBVIOUS
<1>1. CASE Tick
  BY <1>1, TickKeeps
<1>2. CASE \E p \in Policies : Configure(p)
  BY <1>2, ConfigureKeeps
<1>3. CASE \E r \in Requests : Acquire(r)
  BY <1>3, AcquireKeeps
<1>4. CASE \E r \in Requests : Wake(r) \/ Expire(r)
  BY <1>4, WakeKeeps
<1>5. CASE \E r \in Requests : Returns(r)
  BY <1>5, FinishKeeps
<1>6. CASE \E r \in Requests : Cancel(r)
  BY <1>6, CancelKeeps
<1>7. CASE UNCHANGED vars
  <2>1. \A x : IsBackground(x)' <=> IsBackground(x)
    BY <1>7 DEF vars, IsBackground
  <2>2. (\A at : In(at)' = In(at)) /\ Flying' = Flying
    BY <1>7 DEF vars, In, Flying
  <2>3. inFlight' = inFlight /\ backgroundInFlight' = backgroundInFlight
    BY <2>1, <2>2 DEF inFlight, backgroundInFlight
  <2>4. Kinds' /\ Queued' /\ Flights' /\ Counts'
    BY <1>7, <2>2, <2>3 DEF vars, source, history, SchedulerInv, Kinds, Queued, Queues, Flights, Counts
  <2> QED
    BY <2>4 DEF SchedulerInv
<1> QED
  BY <1>1, <1>2, <1>3, <1>4, <1>5, <1>6, <1>7 DEF Next

(* It gives the type invariant and what protects the source. *)
LEMMA InvProtects == SchedulerInv => SourceProtected
<1> SUFFICES ASSUME SchedulerInv PROVE SourceProtected
  OBVIOUS
<1>1. Range(queue) = In("asleep") /\ Len(queue) = Cardinality(In("asleep"))
  <2>1. DOMAIN queue = 1..Len(queue)
    BY LenProperties DEF SchedulerInv, Queued, Queues
  <2> QED
    BY <2>1 DEF SchedulerInv, Queued, Queues, Range
<1>2. streak \in 0..Cardinality(Requests)
  <2>1. /\ Cardinality(In("done")) \in Nat /\ Cardinality(Requests) \in Nat
        /\ Cardinality(In("done")) <= Cardinality(Requests)
    BY Card DEF In
  <2>2. streak \in Nat /\ streak <= Cardinality(In("done"))
    BY DEF SchedulerInv, Kinds, Counts
  <2> QED
    BY <2>1, <2>2
<1>3. TypeOK
  BY <1>1, <1>2 DEF TypeOK, SchedulerInv, Kinds, Request, Pcs
<1>4. probing <=> \E r \in Flying : req[r].probe
  BY DEF SchedulerInv, Flights
<1>5. \A r \in Flying : req[r].probe => Flying = {r}
  BY DEF SchedulerInv, Flights
<1> QED
  BY <1>3, <1>4, <1>5 DEF SourceProtected, SchedulerInv, Queued, Counts

(* The ceiling holds, background work has one slot, the queue is no longer *)
(* than its limit and holds who sleeps, and a probe has the source alone,  *)
(* whatever the vendor answers and however long it asks to be left alone.  *)
THEOREM SourceIsProtected == Spec => []SourceProtected
<1>1. Spec => []SchedulerInv
  BY SchedulerInit, SchedulerNext, PTL DEF Spec
<1> QED
  BY <1>1, InvProtects, PTL

-----------------------------------------------------------------------------
(* Who starts, and when. *)

(* A turn of the loop starts nobody but the one whose turn it is. *)
LEMMA AttemptStarts ==
  ASSUME NEW x \in Requests, NEW q, NEW rq, Alike(rq), Attempt(x, q, rq),
         NEW r \in Requests, Starts(r)
  PROVE  r = x /\ ~Refused(r, rq) /\ May(r, q)
<1>1. Alike(Told(q, x, rq))
  BY NotifiedAlike
<1>2. req[r].pc # "flying" /\ req'[r].pc = "flying"
  BY DEF Starts
<1>3. ~Leave(x, q, rq)
  <2> SUFFICES ASSUME Leave(x, q, rq) PROVE FALSE
    OBVIOUS
  <2>1. req' = [Told(q, x, rq) EXCEPT ![x] = Done] /\ Done.pc # "flying"
    BY DEF Leave, Done, New
  <2> QED
    BY <1>1, <1>2, <2>1 DEF Alike
<1>4. ~Sleep(x, q, rq)
  <2> SUFFICES ASSUME Sleep(x, q, rq) PROVE FALSE
    OBVIOUS
  <2> DEFINE resting == [rq[x] EXCEPT !.pc = "asleep", !.notified = FALSE,
                 !.timer = IF Ready(x) > clock THEN Ready(x) ELSE clock + QueueWait]
  <2>1. resting.pc = "asleep"
    BY DEF Alike, Request
  <2>2. req' = [rq EXCEPT ![x] = resting]
    BY DEF Sleep
  <2> HIDE DEF resting
  <2> QED
    BY <1>2, <2>1, <2>2 DEF Alike
<1>5. ~Refused(x, rq) /\ May(x, q) /\ Start(x, q, rq)
  BY <1>3, <1>4 DEF Attempt
<1>6. r = x
  <2> SUFFICES ASSUME r # x PROVE FALSE
    OBVIOUS
  <2> DEFINE sent == Sent(Told(q, x, rq)[x], clock, streak > 0)
  <2>1. req' = [Told(q, x, rq) EXCEPT ![x] = sent]
    BY <1>5 DEF Start, Sent
  <2> HIDE DEF sent
  <2> QED
    BY <1>1, <1>2, <2>1 DEF Alike
<1> QED
  BY <1>5, <1>6

(* So a request that starts has its turn, a free slot, and the spacing behind it. *)
LEMMA StepStarts ==
  ASSUME SchedulerInv, [Next]_vars, NEW r \in Requests, Starts(r)
  PROVE  /\ req[r].pc # "done"
         /\ \E q \in {queue, Append(queue, r)} : ~Cooling /\ May(r, q)
<1>0. Alike(req) /\ Alike(Notified(req))
  <2>1. Alike(req)
    BY DEF SchedulerInv, Kinds, Alike
  <2> QED
    BY <2>1, NotifiedAlike
<1>1. req[r].pc # "flying" /\ req'[r].pc = "flying"
  BY DEF Starts
<1>2. CASE Tick \/ UNCHANGED vars
  BY <1>1, <1>2 DEF Tick, vars
<1>3. CASE \E p \in Policies : Configure(p)
  BY <1>0, <1>1, <1>3 DEF Configure, Alike
<1>4. CASE \E x \in Requests : Returns(x)
  <2> PICK x \in Requests, reply \in Replies, wait \in RetryAfters : Finish(x, reply, wait)
    BY <1>4 DEF Returns
  <2>1. req' = [Notified(req) EXCEPT ![x] = Done] /\ Done.pc # "flying"
    BY DEF Finish, Done, New
  <2> QED
    BY <1>0, <1>1, <2>1 DEF Alike
<1>5. CASE \E x \in Requests : Cancel(x)
  <2> PICK x \in Requests : Cancel(x)
    BY <1>5
  <2>1. req' = [req EXCEPT ![x] = [req[x] EXCEPT !.dead = TRUE]] /\ req \in [Requests -> Request]
    BY DEF Cancel, SchedulerInv, Kinds
  <2>2. [req[x] EXCEPT !.dead = TRUE].pc = req[x].pc
    BY <2>1 DEF Request
  <2> QED
    BY <1>1, <2>1, <2>2
<1>6. CASE \E x \in Requests : Acquire(x)
  <2> PICK x \in Requests : Acquire(x)
    BY <1>6
  <2> DEFINE here == [req EXCEPT ![x] = [@ EXCEPT !.at = clock]]
  <2>1. Alike(here) /\ Alike(Notified(here))
    <3>1. clock \in Nat /\ req \in [Requests -> Request]
      BY SchedulerAssumption DEF SchedulerInv, Kinds
    <3>2. Alike(here)
      BY <3>1 DEF Alike, Request
    <3> QED
      BY <3>2, NotifiedAlike
  <2>2. ~Leave(x, queue, here)
    <3> SUFFICES ASSUME Leave(x, queue, here) PROVE FALSE
      OBVIOUS
    <3>1. Alike(Told(queue, x, here))
      BY <2>1, NotifiedAlike
    <3>2. req' = [Told(queue, x, here) EXCEPT ![x] = Done] /\ Done.pc # "flying"
      BY DEF Leave, Done, New
    <3> QED
      BY <1>1, <3>1, <3>2 DEF Alike
  <2>3. Attempt(x, queue, here) \/ Attempt(x, Append(queue, x), Notified(here))
    BY <2>2 DEF Acquire
  <2> HIDE DEF here
  <2>4. req[x].pc = "new"
    BY DEF Acquire
  <2>5. CASE Attempt(x, queue, here)
    BY <2>1, <2>5, <2>4, AttemptStarts DEF Refused
  <2>6. CASE Attempt(x, Append(queue, x), Notified(here))
    BY <2>1, <2>6, <2>4, AttemptStarts DEF Refused
  <2> QED
    BY <2>3, <2>5, <2>6
<1>7. CASE \E x \in Requests : Wake(x) \/ Expire(x)
  <2> PICK x \in Requests : Wake(x) \/ Expire(x)
    BY <1>7
  <2>1. ~Leave(x, queue, req)
    <3> SUFFICES ASSUME Leave(x, queue, req) PROVE FALSE
      OBVIOUS
    <3>1. Alike(Told(queue, x, req))
      BY <1>0, NotifiedAlike
    <3>2. req' = [Told(queue, x, req) EXCEPT ![x] = Done] /\ Done.pc # "flying"
      BY DEF Leave, Done, New
    <3> QED
      BY <1>1, <3>1, <3>2 DEF Alike
  <2>2. Attempt(x, queue, req)
    BY <2>1 DEF Wake, Expire
  <2>3. req[x].pc = "asleep"
    BY DEF Wake, Expire
  <2> QED
    BY <1>0, <2>2, <2>3, AttemptStarts DEF Refused
<1> QED
  BY <1>2, <1>3, <1>4, <1>5, <1>6, <1>7 DEF Next

(* Whatever the policies are and whenever they change, a start keeps its   *)
(* distance from the one before under the policy in force, and none is     *)
(* made before the latest moment a refusal asked for.                      *)
THEOREM StartsAreAllowed == Spec => StartsAsAllowed
<1> DEFINE Allowed == \A r \in Requests : Starts(r) =>
              /\ lastStart # Never => clock >= lastStart + policy.every
              /\ IsBackground(r) /\ lastBackground # Never => clock >= lastBackground + policy.background
              /\ clock >= asked
<1>1. SchedulerInv /\ [Next]_vars => Allowed
  <2> SUFFICES ASSUME SchedulerInv, [Next]_vars, NEW r \in Requests, Starts(r)
               PROVE  /\ lastStart # Never => clock >= lastStart + policy.every
                      /\ IsBackground(r) /\ lastBackground # Never => clock >= lastBackground + policy.background
                      /\ clock >= asked
    OBVIOUS
  <2>1. ~Cooling /\ clock >= Ready(r)
    BY StepStarts DEF May
  <2>2. /\ clock \in Nat /\ policy.every \in Nat /\ policy.background \in Nat
        /\ coolingUntil \in Int /\ asked \in Int /\ next \in Int /\ nextBackground \in Int
    BY Moments
  <2>3. clock >= next /\ (IsBackground(r) => clock >= nextBackground)
    <3>1. CASE IsBackground(r)
      <4>1. Later(next, nextBackground) \in Int /\ Later(next, nextBackground) >= next
            /\ Later(next, nextBackground) >= nextBackground /\ clock >= Later(next, nextBackground)
        BY <2>1, <2>2, <3>1, LaterMoment DEF Ready
      <4> QED
        BY <2>2, <4>1
    <3>2. CASE ~IsBackground(r)
      BY <2>1, <3>2 DEF Ready
    <3> QED
      BY <3>1, <3>2
  <2>4. clock >= asked
    <3>1. clock >= coolingUntil
      BY <2>1, <2>2 DEF Cooling
    <3>2. coolingUntil >= asked \/ clock >= asked
      BY DEF SchedulerInv, Flights
    <3> QED
      BY <2>2, <3>1, <3>2
  <2>5. /\ lastStart # Never => clock >= lastStart + policy.every
        /\ IsBackground(r) /\ lastBackground # Never => clock >= lastBackground + policy.background
    BY <2>3 DEF SchedulerInv, Kinds
  <2> QED
    BY <2>4, <2>5
<1>2. Spec => []SchedulerInv
  BY SchedulerInit, SchedulerNext, PTL DEF Spec
<1>3. Spec => [][Allowed]_vars
  BY <1>1, <1>2, PTL DEF Spec
<1> QED
  BY <1>3 DEF StartsAsAllowed

(* No request starts past a live reader with a better claim, for every     *)
(* arrival order and every set of readers whose context has ended.         *)
THEOREM ReadersGoFirst == Spec => ReadersFirst
<1> DEFINE Fair == \A r \in Requests : Starts(r) =>
              \A k \in Alive(queue) : queue[k] = r \/ mix.prio[r] <= mix.prio[queue[k]]
<1>1. SchedulerInv /\ [Next]_vars => Fair
  <2> SUFFICES ASSUME SchedulerInv, [Next]_vars, NEW r \in Requests, Starts(r), NEW k \in Alive(queue)
               PROVE  queue[k] = r \/ mix.prio[r] <= mix.prio[queue[k]]
    OBVIOUS
  <2>1. queue \in Seq(Requests) /\ DOMAIN queue = 1..Len(queue) /\ Len(queue) \in Nat
    BY LenProperties DEF SchedulerInv, Queued, Queues
  <2>2. \A x \in Requests : req[x].pc # "done" => mix.prio[x] \in Nat
    BY SchedulerAssumption DEF SchedulerInv, Kinds
  <2>3. \A j \in DOMAIN queue : mix.prio[queue[j]] \in Nat
    <3>1. ASSUME NEW j \in DOMAIN queue PROVE queue[j] \in Requests /\ req[queue[j]].pc = "asleep"
      BY <2>1 DEF SchedulerInv, Queued, Queues, In
    <3> QED
      BY <2>2, <3>1
  <2>4. PICK q \in {queue, Append(queue, r)} : Turn(q, r)
    BY StepStarts DEF May
  <2>5. CASE q = queue
    BY <2>1, <2>3, <2>4, <2>5, TurnIsBest
  <2>6. CASE q = Append(queue, r)
    <3>1. /\ q \in Seq(Requests) /\ DOMAIN q = (DOMAIN queue) \cup {Len(queue) + 1}
          /\ (\A j \in DOMAIN queue : q[j] = queue[j]) /\ q[Len(queue) + 1] = r
      BY <2>1, <2>6, AppendProperties, LenProperties
    <3>2. \A j \in DOMAIN q : mix.prio[q[j]] \in Nat
      BY <2>2, <2>3, <3>1, StepStarts
    <3>3. k \in Alive(q) /\ q[k] = queue[k]
      BY <3>1 DEF Alive
    <3> QED
      BY <2>4, <2>6, <3>1, <3>2, <3>3, TurnIsBest
  <2> QED
    BY <2>4, <2>5, <2>6
<1>2. Spec => []SchedulerInv
  BY SchedulerInit, SchedulerNext, PTL DEF Spec
<1>3. Spec => [][Fair]_vars
  BY <1>1, <1>2, PTL DEF Spec
<1> QED
  BY <1>3 DEF ReadersFirst

-----------------------------------------------------------------------------
(* Who still has to wait. *)

(* What a sleeper that has not been told waits for: its timer, which fires *)
(* no later than the spacing ends; a slot; or its turn, or a reader ahead  *)
(* whose context ended and that tells the others when it leaves.           *)
Waits(r) ==
  \/ req[r].notified \/ req[r].timer <= clock \/ req[r].timer <= next
  \/ inFlight >= Concurrency
  \/ Alive(queue) = DOMAIN queue => FirstOf(queue) # {r}
Awaits == \A r \in In("asleep") : Waits(r)

(* A step that lets x sleep on, and takes neither a slot nor a reader away. *)
Undisturbed(x) ==
  /\ req[x].pc = "asleep" /\ req'[x].timer = req[x].timer /\ req'[x].notified = req[x].notified
  /\ mix' = mix /\ queue' = queue
  /\ clock' \in Int /\ clock <= clock' /\ next' \in Int /\ next <= next'
  /\ Flying \subseteq Flying'
  /\ \A y \in In("asleep") : req[y].dead => req'[y].dead

(* It still waits for what it waited for. *)
LEMMA SleepsOn ==
  ASSUME SchedulerInv, Awaits, NEW x \in Requests, Undisturbed(x)
  PROVE  Waits(x)'
<1>1. Waits(x)
  BY DEF Awaits, In, Undisturbed
<1>2. req[x].timer \in Int /\ clock \in Int /\ next \in Int
  <2>1. req[x] \in Request
    BY DEF SchedulerInv, Kinds
  <2> QED
    BY <2>1, Moments DEF Request
<1>3. CASE inFlight >= Concurrency
  <2> DEFINE before == Flying
             after == Flying'
  <2>1. after \subseteq Requests /\ before \subseteq after
    BY DEF Flying, In, Undisturbed
  <2>2. inFlight = Cardinality(before) /\ inFlight' = Cardinality(after)
    BY DEF inFlight
  <2> HIDE DEF before, after
  <2>3. IsFiniteSet(after)
    BY <2>1, SchedulerAssumption, FS_Subset
  <2>4. IsFiniteSet(before) /\ Cardinality(before) <= Cardinality(after)
    BY <2>1, <2>3, FS_Subset
  <2>5. Cardinality(before) \in Nat /\ Cardinality(after) \in Nat /\ Concurrency \in Nat
    BY <2>3, <2>4, FS_CardinalityType, SchedulerAssumption
  <2>6. inFlight' >= Concurrency
    BY <1>3, <2>2, <2>4, <2>5
  <2> QED
    BY <2>6 DEF Waits
<1>4. CASE Alive(queue) = DOMAIN queue => FirstOf(queue) # {x}
  <2>1. DOMAIN queue = 1..Len(queue) /\ \A k \in DOMAIN queue : queue[k] \in In("asleep")
    BY LenProperties DEF SchedulerInv, Queued, Queues
  <2>2. Alive(queue)' \subseteq Alive(queue)
    BY <2>1 DEF Alive, Undisturbed
  <2>3. (DOMAIN queue)' = DOMAIN queue /\ Alive(queue) \subseteq DOMAIN queue
    BY DEF Alive, Undisturbed
  <2>4. Alive(queue)' = (DOMAIN queue)' => Alive(queue)' = Alive(queue)
    BY <2>2, <2>3
  <2>5. Alive(queue)' = Alive(queue) => FirstOf(queue)' = FirstOf(queue)
    BY DEF FirstOf, Undisturbed
  <2>6. Alive(queue)' = (DOMAIN queue)' => FirstOf(queue)' # {x}
    BY <1>4, <2>3, <2>4, <2>5
  <2> QED
    BY <2>6 DEF Waits
<1>5. CASE req[x].notified
  BY <1>5 DEF Waits, Undisturbed
<1>6. CASE req[x].timer <= clock \/ req[x].timer <= next
  <2>1. req'[x].timer <= clock' \/ req'[x].timer <= next'
    BY <1>2, <1>6 DEF Undisturbed
  <2> QED
    BY <2>1 DEF Waits
<1> QED
  BY <1>1, <1>3, <1>4, <1>5, <1>6 DEF Waits

(* A reader that goes to sleep has a reason to. *)
LEMMA SleepWaits ==
  ASSUME SchedulerInv, NEW r \in Requests, NEW q, NEW rq, Looks(r, q, rq), Sleep(r, q, rq),
         ~May(r, q), ~IsBackground(r), q \in Seq(Requests)
  PROVE  Waits(r)'
<1> DEFINE until == IF next > clock THEN next ELSE clock + QueueWait
           resting == [rq[r] EXCEPT !.pc = "asleep", !.notified = FALSE, !.timer = until]
<1>1. Alike(rq)
  BY DEF Looks
<1>2. req' = [rq EXCEPT ![r] = resting] /\ queue' = q /\ mix' = mix /\ next' = next
  BY DEF Sleep, Ready
<1>3. resting.pc = "asleep" /\ resting.timer = until /\ resting.dead = rq[r].dead
  BY <1>1 DEF Alike, Request
<1> HIDE DEF resting
<1>4. req'[r].timer = until /\ \A x \in Requests : req'[x].dead = req[x].dead
  BY <1>1, <1>2, <1>3 DEF Alike
<1>5. CASE ~Turn(q, r)
  <2>1. \A k \in DOMAIN q : q[k] \in Requests
    OBVIOUS
  <2>2. Alive(queue)' = Alive(q)
    BY <1>2, <1>4, <2>1 DEF Alive
  <2>3. FirstOf(queue)' = FirstOf(q)
    BY <1>2, <2>2 DEF FirstOf
  <2> QED
    BY <1>5, <2>3 DEF Turn, Waits
<1>6. CASE ~Capacity(r)
  <2>1. req[r].pc # "flying" /\ \A x \in Requests \ {r} : req'[x].pc = req[x].pc
    BY <1>1, <1>2 DEF Alike, Looks
  <2>2. req'[r].pc = "asleep"
    BY <1>1, <1>2, <1>3 DEF Alike
  <2>3. Flying' = Flying
    BY <2>1, <2>2 DEF Flying, In
  <2>4. inFlight' = inFlight
    BY <2>3 DEF inFlight
  <2>5. inFlight \in Nat /\ Concurrency \in Nat
    BY SchedulerAssumption, Card DEF inFlight, Flying, In
  <2>6. inFlight' >= Concurrency
    BY <1>6, <2>4, <2>5 DEF Capacity
  <2> QED
    BY <2>6 DEF Waits
<1>7. CASE ~(clock >= Ready(r))
  <2>1. clock \in Int /\ next \in Int
    BY Moments
  <2>2. req'[r].timer <= next'
    BY <1>2, <1>4, <1>7, <2>1 DEF Ready
  <2> QED
    BY <2>2 DEF Waits
<1> QED
  BY <1>5, <1>6, <1>7 DEF May

(* Nothing has been said to the others, and nobody has joined or left. *)
Quiet(r, q, rq) == q = queue /\ \A x \in Requests \ {r} : rq[x].notified = req[x].notified

(* Then they sleep on while r moves. *)
LEMMA QuietWaits ==
  ASSUME SchedulerInv, Awaits, NEW r \in Requests, NEW q, NEW rq, Alike(rq), Quiet(r, q, rq), NEW w,
         req' = [rq EXCEPT ![r] = w], queue' = q, mix' = mix, clock' = clock, next' \in Int, next <= next',
         r \notin Flying, r \in In("asleep") => w.dead = req[r].dead,
         NEW x \in Requests \ {r}, req'[x].pc = "asleep"
  PROVE  Waits(x)'
<1>1. \A y \in Requests \ {r} : /\ req'[y] = rq[y] /\ req'[y].pc = req[y].pc
                                /\ req'[y].timer = req[y].timer /\ req'[y].dead = req[y].dead
  BY DEF Alike
<1>2. req'[r] = w
  BY DEF Alike
<1>3. Flying \subseteq Flying'
  BY <1>1 DEF Flying, In
<1>4. \A y \in In("asleep") : req[y].dead => req'[y].dead
  BY <1>1, <1>2 DEF In
<1>5. req[x].pc = "asleep" /\ req'[x].timer = req[x].timer /\ req'[x].notified = req[x].notified
  BY <1>1 DEF Quiet
<1>6. clock' \in Int /\ clock <= clock'
  BY SchedulerAssumption DEF SchedulerInv, Kinds
<1>7. Undisturbed(x)
  BY <1>3, <1>4, <1>5, <1>6 DEF Undisturbed, Quiet
<1> QED
  BY <1>7, SleepsOn

(* Whoever is told, or is told when a reader leaves the queue, need not wait. *)
LEMMA ToldWaits ==
  ASSUME NEW r \in Requests, NEW rq, Alike(rq), NEW w, req' = [Notified(rq) EXCEPT ![r] = w],
         NEW x \in Requests \ {r}, req'[x].pc = "asleep"
  PROVE  Waits(x)'
<1>1. Alike(Notified(rq))
  BY NotifiedAlike
<1>2. req'[x] = Notified(rq)[x] /\ rq[x].pc = "asleep"
  BY <1>1 DEF Alike
<1>3. Notified(rq)[x] = [rq[x] EXCEPT !.notified = TRUE]
  BY <1>2 DEF Notified
<1>4. [rq[x] EXCEPT !.notified = TRUE].notified
  BY DEF Alike, Request
<1> QED
  BY <1>2, <1>3, <1>4 DEF Waits

(* Turned away, a reader tells the others; a request that never waited leaves them as they were. *)
LEMMA LeaveWaits ==
  ASSUME SchedulerInv, Awaits, NEW r \in Requests, NEW q, NEW rq, Looks(r, q, rq), Leave(r, q, rq),
         Contains(q, r) \/ (req[r].pc = "new" /\ Quiet(r, q, rq))
  PROVE  Awaits'
<1>1. Alike(rq) /\ Done.pc = "done" /\ r \notin Flying
  BY DEF Looks, Done, New, Flying, In
<1>2. Alike(Told(q, r, rq)) /\ req' = [Told(q, r, rq) EXCEPT ![r] = Done]
  BY <1>1, NotifiedAlike DEF Leave
<1> SUFFICES ASSUME NEW x \in Requests, req'[x].pc = "asleep" PROVE Waits(x)'
  BY DEF Awaits, In
<1>3. x # r
  BY <1>1, <1>2 DEF Alike
<1>4. CASE Contains(q, r)
  <2>1. req' = [Notified(rq) EXCEPT ![r] = Done]
    BY <1>2, <1>4 DEF Told
  <2> QED
    BY <1>1, <1>3, <2>1, ToldWaits
<1>5. CASE ~Contains(q, r)
  <2>1. req' = [rq EXCEPT ![r] = Done] /\ queue' = q
    BY <1>2, <1>5 DEF Told, Leave, Removed
  <2>2. next' \in Int /\ next <= next' /\ mix' = mix /\ clock' = clock
    BY Moments DEF Leave
  <2>3. r \notin In("asleep") /\ Quiet(r, q, rq)
    BY <1>5 DEF In
  <2> QED
    BY <1>1, <1>3, <2>1, <2>2, <2>3, QuietWaits
<1> QED
  BY <1>4, <1>5

(* Sent, it only puts the spacing off. *)
LEMMA StartWaits ==
  ASSUME SchedulerInv, Awaits, NEW r \in Requests, NEW q, NEW rq, Looks(r, q, rq), Start(r, q, rq), May(r, q),
         Contains(q, r) \/ (req[r].pc = "new" /\ Quiet(r, q, rq))
  PROVE  Awaits'
<1> DEFINE sent == Sent(Told(q, r, rq)[r], clock, streak > 0)
<1>1. Alike(rq) /\ r \notin Flying
  BY DEF Looks, Flying, In
<1>2. Alike(Told(q, r, rq)) /\ req' = [Told(q, r, rq) EXCEPT ![r] = sent]
  BY <1>1, NotifiedAlike DEF Start, Sent
<1>3. sent.pc = "flying"
  <2>1. Told(q, r, rq)[r] \in Request
    BY <1>2 DEF Alike
  <2> QED
    BY <2>1 DEF Sent, Request
<1> HIDE DEF sent
<1> SUFFICES ASSUME NEW x \in Requests, req'[x].pc = "asleep" PROVE Waits(x)'
  BY DEF Awaits, In
<1>4. x # r
  BY <1>2, <1>3 DEF Alike
<1>5. CASE Contains(q, r)
  <2>1. req' = [Notified(rq) EXCEPT ![r] = sent]
    BY <1>2, <1>5 DEF Told
  <2> QED
    BY <1>1, <1>4, <2>1, ToldWaits
<1>6. CASE ~Contains(q, r)
  <2>1. req' = [rq EXCEPT ![r] = sent] /\ queue' = q
    BY <1>2, <1>6 DEF Told, Start, Removed
  <2>2. next' \in Int /\ next <= next'
    <3>1. /\ clock \in Nat /\ policy.every \in Nat /\ next \in Int /\ nextBackground \in Int
      BY Moments
    <3>2. clock >= next
      <4>1. Ready(r) \in Int /\ Ready(r) >= next
        BY <3>1, LaterMoment DEF Ready
      <4> QED
        BY <3>1, <4>1 DEF May
    <3>3. next' = clock + policy.every
      BY DEF Start
    <3> QED
      BY <3>1, <3>2, <3>3
  <2>3. r \notin In("asleep") /\ Quiet(r, q, rq) /\ mix' = mix /\ clock' = clock
    BY <1>6 DEF In, Start
  <2> QED
    BY <1>1, <1>4, <2>1, <2>2, <2>3, QuietWaits
<1> QED
  BY <1>5, <1>6

(* Asleep, it has told the others as it came, or they sleep on. *)
LEMMA SleepersWait ==
  ASSUME SchedulerInv, Awaits, NEW r \in Requests, NEW q \in Seq(Requests), NEW rq, Looks(r, q, rq),
         Sleep(r, q, rq), ~May(r, q), ~IsBackground(r),
         (\E old : Alike(old) /\ rq = Notified(old)) \/ Quiet(r, q, rq)
  PROVE  Awaits'
<1> DEFINE resting == [rq[r] EXCEPT !.pc = "asleep", !.notified = FALSE,
                 !.timer = IF Ready(r) > clock THEN Ready(r) ELSE clock + QueueWait]
<1>1. Alike(rq) /\ r \notin Flying
  BY DEF Looks, Flying, In
<1>2. req' = [rq EXCEPT ![r] = resting] /\ queue' = q /\ mix' = mix /\ clock' = clock /\ next' = next
  BY DEF Sleep
<1>3. resting.dead = req[r].dead
  BY <1>1 DEF Alike, Request
<1> HIDE DEF resting
<1> SUFFICES ASSUME NEW x \in Requests, req'[x].pc = "asleep" PROVE Waits(x)'
  BY DEF Awaits, In
<1>4. CASE x = r
  BY <1>4, SleepWaits
<1>5. CASE x # r /\ Quiet(r, q, rq)
  <2>1. next' \in Int /\ next <= next'
    BY <1>2, Moments
  <2> QED
    BY <1>1, <1>2, <1>3, <1>5, <2>1, QuietWaits
<1>6. CASE x # r /\ \E old : Alike(old) /\ rq = Notified(old)
  <2> PICK old : Alike(old) /\ rq = Notified(old)
    BY <1>6
  <2> QED
    BY <1>2, <1>6, ToldWaits
<1> QED
  BY <1>4, <1>5, <1>6

(* A turn of the loop loses no wake-up. *)
LEMMA AttemptWaits ==
  ASSUME SchedulerInv, Awaits, NEW r \in Requests, NEW q \in Seq(Requests), NEW rq, Looks(r, q, rq), Attempt(r, q, rq),
         Contains(q, r) \/ (req[r].pc = "new" /\ IsBackground(r) /\ Quiet(r, q, rq)),
         (\E old : Alike(old) /\ rq = Notified(old)) \/ Quiet(r, q, rq)
  PROVE  Awaits'
<1>1. CASE Leave(r, q, rq)
  BY <1>1, LeaveWaits
<1>2. CASE May(r, q) /\ Start(r, q, rq)
  BY <1>2, StartWaits
<1>3. CASE ~May(r, q) /\ ~IsBackground(r) /\ Sleep(r, q, rq)
  BY <1>3, SleepersWait
<1> QED
  BY <1>1, <1>2, <1>3 DEF Attempt

(* Nor does a request that comes: a reader that joins tells the others. *)
LEMMA AcquireWaits ==
  ASSUME SchedulerInv, Awaits, NEW r \in Requests, Acquire(r) PROVE Awaits'
<1> DEFINE here == [req EXCEPT ![r] = [@ EXCEPT !.at = clock]]
<1>1. req[r].pc = "new" /\ r \notin In("asleep") /\ In("asleep") \subseteq Requests
  BY DEF Acquire, In
<1>2. Alike(here) /\ Quiet(r, queue, here)
  <2>1. req \in [Requests -> Request] /\ clock \in Nat
    BY SchedulerAssumption DEF SchedulerInv, Kinds
  <2>2. Alike(here)
    BY <2>1 DEF Alike, Request
  <2>3. Quiet(r, queue, here)
    BY <2>1 DEF Quiet
  <2> QED
    BY <2>2, <2>3
<1>3. Alike(Notified(here))
  BY <1>2, NotifiedAlike
<1>4. queue \in Seq(Requests) /\ Queues(queue, In("asleep")) /\ Len(queue) <= QueueLimit /\ Len(queue) \in Nat
  BY LenProperties DEF SchedulerInv, Queued, Queues
<1>5. Looks(r, queue, here)
  BY <1>1, <1>2, <1>4 DEF Looks
<1> HIDE DEF here
<1>6. CASE IsBackground(r) /\ Attempt(r, queue, here)
  BY <1>1, <1>2, <1>4, <1>5, <1>6, AttemptWaits
<1>7. CASE Leave(r, queue, here)
  BY <1>1, <1>2, <1>5, <1>7, LeaveWaits
<1>8. CASE ~(Len(queue) >= QueueLimit) /\ Attempt(r, Append(queue, r), Notified(here))
  <2> DEFINE q == Append(queue, r)
  <2>1. Queues(q, In("asleep") \cup {r}) /\ Len(q) = Len(queue) + 1
    BY <1>1, <1>4, QueueJoined
  <2>2. Len(q) <= QueueLimit
    BY <1>4, <1>8, <2>1, SchedulerAssumption
  <2>3. Looks(r, q, Notified(here))
    BY <1>1, <1>3, <2>1, <2>2 DEF Looks
  <2>4. q \in Seq(Requests)
    BY <2>1 DEF Queues
  <2>5. Contains(q, r)
    BY <2>1 DEF Queues, Contains
  <2> HIDE DEF q
  <2>6. Attempt(r, q, Notified(here))
    BY <1>8 DEF q
  <2> QED
    BY <1>2, <2>3, <2>4, <2>5, <2>6, AttemptWaits
<1> QED
  BY <1>6, <1>7, <1>8 DEF Acquire, here

(* Nor does a sleeper that wakes. *)
LEMMA WakeWaits ==
  ASSUME SchedulerInv, Awaits, NEW r \in Requests, Wake(r) \/ Expire(r) PROVE Awaits'
<1>1. req[r].pc = "asleep" /\ r \in In("asleep")
  BY DEF Wake, Expire, In
<1>2. Alike(req) /\ Quiet(r, queue, req)
  BY DEF SchedulerInv, Kinds, Alike, Quiet
<1>3. queue \in Seq(Requests) /\ Queues(queue, In("asleep")) /\ Len(queue) <= QueueLimit
  BY DEF SchedulerInv, Queued, Queues
<1>4. Looks(r, queue, req)
  BY <1>1, <1>2, <1>3 DEF Looks
<1>5. Contains(queue, r)
  BY <1>1, <1>3 DEF Queues, Contains
<1>6. CASE Leave(r, queue, req)
  BY <1>4, <1>5, <1>6, LeaveWaits
<1>7. CASE Attempt(r, queue, req)
  BY <1>2, <1>3, <1>4, <1>5, <1>7, AttemptWaits
<1> QED
  BY <1>6, <1>7 DEF Wake, Expire

(* Nor does any other step: a slot that comes free and a new policy are told. *)
LEMMA NobodyIsMissed == SchedulerInv /\ Awaits /\ [Next]_vars => Awaits'
<1> SUFFICES ASSUME SchedulerInv, Awaits, [Next]_vars PROVE Awaits'
  OBVIOUS
<1>0. Alike(req) /\ Alike(Notified(req)) /\ req \in [Requests -> Request]
  <2>1. Alike(req) /\ req \in [Requests -> Request]
    BY DEF SchedulerInv, Kinds, Alike
  <2> QED
    BY <2>1, NotifiedAlike
<1>1. clock \in Int /\ next \in Int
  BY Moments
<1>2. CASE Tick \/ UNCHANGED vars
  <2>1. UNCHANGED <<mix, queue, next, req>> /\ clock' \in Int /\ clock <= clock'
    BY <1>1, <1>2 DEF Tick, vars, source
  <2>2. Flying' = Flying
    BY <2>1 DEF Flying, In
  <2>3. \A x \in In("asleep")' : x \in Requests /\ Undisturbed(x)
    BY <1>1, <2>1, <2>2 DEF Undisturbed, In
  <2> QED
    BY <2>3, SleepsOn DEF Awaits
<1>3. CASE \E p \in Policies : Configure(p)
  <2>1. req' = Notified(req)
    BY <1>3 DEF Configure
  <2>2. ASSUME NEW x \in Requests, req'[x].pc = "asleep" PROVE req'[x].notified
    <3>1. req[x].pc = "asleep"
      BY <1>0, <2>1, <2>2 DEF Alike
    <3>2. req'[x] = [req[x] EXCEPT !.notified = TRUE]
      BY <2>1, <3>1 DEF Notified
    <3> QED
      BY <1>0, <3>2 DEF Request
  <2> QED
    BY <2>2 DEF Awaits, Waits, In
<1>4. CASE \E r \in Requests : Acquire(r)
  BY <1>4, AcquireWaits
<1>5. CASE \E r \in Requests : Wake(r) \/ Expire(r)
  BY <1>5, WakeWaits
<1>6. CASE \E r \in Requests : Returns(r)
  <2> PICK r \in Requests, reply \in Replies, wait \in RetryAfters : Finish(r, reply, wait)
    BY <1>6 DEF Returns
  <2>1. req' = [Notified(req) EXCEPT ![r] = Done] /\ Done.pc = "done"
    BY DEF Finish, Done, New
  <2>2. ASSUME NEW x \in Requests, req'[x].pc = "asleep" PROVE Waits(x)'
    <3>1. x # r
      BY <1>0, <2>1, <2>2 DEF Alike
    <3> QED
      BY <1>0, <2>1, <2>2, <3>1, ToldWaits
  <2> QED
    BY <2>2 DEF Awaits, In
<1>7. CASE \E r \in Requests : Cancel(r)
  <2> PICK r \in Requests : Cancel(r)
    BY <1>7
  <2> DEFINE ended == [req[r] EXCEPT !.dead = TRUE]
  <2>1. req' = [req EXCEPT ![r] = ended] /\ UNCHANGED <<mix, clock, queue, next>>
    BY DEF Cancel, source
  <2>2. /\ ended.pc = req[r].pc /\ ended.timer = req[r].timer /\ ended.notified = req[r].notified
        /\ ended.dead
    BY <1>0 DEF Request
  <2> HIDE DEF ended
  <2>3. \A x \in Requests : /\ req'[x].pc = req[x].pc /\ req'[x].timer = req[x].timer
                           /\ req'[x].notified = req[x].notified /\ (req[x].dead => req'[x].dead)
    BY <1>0, <2>1, <2>2
  <2>4. Flying' = Flying
    BY <2>3 DEF Flying, In
  <2>5. \A x \in In("asleep")' : x \in Requests /\ Undisturbed(x)
    BY <1>1, <2>1, <2>3, <2>4 DEF Undisturbed, In
  <2> QED
    BY <2>5, SleepsOn DEF Awaits
<1> QED
  BY <1>2, <1>3, <1>4, <1>5, <1>6, <1>7 DEF Next

(* No wake-up is lost, for any number of readers and any order of their    *)
(* steps: a sleeper that could start has been told, or its timer has fired.*)
(* Nobody has to be told of a background start, which only puts the        *)
(* spacing off, nor of the clock.                                          *)
THEOREM WakeUpsArrive == Spec => []NoMissedWakeup
<1>1. Init => Awaits
  <2>1. New.pc # "asleep" /\ Done.pc # "asleep"
    BY DEF New, Done
  <2> QED
    BY <2>1 DEF Init, Awaits, In
<1>2. SchedulerInv /\ Awaits => NoMissedWakeup
  <2> SUFFICES ASSUME SchedulerInv, Awaits, NEW r \in In("asleep"), ~Cooling, May(r, queue),
                      Alive(queue) = DOMAIN queue
               PROVE  req[r].notified \/ clock >= req[r].timer
    BY DEF NoMissedWakeup
  <2>1. /\ r \in Requests /\ queue \in Seq(Requests) /\ DOMAIN queue = 1..Len(queue)
        /\ \E k \in DOMAIN queue : queue[k] = r
        /\ \A k \in DOMAIN queue : queue[k] \in In("asleep")
    <3>1. queue \in Seq(Requests) /\ {queue[k] : k \in 1..Len(queue)} = In("asleep") /\ r \in Requests
      BY DEF SchedulerInv, Queued, Queues, In
    <3>2. DOMAIN queue = 1..Len(queue)
      BY <3>1, LenProperties
    <3> QED
      BY <3>1, <3>2
  <2>2. \A k \in DOMAIN queue : mix.prio[queue[k]] \in Nat
    BY <2>1, SchedulerAssumption DEF SchedulerInv, Kinds, In
  <2>3. FirstOf(queue) = {r}
    BY <2>1, <2>2, TurnExists DEF May, Turn
  <2>4. /\ clock \in Nat /\ next \in Int /\ nextBackground \in Int /\ req[r].timer \in Nat
    <3>1. clock \in Nat /\ next \in Int /\ nextBackground \in Int
      BY Moments
    <3>2. req[r] \in Request
      BY <2>1 DEF SchedulerInv, Kinds
    <3>3. req[r].timer \in Nat
      BY <3>2 DEF Request
    <3> QED
      BY <3>1, <3>3
  <2>5. clock >= next
    <3>1. Ready(r) \in Int /\ Ready(r) >= next
      BY <2>4, LaterMoment DEF Ready
    <3> QED
      BY <2>4, <3>1 DEF May
  <2>6. ~(inFlight >= Concurrency)
    <3>1. Flying \subseteq Requests /\ Concurrency \in Nat
      BY SchedulerAssumption DEF Flying, In
    <3>2. inFlight \in Nat
      BY <3>1, Card DEF inFlight
    <3> QED
      BY <3>1, <3>2 DEF May, Capacity
  <2> QED
    BY <2>3, <2>4, <2>5, <2>6 DEF Awaits, Waits
<1>3. Spec => []SchedulerInv
  BY SchedulerInit, SchedulerNext, PTL DEF Spec
<1> QED
  BY <1>1, <1>2, <1>3, NobodyIsMissed, PTL DEF Spec
=============================================================================
