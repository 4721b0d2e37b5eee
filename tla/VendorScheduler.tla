-------------------------- MODULE VendorScheduler --------------------------
(***************************************************************************)
(* The request scheduler of one market-data source (vendor_scheduler.go):  *)
(* readers queue for a slot under a mutex, sleep outside it, and are woken *)
(* by a closed channel, a timer, their deadline or their context.  The     *)
(* vendor's refusals cool the source; one probe ends the cooldown.         *)
(***************************************************************************)
EXTENDS Integers, Sequences, SequencesExt, FiniteSets

CONSTANTS
  Requests,       \* the HTTP requests of a behaviour
  Mixes,          \* what an instance combines: [prio : the priorities of the requests that come, policy : Policies,
                  \* ops : SUBSET {"cancel", "configure"}]
  Policies,       \* rate policies: [every, background], time between two starts
  QueueLimit,     \* vendorQueueLimit
  QueueWait,      \* vendorQueueWait
  Concurrency,    \* quoteUpstreamConcurrency
  Cooldowns,      \* ledgerCooldowns
  RetryAfters,    \* the waits a vendor may ask for; 0: no Retry-After header
  FlightMax,      \* vendorClientTimeout
  Horizon         \* bound on the clock

Background == 2   \* vendorBackground; 0 is a reader's request, 1 history, 3 shadow
Never == -100     \* a time.Time that is zero

ASSUME SchedulerAssumption ==
  /\ IsFiniteSet(Requests) /\ Policies # {} /\ \A p \in Policies : p.every \in Nat /\ p.background \in Nat
  /\ {QueueLimit, QueueWait, FlightMax, Horizon} \subseteq Nat /\ Concurrency \in Nat \ {0}
  /\ Cooldowns \in Seq(Nat) /\ Cooldowns # <<>> /\ RetryAfters \subseteq Nat
  /\ \A x \in Mixes :
       /\ x.policy \in Policies
       /\ DOMAIN x.prio \subseteq Requests /\ \A r \in DOMAIN x.prio : x.prio[r] \in Nat
  \* thirty seconds against one minute
  /\ \A k \in DOMAIN Cooldowns : FlightMax < Cooldowns[k]

VARIABLES
  mix,        \* the mix of this behaviour
  clock,
  policy,
  queue,      \* state.queue: the readers that wait, in the order they came
  next,       \* state.next
  nextBackground,
  coolingUntil,
  streak,     \* cooldownStreak
  probing,
  req,        \* each request: where it is, and its local variables
  lastStart,  \* history: when a request last started,
  lastBackground, \* when a background one did,
  asked       \* and the latest time a refusal told us to stay away until

source  == <<queue, next, nextBackground, coolingUntil, streak, probing>>
history == <<lastStart, lastBackground, asked>>
vars    == <<mix, clock, policy, source, req, history>>

IsBackground(r) == mix.prio[r] >= Background
In(pc) == {r \in Requests : req[r].pc = pc}
Flying == In("flying")
inFlight == Cardinality(Flying)
backgroundInFlight == Cardinality({r \in Flying : IsBackground(r)})
Later(a, b) == IF a > b THEN a ELSE b

New == [pc |-> "new", at |-> 0, timer |-> 0, notified |-> FALSE, dead |-> FALSE,
        probe |-> FALSE]
Done == [New EXCEPT !.pc = "done"]

Init ==
  /\ mix \in Mixes /\ policy = mix.policy /\ clock = 0
  /\ queue = <<>> /\ next = Never /\ nextBackground = Never /\ coolingUntil = Never
  /\ streak = 0 /\ probing = FALSE
  /\ req = [r \in Requests |-> IF r \in DOMAIN mix.prio THEN New ELSE Done]
  /\ lastStart = Never /\ lastBackground = Never /\ asked = Never

-----------------------------------------------------------------------------
(* notifyLocked closes the channel every sleeper took a copy of. *)
Notified(rq) == [r \in Requests |-> IF rq[r].pc = "asleep" THEN [rq[r] EXCEPT !.notified = TRUE] ELSE rq[r]]

(* The deferred remove(): only a reader is in the queue, and only a removal notifies. *)
Removed(q, r) == IF Contains(q, r) THEN RemoveAt(q, CHOOSE k \in DOMAIN q : q[k] = r) ELSE q
Told(q, r, rq) == IF Contains(q, r) THEN Notified(rq) ELSE rq

Alive(q) == {k \in DOMAIN q : ~req[q[k]].dead}

(* Mutant of FirstOf: the queue is served in the order of arrival. *)
FirstCome(q) == {q[k] : k \in {k \in Alive(q) : \A j \in Alive(q) : k <= j}}

(* The reader whose turn it is: the first one of the best priority whose context lives. *)
FirstOf(q) ==
  {q[k] : k \in {k \in Alive(q) :
     \A j \in Alive(q) : mix.prio[q[k]] < mix.prio[q[j]] \/ (mix.prio[q[k]] = mix.prio[q[j]] /\ k <= j)}}
Turn(q, r) == FirstOf(q) = {r} \/ (FirstOf(q) = {} /\ IsBackground(r))

Ready(r) == IF IsBackground(r) THEN Later(next, nextBackground) ELSE next
Capacity(r) == inFlight < Concurrency /\ (IsBackground(r) => backgroundInFlight = 0)
(* Mutant of Cooling: a probe under way does not hold the others back. *)
CoolingByClock == clock < coolingUntil
Cooling == clock < coolingUntil \/ probing

(* The request leaves without having been sent. *)
Leave(r, q, rq) ==
  /\ queue' = Removed(q, r)
  /\ req' = [Told(q, r, rq) EXCEPT ![r] = Done]
  /\ UNCHANGED <<mix, clock, policy, next, nextBackground, coolingUntil, streak, probing, history>>

(* It is sent: it takes the slot and the spacing, and is the probe if the source was cooling. *)
Start(r, q, rq) ==
  /\ queue' = Removed(q, r)
  /\ req' = [Told(q, r, rq) EXCEPT ![r] = [@ EXCEPT !.pc = "flying", !.timer = clock, !.probe = streak > 0]]
  /\ next' = clock + policy.every
  /\ nextBackground' = IF IsBackground(r) THEN clock + policy.background ELSE nextBackground
  /\ probing' = (streak > 0)
  /\ lastStart' = clock
  /\ lastBackground' = IF IsBackground(r) THEN clock ELSE lastBackground
  /\ UNCHANGED <<mix, clock, policy, coolingUntil, streak, asked>>

(* It sleeps until the channel closes, or the spacing or the wait has passed. *)
Sleep(r, q, rq) ==
  /\ queue' = q
  /\ req' = [rq EXCEPT ![r] = [@ EXCEPT !.pc = "asleep", !.notified = FALSE,
                 !.timer = IF Ready(r) > clock THEN Ready(r) ELSE clock + QueueWait]]
  /\ UNCHANGED <<mix, clock, policy, next, nextBackground, coolingUntil, streak, probing, history>>

Overdue(r, rq) == clock >= rq[r].at + QueueWait
(* canceled, queue_timeout or cooldown *)
Refused(r, rq) == rq[r].dead \/ Overdue(r, rq) \/ Cooling
May(r, q) == Turn(q, r) /\ Capacity(r) /\ clock >= Ready(r)

(* One turn of acquire's loop, under the mutex, with the queue and the     *)
(* requests as they are at its start.                                      *)
Attempt(r, q, rq) ==
  \/ Refused(r, rq) /\ Leave(r, q, rq)
  \/ ~Refused(r, rq) /\ May(r, q) /\ Start(r, q, rq)
  \/ ~Refused(r, rq) /\ ~May(r, q) /\ IsBackground(r) /\ Leave(r, q, rq)
  \/ ~Refused(r, rq) /\ ~May(r, q) /\ ~IsBackground(r) /\ Sleep(r, q, rq)

(* acquire: a reader joins the queue and wakes the others; background work never waits. *)
Acquire(r) ==
  /\ req[r].pc = "new" /\ clock + QueueWait <= Horizon
  /\ LET here == [req EXCEPT ![r] = [@ EXCEPT !.at = clock]] IN
     IF IsBackground(r) THEN Attempt(r, queue, here)
     ELSE IF Len(queue) >= QueueLimit THEN Leave(r, queue, here)
     ELSE Attempt(r, Append(queue, r), Notified(here))

(* The select while asleep, and what the loop then does. *)
Wake(r) ==
  /\ req[r].pc = "asleep"
  /\ req[r].notified \/ req[r].dead \/ clock >= req[r].timer
  /\ Attempt(r, queue, req)
Expire(r) ==
  /\ req[r].pc = "asleep" /\ Overdue(r, req)
  /\ Leave(r, queue, req)

CooldownOf(n) == Cooldowns[IF n > Len(Cooldowns) THEN Len(Cooldowns) ELSE n]

(* Mutant of Cools: the requests in flight when a cooldown began are not told apart. *)
CoolsOnAnySuccess(r, reply, wait) ==
  CASE reply = "refused" ->
         /\ streak' = streak + 1
         /\ coolingUntil' = Later(coolingUntil, clock + Later(CooldownOf(streak + 1), wait))
         /\ asked' = Later(asked, clock + wait)
    [] reply = "ok" -> streak' = 0 /\ coolingUntil' = Never /\ UNCHANGED asked
    [] OTHER -> UNCHANGED <<streak, coolingUntil, asked>>

(* What the reply does to the source: 403, 429 and 5xx cool it, for longer *)
(* every time or as the vendor asks; only the probe's success reopens it.  *)
Cools(r, reply, wait) ==
  CASE reply = "refused" ->
         /\ streak' = streak + 1
         /\ coolingUntil' = Later(coolingUntil, clock + Later(CooldownOf(streak + 1), wait))
         /\ asked' = Later(asked, clock + wait)
    [] reply = "ok" /\ req[r].probe -> streak' = 0 /\ coolingUntil' = Never /\ UNCHANGED asked
    [] OTHER -> UNCHANGED <<streak, coolingUntil, asked>>

(* Mutant of Finish: the slot is given back without a word to the sleepers. *)
FinishSilently(r, reply, wait) ==
  /\ req[r].pc = "flying" /\ (reply # "refused" => wait = 0)
  /\ Cools(r, reply, wait)
  /\ probing' = (probing /\ ~req[r].probe)
  /\ req' = [req EXCEPT ![r] = Done]
  /\ UNCHANGED <<mix, clock, policy, queue, next, nextBackground, lastStart, lastBackground>>

(* Mutant of Finish: a probe that gets no reply stays the probe. *)
FinishKeepsProbe(r, reply, wait) ==
  /\ req[r].pc = "flying" /\ (reply # "refused" => wait = 0)
  /\ Cools(r, reply, wait)
  /\ probing' = (probing /\ (~req[r].probe \/ reply = "other"))
  /\ req' = [Notified(req) EXCEPT ![r] = Done]
  /\ UNCHANGED <<mix, clock, policy, queue, next, nextBackground, lastStart, lastBackground>>

(* The function acquire returned, called once when the body is closed. *)
Finish(r, reply, wait) ==
  /\ req[r].pc = "flying" /\ (reply # "refused" => wait = 0)
  /\ Cools(r, reply, wait)
  /\ probing' = (probing /\ ~req[r].probe)
  /\ req' = [Notified(req) EXCEPT ![r] = Done]
  /\ UNCHANGED <<mix, clock, policy, queue, next, nextBackground, lastStart, lastBackground>>

(* The caller's context ends while it sleeps. *)
Cancel(r) ==
  /\ "cancel" \in mix.ops /\ req[r].pc = "asleep" /\ ~req[r].dead
  /\ req' = [req EXCEPT ![r] = [@ EXCEPT !.dead = TRUE]]
  /\ UNCHANGED <<mix, clock, policy, source, history>>

(* configure: the spacing that runs is the new policy's from here on. *)
Shifted(at, old, new) == IF at = Never THEN Never ELSE at - old + new
Configure(p) ==
  /\ "configure" \in mix.ops /\ p # policy /\ policy' = p
  /\ next' = Shifted(next, policy.every, p.every)
  /\ nextBackground' = Shifted(nextBackground, policy.background, p.background)
  /\ req' = Notified(req)
  /\ UNCHANGED <<mix, clock, queue, coolingUntil, streak, probing, history>>

(* vendorClient's timeout ends every flight. *)
Tick ==
  /\ clock < Horizon /\ \A r \in Flying : clock < req[r].timer + FlightMax
  /\ clock' = clock + 1
  /\ UNCHANGED <<mix, policy, source, req, history>>

\* "other": a 4xx that is no refusal, or no reply at all
Replies == {"ok", "refused", "other"}
Returns(r) == \E reply \in Replies, wait \in RetryAfters : Finish(r, reply, wait)
Next ==
  \/ Tick
  \/ \E p \in Policies : Configure(p)
  \/ \E r \in Requests : Acquire(r) \/ Wake(r) \/ Expire(r) \/ Returns(r) \/ Cancel(r)

Spec == Init /\ [][Next]_vars

(* Goroutines that can run do; flights end; time passes. *)
FairSpec ==
  /\ Spec /\ WF_vars(Tick)
  /\ \A r \in Requests : WF_vars(Wake(r) \/ Expire(r)) /\ WF_vars(Returns(r))

-----------------------------------------------------------------------------
TypeOK ==
  /\ mix \in Mixes /\ clock \in 0..Horizon /\ policy \in Policies
  /\ Range(queue) = In("asleep") /\ Len(queue) = Cardinality(In("asleep"))
  /\ streak \in 0..Cardinality(Requests) /\ probing \in BOOLEAN
  /\ \A r \in Requests : req[r].pc \in {"new", "asleep", "flying", "done"}

(* The vendor is never asked by more requests at a time than the ceiling   *)
(* allows, background work has one of them, and a source that is coming    *)
(* back sees the probe and nothing else: what was in flight when it cooled *)
(* has timed out before the cooldown is over.                              *)
SourceProtected ==
  /\ TypeOK
  /\ Len(queue) <= QueueLimit
  /\ inFlight <= Concurrency /\ backgroundInFlight <= 1
  /\ probing <=> \E r \in Flying : req[r].probe
  /\ \A r \in Flying : req[r].probe => Flying = {r}

(* No wake-up is lost: a sleeping reader that could start now has been     *)
(* told, or its timer has fired.  A waiter whose context ended still has   *)
(* to leave the queue, and tells the others when it does.                  *)
NoMissedWakeup ==
  \A r \in In("asleep") :
    ~Cooling /\ May(r, queue) /\ Alive(queue) = DOMAIN queue => req[r].notified \/ clock >= req[r].timer

Starts(r) == req[r].pc # "flying" /\ req'[r].pc = "flying"

(* A request starts only when the rate policy in force allows it, counted  *)
(* from the last start whatever the policy was then, and never before the  *)
(* moment the vendor told us to come back at.                              *)
StartsAsAllowed ==
  [][\A r \in Requests : Starts(r) =>
       /\ lastStart # Never => clock >= lastStart + policy.every
       /\ IsBackground(r) /\ lastBackground # Never => clock >= lastBackground + policy.background
       /\ clock >= asked]_vars

(* Nothing overtakes a reader that waits: display history only when no     *)
(* live view waits, background work only when nobody does.                 *)
ReadersFirst ==
  [][\A r \in Requests : Starts(r) =>
       \A k \in Alive(queue) : queue[k] = r \/ mix.prio[r] <= mix.prio[queue[k]]]_vars

(* Every request is sent and returns, or is turned away; a probe ends. *)
EveryRequestAnswered ==
  /\ \A r \in Requests : req[r].pc \in {"asleep", "flying"} ~> req[r].pc = "done"
  /\ probing ~> ~probing
=============================================================================
