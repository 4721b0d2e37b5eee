---------------------------- MODULE Notification ----------------------------
(***************************************************************************)
(* Operational notifications: a completed job is captured as one event     *)
(* with its deliveries, workers lease and send the deliveries, and         *)
(* administrators and account holders change what they are checked         *)
(* against meanwhile (notification_*.go).                                  *)
(*                                                                         *)
(* One step is one SQL statement or transaction, or one attempt on the     *)
(* network.  Instants are reduced to what the statements compare with the  *)
(* clock: whether a lease still lasts, whether a retry is due, whether a   *)
(* delivery has expired.  A lease token is drawn afresh by every claim and *)
(* a worker holds one claim at a time, so the worker stands for its token. *)
(***************************************************************************)
EXTENDS Integers, FiniteSets

CONSTANTS
    Occurrences,   \* completions of a job (one per completion token), in the
                   \* order of (generation, source_key): not that of time
    Channels,      \* notification_channels
    Fanout,        \* the targets an occurrence may be captured for
    Workers,       \* goroutines that run processNotificationOnce
    MaxAttempts,   \* 5, or 3 for legacy webhooks and Slack
    Capacity,      \* live deliveries the queue accepts (10000)
    ChannelCapacity, \* of one channel (1000)
    Generations,   \* bound: replays of one delivery
    Modes          \* bound: which requests and faults a behaviour draws from
                   \* and how many, its targets, its workers and its jobs

\* A target of an occurrence: its channel, whether it is addressed to the
\* account that submitted the job, and whether a routing rule selected it.  One
\* that is neither is a webhook of the old kind.
Targets == [ch : Channels, personal : BOOLEAN, routed : BOOLEAN]

\* Requests and faults.
Ops == {"account", "channel", "route", "dispatch", "review", "replay", "test", "job",
        "cleanup", "settings", "panic", "crash"}

ASSUME NotificationAssumption ==
    /\ Fanout \subseteq Targets
    /\ IsFiniteSet(Fanout) /\ IsFiniteSet(Occurrences) /\ Occurrences # {}
    /\ Occurrences \subseteq Nat
    /\ MaxAttempts \in Nat \ {0}
    /\ Capacity \in Nat /\ ChannelCapacity \in Nat
    /\ Generations \in Nat
    /\ Modes \subseteq [ops : SUBSET Ops, max : Nat, fan : SUBSET Fanout, crew : SUBSET Workers,
                 jobs : SUBSET Occurrences]
    /\ "tester" \notin Workers

\* UNIQUE(event_id, channel_id, route_id, username, generation)
Deliveries == [occ : Occurrences, to : Fanout, gen : 0..Generations]

\* The row of a manual channel test.
TestRow(c) == [test |-> c]
Rows == Deliveries \cup {TestRow(c) : c \in Channels}

ChannelOf(d) == IF d \in Deliveries THEN d.to.ch ELSE d.test
Personal(d) == d \in Deliveries /\ d.to.personal
Routed(d) == d \in Deliveries /\ d.to.routed

Senders == Workers \cup {"tester"}
Capturers == {"done", "recover"}   \* notifyJobDone; recoverJobNotifications

Live == {"pending", "leased", "retry_wait"}
Closed == {"accepted", "failed", "uncertain", "canceled", "expired"}

VARIABLES
    row,       \* notification_deliveries: state, last_error where it is told
               \* apart, sending, attempts, revisions captured, the lease
    chan,      \* notification_channels
    route,     \* the routing rule
    acct,      \* the account of the submitter; gen is its deletion cursor
    consent,   \* job_notification_intents holds an unconsumed row
    src,       \* the completion evidence of an occurrence
    events,    \* occurrences with a row in notification_events
    inbox,     \* notification_recipients: occurrences in the submitter's inbox
    paused,    \* notification_dispatch_paused
    snd,       \* locals of a worker, or of a test request
    capt,      \* locals of captureJobNotifications
    got,       \* history: how often the destination received a row's message,
               \* and the answer was an acceptance or did not come
    denied,    \* history: how often it received it, and the answer was an error
    broken,    \* what targets are resolved from is in error
    confirmed, \* history: replays the administrator confirmed as duplicates
    mode,      \* the mode of this behaviour
    left       \* requests and faults it may still see

store == <<row, chan, route, acct, consent, src, events, inbox, paused>>
vars == <<row, chan, route, acct, consent, src, events, inbox, paused,
          snd, capt, got, denied, confirmed, broken, mode, left>>

NoRow == [st |-> "none", why |-> "", sending |-> FALSE, attempts |-> 0,
          chRev |-> 0, rtRev |-> 0,
          token |-> "", fresh |-> FALSE, due |-> FALSE, old |-> FALSE]
Idle == [pc |-> "idle", d |-> CHOOSE d \in Rows : TRUE, out |-> ""]

\* The holder of the name when the job was submitted.
OwnerGeneration == 0
OwnerIsThere == acct.exists /\ acct.gen = OwnerGeneration

-----------------------------------------------------------------------------
(* Reads *)

\* notificationMayRead for a job: the account is active, is the one that
\* submitted the job, and the job is still there.
MayRead(o) == /\ OwnerIsThere /\ acct.active
              /\ src[o] # "cleared"

LiveRows(r) == {d \in Rows : r[d].st \in Live}
LiveOn(c) == {d \in LiveRows(row) : ChannelOf(d) = c}
NoLeaseOn(c) == \A d \in Rows : row[d].st = "leased" => ChannelOf(d) # c

\* What finishes without a token: FinishNotification and
\* BeginNotificationAttempt are conditional on all of this.
HoldsLease(w) == LET r == row[snd[w].d] IN
    r.st = "leased" /\ r.token = w /\ r.fresh

-----------------------------------------------------------------------------
(* Occurrence and capture *)

\* recordJobNotificationOccurrence, in the transaction that closes the job.
Complete(o) ==
    /\ src[o] = "none" /\ o \in mode.jobs
    /\ src' = [src EXCEPT ![o] = "pending"]
    /\ UNCHANGED <<row, chan, route, acct, consent, events, inbox, paused, snd,
                   capt, got, denied, confirmed, broken, mode, left>>

NoCapture == [pc |-> "idle", occ |-> CHOOSE o \in Occurrences : TRUE, todo |-> {}, to |-> {},
              chRev |-> [x \in Channels |-> 0], rtRev |-> 0]

\* What is left of a sweep.
Rest(todo) == IF todo = {} THEN NoCapture
              ELSE [NoCapture EXCEPT !.pc = "sweep", !.todo = todo]

\* captureJobNotifications reads the pending evidence: every 15 s all of it, up
\* to 100 (no bound here), or that of the job that just ended.
ReadEvidence(c) == LET pending == {o \in Occurrences : src[o] = "pending"} IN
    /\ capt[c].pc = "idle" /\ pending # {}
    /\ \E todo \in IF c = "recover" THEN {pending} ELSE {{o} : o \in pending} :
          capt' = [capt EXCEPT ![c] = Rest(todo)]
    /\ UNCHANGED <<store, snd, got, denied, confirmed, broken, mode, left>>

\* routeNotification, legacyNotificationDeliveries and the submitter's mail for
\* target t.  Only a rule passes over a disabled channel, and it keeps who may
\* read the resource; the mail is always addressed, a webhook while it is on.
Selected(o, t) ==
    /\ t.routed => /\ route.exists /\ route.enabled
                   /\ t.personal => MayRead(o)
    /\ t.routed \/ ~t.personal => chan[t.ch].exists /\ chan[t.ch].enabled

\* The targets of the sweep's next occurrence, with the revisions of the moment.
\* What cannot be resolved ends the sweep, for those behind it too.
Route(c) ==
    /\ capt[c].pc = "sweep"
    /\ \/ broken /\ capt' = [capt EXCEPT ![c] = NoCapture]
       \/ \E o \in capt[c].todo :
             /\ \A p \in capt[c].todo : o <= p
             /\ capt' = [capt EXCEPT ![c] =
                    [pc |-> "routed", occ |-> o, todo |-> capt[c].todo \ {o},
                     to |-> {t \in mode.fan : Selected(o, t)},
                     chRev |-> [x \in Channels |-> chan[x].rev],
                     rtRev |-> route.rev]]
    /\ UNCHANGED <<store, snd, got, denied, confirmed, broken, mode, left>>

\* Candidates that survive the transaction's own checks: an unrouted personal
\* delivery needs unconsumed consent, and any personal one needs the account
\* that was chosen, active and of the same generation.
Eligible == OwnerIsThere /\ acct.active
\* Mutant: any account of the name will do.
KeptAnyHolder(ts) == {t \in ts : t.personal => acct.exists /\ acct.active /\ (t.routed \/ consent)}
Kept(ts) == {t \in ts : t.personal => Eligible /\ (t.routed \/ consent)}

\* Mutant: an occurrence without a recipient is passed over.
CaptureRecipients(c) == LET k == capt[c] IN
    /\ k.pc = "routed"
    /\ capt' = [capt EXCEPT ![c] = Rest(k.todo)]
    /\ IF src[k.occ] # "pending" \/ k.occ \in events \/ Kept(k.to) = {}
       THEN UNCHANGED store
       ELSE /\ events' = events \cup {k.occ}
            /\ src' = [src EXCEPT ![k.occ] = "captured"]
            /\ UNCHANGED <<row, inbox, consent, chan, route, acct, paused>>
    /\ UNCHANGED <<snd, got, denied, confirmed, broken, mode, left>>

\* The queue, or a channel's share of it, has no room for the deliveries.
Full(ts) ==
    \/ Cardinality(LiveRows(row))
         + Cardinality({t \in ts : t.personal => t.routed \/ consent}) > Capacity
    \/ \E t \in Kept(ts) :
          Cardinality(LiveOn(t.ch)) + Cardinality({u \in Kept(ts) : u.ch = t.ch}) > ChannelCapacity

\* The transaction of captureNotification.  Evidence that is gone, or an event
\* that exists, is passed over; a full queue ends the sweep.
Capture(c) == LET k == capt[c]
                  done == src[k.occ] # "pending" \/ k.occ \in events IN
    /\ k.pc = "routed"
    /\ capt' = [capt EXCEPT ![c] = IF ~done /\ Full(k.to) THEN NoCapture ELSE Rest(k.todo)]
    /\ IF done \/ Full(k.to)
       THEN UNCHANGED store
       ELSE /\ events' = events \cup {k.occ}
            /\ row' = [d \in Rows |->
                  IF d \in Deliveries /\ d.occ = k.occ /\ d.gen = 0 /\ d.to \in Kept(k.to)
                  THEN [NoRow EXCEPT !.st = "pending", !.due = TRUE,
                                     !.chRev = k.chRev[d.to.ch],
                                     !.rtRev = IF d.to.routed THEN k.rtRev ELSE 0]
                  ELSE row[d]]
            /\ inbox' = IF consent /\ Eligible
                        THEN inbox \cup {k.occ} ELSE inbox
            /\ consent' = FALSE
            /\ src' = [src EXCEPT ![k.occ] = "captured"]
            /\ UNCHANGED <<chan, route, acct, paused>>
    /\ UNCHANGED <<snd, got, denied, confirmed, broken, mode, left>>

-----------------------------------------------------------------------------
(* A worker: processNotificationOnce *)

SetSender(w, s) == snd' = [snd EXCEPT ![w] = s]
To(w, pc) == SetSender(w, [snd[w] EXCEPT !.pc = pc])
Outcome(w, st) == SetSender(w, [snd[w] EXCEPT !.pc = "finish", !.out = st])

ClaimNotification(w) == \E d \in Rows :
    /\ snd[w].pc = "idle"
    /\ ~paused
    /\ row[d].st \in {"pending", "retry_wait"}
    /\ row[d].due /\ ~row[d].old
    /\ NoLeaseOn(ChannelOf(d))
    /\ row' = [row EXCEPT ![d].st = "leased", ![d].token = w, ![d].fresh = TRUE]
    /\ SetSender(w, [pc |-> "claimed", d |-> d, out |-> ""])
    /\ UNCHANGED <<chan, route, acct, consent, src, events, inbox, paused, capt,
                   got, denied, confirmed, broken, mode, left>>

\* The channel, the dispatch switch and the destination's revision; a channel
\* that cannot be resolved closes the delivery.
CheckChannel(w) == LET d == snd[w].d
                       c == chan[ChannelOf(d)] IN
    /\ snd[w].pc = "claimed" /\ w \in Workers
    /\ \/ ~c.exists /\ Outcome(w, "canceled")
       \/ c.exists /\ paused /\ Outcome(w, "retry_wait")
       \/ c.exists /\ ~paused /\ ~c.enabled /\ Outcome(w, "canceled")
       \/ c.exists /\ ~paused /\ c.enabled /\ c.paused /\ Outcome(w, "retry_later")
       \/ /\ c.exists /\ ~paused /\ c.enabled /\ ~c.paused
          /\ \/ broken /\ Outcome(w, "canceled")
             \/ IF c.rev # row[d].chRev THEN Outcome(w, "canceled") ELSE To(w, "channelOk")
    /\ UNCHANGED <<store, capt, got, denied, confirmed, broken, mode, left>>

\* The event, the rule, and the recipient's access; a worker that is being
\* stopped puts the delivery back.
CheckRecipient(w) == LET d == snd[w].d IN
    /\ snd[w].pc = "channelOk"
    /\ IF \/ d.occ \notin events
          \/ Routed(d) /\ ~(route.exists /\ route.enabled /\ route.rev = row[d].rtRev)
          \/ Personal(d) /\ ~MayRead(d.occ)
       THEN Outcome(w, "canceled")
       ELSE To(w, "ready") \/ Outcome(w, "retry_wait")
    /\ UNCHANGED <<store, capt, got, denied, confirmed, broken, mode, left>>

BeginNotificationAttempt(w) == LET d == snd[w].d IN
    /\ snd[w].pc = "ready"
    /\ IF HoldsLease(w) /\ ~row[d].sending
       THEN /\ row' = [row EXCEPT ![d].sending = TRUE, ![d].attempts = @ + 1]
            /\ To(w, "sending")
       ELSE SetSender(w, Idle) /\ UNCHANGED row
    /\ UNCHANGED <<chan, route, acct, consent, src, events, inbox, paused, capt,
                   got, denied, confirmed, broken, mode, left>>

\* attemptNotification and AttemptHTTP: one attempt, at most once on the wire.
\* A 2xx is an acceptance; an error after the request was written is uncertain
\* whether or not it arrived; an error before, a 429 or a 5xx may be retried;
\* anything else is final.  `received` is what the destination did (external):
\* it may have taken the message although the answer is an error, its own or
\* that of a proxy before it.
Attempts == [out : {"uncertain", "retryable", "rejected"}, received : BOOLEAN]
            \cup {[out |-> "accepted", received |-> TRUE]}

\* The state an attempt ends in.  Tests are not retried.
StateAfter(w, a) == LET d == snd[w].d IN
    IF a.out \in {"accepted", "uncertain"} THEN a.out
    ELSE IF a.out = "retryable" /\ w # "tester" /\ row[d].attempts < MaxAttempts
         THEN "retry_later" ELSE "failed"

Attempt(w) == \E a \in Attempts :
    /\ snd[w].pc = "sending"
    /\ Outcome(w, StateAfter(w, a))
    /\ LET error == a.out \in {"retryable", "rejected"} IN
       /\ got' = [got EXCEPT ![snd[w].d] = @ + IF a.received /\ ~error THEN 1 ELSE 0]
       /\ denied' = [denied EXCEPT ![snd[w].d] = @ + IF a.received /\ error THEN 1 ELSE 0]
    /\ UNCHANGED <<store, capt, confirmed, broken, mode, left>>

\* Mutant: the row is closed by its id alone.
FinishNotificationById(w) ==
    /\ snd[w].pc = "finish"
    /\ SetSender(w, Idle)
    /\ row' = [row EXCEPT ![snd[w].d].st = IF snd[w].out = "retry_later"
                                          THEN "retry_wait" ELSE snd[w].out,
                          ![snd[w].d].sending = FALSE]
    /\ UNCHANGED <<chan, route, acct, consent, src, events, inbox, paused, capt,
                   got, denied, confirmed, broken, mode, left>>

\* FinishNotification: nothing happens unless the lease is still held.
FinishNotification(w) == LET d == snd[w].d IN
    /\ snd[w].pc = "finish"
    /\ SetSender(w, Idle)
    /\ row' = IF ~HoldsLease(w) THEN row
              ELSE [row EXCEPT ![d].st = IF snd[w].out = "retry_later"
                                         THEN "retry_wait" ELSE snd[w].out,
                               ![d].why = "",
                               ![d].due = IF snd[w].out = "retry_later" THEN FALSE ELSE @,
                               ![d].sending = FALSE, ![d].token = "", ![d].fresh = FALSE]
    /\ UNCHANGED <<chan, route, acct, consent, src, events, inbox, paused, capt,
                   got, denied, confirmed, broken, mode, left>>

\* A panic is recovered per unit of work; the row stays as it is.
Panic(w) ==
    /\ "panic" \in mode.ops /\ left > 0 /\ left' = left - 1
    /\ snd[w].pc # "idle"
    /\ SetSender(w, Idle)
    /\ UNCHANGED <<store, capt, got, denied, confirmed, broken, mode>>

\* Mutants: every lost lease is put back in the queue; nothing expires.
RecoveredForRetry(r) ==
    LET o == IF r.st = "leased" /\ ~r.fresh
             THEN [r EXCEPT !.st = "pending", !.token = "", !.sending = FALSE] ELSE r IN
    IF o.st \in {"pending", "retry_wait"} /\ o.old THEN [o EXCEPT !.st = "expired"] ELSE o
RecoveredForEver(r) ==
    IF r.st = "leased" /\ ~r.fresh
    THEN [r EXCEPT !.st = IF r.sending THEN "uncertain" ELSE "pending",
                   !.token = "", !.sending = FALSE] ELSE r

\* RecoverNotificationLeases, every 15 s.
Recovered(r) == LET o == IF r.st = "leased" /\ ~r.fresh
                         THEN [r EXCEPT !.st = IF r.sending THEN "uncertain" ELSE "pending",
                                        !.why = "", !.token = "", !.sending = FALSE]
                         ELSE r IN
    IF o.st \in {"pending", "retry_wait"} /\ o.old THEN [o EXCEPT !.st = "expired"] ELSE o

RecoverNotificationLeases ==
    /\ row' = [d \in Rows |-> Recovered(row[d])]
    /\ row' # row
    /\ UNCHANGED <<chan, route, acct, consent, src, events, inbox, paused, snd,
                   capt, got, denied, confirmed, broken, mode, left>>

-----------------------------------------------------------------------------
(* Time *)

\* The clock passes the end of a lease, the instant of a retry, or the time
\* after which a delivery is no longer sent.
Tick(d, can, flag, value) ==
    /\ can
    /\ row' = [row EXCEPT ![d] = [f \in DOMAIN row[d] |-> IF f = flag THEN value ELSE row[d][f]]]
    /\ UNCHANGED <<chan, route, acct, consent, src, events, inbox, paused, snd,
                   capt, got, denied, confirmed, broken, mode, left>>

LeaseRunsOut(d) == Tick(d, row[d].st = "leased" /\ row[d].fresh, "fresh", FALSE)
RetryComesDue(d) == Tick(d, row[d].st = "retry_wait" /\ ~row[d].due, "due", TRUE)
Expires(d) == Tick(d, row[d].st \in Live /\ ~row[d].old, "old", TRUE)

-----------------------------------------------------------------------------
(* Requests *)

Request(op) == op \in mode.ops /\ left > 0 /\ left' = left - 1

\* Mutants: what may have been sent is closed as canceled; a leased row is left
\* for its worker to close.
RevokeAsCanceled(S, why) == [d \in Rows |->
    IF d \in S /\ row[d].st \in Live
    THEN [row[d] EXCEPT !.st = "canceled", !.why = why, !.token = "", !.fresh = FALSE,
                        !.sending = FALSE]
    ELSE row[d]]
RevokeQueued(S, why) == [d \in Rows |->
    IF d \in S /\ row[d].st \in {"pending", "retry_wait"}
    THEN [row[d] EXCEPT !.st = "canceled", !.why = why] ELSE row[d]]

\* revokeNotificationWork, and the same statement in DeleteUser: live rows
\* close, what may have been sent as uncertain, and the token is taken away.
Revoke(S, why) == [d \in Rows |->
    IF d \in S /\ row[d].st \in Live
    THEN [row[d] EXCEPT !.st = IF row[d].st = "leased" /\ row[d].sending
                               THEN "uncertain" ELSE "canceled",
                        !.why = why, !.token = "", !.fresh = FALSE, !.sending = FALSE]
    ELSE row[d]]

\* DeleteUser, the statements that touch notifications: closed rows too are
\* marked, so that they cannot be replayed to the next holder of the name.
DeleteUser ==
    /\ Request("account") /\ acct.exists
    /\ acct' = [acct EXCEPT !.exists = FALSE, !.gen = @ + 1]
    /\ LET swept == Revoke({d \in Rows : Personal(d)}, "account_deleted") IN
       row' = [d \in Rows |-> IF Personal(d) /\ swept[d].st # "none"
                              THEN [swept[d] EXCEPT !.why = "account_deleted"] ELSE swept[d]]
    /\ inbox' = {}
    /\ consent' = FALSE
    /\ UNCHANGED <<chan, route, src, events, paused, snd, capt, got, denied, confirmed, broken, mode>>

\* The name is registered again, or the account is switched off or on.
ChangeAccount ==
    /\ Request("account")
    /\ \/ ~acct.exists /\ acct' = [acct EXCEPT !.exists = TRUE, !.active = TRUE]
       \/ acct.exists /\ acct' = [acct EXCEPT !.active = ~@]
    /\ UNCHANGED <<row, chan, route, consent, src, events, inbox, paused, snd,
                   capt, got, denied, confirmed, broken, mode>>

\* apiNotificationChannelSave: pausing keeps the revision deliveries were
\* captured with; a changed destination or switch does not.
SaveChannel(c) ==
    /\ Request("channel") /\ chan[c].exists
    /\ \/ chan' = [chan EXCEPT ![c].paused = ~@]
       \/ chan' = [chan EXCEPT ![c].enabled = ~@, ![c].rev = @ + 1]
       \/ chan' = [chan EXCEPT ![c].rev = @ + 1]
    /\ UNCHANGED <<row, route, acct, consent, src, events, inbox, paused, snd,
                   capt, got, denied, confirmed, broken, mode>>

\* apiNotificationChannelDelete, deleteWebhookAndNotifications: with its rules.
\* The channel of the submitter's mail cannot be deleted.
DeleteChannel(c) ==
    /\ Request("channel") /\ chan[c].exists
    /\ \A t \in mode.fan : t.personal /\ ~t.routed => t.ch # c
    /\ row' = Revoke({d \in Rows : ChannelOf(d) = c}, "")
    /\ chan' = [chan EXCEPT ![c].exists = FALSE]
    /\ route' = IF route.ch = c THEN [route EXCEPT !.exists = FALSE] ELSE route
    /\ UNCHANGED <<acct, consent, src, events, inbox, paused, snd, capt, got, denied,
                   confirmed, broken, mode>>

\* SaveNotificationRoute on an existing rule.
SaveRoute ==
    /\ Request("route") /\ route.exists
    /\ \E on \in BOOLEAN : route' = [route EXCEPT !.enabled = on, !.rev = @ + 1]
    /\ UNCHANGED <<row, chan, acct, consent, src, events, inbox, paused, snd,
                   capt, got, denied, confirmed, broken, mode>>

\* apiNotificationRouteDelete.
DeleteRoute ==
    /\ Request("route") /\ route.exists
    /\ row' = Revoke({d \in Rows : Routed(d)}, "")
    /\ route' = [route EXCEPT !.exists = FALSE]
    /\ UNCHANGED <<chan, acct, consent, src, events, inbox, paused, snd, capt,
                   got, denied, confirmed, broken, mode>>

\* apiNotificationDispatch.  Resuming needs the token of the queue as it is:
\* the review is taken to happen in the same instant.
SwitchDispatch ==
    /\ Request("dispatch")
    /\ paused' = ~paused
    /\ UNCHANGED <<row, chan, route, acct, consent, src, events, inbox, snd, capt,
                   got, denied, confirmed, broken, mode>>

\* A webhook, channel or rule is changed so that targets can no longer be
\* resolved, or so that they can: a rule names a webhook that is switched off, a
\* destination cannot be decrypted, a strategy does not fit its channel, or
\* rules, accounts or recipients pass their limits (100, 10000, 1000).
ChangeSettings ==
    /\ Request("settings")
    /\ broken' = ~broken
    /\ UNCHANGED <<store, snd, capt, got, denied, confirmed, mode>>

\* apiNotificationReview: an administrator dismisses an uncertain delivery.
Review(d) ==
    /\ Request("review") /\ row[d].st = "uncertain"
    /\ row' = [row EXCEPT ![d].st = "canceled",
                          ![d].why = IF @ = "account_deleted" THEN @ ELSE "reviewed_uncertain"]
    /\ UNCHANGED <<chan, route, acct, consent, src, events, inbox, paused, snd,
                   capt, got, denied, confirmed, broken, mode>>

\* apiNotificationReplay and ReplayNotification.  The request names the
\* revisions it saw, so the destination's revision cannot have moved.
Replayable(d, confirm) ==
    /\ row[d].st \in Closed
    /\ row[d].why # "account_deleted"
    /\ row[d].why = "reviewed_uncertain" \/ row[d].st \in {"accepted", "uncertain"} => confirm
    /\ chan[d.to.ch].exists /\ chan[d.to.ch].enabled
    /\ Routed(d) => route.exists /\ route.enabled
    /\ Personal(d) => MayRead(d.occ)
    /\ Cardinality(LiveRows(row)) < Capacity /\ Cardinality(LiveOn(d.to.ch)) < ChannelCapacity
    /\ d.occ \in events

\* COALESCE(MAX(generation),0)+1 over the family of d.
NextGeneration(d) == CHOOSE e \in Deliveries :
    /\ e.occ = d.occ /\ e.to = d.to
    /\ row[e].st = "none"
    /\ \A f \in Deliveries : f.occ = d.occ /\ f.to = d.to /\ row[f].st # "none" => f.gen < e.gen
    /\ \A f \in Deliveries : f.occ = d.occ /\ f.to = d.to /\ row[f].st = "none" /\ f.gen < e.gen
           => \E g \in Deliveries : g.occ = d.occ /\ g.to = d.to /\ row[g].st # "none" /\ g.gen > f.gen

ReplayNotification(d, confirm) ==
    /\ Request("replay")
    /\ Replayable(d, confirm)
    /\ row[[d EXCEPT !.gen = Generations]].st = "none"
    /\ LET new == NextGeneration(d) IN
       /\ row' = [row EXCEPT ![new] = [NoRow EXCEPT !.st = "pending", !.due = TRUE,
                     !.chRev = chan[d.to.ch].rev,
                     !.rtRev = IF d.to.routed THEN route.rev ELSE 0]]
       /\ confirmed' = IF confirm THEN confirmed \cup {new} ELSE confirmed
    /\ UNCHANGED <<chan, route, acct, consent, src, events, inbox, paused, snd,
                   capt, got, denied, broken, mode>>

\* apiNotificationChannelTest and beginNotificationTest: a row that is born
\* leased and sending, refused while the channel has a lease.
BeginTest(c) ==
    /\ Request("test")
    /\ snd["tester"].pc = "idle"
    /\ chan[c].exists /\ chan[c].enabled
    /\ NoLeaseOn(c)
    /\ Cardinality(LiveRows(row)) < Capacity /\ Cardinality(LiveOn(c)) < ChannelCapacity
    /\ row' = [row EXCEPT ![TestRow(c)] = [NoRow EXCEPT !.st = "leased", !.sending = TRUE,
                  !.attempts = 1, !.chRev = chan[c].rev, !.token = "tester", !.fresh = TRUE]]
    /\ got' = [got EXCEPT ![TestRow(c)] = 0]
    /\ denied' = [denied EXCEPT ![TestRow(c)] = 0]
    /\ SetSender("tester", [pc |-> "sending", d |-> TestRow(c), out |-> ""])
    /\ UNCHANGED <<chan, route, acct, consent, src, events, inbox, paused, capt,
                   confirmed, broken, mode>>

\* clearJobNotificationEvidence, in the transaction that deletes the job.
ClearEvidence(o) ==
    /\ Request("job") /\ src[o] \in {"pending", "captured"}
    /\ src' = [src EXCEPT ![o] = "cleared"]
    /\ consent' = FALSE
    /\ UNCHANGED <<row, chan, route, acct, events, inbox, paused, snd, capt, got, denied,
                   confirmed, broken, mode>>

\* CleanupNotifications: the closed family of an event, when every member is
\* old; the event stays as evidence against a second capture.
Cleanup(o) == LET family == {d \in Deliveries : d.occ = o} IN
    /\ Request("cleanup") /\ ~paused
    /\ o \in events
    /\ \A d \in family : row[d].st \notin Live \cup {"uncertain"}
    /\ row' = [d \in Rows |-> IF d \in family THEN NoRow ELSE row[d]]
    /\ inbox' = inbox \ {o}
    /\ UNCHANGED <<chan, route, acct, consent, src, events, paused, snd, capt,
                   got, denied, confirmed, broken, mode>>

\* The process dies: goroutines are gone, rows stay.
Crash ==
    /\ Request("crash")
    /\ snd' = [w \in Senders |-> Idle]
    /\ capt' = [c \in Capturers |-> NoCapture]
    /\ UNCHANGED <<store, got, denied, confirmed, broken, mode>>

-----------------------------------------------------------------------------
Init ==
    /\ row = [d \in Rows |-> NoRow]
    /\ chan = [c \in Channels |-> [exists |-> TRUE, enabled |-> TRUE, paused |-> FALSE, rev |-> 1]]
    /\ route \in [exists : {TRUE}, enabled : {TRUE}, rev : {1}, ch : Channels]
    /\ \A t \in Fanout : t.routed => t.ch = route.ch
    /\ acct = [exists |-> TRUE, active |-> TRUE, gen |-> OwnerGeneration]
    /\ consent \in BOOLEAN
    /\ src = [o \in Occurrences |-> "none"]
    /\ events = {}
    /\ inbox = {}
    /\ paused = FALSE
    /\ snd = [w \in Senders |-> Idle]
    /\ capt = [c \in Capturers |-> NoCapture]
    /\ got = [d \in Rows |-> 0]
    /\ denied = [d \in Rows |-> 0]
    /\ broken = FALSE
    /\ confirmed = {}
    /\ mode \in Modes
    /\ left = mode.max

Work(w) == \/ ClaimNotification(w) \/ CheckChannel(w) \/ CheckRecipient(w)
           \/ BeginNotificationAttempt(w)

Next ==
    \/ \E o \in Occurrences : Complete(o) \/ ClearEvidence(o) \/ Cleanup(o)
    \/ \E c \in Capturers : ReadEvidence(c) \/ Route(c) \/ Capture(c)
    \/ \E w \in mode.crew : Work(w) \/ Panic(w)
    \/ \E w \in Senders : Attempt(w) \/ FinishNotification(w)
    \/ RecoverNotificationLeases
    \/ \E d \in Rows : LeaseRunsOut(d) \/ RetryComesDue(d) \/ Expires(d)
    \/ DeleteUser \/ ChangeAccount
    \/ \E c \in Channels : SaveChannel(c) \/ DeleteChannel(c) \/ BeginTest(c)
    \/ SaveRoute \/ DeleteRoute \/ SwitchDispatch \/ ChangeSettings
    \/ \E d \in Rows : Review(d)
    \/ \E d \in Deliveries, confirm \in BOOLEAN : ReplayNotification(d, confirm)
    \/ Crash

Fairness ==
    /\ WF_vars(RecoverNotificationLeases)
    /\ \A d \in Rows : WF_vars(LeaseRunsOut(d)) /\ WF_vars(Expires(d))
    /\ WF_vars(ReadEvidence("recover")) /\ WF_vars(Route("recover")) /\ WF_vars(Capture("recover"))

Spec == Init /\ [][Next]_vars /\ Fairness

-----------------------------------------------------------------------------
(* Properties *)

TypeOK ==
    /\ row \in [Rows -> [st : {"none"} \cup Live \cup Closed,
                         why : {"", "account_deleted", "reviewed_uncertain"},
                         sending : BOOLEAN, attempts : 0..MaxAttempts,
                         chRev : Nat, rtRev : Nat,
                         token : Senders \cup {""}, fresh : BOOLEAN, due : BOOLEAN,
                         old : BOOLEAN]]
    /\ chan \in [Channels -> [exists : BOOLEAN, enabled : BOOLEAN, paused : BOOLEAN, rev : Nat]]
    /\ route \in [exists : BOOLEAN, enabled : BOOLEAN, rev : Nat, ch : Channels]
    /\ acct \in [exists : BOOLEAN, active : BOOLEAN, gen : Nat]
    /\ consent \in BOOLEAN /\ paused \in BOOLEAN
    /\ src \in [Occurrences -> {"none", "pending", "captured", "cleared"}]
    /\ events \subseteq Occurrences
    /\ inbox \subseteq Occurrences
    /\ snd \in [Senders -> [pc : {"idle", "claimed", "channelOk", "ready", "sending", "finish"},
                            d : Rows,
                            out : {"", "retry_later", "retry_wait"} \cup Closed]]
    /\ capt \in [Capturers -> [pc : {"idle", "sweep", "routed"}, occ : Occurrences,
                               todo : SUBSET Occurrences, to : SUBSET Fanout,
                               chRev : [Channels -> Nat], rtRev : Nat]]
    /\ got \in [Rows -> Nat] /\ denied \in [Rows -> Nat]
    /\ broken \in BOOLEAN
    /\ mode \in Modes /\ left \in Nat
    /\ confirmed \subseteq Deliveries

\* Whatever workers panic, leases run out, accounts and channels disappear and
\* processes die, the destination receives the message of one delivery at most
\* once, apart from attempts whose answer was an error; with those it receives
\* it at most as often as attempts are allowed.  Two workers are never on the
\* wire with it: the sending flag and the token of the lease are what this
\* rests on.
AtMostOnce ==
    \A d \in Rows :
       /\ got[d] <= 1
       /\ got[d] + denied[d] <= MaxAttempts
       /\ \A w, v \in {x \in Senders : snd[x].pc = "sending" /\ snd[x].d = d} : w = v

\* The state of a delivery tells the administrator the truth, which is what
\* ReplayNotification trusts: failed, expired, canceled and waiting mean that
\* nobody is still sending and that the destination took the message, if at
\* all, only in attempts whose answer was an error; accepted means that it did.
\* Only "uncertain", and what was reviewed or belonged to a deleted account,
\* leaves it open.
RecordTellsTruth ==
    /\ \A d \in Deliveries : row[d].st = "accepted" => got[d] = 1
    /\ \A d \in {e \in Deliveries : /\ row[e].why = ""
                                    /\ row[e].st \in {"failed", "expired", "canceled",
                                                     "pending", "retry_wait"}} :
          got[d] = 0 /\ \A w \in Senders : snd[w].pc = "sending" => snd[w].d # d

\* A channel has one leased delivery at a time, counting manual tests.
OneLeasePerChannel ==
    \A d, e \in {x \in Rows : row[x].st = "leased"} : ChannelOf(d) = ChannelOf(e) => d = e

\* What the delivery table promises the administrator who decides on a replay:
\* no attempt repeated that was not answered with an error, each recorded
\* truthfully, one message on the wire per channel.
DeliverySound == TypeOK /\ AtMostOnce /\ RecordTellsTruth /\ OneLeasePerChannel

\* Nothing addressed to an account reaches the next holder of its name: live
\* personal deliveries and inbox rows belong to the account that now exists,
\* also when the account was deleted and registered again between the choice
\* of the recipients and the capture.
NotInherited ==
    (\E d \in Rows : Personal(d) /\ row[d].st \in Live) \/ inbox # {} => OwnerIsThere

\* An attempt starts only while the channel, the rule and the account it is for
\* still exist: deleting any of them takes the lease from a worker that has
\* already checked.
NoAttemptAfterDeletion ==
    [][\A w \in Workers : snd[w].pc = "ready" /\ snd'[w].pc = "sending" =>
          LET d == snd[w].d IN
          /\ chan[ChannelOf(d)].exists
          /\ Routed(d) => route.exists
          /\ Personal(d) => OwnerIsThere]_vars

\* A worker that lost its lease never writes over what happened since: a closed
\* delivery keeps its state, except that an administrator dismisses an
\* uncertain one and retention removes it.
ClosedStaysClosed ==
    [][\A d \in Deliveries : row[d].st \in Closed /\ row'[d].st # row[d].st =>
          \/ row'[d].st = "none"
          \/ row[d].st = "uncertain" /\ row'[d].st = "canceled"]_vars

\* A deletion is final for the workers that are under way.
WorkersObeyDeletion == NoAttemptAfterDeletion /\ ClosedStaysClosed

\* Every delivery is settled in the end, also under a paused channel, a paused
\* dispatch or workers that never come back: its lease ends and it expires.
EveryDeliverySettles ==
    \A d \in Deliveries : row[d].st \in Live ~> row[d].st \notin Live

\* Completion evidence is captured in the end, or cleared with its job, although
\* an occurrence that does not fit the queue or cannot be resolved holds up those
\* behind it, provided the settings are repaired for good.
EveryCompletionCaptured ==
    <>[]~broken => \A o \in Occurrences : src[o] = "pending" ~> src[o] # "pending"
=============================================================================
