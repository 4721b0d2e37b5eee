------------------------- MODULE NotificationProofs -------------------------
(***************************************************************************)
(* Theorems of the notification deliveries, for every set of occurrences,  *)
(* channels, targets and workers, every mix of requests and faults, and    *)
(* any number of them.                                                     *)
(***************************************************************************)
EXTENDS Notification, SumLemmas, TLAPS

(* The row of the worker's claim is still leased to it, whether or not the *)
(* lease has run out meanwhile.                                            *)
Leased(w) == row[snd[w].d].st = "leased" /\ row[snd[w].d].token = w

(* Something may have reached the destination, or may still. *)
Touched(d) == got[d] # 0 \/ \E w \in Senders : snd[w].pc = "sending" /\ snd[w].d = d

(* What a row has to say when something may have been sent. *)
Admits(r) == \/ r.st = "leased" /\ r.sending
             \/ r.st \in {"accepted", "uncertain"}
             \/ r.st = "canceled" /\ r.why # ""

(* Retention removed the deliveries of the event and keeps the event. *)
Removed(d) ==
    d \in Deliveries /\ d.occ \in events /\ \A e \in Deliveries : e.occ = d.occ => row[e].st = "none"

(* A row that says nothing was sent is right. *)
Honest ==
    /\ \A d \in Rows : Touched(d) => Admits(row[d]) \/ Removed(d)
    /\ \A d \in Deliveries : row[d].st = "accepted" => got[d] = 1
    /\ \A d \in Deliveries : row[d].st # "none" => d.occ \in events

(* A delivery that waits has an attempt left; a test never waits. *)
Waiting ==
    /\ \A d \in Rows :
         row[d].st \in {"pending", "retry_wait"} \/ (row[d].st = "leased" /\ ~row[d].sending) =>
            d \in Deliveries /\ row[d].attempts < MaxAttempts
    /\ \A d \in Rows : row[d].st \in {"pending", "retry_wait"} => ~row[d].sending
    /\ \A t \in Fanout : t.routed => t.ch = route.ch

(* The destination took the message once apart from error answers, and one *)
(* sender at a time is on the wire with it.                                *)
OnWireOnce ==
    \A d \in Rows :
       /\ got[d] <= 1
       /\ \A w, v \in {x \in Senders : snd[x].pc = "sending" /\ snd[x].d = d} : w = v

(* What a sender has done fits the row while the lease is its own. *)
SenderFits(w) ==
    /\ snd[w].pc # "idle" => (w = "tester" <=> snd[w].d \notin Deliveries)
    /\ w = "tester" => snd[w].pc \in {"idle", "sending", "finish"}
    /\ snd[w].pc = "sending" =>
         got[snd[w].d] = 0 /\ (row[snd[w].d].st = "leased" => row[snd[w].d].token = w)
    /\ snd[w].pc \in {"claimed", "channelOk", "ready"} /\ Leased(w) => ~row[snd[w].d].sending
    /\ snd[w].pc = "finish" =>
         /\ snd[w].out \notin {"", "expired"}
         /\ Leased(w) =>
              /\ snd[w].out = "accepted" => got[snd[w].d] = 1
              /\ snd[w].out \notin {"accepted", "uncertain"} => got[snd[w].d] = 0
              /\ snd[w].out \in {"retry_wait", "retry_later"} =>
                   snd[w].d \in Deliveries /\ row[snd[w].d].attempts < MaxAttempts
Sending == \A w \in Senders : SenderFits(w)

(* What a worker has checked is still there while the lease is its own. *)
Checked ==
    \A w \in Workers :
       /\ snd[w].pc \in {"channelOk", "ready"} /\ Leased(w) => chan[ChannelOf(snd[w].d)].exists
       /\ snd[w].pc = "ready" /\ Leased(w) =>
            /\ Routed(snd[w].d) => route.exists
            /\ Personal(snd[w].d) => OwnerIsThere

IInv == /\ TypeOK /\ OnWireOnce /\ OneLeasePerChannel /\ NotInherited
        /\ Honest /\ Waiting /\ Sending /\ Checked

-----------------------------------------------------------------------------
(* The record of a row, and of the locals of a sender. *)
RowType == [st : {"none"} \cup Live \cup Closed,
            why : {"", "account_deleted", "reviewed_uncertain"},
            sending : BOOLEAN, attempts : 0..MaxAttempts,
            chRev : Nat, rtRev : Nat,
            token : Senders \cup {""}, fresh : BOOLEAN, due : BOOLEAN,
            old : BOOLEAN]
SndType == [pc : {"idle", "claimed", "channelOk", "ready", "sending", "finish"},
            d : Rows,
            out : {"", "retry_later", "retry_wait"} \cup Closed]
ChanType == [exists : BOOLEAN, enabled : BOOLEAN, paused : BOOLEAN, rev : Nat]
RouteType == [exists : BOOLEAN, enabled : BOOLEAN, rev : Nat, ch : Channels]
AcctType == [exists : BOOLEAN, active : BOOLEAN, gen : Nat]
CaptType == [pc : {"idle", "sweep", "routed"}, occ : Occurrences, todo : SUBSET Occurrences,
             to : SUBSET Fanout, chRev : [Channels -> Nat], rtRev : Nat]

(* The type invariant, by the kinds of state it speaks of. *)
Types == /\ row \in [Rows -> RowType] /\ snd \in [Senders -> SndType]
         /\ chan \in [Channels -> ChanType] /\ route \in RouteType /\ acct \in AcctType
         /\ consent \in BOOLEAN /\ paused \in BOOLEAN
         /\ src \in [Occurrences -> {"none", "pending", "captured", "cleared"}]
         /\ events \subseteq Occurrences /\ inbox \subseteq Occurrences
         /\ capt \in [Capturers -> CaptType]
         /\ got \in [Rows -> Nat] /\ denied \in [Rows -> Nat] /\ broken \in BOOLEAN
         /\ confirmed \subseteq Deliveries
         /\ mode \in Modes /\ left \in Nat

LEMMA TypesAreTypeOK == Types <=> TypeOK
  BY DEF Types, TypeOK, RowType, SndType, ChanType, RouteType, AcctType, CaptType

(* The row of a test is none of a delivery, and is for nobody. *)
LEMMA RowKinds ==
  /\ Deliveries \subseteq Rows
  /\ \A d \in Deliveries : d.occ \in Occurrences /\ d.to \in Fanout
  /\ \A c \in Channels : TestRow(c) \in Rows /\ TestRow(c) \notin Deliveries /\ ChannelOf(TestRow(c)) = c
  /\ \A d \in Rows : d \notin Deliveries => ~Personal(d) /\ ~Routed(d) /\ \E c \in Channels : d = TestRow(c)
  /\ \A d \in Rows : ChannelOf(d) \in Channels
<1>1. Deliveries \subseteq Rows
  BY DEF Rows
<1>2. \A d \in Deliveries : d.occ \in Occurrences /\ d.to \in Fanout
  BY DEF Deliveries
<1>3. \A c : TestRow(c) \notin Deliveries
  <2> SUFFICES ASSUME NEW c, TestRow(c) \in Deliveries PROVE FALSE
    OBVIOUS
  <2>1. DOMAIN TestRow(c) = {"test"}
    BY DEF TestRow
  <2>2. DOMAIN TestRow(c) = {"occ", "to", "gen"}
    BY DEF Deliveries
  <2>3. "occ" \in {"test"}
    BY <2>1, <2>2
  <2> QED BY <2>3
<1>4. \A c \in Channels : TestRow(c) \in Rows /\ ChannelOf(TestRow(c)) = c
  <2> TAKE c \in Channels
  <2>1. TestRow(c) \in Rows
    BY DEF Rows
  <2>2. ChannelOf(TestRow(c)) = TestRow(c).test
    BY <1>3 DEF ChannelOf
  <2>3. TestRow(c).test = c
    BY DEF TestRow
  <2> QED BY <2>1, <2>2, <2>3
<1>5. \A d \in Rows : d \notin Deliveries => ~Personal(d) /\ ~Routed(d) /\ \E c \in Channels : d = TestRow(c)
  BY DEF Rows, Personal, Routed
<1>6. \A d \in Rows : ChannelOf(d) \in Channels
  <2> TAKE d \in Rows
  <2>1. CASE d \in Deliveries
    <3>1. d.to \in Targets
      BY <1>2, <2>1, NotificationAssumption
    <3> QED BY <3>1, <2>1 DEF Targets, ChannelOf
  <2>2. CASE d \notin Deliveries
    BY <1>4, <1>5, <2>2
  <2> QED BY <2>1, <2>2
<1> QED BY <1>1, <1>2, <1>3, <1>4, <1>5, <1>6

-----------------------------------------------------------------------------
(* A row that changes while no sender moves: by a request, by the clock,   *)
(* or when lost leases are recovered.                                      *)
Calm(r, s) ==
  /\ s.st = "leased" =>
       r.st = "leased" /\ s.token = r.token /\ (s.sending <=> r.sending)
  /\ s.st \in {"pending", "retry_wait"} =>
       r.st \in {"pending", "retry_wait"} \/ (r.st = "leased" /\ ~r.sending)
  /\ s.attempts = r.attempts
  /\ s.sending => r.sending
  /\ s.st = "accepted" => r.st = "accepted"
  /\ Admits(r) => Admits(s)
  /\ r.st = "none" <=> s.st = "none"
  /\ r.st \in Closed => s.st = r.st \/ (r.st = "uncertain" /\ s.st = "canceled")

(* What such a change keeps. *)
LEMMA CalmKeeps ==
  ASSUME OnWireOnce, OneLeasePerChannel, Honest, Waiting, Sending, snd \in [Senders -> SndType],
         snd' = snd, got' = got, events' = events, route'.ch = route.ch,
         \A d \in Rows : Calm(row[d], row'[d])
  PROVE  OnWireOnce' /\ OneLeasePerChannel' /\ Honest' /\ Waiting' /\ Sending'
<1>1. OnWireOnce'
  BY DEF OnWireOnce
<1>2. OneLeasePerChannel'
  BY DEF OneLeasePerChannel, Calm
<1>3. Honest'
  <2>1. \A d \in Rows : Touched(d)' => Touched(d)
    BY DEF Touched
  <2>2. \A d \in Deliveries : d \in Rows
    BY RowKinds
  <2>3. \A d \in Rows : Removed(d) => Removed(d)'
    BY <2>2 DEF Removed, Calm
  <2>4. \A d \in Rows : Admits(row[d]) => Admits(row'[d])
    BY DEF Calm
  <2>5. \A d \in Rows : Touched(d)' => Admits(row'[d]) \/ Removed(d)'
    BY <2>1, <2>3, <2>4 DEF Honest
  <2>6. \A d \in Deliveries : row'[d].st = "accepted" => got'[d] = 1
    BY <2>2 DEF Honest, Calm
  <2>7. \A d \in Deliveries : row'[d].st # "none" => d.occ \in events'
    BY <2>2 DEF Honest, Calm
  <2> QED BY <2>5, <2>6, <2>7 DEF Honest
<1>4. Waiting'
  BY DEF Waiting, Calm
<1>5. Sending'
  <2> SUFFICES ASSUME NEW w \in Senders PROVE SenderFits(w)'
    BY DEF Sending
  <2>1. snd[w].d \in Rows
    BY DEF SndType
  <2>2. Calm(row[snd[w].d], row'[snd[w].d])
    BY <2>1
  <2>3. SenderFits(w)
    BY DEF Sending
  <2>4. Leased(w)' => Leased(w) /\ row'[snd[w].d].attempts = row[snd[w].d].attempts
                                /\ (row'[snd[w].d].sending <=> row[snd[w].d].sending)
    BY <2>2 DEF Leased, Calm
  <2>5. row'[snd[w].d].st = "leased" =>
           row[snd[w].d].st = "leased" /\ row'[snd[w].d].token = row[snd[w].d].token
    BY <2>2 DEF Calm
  <2> QED BY <2>3, <2>4, <2>5 DEF SenderFits
<1> QED BY <1>1, <1>2, <1>3, <1>4, <1>5

(* A row that is left alone. *)
LEMMA CalmAlone == ASSUME NEW r PROVE Calm(r, r)
  BY DEF Calm

(* A live row that is closed without its sender. *)
LEMMA CalmClosing ==
  ASSUME NEW r, NEW s, r.st \in Live, s.st \in {"uncertain", "canceled"}, ~s.sending,
         s.attempts = r.attempts,
         r.st = "leased" /\ r.sending => s.st = "uncertain"
  PROVE  Calm(r, s)
  BY DEF Calm, Admits, Live, Closed

(* revokeNotificationWork on a live row. *)
LEMMA RevokedRow ==
  ASSUME NEW r \in RowType, NEW why \in {"", "account_deleted"}, r.st \in Live,
         NEW s, s = [r EXCEPT !.st = IF r.st = "leased" /\ r.sending THEN "uncertain" ELSE "canceled",
                              !.why = why, !.token = "", !.fresh = FALSE, !.sending = FALSE]
  PROVE  s \in RowType /\ Calm(r, s) /\ s.st \in {"uncertain", "canceled"}
<1>1. s \in RowType
  BY DEF RowType, Closed, Live
<1>2. /\ s.st = (IF r.st = "leased" /\ r.sending THEN "uncertain" ELSE "canceled")
      /\ ~s.sending /\ s.attempts = r.attempts
  BY DEF RowType
<1>3. s.st \in {"uncertain", "canceled"} /\ (r.st = "leased" /\ r.sending => s.st = "uncertain")
      /\ ~s.sending /\ s.attempts = r.attempts
  BY <1>2
<1> QED BY <1>1, <1>3, CalmClosing

(* A status, a cause, or the loss of the lease is written on a row, and nothing else. *)
WithStatus(r, st) == [r EXCEPT !.st = st]
WithCause(r, why) == [r EXCEPT !.why = why]
LeaseLost(r, st) == [r EXCEPT !.st = st, !.why = "", !.token = "", !.sending = FALSE]

LEMMA StatusWritten ==
  ASSUME NEW r \in RowType, NEW st \in {"none"} \cup Live \cup Closed
  PROVE  /\ WithStatus(r, st) \in RowType /\ WithStatus(r, st).st = st
         /\ WithStatus(r, st).sending = r.sending /\ WithStatus(r, st).attempts = r.attempts
<1>1. ASSUME NEW s, s = [r EXCEPT !.st = st] PROVE s \in RowType
  BY <1>1 DEF RowType
<1> QED BY <1>1 DEF WithStatus, RowType

Causes == {"", "account_deleted", "reviewed_uncertain"}

LEMMA CauseWritten ==
  ASSUME NEW r \in RowType, NEW why \in Causes
  PROVE  /\ WithCause(r, why) \in RowType /\ WithCause(r, why).why = why
         /\ WithCause(r, why).st = r.st /\ WithCause(r, why).token = r.token
         /\ WithCause(r, why).attempts = r.attempts /\ WithCause(r, why).sending = r.sending
<1>1. ASSUME NEW s, s = [r EXCEPT !.why = why] PROVE s \in RowType
  BY <1>1 DEF RowType, Causes
<1> QED BY <1>1 DEF WithCause, RowType

LEMMA LeaseLostWritten ==
  ASSUME NEW r \in RowType, NEW st \in {"none"} \cup Live \cup Closed
  PROVE  /\ LeaseLost(r, st) \in RowType /\ LeaseLost(r, st).st = st
         /\ LeaseLost(r, st).sending = FALSE /\ LeaseLost(r, st).attempts = r.attempts
<1>1. ASSUME NEW s, s = [r EXCEPT !.st = st, !.why = "", !.token = "", !.sending = FALSE]
      PROVE  s \in RowType
  BY <1>1 DEF RowType
<1> QED BY <1>1 DEF LeaseLost, RowType

(* RecoverNotificationLeases on any row. *)
LEMMA RecoveredRow ==
  ASSUME NEW r \in RowType
  PROVE  Recovered(r) \in RowType /\ Calm(r, Recovered(r))
<1> DEFINE lost == LeaseLost(r, IF r.sending THEN "uncertain" ELSE "pending")
           o == IF r.st = "leased" /\ ~r.fresh THEN lost ELSE r
           s == IF o.st \in {"pending", "retry_wait"} /\ o.old THEN WithStatus(o, "expired") ELSE o
<1>0. /\ lost \in RowType /\ lost.sending = FALSE /\ lost.attempts = r.attempts
      /\ lost.st = IF r.sending THEN "uncertain" ELSE "pending"
  <2>1. (IF r.sending THEN "uncertain" ELSE "pending") \in Live \cup Closed
    BY DEF Live, Closed
  <2> QED BY <2>1, LeaseLostWritten
<1>6. s = Recovered(r)
  BY DEF Recovered, WithStatus, LeaseLost
<1> HIDE DEF lost
<1>1. o \in RowType
  BY <1>0
<1>2. \/ o = r
      \/ r.st = "leased" /\ r.sending /\ o.st = "uncertain" /\ o.attempts = r.attempts
      \/ r.st = "leased" /\ ~r.sending /\ ~o.sending /\ o.st = "pending" /\ o.attempts = r.attempts
  BY <1>0
<1> HIDE DEF o
<1>3. s \in RowType /\ (\/ s = o
                        \/ /\ o.st \in {"pending", "retry_wait"} /\ s.st = "expired" /\ s.sending = o.sending
                           /\ s.attempts = o.attempts)
  BY <1>1, StatusWritten DEF Closed
<1>4. s = o \/ (/\ o.st \in {"pending", "retry_wait"} /\ s.st = "expired" /\ (s.sending <=> o.sending)
                /\ s.attempts = o.attempts)
  BY <1>3
<1> HIDE DEF s
<1>5. Calm(r, s)
  <2>1. CASE s = r
    BY <2>1, CalmAlone
  <2>2. CASE r.st \in {"leased", "pending", "retry_wait"} /\ ~(r.st = "leased" /\ r.sending) /\ s.st = "expired"
             /\ (s.sending => r.sending) /\ s.attempts = r.attempts
    BY <2>2 DEF Calm, Admits, Closed
  <2>3. CASE r.st = "leased" /\ r.sending /\ s.st = "uncertain" /\ s.attempts = r.attempts
    BY <2>3 DEF Calm, Admits, Closed
  <2>4. CASE r.st = "leased" /\ ~r.sending /\ ~s.sending /\ s.st = "pending" /\ s.attempts = r.attempts
    BY <2>4 DEF Calm, Admits, Closed
  <2> QED BY <1>2, <1>4, <2>1, <2>2, <2>3, <2>4
<1> QED BY <1>3, <1>5, <1>6

(* The clock changes one of the flags a statement compares with it. *)
LEMMA TickedRow ==
  ASSUME NEW r \in RowType, NEW flag \in {"fresh", "due", "old"}, NEW value \in BOOLEAN,
         NEW s, s = [f \in DOMAIN r |-> IF f = flag THEN value ELSE r[f]]
  PROVE  s \in RowType /\ Calm(r, s)
<1>1. s = [r EXCEPT ![flag] = value]
  BY DEF RowType
<1>2. s \in RowType
  BY DEF RowType
<1>3. /\ s.st = r.st /\ s.why = r.why /\ s.token = r.token /\ s.attempts = r.attempts
      /\ s.sending = r.sending
  BY DEF RowType
<1> QED BY <1>2, <1>3 DEF Calm, Admits

-----------------------------------------------------------------------------
(* The requests that close rows, as one change per row. *)
LEMMA RevokedRows ==
  ASSUME Types, NEW S \in SUBSET Rows, NEW why \in {"", "account_deleted"}
  PROVE  /\ Revoke(S, why) \in [Rows -> RowType]
         /\ \A d \in Rows : /\ Calm(row[d], Revoke(S, why)[d])
                            /\ d \in S => Revoke(S, why)[d].st \notin Live
<1> SUFFICES ASSUME NEW d \in Rows
             PROVE  /\ Revoke(S, why)[d] \in RowType
                    /\ Calm(row[d], Revoke(S, why)[d])
                    /\ d \in S => Revoke(S, why)[d].st \notin Live
  BY DEF Revoke
<1>1. row[d] \in RowType
  BY DEF Types
<1>2. CASE d \in S /\ row[d].st \in Live
  <2>1. Revoke(S, why)[d] = [row[d] EXCEPT !.st = IF row[d].st = "leased" /\ row[d].sending
                                                  THEN "uncertain" ELSE "canceled",
                                           !.why = why, !.token = "", !.fresh = FALSE, !.sending = FALSE]
    BY <1>2 DEF Revoke
  <2>2. Revoke(S, why)[d] \in RowType /\ Calm(row[d], Revoke(S, why)[d])
        /\ Revoke(S, why)[d].st \in {"uncertain", "canceled"}
    BY <1>1, <1>2, <2>1, RevokedRow
  <2> QED BY <2>2 DEF Live
<1>3. CASE ~(d \in S /\ row[d].st \in Live)
  <2>1. Revoke(S, why)[d] = row[d]
    BY <1>3 DEF Revoke
  <2> QED BY <1>1, <1>3, <2>1, CalmAlone
<1> QED BY <1>2, <1>3

(* The statements of DeleteUser: no personal row is live, and a row that   *)
(* was there says that its account is gone.                                *)
LEMMA DeletedRows ==
  ASSUME Types, DeleteUser
  PROVE  /\ row' \in [Rows -> RowType]
         /\ \A d \in Rows : Calm(row[d], row'[d]) /\ (Personal(d) => row'[d].st \notin Live)
<1> DEFINE S == {d \in Rows : Personal(d)}
           R == Revoke(S, "account_deleted")
<1>1. /\ R \in [Rows -> RowType]
      /\ \A d \in Rows : Calm(row[d], R[d]) /\ (d \in S => R[d].st \notin Live)
  BY RevokedRows
<1>2. row' = [d \in Rows |-> IF Personal(d) /\ R[d].st # "none"
                             THEN [R[d] EXCEPT !.why = "account_deleted"] ELSE R[d]]
  BY DEF DeleteUser
<1>3. \A d \in Rows : d \in S <=> Personal(d)
  OBVIOUS
<1> HIDE DEF R, S
<1> SUFFICES ASSUME NEW d \in Rows
             PROVE row'[d] \in RowType /\ Calm(row[d], row'[d]) /\ (Personal(d) => row'[d].st \notin Live)
  BY <1>2
<1>4. CASE Personal(d) /\ R[d].st # "none"
  <2>1. row'[d] = WithCause(R[d], "account_deleted") /\ R[d] \in RowType
    BY <1>1, <1>2, <1>4 DEF WithCause
  <2>0. "account_deleted" \in Causes
    BY DEF Causes
  <2>2. row'[d] \in RowType
    BY <2>0, <2>1, CauseWritten
  <2>3. /\ row'[d].st = R[d].st /\ row'[d].token = R[d].token /\ row'[d].attempts = R[d].attempts
        /\ row'[d].sending = R[d].sending /\ row'[d].why # ""
    <3>1. /\ row'[d].st = R[d].st /\ row'[d].token = R[d].token /\ row'[d].attempts = R[d].attempts
          /\ row'[d].sending = R[d].sending /\ row'[d].why = "account_deleted"
      BY <2>0, <2>1, CauseWritten
    <3> QED BY <3>1
  <2>4. Calm(row[d], R[d]) /\ R[d].st \notin Live
    BY <1>1, <1>3, <1>4
  <2>5. Calm(row[d], row'[d])
    BY <2>3, <2>4 DEF Calm, Admits
  <2> QED BY <2>2, <2>3, <2>4, <2>5
<1>5. CASE ~(Personal(d) /\ R[d].st # "none")
  <2>1. row'[d] = R[d]
    BY <1>2, <1>5
  <2> QED BY <1>1, <1>3, <1>5, <2>1 DEF Live
<1> QED BY <1>4, <1>5

(* An administrator dismisses an uncertain delivery. *)
LEMMA ReviewedRows ==
  ASSUME Types, NEW x \in Rows, Review(x)
  PROVE  /\ row' \in [Rows -> RowType]
         /\ \A d \in Rows : Calm(row[d], row'[d])
<1> DEFINE why == IF row[x].why = "account_deleted" THEN row[x].why ELSE "reviewed_uncertain"
           new == [row[x] EXCEPT !.st = "canceled", !.why = why]
<1>1. row' = [row EXCEPT ![x] = new] /\ row[x].st = "uncertain"
  BY DEF Review
<1>2. /\ new \in RowType /\ new.st = "canceled" /\ new.why # "" /\ (new.sending <=> row[x].sending)
      /\ new.attempts = row[x].attempts
  <2> DEFINE mid == WithStatus(row[x], "canceled")
  <2>1. row[x] \in RowType /\ "canceled" \in Closed
    BY DEF Types, Closed
  <2>2. mid \in RowType /\ mid.st = "canceled" /\ mid.sending = row[x].sending
        /\ mid.attempts = row[x].attempts
    BY <2>1, StatusWritten
  <2>3. why \in Causes /\ why \in {"account_deleted", "reviewed_uncertain"}
    BY DEF Causes
  <2>4. new = WithCause(mid, why)
    BY DEF WithStatus, WithCause
  <2> HIDE DEF mid, why, new
  <2>5. new \in RowType /\ new.why = why /\ new.st = mid.st /\ new.sending = mid.sending
        /\ new.attempts = mid.attempts
    BY <2>2, <2>3, <2>4, CauseWritten
  <2> QED BY <2>2, <2>3, <2>5
<1> HIDE DEF new
<1>3. Calm(row[x], new)
  BY <1>1, <1>2 DEF Calm, Admits, Closed
<1> QED BY <1>1, <1>2, <1>3, CalmAlone DEF Types

(* The clock, and the recovery of lost leases. *)
LEMMA TickedRows ==
  ASSUME Types, NEW x \in Rows, LeaseRunsOut(x) \/ RetryComesDue(x) \/ Expires(x)
  PROVE  /\ row' \in [Rows -> RowType]
         /\ \A d \in Rows : Calm(row[d], row'[d])
<1>1. PICK flag \in {"fresh", "due", "old"}, value \in BOOLEAN :
        row' = [row EXCEPT ![x] = [f \in DOMAIN row[x] |-> IF f = flag THEN value ELSE row[x][f]]]
  BY DEF LeaseRunsOut, RetryComesDue, Expires, Tick
<1> DEFINE new == [f \in DOMAIN row[x] |-> IF f = flag THEN value ELSE row[x][f]]
<1>2. new \in RowType /\ Calm(row[x], new)
  BY TickedRow DEF Types
<1> HIDE DEF new
<1>3. row' = [row EXCEPT ![x] = new]
  BY <1>1 DEF new
<1> QED BY <1>2, <1>3, CalmAlone DEF Types

-----------------------------------------------------------------------------
(* Steps at which no sender moves. *)

(* What is left to show of such a step: the types, that no personal row is *)
(* inherited, and that what a worker checked is still there.               *)
LEMMA QuietKeeps ==
  ASSUME NotificationAssumption, IInv, Types', NotInherited', Checked',
         UNCHANGED <<snd, got, events>>, route'.ch = route.ch,
         \A d \in Rows : Calm(row[d], row'[d])
  PROVE  IInv'
<1>1. snd \in [Senders -> SndType]
  BY TypesAreTypeOK DEF IInv, Types
<1>2. OnWireOnce' /\ OneLeasePerChannel' /\ Honest' /\ Waiting' /\ Sending'
  BY <1>1, CalmKeeps DEF IInv
<1>3. TypeOK'
  BY DEF Types, TypeOK, RowType, SndType, ChanType, RouteType, AcctType, CaptType
<1> QED BY <1>2, <1>3 DEF IInv

(* A row that is live after such a step was live before. *)
LEMMA CalmLive == ASSUME NEW r, NEW s, Calm(r, s), s.st \in Live PROVE r.st \in Live
  BY DEF Calm, Live

(* The account and the inbox are left alone, or the inbox shrinks. *)
LEMMA QuietNotInherited ==
  ASSUME NotInherited, \A d \in Rows : Calm(row[d], row'[d]), inbox' \subseteq inbox,
         OwnerIsThere => OwnerIsThere'
  PROVE  NotInherited'
  BY CalmLive DEF NotInherited

(* What a worker holds after such a step it held before. *)
LEMMA QuietLeased ==
  ASSUME snd \in [Senders -> SndType], snd' = snd, \A d \in Rows : Calm(row[d], row'[d]),
         NEW w \in Senders, Leased(w)'
  PROVE  Leased(w)
<1>1. snd[w].d \in Rows
  BY DEF SndType
<1>2. Calm(row[snd[w].d], row'[snd[w].d])
  BY <1>1
<1> QED BY <1>2 DEF Leased, Calm

(* Channel, rule and account stay for the rows that are still leased. *)
LEMMA QuietChecked ==
  ASSUME Checked, snd \in [Senders -> SndType], snd' = snd, \A d \in Rows : Calm(row[d], row'[d]),
         \A d \in Rows : row'[d].st = "leased" =>
            /\ chan[ChannelOf(d)].exists => chan'[ChannelOf(d)].exists
            /\ Routed(d) /\ route.exists => route'.exists
            /\ Personal(d) /\ OwnerIsThere => OwnerIsThere'
  PROVE  Checked'
<1> SUFFICES ASSUME NEW w \in Workers, Leased(w)'
             PROVE  /\ snd[w].pc \in {"channelOk", "ready"} => chan'[ChannelOf(snd[w].d)].exists
                    /\ snd[w].pc = "ready" =>
                         /\ Routed(snd[w].d) => route'.exists
                         /\ Personal(snd[w].d) => OwnerIsThere'
  BY DEF Checked
<1>1. w \in Senders
  BY DEF Senders
<1>2. Leased(w) /\ snd[w].d \in Rows
  BY <1>1, QuietLeased DEF SndType
<1>3. row'[snd[w].d].st = "leased"
  BY DEF Leased
<1> QED BY <1>2, <1>3 DEF Checked

(* Steps that leave the rows alone. *)
LEMMA StillKeeps ==
  ASSUME NotificationAssumption, IInv, Types',
         UNCHANGED <<row, snd, got, events, inbox>>,
         route'.ch = route.ch, route.exists => route'.exists,
         \A c \in Channels : chan[c].exists => chan'[c].exists,
         OwnerIsThere => OwnerIsThere'
  PROVE  IInv'
<1>1. \A d \in Rows : Calm(row[d], row'[d])
  BY CalmAlone
<1>2. NotInherited'
  BY <1>1, QuietNotInherited DEF IInv
<1>3. snd \in [Senders -> SndType]
  BY TypesAreTypeOK DEF IInv, Types
<1>4. Checked'
  BY <1>1, <1>3, QuietChecked, RowKinds DEF IInv
<1> QED BY <1>1, <1>2, <1>4, QuietKeeps

(* A request takes one from what the behaviour may still see. *)
LEMMA RequestLeft == ASSUME Types, NEW op, Request(op) PROVE left' \in Nat
<1>1. left \in Nat
  BY DEF Types
<1> QED BY <1>1 DEF Request

(* A job completes, or its evidence goes with it. *)
LEMMA EvidenceKeeps ==
  ASSUME NotificationAssumption, IInv, NEW o \in Occurrences, Complete(o) \/ ClearEvidence(o)
  PROVE  IInv'
<1>t. Types
  BY TypesAreTypeOK DEF IInv
<1>1. UNCHANGED <<row, chan, route, acct, events, inbox, paused, snd, capt, got, denied, confirmed, broken, mode>>
  BY DEF Complete, ClearEvidence
<1>2. src' \in [Occurrences -> {"none", "pending", "captured", "cleared"}] /\ consent' \in BOOLEAN
  BY <1>t DEF Complete, ClearEvidence, Types
<1>4. left' \in Nat
  BY <1>t, RequestLeft DEF Complete, ClearEvidence, Types
<1>3. Types'
  BY <1>t, <1>1, <1>2, <1>4 DEF Types
<1> QED BY <1>1, <1>3, StillKeeps DEF OwnerIsThere

(* The locals of an idle capture are of their type, and those of a sweep. *)
LEMMA NoCaptureTyped == ASSUME NotificationAssumption PROVE NoCapture \in CaptType
<1>1. (CHOOSE o \in Occurrences : TRUE) \in Occurrences
  BY NotificationAssumption
<1> QED BY <1>1 DEF NoCapture, CaptType

LEMMA RestTyped == ASSUME NotificationAssumption, NEW S \in SUBSET Occurrences PROVE Rest(S) \in CaptType
<1>1. NoCapture \in CaptType
  BY NoCaptureTyped
<1>2. [NoCapture EXCEPT !.pc = "sweep", !.todo = S] \in CaptType
  <2> HIDE DEF NoCapture
  <2> QED BY <1>1 DEF CaptType
<1> QED BY <1>1, <1>2 DEF Rest

(* The evidence is read; the targets of a completion are resolved, or the  *)
(* sweep ends because they cannot be.                                      *)
LEMMA RouteKeeps ==
  ASSUME NotificationAssumption, IInv, NEW c \in Capturers, ReadEvidence(c) \/ Route(c)
  PROVE  IInv'
<1>t. Types
  BY TypesAreTypeOK DEF IInv
<1>1. ASSUME NEW new \in CaptType, capt' = [capt EXCEPT ![c] = new] PROVE IInv'
  <2>1. capt' \in [Capturers -> CaptType]
    BY <1>t, <1>1 DEF Types
  <2>2. UNCHANGED <<row, chan, route, acct, consent, src, events, inbox, paused, snd, got, denied,
                    confirmed, broken, mode, left>>
    BY DEF ReadEvidence, Route, store
  <2>3. Types'
    BY <1>t, <2>1, <2>2 DEF Types
  <2> QED BY <2>2, <2>3, StillKeeps DEF OwnerIsThere
<1>2. CASE ReadEvidence(c)
  <2>1. PICK todo \in SUBSET Occurrences : capt' = [capt EXCEPT ![c] = Rest(todo)]
    BY <1>2 DEF ReadEvidence
  <2> QED BY <1>1, <2>1, RestTyped
<1>3. CASE Route(c) /\ capt' = [capt EXCEPT ![c] = NoCapture]
  BY <1>1, <1>3, NoCaptureTyped
<1>4. ASSUME NEW o \in capt[c].todo,
             capt' = [capt EXCEPT ![c] =
                 [pc |-> "routed", occ |-> o, todo |-> capt[c].todo \ {o},
                  to |-> {t \in mode.fan : Selected(o, t)},
                  chRev |-> [x \in Channels |-> chan[x].rev], rtRev |-> route.rev]]
      PROVE  IInv'
  <2> DEFINE k == [pc |-> "routed", occ |-> o, todo |-> capt[c].todo \ {o},
                   to |-> {t \in mode.fan : Selected(o, t)},
                   chRev |-> [x \in Channels |-> chan[x].rev], rtRev |-> route.rev]
  <2>1. mode.fan \subseteq Fanout
    BY <1>t, NotificationAssumption DEF Types
  <2>2. [x \in Channels |-> chan[x].rev] \in [Channels -> Nat] /\ route.rev \in Nat
    BY <1>t DEF Types, ChanType, RouteType
  <2>3. capt[c].todo \in SUBSET Occurrences
    BY <1>t DEF Types, CaptType
  <2>4. k \in CaptType
    BY <1>4, <2>1, <2>2, <2>3 DEF CaptType
  <2> HIDE DEF k
  <2> QED BY <1>1, <1>4, <2>4 DEF k
<1> QED BY <1>2, <1>3, <1>4 DEF Route

(* A channel, a rule or the dispatch is switched; the name is registered   *)
(* again, or the account is switched.                                      *)
LEMMA SwitchKeeps ==
  ASSUME NotificationAssumption, IInv,
         (\E c \in Channels : SaveChannel(c)) \/ ChangeAccount \/ SaveRoute \/ SwitchDispatch
         \/ ChangeSettings
  PROVE  IInv'
<1>t. Types
  BY TypesAreTypeOK DEF IInv
<1>1. ASSUME NEW c \in Channels, SaveChannel(c) PROVE IInv'
  <2>1. PICK new \in ChanType : chan' = [chan EXCEPT ![c] = new] /\ new.exists = chan[c].exists
    <3>1. chan[c] \in ChanType
      BY <1>t DEF Types
    <3>2. CASE chan' = [chan EXCEPT ![c].paused = ~@]
      <4> DEFINE n == [chan[c] EXCEPT !.paused = ~@]
      <4>1. n \in ChanType /\ n.exists = chan[c].exists
        BY <3>1 DEF ChanType
      <4> QED BY <3>2, <4>1
    <3>3. CASE chan' = [chan EXCEPT ![c].enabled = ~@, ![c].rev = @ + 1]
      <4> DEFINE n == [chan[c] EXCEPT !.enabled = ~@, !.rev = @ + 1]
      <4>1. n \in ChanType /\ n.exists = chan[c].exists
        <5>1. chan[c].rev + 1 \in Nat /\ (~chan[c].enabled) \in BOOLEAN
          BY <3>1 DEF ChanType
        <5> QED BY <3>1, <5>1 DEF ChanType
      <4> QED BY <3>3, <4>1, <1>t DEF Types
    <3>4. CASE chan' = [chan EXCEPT ![c].rev = @ + 1]
      <4> DEFINE n == [chan[c] EXCEPT !.rev = @ + 1]
      <4>1. n \in ChanType /\ n.exists = chan[c].exists
        BY <3>1 DEF ChanType
      <4> QED BY <3>4, <4>1
    <3> QED BY <1>1, <3>2, <3>3, <3>4 DEF SaveChannel
  <2>2. UNCHANGED <<row, route, acct, consent, src, events, inbox, paused, snd, capt, got, denied,
                    confirmed, broken, mode>> /\ left' \in Nat
    BY <1>t, <1>1, RequestLeft DEF SaveChannel
  <2>3. Types'
    BY <1>t, <2>1, <2>2 DEF Types
  <2>4. \A x \in Channels : chan[x].exists => chan'[x].exists
    BY <1>t, <2>1 DEF Types
  <2> QED BY <2>2, <2>3, <2>4, StillKeeps DEF OwnerIsThere
<1>2. CASE ChangeAccount
  <2>1. acct' \in AcctType /\ (OwnerIsThere => OwnerIsThere')
    BY <1>t, <1>2 DEF ChangeAccount, Types, AcctType, OwnerIsThere
  <2>2. UNCHANGED <<row, chan, route, consent, src, events, inbox, paused, snd, capt, got, denied,
                    confirmed, broken, mode>> /\ left' \in Nat
    BY <1>t, <1>2, RequestLeft DEF ChangeAccount
  <2>3. Types'
    BY <1>t, <2>1, <2>2 DEF Types
  <2> QED BY <2>1, <2>2, <2>3, StillKeeps
<1>3. CASE SaveRoute
  <2>1. route' \in RouteType /\ route'.ch = route.ch /\ route'.exists = route.exists
    <3>1. route \in RouteType
      BY <1>t DEF Types
    <3>2. PICK on \in BOOLEAN : route' = [route EXCEPT !.enabled = on, !.rev = @ + 1]
      BY <1>3 DEF SaveRoute
    <3>3. route.rev + 1 \in Nat
      BY <3>1 DEF RouteType
    <3>4. route' = [route EXCEPT !.enabled = on, !.rev = route.rev + 1]
      BY <3>2
    <3>5. /\ route'.exists = route.exists /\ route'.ch = route.ch
      BY <3>1, <3>4 DEF RouteType
    <3>6. route' \in RouteType
      BY <3>1, <3>3, <3>4 DEF RouteType
    <3> QED BY <3>5, <3>6
  <2>2. UNCHANGED <<row, chan, acct, consent, src, events, inbox, paused, snd, capt, got, denied,
                    confirmed, broken, mode>> /\ left' \in Nat
    BY <1>t, <1>3, RequestLeft DEF SaveRoute
  <2>3. Types'
    BY <1>t, <2>1, <2>2 DEF Types
  <2> QED BY <2>1, <2>2, <2>3, StillKeeps DEF OwnerIsThere
<1>4. CASE SwitchDispatch
  <2>2. UNCHANGED <<row, chan, route, acct, consent, src, events, inbox, snd, capt, got, denied,
                    confirmed, broken, mode>> /\ left' \in Nat /\ paused' \in BOOLEAN
    BY <1>t, <1>4, RequestLeft DEF SwitchDispatch
  <2>3. Types'
    BY <1>t, <2>2 DEF Types
  <2> QED BY <2>2, <2>3, StillKeeps DEF OwnerIsThere
<1>5. CASE ChangeSettings
  <2>2. UNCHANGED <<row, chan, route, acct, consent, src, events, inbox, paused, snd, capt, got, denied,
                    confirmed, mode>> /\ left' \in Nat /\ broken' \in BOOLEAN
    BY <1>t, <1>5, RequestLeft DEF ChangeSettings, store
  <2>3. Types'
    BY <1>t, <2>2 DEF Types
  <2> QED BY <2>2, <2>3, StillKeeps DEF OwnerIsThere
<1> QED BY <1>1, <1>2, <1>3, <1>4, <1>5

(* Nothing happens. *)
LEMMA StutterKeeps == ASSUME NotificationAssumption, IInv, UNCHANGED vars PROVE IInv'
<1>1. Types
  BY TypesAreTypeOK DEF IInv
<1>2. Types'
  BY <1>1 DEF Types, vars
<1> QED BY <1>2, StillKeeps DEF vars, OwnerIsThere

(* The account is deleted. *)
LEMMA DeleteUserKeeps == ASSUME NotificationAssumption, IInv, DeleteUser PROVE IInv'
<1>t. Types
  BY TypesAreTypeOK DEF IInv
<1>1. /\ row' \in [Rows -> RowType]
      /\ \A d \in Rows : Calm(row[d], row'[d]) /\ (Personal(d) => row'[d].st \notin Live)
  BY <1>t, DeletedRows
<1>2. /\ UNCHANGED <<chan, route, src, events, paused, snd, capt, got, denied, confirmed, broken, mode>>
      /\ inbox' = {} /\ consent' = FALSE /\ left' \in Nat
  BY <1>t, RequestLeft DEF DeleteUser
<1>3. acct' \in AcctType
  <2>1. acct \in AcctType
    BY <1>t DEF Types
  <2>2. acct.gen + 1 \in Nat
    BY <2>1 DEF AcctType
  <2>3. acct' = [acct EXCEPT !.exists = FALSE, !.gen = acct.gen + 1]
    BY DEF DeleteUser
  <2> QED BY <2>1, <2>2, <2>3 DEF AcctType
<1>4. Types'
  BY <1>t, <1>1, <1>2, <1>3 DEF Types
<1>5. NotInherited'
  BY <1>1, <1>2 DEF NotInherited
<1>6. Checked'
  <2>1. \A d \in Rows : row'[d].st = "leased" => ~Personal(d)
    BY <1>1 DEF Live
  <2> QED BY <1>t, <1>1, <1>2, <2>1, QuietChecked DEF IInv, Types
<1> QED BY <1>1, <1>2, <1>4, <1>5, <1>6, QuietKeeps

(* A channel is deleted with its rule, or the rule alone. *)
LEMMA DeleteKeeps ==
  ASSUME NotificationAssumption, IInv, (\E c \in Channels : DeleteChannel(c)) \/ DeleteRoute
  PROVE  IInv'
<1>t. Types
  BY TypesAreTypeOK DEF IInv
<1>r. \A d \in Rows : Routed(d) => ChannelOf(d) = route.ch
  BY RowKinds DEF IInv, Waiting, Routed, ChannelOf
<1>1. ASSUME NEW c \in Channels, DeleteChannel(c) PROVE IInv'
  <2> DEFINE S == {d \in Rows : ChannelOf(d) = c}
  <2>1. row' = Revoke(S, "")
    BY <1>1 DEF DeleteChannel
  <2>2. \A d \in Rows : ChannelOf(d) = c => d \in S
    OBVIOUS
  <2>s. S \in SUBSET Rows
    OBVIOUS
  <2> HIDE DEF S
  <2>3. /\ row' \in [Rows -> RowType]
        /\ \A d \in Rows : Calm(row[d], row'[d]) /\ (ChannelOf(d) = c => row'[d].st \notin Live)
    BY <1>t, <2>1, <2>2, <2>s, RevokedRows
  <2>4. UNCHANGED <<acct, consent, src, events, inbox, paused, snd, capt, got, denied, confirmed, broken, mode>>
        /\ left' \in Nat
    BY <1>t, <1>1, RequestLeft DEF DeleteChannel
  <2>5. chan' \in [Channels -> ChanType] /\ \A x \in Channels : x # c => chan'[x] = chan[x]
    <3>1. chan' = [chan EXCEPT ![c].exists = FALSE]
      BY <1>1 DEF DeleteChannel
    <3>2. chan \in [Channels -> ChanType]
      BY <1>t DEF Types
    <3> QED BY <3>1, <3>2 DEF ChanType
  <2>6. /\ route' \in RouteType /\ route'.ch = route.ch
        /\ route.ch # c => route' = route
    BY <1>t, <1>1 DEF DeleteChannel, Types, RouteType
  <2>7. Types'
    BY <1>t, <2>3, <2>4, <2>5, <2>6 DEF Types
  <2>8. NotInherited'
    BY <2>3, <2>4, QuietNotInherited DEF IInv, OwnerIsThere
  <2>9. \A d \in Rows : row'[d].st = "leased" => ChannelOf(d) # c /\ ChannelOf(d) \in Channels
    BY <2>3, RowKinds DEF Live
  <2>10. Checked'
    BY <1>t, <1>r, <2>3, <2>4, <2>5, <2>6, <2>9, QuietChecked DEF IInv, Types, OwnerIsThere
  <2> QED BY <2>3, <2>4, <2>6, <2>7, <2>8, <2>10, QuietKeeps
<1>2. CASE DeleteRoute
  <2> DEFINE S == {d \in Rows : Routed(d)}
  <2>1. row' = Revoke(S, "")
    BY <1>2 DEF DeleteRoute
  <2>2. \A d \in Rows : Routed(d) => d \in S
    OBVIOUS
  <2>s. S \in SUBSET Rows
    OBVIOUS
  <2> HIDE DEF S
  <2>3. /\ row' \in [Rows -> RowType]
        /\ \A d \in Rows : Calm(row[d], row'[d]) /\ (Routed(d) => row'[d].st \notin Live)
    BY <1>t, <2>1, <2>2, <2>s, RevokedRows
  <2>4. UNCHANGED <<chan, acct, consent, src, events, inbox, paused, snd, capt, got, denied, confirmed, broken, mode>>
        /\ left' \in Nat
    BY <1>t, <1>2, RequestLeft DEF DeleteRoute
  <2>6. route' \in RouteType /\ route'.ch = route.ch
    BY <1>t, <1>2 DEF DeleteRoute, Types, RouteType
  <2>7. Types'
    BY <1>t, <2>3, <2>4, <2>6 DEF Types
  <2>8. NotInherited'
    BY <2>3, <2>4, QuietNotInherited DEF IInv, OwnerIsThere
  <2>9. \A d \in Rows : row'[d].st = "leased" => ~Routed(d)
    BY <2>3 DEF Live
  <2>10. Checked'
    BY <1>t, <2>3, <2>4, <2>9, QuietChecked DEF IInv, Types, OwnerIsThere
  <2> QED BY <2>3, <2>4, <2>6, <2>7, <2>8, <2>10, QuietKeeps
<1> QED BY <1>1, <1>2

(* Lost leases are recovered, the clock moves on, a delivery is reviewed. *)
LEMMA RowsKeep ==
  ASSUME NotificationAssumption, IInv,
         \/ RecoverNotificationLeases
         \/ \E d \in Rows : LeaseRunsOut(d) \/ RetryComesDue(d) \/ Expires(d) \/ Review(d)
  PROVE  IInv'
<1>t. Types
  BY TypesAreTypeOK DEF IInv
<1>1. /\ row' \in [Rows -> RowType]
      /\ \A d \in Rows : Calm(row[d], row'[d])
  <2>1. CASE RecoverNotificationLeases
    BY <1>t, <2>1, RecoveredRow DEF RecoverNotificationLeases, Types
  <2>2. ASSUME NEW x \in Rows, LeaseRunsOut(x) \/ RetryComesDue(x) \/ Expires(x)
        PROVE  row' \in [Rows -> RowType] /\ \A d \in Rows : Calm(row[d], row'[d])
    BY <1>t, <2>2, TickedRows
  <2>3. ASSUME NEW x \in Rows, Review(x)
        PROVE  row' \in [Rows -> RowType] /\ \A d \in Rows : Calm(row[d], row'[d])
    BY <1>t, <2>3, ReviewedRows
  <2> QED BY <2>1, <2>2, <2>3
<1>2. UNCHANGED <<chan, route, acct, consent, src, events, inbox, paused, snd, capt, got, denied, confirmed,
                  broken, mode>> /\ left' \in Nat
  BY <1>t, RequestLeft DEF RecoverNotificationLeases, LeaseRunsOut, RetryComesDue, Expires, Tick, Review, Types
<1>3. Types'
  BY <1>t, <1>1, <1>2 DEF Types
<1>4. NotInherited'
  BY <1>1, <1>2, QuietNotInherited DEF IInv, OwnerIsThere
<1>5. Checked'
  BY <1>t, <1>1, <1>2, QuietChecked DEF IInv, Types, OwnerIsThere
<1> QED BY <1>1, <1>2, <1>3, <1>4, <1>5, QuietKeeps

-----------------------------------------------------------------------------
(* Steps of a sender. *)

(* A row that waits, or was leased and not yet begun, is untouched. *)
LEMMA FreshRow ==
  ASSUME Types, Honest, Waiting, NEW d \in Rows,
         row[d].st \in {"pending", "retry_wait"} \/ (row[d].st = "leased" /\ ~row[d].sending)
  PROVE  /\ got[d] = 0 /\ d \in Deliveries /\ row[d].attempts < MaxAttempts
         /\ \A v \in Senders : snd[v].pc = "sending" => snd[v].d # d
<1>1. ~Admits(row[d])
  BY DEF Admits
<1>2. ~Removed(d)
  BY DEF Removed
<1>3. ~Touched(d)
  BY <1>1, <1>2 DEF Honest
<1> QED BY <1>3 DEF Touched, Waiting

(* A sender that does not move still fits. *)
LEMMA SenderStays ==
  ASSUME NEW v \in Senders, SenderFits(v), snd'[v] = snd[v],
         snd[v].pc = "sending" =>
           got'[snd[v].d] = 0 /\ (row'[snd[v].d].st = "leased" => row'[snd[v].d].token = v),
         snd[v].pc # "idle" /\ snd[v].pc # "sending" /\ Leased(v)' =>
           /\ Leased(v) /\ got'[snd[v].d] = got[snd[v].d]
           /\ row'[snd[v].d].sending <=> row[snd[v].d].sending
           /\ row'[snd[v].d].attempts = row[snd[v].d].attempts
  PROVE  SenderFits(v)'
  BY DEF SenderFits

(* What a sender does that begins no attempt and leaves the rows alone. *)
LEMMA SenderMoves ==
  ASSUME IInv, NEW w \in Senders, snd' \in [Senders -> SndType],
         \A v \in Senders : v # w => snd'[v] = snd[v],
         snd'[w].pc # "sending", SenderFits(w)',
         UNCHANGED <<row, got, events, route, chan, acct, inbox>>,
         w \in Workers /\ snd'[w].pc \in {"channelOk", "ready"} /\ Leased(w)' =>
           /\ chan[ChannelOf(snd'[w].d)].exists
           /\ snd'[w].pc = "ready" => /\ Routed(snd'[w].d) => route.exists
                                      /\ Personal(snd'[w].d) => OwnerIsThere
  PROVE  OnWireOnce' /\ OneLeasePerChannel' /\ NotInherited' /\ Honest' /\ Waiting' /\ Sending' /\ Checked'
<1>1. \A v \in Senders : snd'[v].pc = "sending" => snd[v].pc = "sending" /\ snd'[v].d = snd[v].d
  OBVIOUS
<1>2. OnWireOnce'
  <2>1. ASSUME NEW d \in Rows PROVE got'[d] <= 1
    BY DEF IInv, OnWireOnce
  <2>2. ASSUME NEW d \in Rows, NEW v \in Senders, NEW u \in Senders, snd'[v].pc = "sending", snd'[v].d = d,
               snd'[u].pc = "sending", snd'[u].d = d
        PROVE  v = u
    BY <1>1, <2>2 DEF IInv, OnWireOnce
  <2> QED BY <2>1, <2>2 DEF OnWireOnce
<1>3. OneLeasePerChannel'
  BY DEF IInv, OneLeasePerChannel
<1>4. NotInherited'
  BY DEF IInv, NotInherited, OwnerIsThere
<1>5. Honest'
  <2>1. \A d \in Rows : Touched(d)' => Touched(d)
    BY <1>1 DEF Touched
  <2>2. \A d \in Rows : Removed(d) => Removed(d)'
    BY DEF Removed
  <2> QED BY <2>1, <2>2 DEF IInv, Honest
<1>6. Waiting'
  BY DEF IInv, Waiting
<1>7. Sending'
  <2>1. ASSUME NEW v \in Senders, v # w PROVE SenderFits(v)'
    <3>1. SenderFits(v) /\ snd'[v] = snd[v]
      BY <2>1 DEF IInv, Sending
    <3>2. Leased(v)' <=> Leased(v)
      BY <3>1 DEF Leased
    <3> QED BY <3>1, <3>2, SenderStays DEF SenderFits
  <2> QED BY <2>1 DEF Sending
<1>8. Checked'
  <2> SUFFICES ASSUME NEW v \in Workers, Leased(v)'
               PROVE  /\ snd'[v].pc \in {"channelOk", "ready"} => chan[ChannelOf(snd'[v].d)].exists
                      /\ snd'[v].pc = "ready" =>
                           /\ Routed(snd'[v].d) => route.exists
                           /\ Personal(snd'[v].d) => OwnerIsThere
    BY DEF Checked, OwnerIsThere
  <2>1. CASE v = w
    BY <2>1
  <2>2. CASE v # w
    <3>1. v \in Senders /\ snd'[v] = snd[v]
      BY <2>2 DEF Senders
    <3>2. Leased(v)
      BY <3>1 DEF Leased
    <3> QED BY <3>1, <3>2 DEF IInv, Checked
  <2> QED BY <2>1, <2>2
<1> QED BY <1>2, <1>3, <1>4, <1>5, <1>6, <1>7, <1>8

(* The parts, put together. *)
LEMMA Together ==
  ASSUME Types', OnWireOnce', OneLeasePerChannel', NotInherited', Honest', Waiting', Sending', Checked'
  PROVE  IInv'
<1>1. TypeOK'
  BY DEF Types, TypeOK, RowType, SndType, ChanType, RouteType, AcctType, CaptType
<1> QED BY <1>1 DEF IInv

(* A worker ends a look with a verdict, or goes on to the next. *)
LEMMA LookKeeps ==
  ASSUME NotificationAssumption, IInv, NEW w \in Workers, snd[w].pc \in {"claimed", "channelOk"},
         NEW s \in SndType, snd' = [snd EXCEPT ![w] = s], s.d = snd[w].d,
         UNCHANGED <<row, chan, route, acct, consent, src, events, inbox, paused, capt, got, denied, confirmed,
                     broken, mode, left>>,
         \/ s.pc = "finish" /\ s.out \in {"canceled", "retry_wait", "retry_later"}
         \/ /\ s.pc \in {"channelOk", "ready"}
            /\ Leased(w) => chan[ChannelOf(s.d)].exists
            /\ s.pc = "ready" => /\ Routed(s.d) => route.exists
                                 /\ Personal(s.d) => OwnerIsThere
  PROVE  IInv'
<1>t. Types
  BY TypesAreTypeOK DEF IInv
<1> DEFINE d == snd[w].d
<1>1. w \in Senders /\ snd[w] \in SndType /\ d \in Rows
  BY <1>t DEF Types, SndType, Senders
<1>2. snd' \in [Senders -> SndType] /\ snd'[w] = s /\ \A v \in Senders : v # w => snd'[v] = snd[v]
  BY <1>t, <1>1 DEF Types
<1>3. SenderFits(w)
  BY <1>1 DEF IInv, Sending
<1>4. Leased(w)' <=> Leased(w)
  BY <1>1, <1>2 DEF Leased
<1>5. Leased(w) => row[d].st = "leased" /\ ~row[d].sending
  BY <1>3 DEF SenderFits, Leased
<1>6. Leased(w) => got[d] = 0 /\ d \in Deliveries /\ row[d].attempts < MaxAttempts
  BY <1>t, <1>1, <1>5, FreshRow DEF IInv
<1>7. w # "tester" /\ d \in Deliveries
  BY <1>3, NotificationAssumption DEF SenderFits
<1>8. SenderFits(w)'
  BY <1>2, <1>4, <1>5, <1>6, <1>7 DEF SenderFits
<1>9. OnWireOnce' /\ OneLeasePerChannel' /\ NotInherited' /\ Honest' /\ Waiting' /\ Sending' /\ Checked'
  BY <1>1, <1>2, <1>4, <1>8, SenderMoves
<1>10. Types'
  BY <1>t, <1>2 DEF Types
<1> QED BY <1>9, <1>10, Together

(* A sender's record after a step ahead. *)
LEMMA StepAhead ==
  ASSUME NEW r \in SndType, NEW p \in {"channelOk", "ready", "sending"},
         NEW s, s = [r EXCEPT !.pc = p]
  PROVE  s \in SndType /\ s.d = r.d /\ s.pc = p
  BY DEF SndType

(* A worker looks at the channel. *)
LEMMA CheckChannelKeeps ==
  ASSUME NotificationAssumption, IInv, NEW w \in Senders, CheckChannel(w)
  PROVE  IInv'
<1>1. w \in Workers /\ snd[w].pc = "claimed"
  BY DEF CheckChannel
<1>2. snd[w] \in SndType
  BY TypesAreTypeOK DEF IInv, Types
<1>3. UNCHANGED <<row, chan, route, acct, consent, src, events, inbox, paused, capt, got, denied, confirmed, broken, mode, left>>
  BY DEF CheckChannel, store
<1>4. CASE \E o \in {"canceled", "retry_wait", "retry_later"} : Outcome(w, o)
  <2>1. PICK o \in {"canceled", "retry_wait", "retry_later"} : Outcome(w, o)
    BY <1>4
  <2> DEFINE s == [snd[w] EXCEPT !.pc = "finish", !.out = o]
  <2>2. s \in SndType /\ s.d = snd[w].d /\ s.pc = "finish" /\ s.out = o
    BY <1>2 DEF SndType, Closed
  <2>3. snd' = [snd EXCEPT ![w] = s]
    BY <2>1 DEF Outcome, SetSender
  <2> QED BY <1>1, <1>3, <2>2, <2>3, LookKeeps
<1>5. CASE chan[ChannelOf(snd[w].d)].exists /\ To(w, "channelOk")
  <2> DEFINE s == [snd[w] EXCEPT !.pc = "channelOk"]
  <2>2. s \in SndType /\ s.d = snd[w].d /\ s.pc = "channelOk"
    BY <1>2, StepAhead
  <2>3. snd' = [snd EXCEPT ![w] = s]
    BY <1>5 DEF To, SetSender
  <2> HIDE DEF s
  <2> QED BY <1>1, <1>3, <1>5, <2>2, <2>3, LookKeeps
<1> QED BY <1>4, <1>5 DEF CheckChannel

(* A worker looks at the event, the rule and the account. *)
LEMMA CheckRecipientKeeps ==
  ASSUME NotificationAssumption, IInv, NEW w \in Senders, CheckRecipient(w)
  PROVE  IInv'
<1>2. snd[w] \in SndType /\ snd[w].pc = "channelOk"
  BY TypesAreTypeOK DEF IInv, Types, CheckRecipient
<1>1. w \in Workers
  <2>1. SenderFits(w)
    BY DEF IInv, Sending
  <2> QED BY <1>2, <2>1 DEF SenderFits, Senders
<1>3. UNCHANGED <<row, chan, route, acct, consent, src, events, inbox, paused, capt, got, denied, confirmed, broken, mode, left>>
  BY DEF CheckRecipient, store
<1>4. CASE \E o \in {"canceled", "retry_wait"} : Outcome(w, o)
  <2>1. PICK o \in {"canceled", "retry_wait"} : Outcome(w, o)
    BY <1>4
  <2> DEFINE s == [snd[w] EXCEPT !.pc = "finish", !.out = o]
  <2>2. s \in SndType /\ s.d = snd[w].d /\ s.pc = "finish" /\ s.out = o
    BY <1>2 DEF SndType, Closed
  <2>3. snd' = [snd EXCEPT ![w] = s]
    BY <2>1 DEF Outcome, SetSender
  <2> QED BY <1>1, <1>2, <1>3, <2>2, <2>3, LookKeeps
<1>5. CASE /\ To(w, "ready")
           /\ Routed(snd[w].d) => route.exists
           /\ Personal(snd[w].d) => MayRead(snd[w].d.occ)
  <2> DEFINE s == [snd[w] EXCEPT !.pc = "ready"]
  <2>2. s \in SndType /\ s.d = snd[w].d /\ s.pc = "ready"
    BY <1>2, StepAhead
  <2>3. snd' = [snd EXCEPT ![w] = s]
    BY <1>5 DEF To, SetSender
  <2> HIDE DEF s
  <2>4. Leased(w) => chan[ChannelOf(snd[w].d)].exists
    BY <1>1, <1>2 DEF IInv, Checked
  <2>5. /\ Routed(s.d) => route.exists
        /\ Personal(s.d) => OwnerIsThere
    BY <1>5, <2>2 DEF MayRead
  <2> QED BY <1>1, <1>2, <1>3, <2>2, <2>3, <2>4, <2>5, LookKeeps
<1> QED BY <1>4, <1>5 DEF CheckRecipient

(* The record of a sender that has nothing to do. *)
LEMMA IdleTyped == ASSUME Types PROVE Idle \in SndType /\ Idle.pc = "idle"
<1>1. Rows # {}
  <2>1. route.ch \in Channels
    BY DEF Types, RouteType
  <2> QED BY <2>1, RowKinds
<1>2. (CHOOSE d \in Rows : TRUE) \in Rows
  BY <1>1
<1> QED BY <1>2 DEF Idle, SndType

(* Senders that stop in the middle: a panic, a crash, a lost lease. *)
LEMMA StopKeeps ==
  ASSUME NotificationAssumption, IInv, Types', UNCHANGED <<row, got, events, route, chan, acct, inbox>>,
         \A v \in Senders : snd'[v] = snd[v] \/ snd'[v].pc = "idle"
  PROVE  IInv'
<1>1. \A v \in Senders : snd'[v].pc # "idle" => snd'[v] = snd[v]
  OBVIOUS
<1>2. OnWireOnce'
  <2>1. ASSUME NEW d \in Rows PROVE got'[d] <= 1
    BY DEF IInv, OnWireOnce
  <2>2. ASSUME NEW d \in Rows, NEW v \in Senders, NEW u \in Senders, snd'[v].pc = "sending", snd'[v].d = d,
               snd'[u].pc = "sending", snd'[u].d = d
        PROVE  v = u
    BY <1>1, <2>2 DEF IInv, OnWireOnce
  <2> QED BY <2>1, <2>2 DEF OnWireOnce
<1>3. OneLeasePerChannel'
  BY DEF IInv, OneLeasePerChannel
<1>4. NotInherited'
  BY DEF IInv, NotInherited, OwnerIsThere
<1>5. Honest'
  <2>1. \A d \in Rows : Touched(d)' => Touched(d)
    BY <1>1 DEF Touched
  <2>2. \A d \in Rows : Removed(d) => Removed(d)'
    BY DEF Removed
  <2> QED BY <2>1, <2>2 DEF IInv, Honest
<1>6. Waiting'
  BY DEF IInv, Waiting
<1>7. Sending'
  <2> SUFFICES ASSUME NEW v \in Senders PROVE SenderFits(v)'
    BY DEF Sending
  <2>1. CASE snd'[v].pc = "idle"
    BY <2>1 DEF SenderFits
  <2>2. CASE snd'[v].pc # "idle"
    <3>1. SenderFits(v) /\ snd'[v] = snd[v]
      BY <1>1, <2>2 DEF IInv, Sending
    <3>2. Leased(v)' <=> Leased(v)
      BY <3>1 DEF Leased
    <3> QED BY <3>1, <3>2, SenderStays DEF SenderFits
  <2> QED BY <2>1, <2>2
<1>8. Checked'
  <2> SUFFICES ASSUME NEW v \in Workers, Leased(v)', snd'[v].pc # "idle"
               PROVE  /\ snd'[v].pc \in {"channelOk", "ready"} => chan[ChannelOf(snd'[v].d)].exists
                      /\ snd'[v].pc = "ready" =>
                           /\ Routed(snd'[v].d) => route.exists
                           /\ Personal(snd'[v].d) => OwnerIsThere
    BY DEF Checked, OwnerIsThere
  <2>1. v \in Senders /\ snd'[v] = snd[v]
    BY <1>1 DEF Senders
  <2>2. Leased(v)
    BY <2>1 DEF Leased
  <2> QED BY <2>1, <2>2 DEF IInv, Checked
<1> QED BY <1>2, <1>3, <1>4, <1>5, <1>6, <1>7, <1>8, Together

(* A panic, a crash, and an attempt that lost its lease. *)
LEMMA StopsKeep ==
  ASSUME NotificationAssumption, IInv,
         \/ \E w \in mode.crew : Panic(w)
         \/ Crash
         \/ \E w \in mode.crew : SetSender(w, Idle) /\ UNCHANGED <<row, chan, route, acct, consent, src,
              events, inbox, paused, capt, got, denied, confirmed, broken, mode, left>>
  PROVE  IInv'
<1>t. Types
  BY TypesAreTypeOK DEF IInv
<1>i. Idle \in SndType /\ Idle.pc = "idle"
  BY <1>t, IdleTyped
<1>1. UNCHANGED <<row, chan, route, acct, consent, src, events, inbox, paused, got, denied, confirmed, broken, mode>>
  BY DEF Panic, Crash, store
<1>2. /\ snd' \in [Senders -> SndType]
      /\ \A v \in Senders : snd'[v] = snd[v] \/ snd'[v].pc = "idle"
  <2>1. CASE Crash
    BY <1>i, <2>1 DEF Crash
  <2>2. CASE \E w \in mode.crew : SetSender(w, Idle)
    <3>1. PICK w \in mode.crew : snd' = [snd EXCEPT ![w] = Idle]
      BY <2>2 DEF SetSender
    <3>2. snd \in [Senders -> SndType]
      BY <1>t DEF Types
    <3> QED BY <1>i, <3>1, <3>2
  <2> QED BY <2>1, <2>2 DEF Panic
<1>3. capt' \in [Capturers -> CaptType]
  <2>1. CASE Crash
    BY <2>1, NoCaptureTyped DEF Crash
  <2>2. CASE ~Crash
    BY <1>t, <2>2 DEF Panic, store, Types
  <2> QED BY <2>1, <2>2
<1>4. left' \in Nat
  BY <1>t, RequestLeft DEF Panic, Crash, Request, Types
<1>5. Types'
  BY <1>t, <1>1, <1>2, <1>3, <1>4 DEF Types
<1> QED BY <1>1, <1>2, <1>5, StopKeeps

(* A sender that changes the row it is on, and no other sender is on the   *)
(* wire with that row or holds its lease.                                  *)
LEMMA OneRow ==
  ASSUME NotificationAssumption, IInv, Types', NEW w \in Senders, NEW d \in Rows,
         \A v \in Senders : v # w => snd'[v] = snd[v],
         \A e \in Rows : e # d => row'[e] = row[e] /\ got'[e] = got[e],
         UNCHANGED <<events, route, chan, acct, inbox>>,
         SenderFits(w)', snd'[w].pc = "sending" => snd'[w].d = d,
         w \in Workers => snd'[w].pc \notin {"channelOk", "ready"},
         \A v \in Senders : v # w /\ snd[v].pc = "sending" => snd[v].d # d,
         row'[d].st = "leased" =>
           row'[d].token = w /\ (row[d].st = "leased" \/ NoLeaseOn(ChannelOf(d))),
         row' = row \/ (d \in Deliveries => row[d].st # "none"),
         got'[d] # 0 \/ snd'[w].pc = "sending" => Admits(row'[d]) \/ Removed(d)',
         got'[d] <= 1, d \in Deliveries /\ row'[d].st = "accepted" => got'[d] = 1,
         d \in Deliveries /\ row'[d].st # "none" => d.occ \in events,
         row'[d].st \in {"pending", "retry_wait"} \/ (row'[d].st = "leased" /\ ~row'[d].sending) =>
           d \in Deliveries /\ row'[d].attempts < MaxAttempts,
         row'[d].st \in {"pending", "retry_wait"} => ~row'[d].sending,
         row'[d].st \in Live => row[d].st \in Live \/ ~Personal(d)
  PROVE  IInv'
<1>t. Types
  BY TypesAreTypeOK DEF IInv
<1>d. \A v \in Senders : snd[v].d \in Rows
  BY <1>t DEF Types, SndType
<1>1. OnWireOnce'
  <2>1. ASSUME NEW e \in Rows PROVE got'[e] <= 1
    BY DEF IInv, OnWireOnce
  <2>2. ASSUME NEW e \in Rows, NEW v \in Senders, NEW u \in Senders, snd'[v].pc = "sending", snd'[v].d = e,
               snd'[u].pc = "sending", snd'[u].d = e
        PROVE  v = u
    BY <2>2 DEF IInv, OnWireOnce
  <2> QED BY <2>1, <2>2 DEF OnWireOnce
<1>2. OneLeasePerChannel'
  <2> SUFFICES ASSUME NEW x \in Rows, NEW y \in Rows, row'[x].st = "leased", row'[y].st = "leased",
                      ChannelOf(x) = ChannelOf(y)
               PROVE  x = y
    BY DEF OneLeasePerChannel
  <2>1. CASE x # d /\ y # d
    BY <2>1 DEF IInv, OneLeasePerChannel
  <2>2. ASSUME NEW z \in Rows, z # d, row'[z].st = "leased", row'[d].st = "leased", ChannelOf(z) = ChannelOf(d)
        PROVE  FALSE
    BY <2>2 DEF IInv, OneLeasePerChannel, NoLeaseOn
  <2> QED BY <2>1, <2>2
<1>3. NotInherited'
  <2>1. \A e \in Rows : Personal(e) /\ row'[e].st \in Live => row[e].st \in Live
    OBVIOUS
  <2> QED BY <2>1 DEF IInv, NotInherited, OwnerIsThere
<1>4. Honest'
  <2>1. \A e \in Rows : e # d /\ Touched(e)' => Touched(e)
    BY DEF Touched
  <2>2. Touched(d)' => got'[d] # 0 \/ snd'[w].pc = "sending"
    BY DEF Touched
  <2>3. \A e \in Rows : Removed(e) => Removed(e)'
    BY RowKinds DEF Removed
  <2>4. \A e \in Rows : Touched(e)' => Admits(row'[e]) \/ Removed(e)'
    <3> SUFFICES ASSUME NEW e \in Rows, Touched(e)' PROVE Admits(row'[e]) \/ Removed(e)'
      OBVIOUS
    <3>1. CASE e = d
      BY <3>1, <2>2
    <3>2. CASE e # d
      BY <3>2, <2>1, <2>3 DEF IInv, Honest
    <3> QED BY <3>1, <3>2
  <2>5. \A e \in Deliveries : e \in Rows
    BY RowKinds
  <2>6. \A e \in Deliveries : (row'[e].st = "accepted" => got'[e] = 1)
                              /\ (row'[e].st # "none" => e.occ \in events')
    BY <2>5 DEF IInv, Honest
  <2> QED BY <2>4, <2>6 DEF Honest
<1>5. Waiting'
  BY DEF IInv, Waiting
<1>6. Sending'
  <2>1. ASSUME NEW v \in Senders, v # w PROVE SenderFits(v)'
    <3>1. SenderFits(v) /\ snd'[v] = snd[v] /\ snd[v].d \in Rows
      BY <1>d, <2>1 DEF IInv, Sending
    <3>2. snd[v].pc = "sending" =>
            got'[snd[v].d] = 0 /\ (row'[snd[v].d].st = "leased" => row'[snd[v].d].token = v)
      BY <3>1, <2>1 DEF SenderFits
    <3>3. Leased(v)' => snd[v].d # d
      BY <3>1, <2>1 DEF Leased
    <3>4. Leased(v)' => Leased(v) /\ row'[snd[v].d] = row[snd[v].d] /\ got'[snd[v].d] = got[snd[v].d]
      BY <3>1, <3>3 DEF Leased
    <3> QED BY <3>1, <3>2, <3>4, SenderStays
  <2> QED BY <2>1 DEF Sending
<1>7. Checked'
  <2> SUFFICES ASSUME NEW v \in Workers, Leased(v)', snd'[v].pc \in {"channelOk", "ready"}
               PROVE  /\ chan[ChannelOf(snd'[v].d)].exists
                      /\ snd'[v].pc = "ready" =>
                           /\ Routed(snd'[v].d) => route.exists
                           /\ Personal(snd'[v].d) => OwnerIsThere
    BY DEF Checked, OwnerIsThere
  <2>1. v # w /\ v \in Senders
    BY DEF Senders
  <2>2. snd'[v] = snd[v] /\ snd[v].d \in Rows
    BY <1>d, <2>1
  <2>3. Leased(v)
    BY <2>1, <2>2 DEF Leased
  <2> QED BY <2>2, <2>3 DEF IInv, Checked
<1> QED BY <1>1, <1>2, <1>3, <1>4, <1>5, <1>6, <1>7, Together

(* A worker claims a delivery. *)
LEMMA ClaimKeeps ==
  ASSUME NotificationAssumption, IInv, NEW w \in Workers, ClaimNotification(w)
  PROVE  IInv'
<1>t. Types
  BY TypesAreTypeOK DEF IInv
<1>1. PICK d \in Rows :
        /\ row[d].st \in {"pending", "retry_wait"} /\ NoLeaseOn(ChannelOf(d))
        /\ row' = [row EXCEPT ![d].st = "leased", ![d].token = w, ![d].fresh = TRUE]
        /\ snd' = [snd EXCEPT ![w] = [pc |-> "claimed", d |-> d, out |-> ""]]
  BY DEF ClaimNotification, SetSender
<1>2. UNCHANGED <<chan, route, acct, consent, src, events, inbox, paused, capt, got, denied, confirmed, broken, mode, left>>
  BY DEF ClaimNotification
<1>w. w \in Senders /\ w # "tester"
  BY NotificationAssumption DEF Senders
<1> DEFINE r == [row[d] EXCEPT !.st = "leased", !.token = w, !.fresh = TRUE]
<1>3. row' = [row EXCEPT ![d] = r]
  BY <1>t, <1>1 DEF Types
<1>4. /\ r \in RowType /\ r.st = "leased" /\ r.token = w /\ r.sending = row[d].sending
      /\ r.attempts = row[d].attempts
  <2>1. row[d] \in RowType
    BY <1>t DEF Types
  <2> QED BY <2>1, <1>w DEF RowType, Live
<1> HIDE DEF r
<1>5. row' \in [Rows -> RowType] /\ row'[d] = r /\ \A e \in Rows : e # d => row'[e] = row[e]
  BY <1>t, <1>3, <1>4 DEF Types
<1> DEFINE s == [pc |-> "claimed", d |-> d, out |-> ""]
<1>6. s \in SndType /\ s.pc = "claimed" /\ s.d = d
  BY DEF SndType
<1>7. snd' = [snd EXCEPT ![w] = s]
  BY <1>1
<1> HIDE DEF s
<1>8. snd' \in [Senders -> SndType] /\ snd'[w] = s /\ \A v \in Senders : v # w => snd'[v] = snd[v]
  BY <1>t, <1>w, <1>6, <1>7 DEF Types
<1>9. Types'
  BY <1>t, <1>2, <1>5, <1>8 DEF Types
<1>10. /\ got[d] = 0 /\ d \in Deliveries /\ row[d].attempts < MaxAttempts /\ ~row[d].sending
       /\ \A v \in Senders : snd[v].pc = "sending" => snd[v].d # d
  BY <1>t, <1>1, FreshRow DEF IInv, Waiting
<1>11. SenderFits(w)'
  BY <1>w, <1>4, <1>5, <1>6, <1>8, <1>10 DEF SenderFits
<1>12. row[d].st \in Live /\ row[d].st # "none" /\ d.occ \in events
  BY <1>1, <1>10 DEF Live, IInv, Honest
<1>13. /\ row'[d].st = "leased" /\ row'[d].token = w /\ ~row'[d].sending
       /\ row'[d].attempts = row[d].attempts /\ got'[d] = 0 /\ snd'[w].pc = "claimed"
  BY <1>2, <1>4, <1>5, <1>6, <1>8, <1>10
<1>14. \A e \in Rows : e # d => row'[e] = row[e] /\ got'[e] = got[e]
  BY <1>2, <1>5
<1>15. /\ SenderFits(w)' /\ (snd'[w].pc = "sending" => snd'[w].d = d)
       /\ (w \in Workers => snd'[w].pc \notin {"channelOk", "ready"})
       /\ (\A v \in Senders : v # w /\ snd[v].pc = "sending" => snd[v].d # d)
       /\ (row'[d].st = "leased" =>
            row'[d].token = w /\ (row[d].st = "leased" \/ NoLeaseOn(ChannelOf(d))))
  BY <1>1, <1>10, <1>11, <1>13
<1>16. (row' = row \/ (d \in Deliveries => row[d].st # "none"))
      /\ (got'[d] # 0 \/ snd'[w].pc = "sending" => Admits(row'[d]) \/ Removed(d)')
      /\ got'[d] <= 1 /\ (d \in Deliveries /\ row'[d].st = "accepted" => got'[d] = 1)
      /\ (d \in Deliveries /\ row'[d].st # "none" => d.occ \in events)
  BY <1>12, <1>13
<1>17. (row'[d].st \in {"pending", "retry_wait"} \/ (row'[d].st = "leased" /\ ~row'[d].sending) =>
           d \in Deliveries /\ row'[d].attempts < MaxAttempts)
         /\ (row'[d].st \in {"pending", "retry_wait"} => ~row'[d].sending)
         /\ (row'[d].st \in Live => row[d].st \in Live \/ ~Personal(d))
  BY <1>10, <1>12, <1>13
<1> QED BY <1>2, <1>w, <1>8, <1>9, <1>14, <1>15, <1>16, <1>17, OneRow

(* A worker begins its attempt. *)
LEMMA BeginKeeps ==
  ASSUME NotificationAssumption, IInv, NEW w \in mode.crew, BeginNotificationAttempt(w)
  PROVE  IInv'
<1>t. Types
  BY TypesAreTypeOK DEF IInv
<1> DEFINE d == snd[w].d
<1>w. w \in Senders /\ w \in Workers
  BY <1>t, NotificationAssumption DEF Types, Senders
<1>s. snd[w] \in SndType /\ d \in Rows /\ snd[w].pc = "ready"
  BY <1>t, <1>w DEF Types, SndType, BeginNotificationAttempt
<1>2. UNCHANGED <<chan, route, acct, consent, src, events, inbox, paused, capt, got, denied, confirmed, broken, mode, left>>
  BY DEF BeginNotificationAttempt
<1>a. CASE ~(HoldsLease(w) /\ ~row[d].sending)
  BY <1>a, <1>2, StopsKeep DEF BeginNotificationAttempt
<1>b. CASE HoldsLease(w) /\ ~row[d].sending
  <2> DEFINE r == [row[d] EXCEPT !.sending = TRUE, !.attempts = @ + 1]
             s == [snd[w] EXCEPT !.pc = "sending"]
  <2>1. row' = [row EXCEPT ![d] = r] /\ snd' = [snd EXCEPT ![w] = s]
    <3>1. /\ row' = [row EXCEPT ![d].sending = TRUE, ![d].attempts = @ + 1]
          /\ snd' = [snd EXCEPT ![w] = s]
      BY <1>b DEF BeginNotificationAttempt, To, SetSender
    <3>2. row' = [row EXCEPT ![d] = r]
      BY <1>t, <3>1 DEF Types
    <3> QED BY <3>1, <3>2
  <2>2. s \in SndType /\ s.d = d /\ s.pc = "sending"
    BY <1>s, StepAhead
  <2>3. row[d].st = "leased" /\ row[d].token = w /\ ~row[d].sending
    BY <1>b DEF HoldsLease
  <2>4. /\ got[d] = 0 /\ d \in Deliveries /\ row[d].attempts < MaxAttempts
        /\ \A v \in Senders : snd[v].pc = "sending" => snd[v].d # d
    BY <1>t, <1>s, <2>3, FreshRow DEF IInv
  <2>5. row[d] \in RowType
    BY <1>t, <1>s DEF Types
  <2>6. row[d].attempts + 1 \in 0..MaxAttempts
    <3>1. row[d].attempts \in 0..MaxAttempts
      BY <2>5 DEF RowType
    <3> QED BY <2>4, <3>1, NotificationAssumption
  <2>7. r \in RowType /\ r.st = "leased" /\ r.token = w /\ r.sending
    BY <2>3, <2>5, <2>6 DEF RowType
  <2> HIDE DEF r, s
  <2>8. row' \in [Rows -> RowType] /\ row'[d] = r /\ \A e \in Rows : e # d => row'[e] = row[e]
    BY <1>t, <1>s, <2>1, <2>7 DEF Types
  <2>9. snd' \in [Senders -> SndType] /\ snd'[w] = s /\ \A v \in Senders : v # w => snd'[v] = snd[v]
    BY <1>t, <1>w, <2>1, <2>2 DEF Types
  <2>10. Types'
    BY <1>t, <1>2, <2>8, <2>9 DEF Types
  <2>11. SenderFits(w) /\ w # "tester"
    BY <1>w, NotificationAssumption DEF IInv, Sending
  <2>12. SenderFits(w)'
    BY <1>2, <2>2, <2>4, <2>7, <2>8, <2>9, <2>11 DEF SenderFits
  <2>13. row[d].st \in Live /\ row[d].st # "none" /\ d.occ \in events
    BY <2>3, <2>4 DEF Live, IInv, Honest
  <2>14. Admits(row'[d])
    BY <2>7, <2>8 DEF Admits
  <2> QED BY <1>2, <1>w, <1>s, <2>2, <2>3, <2>4, <2>7, <2>8, <2>9, <2>10, <2>12, <2>13, <2>14, OneRow
<1> QED BY <1>a, <1>b

(* An attempt on the network. *)
LEMMA AttemptKeeps ==
  ASSUME NotificationAssumption, IInv, NEW w \in Senders, Attempt(w)
  PROVE  IInv'
<1>t. Types
  BY TypesAreTypeOK DEF IInv
<1>s. snd[w] \in SndType /\ snd[w].d \in Rows /\ snd[w].pc = "sending"
  BY <1>t DEF Types, SndType, Attempt
<1>d. PICK d \in Rows : d = snd[w].d
  BY <1>s
<1>1. PICK a \in Attempts :
        /\ Outcome(w, StateAfter(w, a))
        /\ got' = [got EXCEPT ![d] =
                      @ + IF a.received /\ a.out \notin {"retryable", "rejected"} THEN 1 ELSE 0]
        /\ denied' = [denied EXCEPT ![d] =
                      @ + IF a.received /\ a.out \in {"retryable", "rejected"} THEN 1 ELSE 0]
  BY <1>d DEF Attempt
<1>2. UNCHANGED <<row, chan, route, acct, consent, src, events, inbox, paused, capt, confirmed, broken, mode, left>>
  BY DEF Attempt, store
<1> DEFINE o == StateAfter(w, a)
           s == [snd[w] EXCEPT !.pc = "finish", !.out = o]
<1>3. SenderFits(w)
  BY DEF IInv, Sending
<1>4. got[d] = 0 /\ (row[d].st = "leased" => row[d].token = w)
  BY <1>3, <1>s, <1>d DEF SenderFits
<1>5. /\ o \in {"accepted", "uncertain", "retry_later", "failed"}
      /\ o = "accepted" => a.received /\ a.out = "accepted"
      /\ o \in {"retry_later", "failed"} => a.out \in {"retryable", "rejected"}
      /\ o = "retry_later" => w # "tester" /\ row[d].attempts < MaxAttempts
  BY <1>d DEF StateAfter, Attempts
<1>6. got' \in [Rows -> Nat]
      /\ got'[d] = (IF a.received /\ a.out \notin {"retryable", "rejected"} THEN 1 ELSE 0)
      /\ \A e \in Rows : e # d => got'[e] = got[e]
  BY <1>t, <1>s, <1>d, <1>1, <1>4 DEF Types
<1>7. snd' = [snd EXCEPT ![w] = s]
  BY <1>1 DEF Outcome, SetSender
<1> HIDE DEF o
<1>8. s \in SndType /\ s.d = d /\ s.pc = "finish" /\ s.out = o
  BY <1>s, <1>d, <1>5 DEF SndType, Closed
<1> HIDE DEF s
<1>9. snd' \in [Senders -> SndType] /\ snd'[w] = s /\ \A v \in Senders : v # w => snd'[v] = snd[v]
  BY <1>t, <1>7, <1>8 DEF Types
<1>10. Types'
  <2>1. denied' \in [Rows -> Nat]
    BY <1>t, <1>1 DEF Types
  <2> QED BY <1>t, <1>2, <1>6, <1>9, <2>1 DEF Types
<1>11. SenderFits(w)'
  <2>1. w # "tester" => d \in Deliveries
    BY <1>3, <1>s, <1>d DEF SenderFits
  <2> QED BY <1>2, <1>3, <1>s, <1>d, <1>5, <1>6, <1>8, <1>9, <2>1 DEF SenderFits
<1>12. \A v \in Senders : v # w /\ snd[v].pc = "sending" => snd[v].d # d
  BY <1>s, <1>d DEF IInv, OnWireOnce
<1>13. Admits(row[d]) \/ Removed(d)
  BY <1>s, <1>d DEF IInv, Honest, Touched
<1>14. Admits(row'[d]) \/ Removed(d)'
  BY <1>2, <1>13 DEF Removed
<1>15. d \in Deliveries => row[d].st # "accepted"
  BY <1>4 DEF IInv, Honest
<1>16. /\ row[d].st \in {"pending", "retry_wait"} \/ (row[d].st = "leased" /\ ~row[d].sending) =>
             d \in Deliveries /\ row[d].attempts < MaxAttempts
       /\ row[d].st \in {"pending", "retry_wait"} => ~row[d].sending
       /\ d \in Deliveries /\ row[d].st # "none" => d.occ \in events
  BY <1>s, <1>d DEF IInv, Waiting, Honest
<1>17. got'[d] <= 1
  BY <1>6
<1>18. /\ snd'[w].pc = "finish" /\ row' = row /\ route' = route
       /\ row'[d].st = "leased" => row'[d].token = w /\ row[d].st = "leased"
       /\ \A e \in Rows : e # d => row'[e] = row[e] /\ got'[e] = got[e]
       /\ d \in Deliveries /\ row'[d].st = "accepted" => got'[d] = 1
       /\ row'[d].st \in Live => row[d].st \in Live
  BY <1>2, <1>4, <1>6, <1>8, <1>9, <1>15
<1> QED BY <1>2, <1>9, <1>10, <1>11, <1>12, <1>14, <1>16, <1>17, <1>18, OneRow

(* A sender closes its delivery, or finds that the lease is gone. *)
LEMMA FinishKeeps ==
  ASSUME NotificationAssumption, IInv, NEW w \in Senders, FinishNotification(w)
  PROVE  IInv'
<1>t. Types
  BY TypesAreTypeOK DEF IInv
<1>s. snd[w] \in SndType /\ snd[w].d \in Rows /\ snd[w].pc = "finish"
  BY <1>t DEF Types, SndType, FinishNotification
<1>d. PICK d \in Rows : d = snd[w].d
  BY <1>s
<1>2. UNCHANGED <<chan, route, acct, consent, src, events, inbox, paused, capt, got, denied, confirmed, broken, mode, left>>
  BY DEF FinishNotification
<1>3. Idle \in SndType /\ Idle.pc = "idle"
  BY <1>t, IdleTyped
<1>4. snd' = [snd EXCEPT ![w] = Idle]
  BY DEF FinishNotification, SetSender
<1>5. /\ snd' \in [Senders -> SndType] /\ snd'[w].pc = "idle"
      /\ \A v \in Senders : v # w => snd'[v] = snd[v]
  BY <1>t, <1>3, <1>4 DEF Types
<1>a. CASE ~HoldsLease(w)
  <2>1. row' = row
    BY <1>a DEF FinishNotification
  <2>2. Types'
    BY <1>t, <1>2, <1>5, <2>1 DEF Types
  <2>3. \A v \in Senders : snd'[v] = snd[v] \/ snd'[v].pc = "idle"
    BY <1>5
  <2> QED BY <1>2, <2>1, <2>2, <2>3, StopKeeps
<1>b. CASE HoldsLease(w)
  <2> DEFINE o == snd[w].out
             st == IF o = "retry_later" THEN "retry_wait" ELSE o
             r == [row[d] EXCEPT !.st = st, !.why = "",
                     !.due = IF o = "retry_later" THEN FALSE ELSE @,
                     !.sending = FALSE, !.token = "", !.fresh = FALSE]
  <2>1. row' = [row EXCEPT ![d] = r]
    BY <1>t, <1>b, <1>d DEF FinishNotification, Types
  <2>2. row[d].st = "leased" /\ row[d].token = w /\ Leased(w)
    BY <1>b, <1>d DEF HoldsLease, Leased
  <2>3. SenderFits(w)
    BY DEF IInv, Sending
  <2>4. /\ o \in {"retry_later", "retry_wait", "accepted", "failed", "uncertain", "canceled"}
        /\ o = "accepted" => got[d] = 1
        /\ o \notin {"accepted", "uncertain"} => got[d] = 0
        /\ o \in {"retry_wait", "retry_later"} => d \in Deliveries /\ row[d].attempts < MaxAttempts
    BY <1>s, <1>d, <2>2, <2>3 DEF SenderFits, SndType, Closed
  <2>5. row[d] \in RowType
    BY <1>t DEF Types
  <2>6. st \in {"retry_wait", "accepted", "failed", "uncertain", "canceled"}
    BY <2>4
  <2>7. r \in RowType /\ r.st = st /\ r.attempts = row[d].attempts /\ ~r.sending
    <3> HIDE DEF st, o
    <3> DEFINE due == IF o = "retry_later" THEN FALSE ELSE row[d].due
    <3>1. due \in BOOLEAN
      BY <2>5 DEF RowType
    <3>2. r = [row[d] EXCEPT !.st = st, !.why = "", !.due = due,
                             !.sending = FALSE, !.token = "", !.fresh = FALSE]
      OBVIOUS
    <3> HIDE DEF due, r
    <3>3. r.st = st /\ r.attempts = row[d].attempts /\ r.sending = FALSE
      BY <2>5, <3>2 DEF RowType
    <3>4. r \in RowType
      <4> DEFINE x == LeaseLost(row[d], st)
      <4>1. st \in {"none"} \cup Live \cup Closed
        BY <2>6 DEF Live, Closed
      <4>2. x \in RowType
        BY <2>5, <4>1, LeaseLostWritten
      <4>3. r = [x EXCEPT !.due = due, !.fresh = FALSE]
        BY <2>5, <3>2 DEF LeaseLost, RowType
      <4> HIDE DEF x
      <4> QED BY <3>1, <4>2, <4>3 DEF RowType
    <3> QED BY <3>3, <3>4
  <2>8. /\ st = "accepted" => got[d] = 1
        /\ st \notin {"accepted", "uncertain"} => got[d] = 0
        /\ st = "retry_wait" => d \in Deliveries /\ row[d].attempts < MaxAttempts
    BY <2>4
  <2> HIDE DEF r, st, o
  <2>9. row' \in [Rows -> RowType] /\ row'[d] = r /\ \A e \in Rows : e # d => row'[e] = row[e] /\ got'[e] = got[e]
    BY <1>t, <1>2, <2>1, <2>7 DEF Types
  <2>10. Types'
    BY <1>t, <1>2, <1>5, <2>9 DEF Types
  <2>11. SenderFits(w)'
    BY <1>5, <2>3, <1>s DEF SenderFits
  <2>12. ASSUME NEW v \in Senders, v # w, snd[v].pc = "sending" PROVE snd[v].d # d
    <3>1. SenderFits(v)
      BY DEF IInv, Sending
    <3> QED BY <2>2, <2>12, <3>1 DEF SenderFits
  <2>13. row[d].st \in Live /\ row[d].st # "none" /\ (d \in Deliveries => d.occ \in events)
    BY <2>2 DEF Live, IInv, Honest
  <2>14. got[d] <= 1 /\ got[d] \in Nat
    BY <1>t DEF IInv, OnWireOnce, Types
  <2>15. /\ row'[d].st # "leased"
         /\ got'[d] # 0 \/ snd'[w].pc = "sending" => Admits(row'[d]) \/ Removed(d)'
         /\ got'[d] <= 1 /\ (d \in Deliveries /\ row'[d].st = "accepted" => got'[d] = 1)
    BY <1>2, <1>5, <2>6, <2>7, <2>8, <2>9, <2>14 DEF Admits
  <2>16. /\ row'[d].st \in {"pending", "retry_wait"} => d \in Deliveries /\ row'[d].attempts < MaxAttempts
         /\ row'[d].st \in {"pending", "retry_wait"} => ~row'[d].sending
    BY <2>6, <2>7, <2>8, <2>9
  <2> QED BY <1>2, <1>5, <2>9, <2>10, <2>11, <2>12, <2>13, <2>15, <2>16, OneRow
<1> QED BY <1>a, <1>b

(* A manual test of a channel: a row that is born leased and sending. *)
LEMMA TestKeeps ==
  ASSUME NotificationAssumption, IInv, NEW c \in Channels, BeginTest(c)
  PROVE  IInv'
<1>t. Types
  BY TypesAreTypeOK DEF IInv
<1>w. "tester" \in Senders /\ "tester" \notin Workers
  BY NotificationAssumption DEF Senders
<1>d. PICK d \in Rows : d = TestRow(c)
  BY RowKinds
<1>k. d \notin Deliveries /\ ~Personal(d) /\ ChannelOf(d) = c
  BY <1>d, RowKinds
<1> DEFINE r == [NoRow EXCEPT !.st = "leased", !.sending = TRUE, !.attempts = 1, !.chRev = chan[c].rev,
                              !.token = "tester", !.fresh = TRUE]
           s == [pc |-> "sending", d |-> d, out |-> ""]
<1>1. /\ row' = [row EXCEPT ![d] = r] /\ got' = [got EXCEPT ![d] = 0]
      /\ denied' = [denied EXCEPT ![d] = 0]
      /\ snd' = [snd EXCEPT !["tester"] = s]
      /\ snd["tester"].pc = "idle" /\ NoLeaseOn(c)
  BY <1>d DEF BeginTest, SetSender
<1>2. UNCHANGED <<chan, route, acct, consent, src, events, inbox, paused, capt, confirmed, broken, mode>>
  BY DEF BeginTest
<1>l. left' \in Nat
  BY <1>t, RequestLeft DEF BeginTest
<1>3. r \in RowType /\ r.st = "leased" /\ r.token = "tester" /\ r.sending
  <2>1. chan[c].rev \in Nat
    BY <1>t DEF Types, ChanType
  <2>2. 1 \in 0..MaxAttempts /\ 0 \in 0..MaxAttempts
    BY NotificationAssumption
  <2>3. NoRow \in RowType
    BY <2>2 DEF NoRow, RowType
  <2> QED BY <2>1, <2>2, <2>3, <1>w DEF RowType, Live
<1>4. s \in SndType /\ s.pc = "sending" /\ s.d = d
  BY DEF SndType
<1> HIDE DEF r, s
<1>5. /\ row' \in [Rows -> RowType] /\ row'[d] = r /\ got' \in [Rows -> Nat] /\ got'[d] = 0
      /\ \A e \in Rows : e # d => row'[e] = row[e] /\ got'[e] = got[e]
  BY <1>t, <1>1, <1>3 DEF Types
<1>6. /\ snd' \in [Senders -> SndType] /\ snd'["tester"] = s
      /\ \A v \in Senders : v # "tester" => snd'[v] = snd[v]
  BY <1>t, <1>w, <1>1, <1>4 DEF Types
<1>7. Types'
  <2>1. denied' \in [Rows -> Nat]
    BY <1>t, <1>1 DEF Types
  <2> QED BY <1>t, <1>2, <1>l, <1>5, <1>6, <2>1 DEF Types
<1>8. SenderFits("tester")'
  BY <1>k, <1>3, <1>4, <1>5, <1>6 DEF SenderFits
<1>9. ASSUME NEW v \in Senders, v # "tester", snd[v].pc = "sending" PROVE snd[v].d # d
  <2>1. SenderFits(v)
    BY DEF IInv, Sending
  <2> QED BY <1>k, <1>9, <2>1 DEF SenderFits
<1>10. /\ row'[d].st = "leased" /\ row'[d].token = "tester" /\ row'[d].sending
       /\ Admits(row'[d]) /\ got'[d] <= 1
  <2>1. Admits(r)
    BY <1>3 DEF Admits
  <2>2. row'[d] = r /\ got'[d] <= 1
    BY <1>5
  <2> QED BY <1>3, <2>1, <2>2, Zenon
<1>12. NoLeaseOn(ChannelOf(d))
  BY <1>1, <1>k
<1>11. snd'["tester"].pc = "sending" /\ snd'["tester"].d = d
  BY <1>4, <1>6
<1> QED BY <1>2, <1>w, <1>k, <1>5, <1>6, <1>7, <1>8, <1>9, <1>10, <1>11, <1>12, OneRow

-----------------------------------------------------------------------------
(* Capture and replay: rows of deliveries that were not there are queued.  *)

(* A delivery that was not there, and whose event retention has not swept, *)
(* is queued without an attempt. *)
Queued(d) ==
    /\ d \in Deliveries /\ row[d].st = "none" /\ ~Removed(d)
    /\ row'[d].st = "pending" /\ ~row'[d].sending /\ row'[d].attempts < MaxAttempts
    /\ d.occ \in events'

(* What queueing deliveries keeps. *)
LEMMA NewRowsKeep ==
  ASSUME NotificationAssumption, IInv, Types', NotInherited',
         UNCHANGED <<snd, got, route, chan, acct>>, events \subseteq events',
         \A d \in Rows : row'[d] = row[d] \/ Queued(d)
  PROVE  IInv'
<1>t. Types
  BY TypesAreTypeOK DEF IInv
<1>d. \A v \in Senders : snd[v].d \in Rows
  BY <1>t DEF Types, SndType
<1>0. \A d \in Deliveries : d \in Rows
  BY RowKinds
<1>1. OnWireOnce'
  BY DEF IInv, OnWireOnce
<1>2. \A d \in Rows : row'[d].st = "leased" => row'[d] = row[d]
  BY DEF Queued
<1>3. OneLeasePerChannel'
  <2> SUFFICES ASSUME NEW x \in Rows, NEW y \in Rows, row'[x].st = "leased", row'[y].st = "leased",
                      ChannelOf(x) = ChannelOf(y)
               PROVE  x = y
    BY DEF OneLeasePerChannel
  <2> QED BY <1>2 DEF IInv, OneLeasePerChannel
<1>4. Honest'
  <2>1. \A d \in Rows : Touched(d)' => Touched(d)
    BY DEF Touched
  <2>2. ASSUME NEW d \in Rows, Removed(d) PROVE Removed(d)'
    <3>1. \A e \in Deliveries : e.occ = d.occ => Removed(e) /\ row[e].st = "none"
      BY <2>2 DEF Removed
    <3>2. \A e \in Deliveries : e.occ = d.occ => row'[e].st = "none"
      BY <1>0, <3>1 DEF Queued
    <3> QED BY <2>2, <3>2 DEF Removed
  <2>3. ASSUME NEW d \in Rows, Touched(d)' PROVE Admits(row'[d]) \/ Removed(d)'
    <3>1. Admits(row[d]) \/ Removed(d)
      BY <2>1, <2>3 DEF IInv, Honest
    <3>2. ~Queued(d)
      BY <3>1 DEF Queued, Admits
    <3> QED BY <2>2, <3>1, <3>2
  <2>4. \A d \in Deliveries : (row'[d].st = "accepted" => got'[d] = 1)
                              /\ (row'[d].st # "none" => d.occ \in events')
    BY <1>0 DEF IInv, Honest, Queued
  <2> QED BY <2>3, <2>4 DEF Honest
<1>5. Waiting'
  BY DEF IInv, Waiting, Queued
<1>6. Sending'
  <2> SUFFICES ASSUME NEW v \in Senders PROVE SenderFits(v)'
    BY DEF Sending
  <2>1. SenderFits(v) /\ snd[v].d \in Rows
    BY <1>d DEF IInv, Sending
  <2>2. Leased(v)' => Leased(v) /\ row'[snd[v].d] = row[snd[v].d]
    BY <1>2, <2>1 DEF Leased
  <2>3. snd[v].pc = "sending" =>
          got'[snd[v].d] = 0 /\ (row'[snd[v].d].st = "leased" => row'[snd[v].d].token = v)
    BY <1>2, <2>1 DEF SenderFits
  <2> QED BY <2>1, <2>2, <2>3, SenderStays
<1>7. Checked'
  <2> SUFFICES ASSUME NEW w \in Workers, Leased(w)'
               PROVE  /\ snd[w].pc \in {"channelOk", "ready"} => chan[ChannelOf(snd[w].d)].exists
                      /\ snd[w].pc = "ready" =>
                           /\ Routed(snd[w].d) => route.exists
                           /\ Personal(snd[w].d) => OwnerIsThere
    BY DEF Checked, OwnerIsThere
  <2>1. w \in Senders
    BY DEF Senders
  <2>2. Leased(w)
    BY <1>2, <1>d, <2>1 DEF Leased
  <2> QED BY <2>2 DEF IInv, Checked
<1>8. TypeOK'
  BY DEF Types, TypeOK, RowType, SndType, ChanType, RouteType, AcctType, CaptType
<1> QED BY <1>1, <1>3, <1>4, <1>5, <1>6, <1>7, <1>8 DEF IInv

(* The row a capture or a replay writes. *)
LEMMA QueuedRow ==
  ASSUME NotificationAssumption, NEW c \in Nat, NEW r \in Nat,
         NEW s, s = [NoRow EXCEPT !.st = "pending", !.due = TRUE, !.chRev = c, !.rtRev = r]
  PROVE  s \in RowType /\ s.st = "pending" /\ ~s.sending /\ s.attempts < MaxAttempts
<1>1. 0 \in 0..MaxAttempts /\ 0 < MaxAttempts
  BY NotificationAssumption
<1>2. NoRow \in RowType /\ ~NoRow.sending /\ NoRow.attempts = 0
  BY <1>1 DEF NoRow, RowType
<1> HIDE DEF NoRow
<1>3. s \in RowType /\ s.st = "pending" /\ (s.sending <=> NoRow.sending) /\ s.attempts = NoRow.attempts
  BY <1>2 DEF RowType, Live
<1> QED BY <1>1, <1>2, <1>3

(* The transaction of a capture. *)
LEMMA CaptureKeeps ==
  ASSUME NotificationAssumption, IInv, NEW c \in Capturers, Capture(c)
  PROVE  IInv'
<1>t. Types
  BY TypesAreTypeOK DEF IInv
<1>r. row \in [Rows -> RowType]
  BY <1>t DEF Types
<1> DEFINE k == capt[c]
<1>k. k \in CaptType
  BY <1>t DEF Types
<1>1. UNCHANGED <<snd, got, denied, confirmed, broken, mode, left>>
  BY DEF Capture
<1>2. capt' \in [Capturers -> CaptType]
  <2>1. capt' = [capt EXCEPT ![c] = NoCapture] \/ capt' = [capt EXCEPT ![c] = Rest(k.todo)]
    BY DEF Capture
  <2>2. k.todo \in SUBSET Occurrences
    BY <1>k DEF CaptType
  <2> QED BY <1>t, <2>1, <2>2, NoCaptureTyped, RestTyped DEF Types
<1>a. CASE UNCHANGED store
  <2>1. UNCHANGED <<row, chan, route, acct, consent, src, events, inbox, paused>>
    BY <1>a DEF store
  <2>2. Types'
    BY <1>t, <1>1, <1>2, <2>1 DEF Types
  <2> QED BY <1>1, <2>1, <2>2, StillKeeps DEF OwnerIsThere
<1>b. CASE ~UNCHANGED store
  <2>1. /\ k.occ \notin events
        /\ events' = events \cup {k.occ}
        /\ row' = [d \in Rows |->
              IF d \in Deliveries /\ d.occ = k.occ /\ d.gen = 0 /\ d.to \in Kept(k.to)
              THEN [NoRow EXCEPT !.st = "pending", !.due = TRUE, !.chRev = k.chRev[d.to.ch],
                                 !.rtRev = IF d.to.routed THEN k.rtRev ELSE 0]
              ELSE row[d]]
        /\ inbox' = (IF consent /\ Eligible THEN inbox \cup {k.occ} ELSE inbox)
        /\ consent' = FALSE
        /\ src' = [src EXCEPT ![k.occ] = "captured"]
        /\ UNCHANGED <<chan, route, acct, paused>>
    BY <1>b DEF Capture
  <2>k. k.occ \in Occurrences /\ k.rtRev \in Nat /\ k.chRev \in [Channels -> Nat]
    BY <1>k DEF CaptType
  <2> HIDE DEF k
  <2>2. ASSUME NEW d \in Rows
        PROVE  /\ row'[d] \in RowType
               /\ row'[d] = row[d] \/ (Queued(d) /\ (Personal(d) => OwnerIsThere))
    <3>1. CASE d \in Deliveries /\ d.occ = k.occ /\ d.gen = 0 /\ d.to \in Kept(k.to)
      <4>1. row'[d] = [NoRow EXCEPT !.st = "pending", !.due = TRUE, !.chRev = k.chRev[d.to.ch],
                                    !.rtRev = IF d.to.routed THEN k.rtRev ELSE 0]
        BY <2>1, <3>1
      <4>2. k.chRev[d.to.ch] \in Nat /\ (IF d.to.routed THEN k.rtRev ELSE 0) \in Nat
        <5>1. ChannelOf(d) \in Channels
          BY RowKinds
        <5> QED BY <5>1, <2>k, <3>1 DEF ChannelOf
      <4>3. row'[d] \in RowType /\ row'[d].st = "pending" /\ ~row'[d].sending /\ row'[d].attempts < MaxAttempts
        BY <4>1, <4>2, QueuedRow
      <4>4. row[d].st = "none" /\ ~Removed(d) /\ d.occ \in events'
        BY <2>1, <3>1 DEF IInv, Honest, Removed
      <4>5. Personal(d) => OwnerIsThere
        BY <3>1 DEF Kept, Eligible, Personal
      <4> QED BY <3>1, <4>3, <4>4, <4>5 DEF Queued
    <3>2. CASE ~(d \in Deliveries /\ d.occ = k.occ /\ d.gen = 0 /\ d.to \in Kept(k.to))
      <4>1. row'[d] = row[d]
        BY <2>1, <3>2
      <4>2. row[d] \in RowType
        BY <1>r
      <4> QED BY <4>1, <4>2
    <3> QED BY <3>1, <3>2
  <2>3. row' \in [Rows -> RowType]
    BY <2>1, <2>2
  <2>4. /\ events' \subseteq Occurrences /\ inbox' \subseteq Occurrences /\ consent' \in BOOLEAN
        /\ src' \in [Occurrences -> {"none", "pending", "captured", "cleared"}]
    BY <1>t, <2>1, <2>k DEF Types
  <2>5. Types'
    BY <1>t, <1>1, <1>2, <2>1, <2>3, <2>4 DEF Types
  <2>6. NotInherited'
    <3>1. (\E d \in Rows : Personal(d) /\ row'[d].st \in Live) => OwnerIsThere
      BY <2>2 DEF IInv, NotInherited
    <3>2. inbox' # {} => OwnerIsThere
      BY <2>1 DEF IInv, NotInherited, Eligible
    <3>3. OwnerIsThere' <=> OwnerIsThere
      BY <2>1 DEF OwnerIsThere
    <3> QED BY <3>1, <3>2, <3>3 DEF NotInherited
  <2> QED BY <1>1, <2>1, <2>2, <2>5, <2>6, NewRowsKeep
<1> QED BY <1>a, <1>b

(* Generations below a bound that are used have a last one. *)
LEMMA LastGeneration ==
  ASSUME NotificationAssumption, NEW S, S \subseteq 0..Generations, S # {}
  PROVE  \E m \in S : \A g \in S : g <= m
<1> DEFINE T == {Generations - g : g \in S}
<1>g. Generations \in Nat
  BY NotificationAssumption
<1>0. \A g \in 0..Generations : Generations - g \in Nat
  BY <1>g
<1>1. T \subseteq Nat /\ T # {}
  BY <1>0
<1>2. PICK x \in T : \A y \in T : x <= y
  BY <1>1, LeastNat
<1>3. PICK m \in S : x = Generations - m
  BY <1>2
<1>4. ASSUME NEW g \in S PROVE g <= m
  <2>1. x <= Generations - g /\ g \in Int /\ m \in Int
    BY <1>2
  <2> QED BY <1>g, <1>3, <2>1
<1> QED BY <1>4

(* A replay is a delivery of the same family whose row is not there, as    *)
(* long as the last generation the bound allows is free.                   *)
LEMMA NextIsFree ==
  ASSUME NotificationAssumption, NEW d \in Deliveries, row[d].st # "none",
         row[[d EXCEPT !.gen = Generations]].st = "none"
  PROVE  LET e == NextGeneration(d) IN
           e \in Deliveries /\ e.occ = d.occ /\ e.to = d.to /\ row[e].st = "none"
<1> DEFINE At(g) == [d EXCEPT !.gen = g]
           S == {g \in 0..Generations : row[At(g)].st # "none"}
<1>1. \A g \in 0..Generations : At(g) \in Deliveries /\ At(g).occ = d.occ /\ At(g).to = d.to /\ At(g).gen = g
  BY DEF Deliveries
<1>2. ASSUME NEW f \in Deliveries, f.occ = d.occ, f.to = d.to PROVE f = At(f.gen) /\ f.gen \in 0..Generations
  BY <1>2 DEF Deliveries
<1>3. d = At(d.gen) /\ d.gen \in 0..Generations
  BY <1>2
<1>4. row[At(Generations)].st = "none"
  OBVIOUS
<1> HIDE DEF At
<1>5. PICK m \in S : \A g \in S : g <= m
  <2>1. S \subseteq 0..Generations /\ d.gen \in S
    BY <1>3
  <2> QED BY <2>1, LastGeneration
<1>6. m \in 0..Generations /\ m + 1 \in 0..Generations /\ m + 1 \notin S
  <2>1. m # Generations /\ m \in 0..Generations
    BY <1>4, <1>5
  <2> QED BY <1>5, <2>1, NotificationAssumption
<1> DEFINE e == At(m + 1)
<1>7. e \in Deliveries /\ e.occ = d.occ /\ e.to = d.to /\ e.gen = m + 1 /\ row[e].st = "none"
  BY <1>1, <1>6
<1>8. ASSUME NEW f \in Deliveries, f.occ = d.occ, f.to = d.to, row[f].st # "none" PROVE f.gen < e.gen
  <2>1. f.gen \in S
    BY <1>2, <1>8
  <2> QED BY <1>5, <1>6, <1>7, <2>1
<1>9. ASSUME NEW f \in Deliveries, f.occ = d.occ, f.to = d.to, row[f].st = "none", f.gen < e.gen
      PROVE  \E g \in Deliveries : g.occ = d.occ /\ g.to = d.to /\ row[g].st # "none" /\ g.gen > f.gen
  <2>1. f.gen \in 0..Generations /\ f.gen # m
    BY <1>2, <1>5, <1>9
  <2>2. At(m).gen > f.gen
    BY <1>1, <1>6, <1>7, <1>9, <2>1
  <2>3. row[At(m)].st # "none"
    BY <1>5
  <2> QED BY <1>1, <1>6, <2>2, <2>3
<1> HIDE DEF e
<1> QED BY <1>7, <1>8, <1>9 DEF NextGeneration

(* An administrator sends a closed delivery again. *)
LEMMA ReplayKeeps ==
  ASSUME NotificationAssumption, IInv, NEW d \in Deliveries, NEW confirm \in BOOLEAN,
         ReplayNotification(d, confirm)
  PROVE  IInv'
<1>t. Types
  BY TypesAreTypeOK DEF IInv
<1>r. row \in [Rows -> RowType] /\ \A e \in Deliveries : e \in Rows
  BY <1>t, RowKinds DEF Types
<1> DEFINE e == NextGeneration(d)
           c == chan[d.to.ch].rev
           r == IF d.to.routed THEN route.rev ELSE 0
           new == [NoRow EXCEPT !.st = "pending", !.due = TRUE, !.chRev = c, !.rtRev = r]
<1>1. /\ row' = [row EXCEPT ![e] = new]
      /\ confirmed' = (IF confirm THEN confirmed \cup {e} ELSE confirmed)
      /\ UNCHANGED <<chan, route, acct, consent, src, events, inbox, paused, snd, capt, got, denied, broken, mode>>
      /\ d.occ \in events /\ (Personal(d) => OwnerIsThere)
  BY DEF ReplayNotification, Replayable, MayRead
<1>2. row[d].st # "none"
  BY DEF ReplayNotification, Replayable, Closed
<1>3. e \in Deliveries /\ e.occ = d.occ /\ e.to = d.to /\ row[e].st = "none"
  BY <1>2, NextIsFree DEF ReplayNotification
<1>4. c \in Nat /\ r \in Nat
  <2>1. d.to.ch \in Channels
    BY RowKinds, <1>r DEF ChannelOf
  <2>2. chan \in [Channels -> ChanType] /\ route \in RouteType
    BY <1>t DEF Types
  <2> QED BY <2>1, <2>2 DEF ChanType, RouteType
<1> HIDE DEF e, c, r
<1>5. new \in RowType /\ new.st = "pending" /\ ~new.sending /\ new.attempts < MaxAttempts
  BY <1>4, QueuedRow
<1> HIDE DEF new
<1>6. ~Removed(e)
  BY <1>2, <1>3 DEF Removed
<1>7. e \in Rows /\ row'[e] = new /\ \A x \in Rows : x # e => row'[x] = row[x]
  BY <1>1, <1>3, <1>r
<1>8. row' \in [Rows -> RowType]
  BY <1>1, <1>5, <1>r
<1>9. Queued(e)
  BY <1>1, <1>3, <1>5, <1>6, <1>7 DEF Queued
<1>10. confirmed' \subseteq Deliveries /\ left' \in Nat
  BY <1>t, <1>1, <1>3, RequestLeft DEF Types, ReplayNotification
<1>11. Types'
  BY <1>t, <1>1, <1>8, <1>10 DEF Types
<1>12. NotInherited'
  <2>1. Personal(e) => OwnerIsThere
    BY <1>1, <1>3 DEF Personal
  <2>2. \A x \in Rows : Personal(x) /\ row'[x].st \in Live => OwnerIsThere
    BY <1>7, <2>1 DEF IInv, NotInherited
  <2>3. OwnerIsThere' <=> OwnerIsThere
    BY <1>1 DEF OwnerIsThere
  <2> QED BY <1>1, <2>2, <2>3 DEF IInv, NotInherited
<1>13. \A x \in Rows : row'[x] = row[x] \/ Queued(x)
  BY <1>7, <1>9
<1> QED BY <1>1, <1>11, <1>12, <1>13, NewRowsKeep

-----------------------------------------------------------------------------
(* Retention takes the closed deliveries of an event, and keeps the event. *)
LEMMA CleanupKeeps ==
  ASSUME NotificationAssumption, IInv, NEW o \in Occurrences, Cleanup(o)
  PROVE  IInv'
<1>t. Types
  BY TypesAreTypeOK DEF IInv
<1>r. row \in [Rows -> RowType] /\ (\A e \in Deliveries : e \in Rows) /\ \A v \in Senders : snd[v].d \in Rows
  BY <1>t, RowKinds DEF Types, SndType
<1> DEFINE Swept(d) == d \in Deliveries /\ d.occ = o
<1>1. /\ row' = [d \in Rows |-> IF Swept(d) THEN NoRow ELSE row[d]]
      /\ inbox' = inbox \ {o} /\ o \in events
      /\ \A d \in Deliveries : d.occ = o => row[d].st \notin Live
      /\ UNCHANGED <<chan, route, acct, consent, src, events, paused, snd, capt, got, denied, confirmed, broken, mode>>
  BY DEF Cleanup
<1> HIDE DEF Swept
<1>2. NoRow \in RowType /\ NoRow.st = "none" /\ ~NoRow.sending
  <2>1. 0 \in 0..MaxAttempts
    BY NotificationAssumption
  <2> QED BY <2>1 DEF NoRow, RowType
<1>3. \A d \in Rows : /\ Swept(d) => row'[d] = NoRow
                      /\ ~Swept(d) => row'[d] = row[d]
  BY <1>1
<1> HIDE DEF NoRow
<1>4. row' \in [Rows -> RowType]
  BY <1>1, <1>2, <1>r
<1>5. Types'
  <2>1. left' \in Nat
    BY <1>t, RequestLeft DEF Cleanup
  <2>2. inbox' \subseteq Occurrences
    BY <1>t, <1>1 DEF Types
  <2> QED BY <1>t, <1>1, <1>4, <2>1, <2>2 DEF Types
<1>6. \A d \in Rows : row'[d].st # "none" => row'[d] = row[d] /\ ~Swept(d)
  BY <1>2, <1>3
<1>7. OnWireOnce'
  BY <1>1 DEF IInv, OnWireOnce
<1>8. OneLeasePerChannel'
  BY <1>6 DEF IInv, OneLeasePerChannel
<1>9. NotInherited'
  <2>1. \A d \in Rows : row'[d].st \in Live => row[d].st \in Live
    BY <1>6 DEF Live
  <2>2. inbox' # {} => inbox # {}
    BY <1>1
  <2>3. OwnerIsThere' <=> OwnerIsThere
    BY <1>1 DEF OwnerIsThere
  <2> QED BY <2>1, <2>2, <2>3 DEF IInv, NotInherited
<1>10. Honest'
  <2>1. \A d \in Rows : Touched(d)' => Touched(d)
    BY <1>1 DEF Touched
  <2>2. \A d \in Rows : Removed(d) => Removed(d)'
    BY <1>1, <1>6, <1>r DEF Removed
  <2>3. ASSUME NEW d \in Rows, Swept(d) PROVE Removed(d)'
    <3>1. d \in Deliveries /\ d.occ \in events'
      BY <1>1, <2>3 DEF Swept
    <3>2. \A e \in Deliveries : e.occ = d.occ => row'[e].st = "none"
      BY <1>2, <1>3, <1>r, <2>3 DEF Swept
    <3> QED BY <3>1, <3>2 DEF Removed
  <2>4. ASSUME NEW d \in Rows, Touched(d)' PROVE Admits(row'[d]) \/ Removed(d)'
    <3>1. CASE Swept(d)
      BY <2>3, <3>1
    <3>2. CASE ~Swept(d)
      <4>1. row'[d] = row[d]
        BY <1>3, <3>2
      <4>2. Admits(row[d]) \/ Removed(d)
        BY <2>1, <2>4 DEF IInv, Honest
      <4> QED BY <2>2, <4>1, <4>2
    <3> QED BY <3>1, <3>2
  <2>5. \A d \in Deliveries : (row'[d].st = "accepted" => got'[d] = 1)
                              /\ (row'[d].st # "none" => d.occ \in events')
    BY <1>1, <1>6, <1>r DEF IInv, Honest
  <2> QED BY <2>4, <2>5 DEF Honest
<1>11. Waiting'
  <2>1. route' = route
    BY <1>1
  <2>2. \A d \in Rows : row'[d].st = "none" \/ row'[d] = row[d]
    BY <1>6
  <2> QED BY <2>1, <2>2 DEF IInv, Waiting
<1>12. \A v \in Senders : /\ Leased(v)' => Leased(v) /\ row'[snd[v].d] = row[snd[v].d]
                          /\ row'[snd[v].d].st = "leased" => row'[snd[v].d] = row[snd[v].d]
  BY <1>1, <1>6, <1>r DEF Leased
<1>13. Sending'
  <2> SUFFICES ASSUME NEW v \in Senders PROVE SenderFits(v)'
    BY DEF Sending
  <2>1. SenderFits(v) /\ snd' = snd /\ got' = got
    BY <1>1 DEF IInv, Sending
  <2>2. snd[v].pc = "sending" =>
          got'[snd[v].d] = 0 /\ (row'[snd[v].d].st = "leased" => row'[snd[v].d].token = v)
    BY <1>12, <2>1 DEF SenderFits
  <2> QED BY <1>12, <2>1, <2>2, SenderStays
<1>14. Checked'
  <2> SUFFICES ASSUME NEW w \in Workers, Leased(w)'
               PROVE  /\ snd[w].pc \in {"channelOk", "ready"} => chan[ChannelOf(snd[w].d)].exists
                      /\ snd[w].pc = "ready" =>
                           /\ Routed(snd[w].d) => route.exists
                           /\ Personal(snd[w].d) => OwnerIsThere
    BY <1>1 DEF Checked, OwnerIsThere
  <2>1. w \in Senders
    BY DEF Senders
  <2> QED BY <1>12, <2>1 DEF IInv, Checked
<1>15. TypeOK'
  BY <1>5 DEF Types, TypeOK, RowType, SndType, ChanType, RouteType, AcctType, CaptType
<1> QED BY <1>7, <1>8, <1>9, <1>10, <1>11, <1>13, <1>14, <1>15 DEF IInv

-----------------------------------------------------------------------------
(* The initial states: no delivery, every channel and the rule in place.   *)
LEMMA InitInv == ASSUME NotificationAssumption, Init PROVE IInv
<1>1. Types
  <2>1. NoRow \in RowType
    <3>1. 0 \in 0..MaxAttempts
      BY NotificationAssumption
    <3> QED BY <3>1 DEF NoRow, RowType
  <2>2. row \in [Rows -> RowType] /\ got \in [Rows -> Nat] /\ denied \in [Rows -> Nat]
    BY <2>1 DEF Init
  <2>3. snd \in [Senders -> SndType] /\ capt \in [Capturers -> CaptType]
    <3>1. Idle \in SndType
      <4>1. Rows # {}
        <5>1. snd = [w \in Senders |-> Idle] /\ route.ch \in Channels
          BY DEF Init
        <5> QED BY <5>1, RowKinds
      <4>2. (CHOOSE d \in Rows : TRUE) \in Rows
        BY <4>1
      <4> QED BY <4>2 DEF Idle, SndType
    <3> QED BY <3>1, NoCaptureTyped DEF Init
  <2>4. /\ chan \in [Channels -> ChanType] /\ route \in RouteType
    <3>1. [exists |-> TRUE, enabled |-> TRUE, paused |-> FALSE, rev |-> 1] \in ChanType
      BY DEF ChanType
    <3>2. chan \in [Channels -> ChanType]
      BY <3>1 DEF Init
    <3>3. ASSUME NEW B \in SUBSET BOOLEAN, NEW N \in SUBSET Nat,
                 route \in [exists : B, enabled : B, rev : N, ch : Channels]
          PROVE  route \in RouteType
      BY <3>3 DEF RouteType
    <3>4. {TRUE} \in SUBSET BOOLEAN /\ {1} \in SUBSET Nat
      OBVIOUS
    <3>5. route \in [exists : {TRUE}, enabled : {TRUE}, rev : {1}, ch : Channels]
      BY DEF Init
    <3>6. route \in RouteType
      BY <3>3, <3>4, <3>5
    <3> QED BY <3>2, <3>6
  <2>5. acct \in AcctType
    BY DEF Init, AcctType, OwnerGeneration
  <2>6. mode \in Modes /\ left \in Nat
    BY NotificationAssumption DEF Init
  <2> QED BY <2>2, <2>3, <2>4, <2>5, <2>6 DEF Init, Types
<1>2. /\ \A d \in Rows : row[d].st = "none" /\ got[d] = 0
      /\ \A w \in Senders : snd[w].pc = "idle"
      /\ inbox = {}
  BY DEF Init, NoRow, Idle
<1>3. OnWireOnce
  BY <1>2 DEF OnWireOnce
<1>4. OneLeasePerChannel
  BY <1>2 DEF OneLeasePerChannel
<1>5. NotInherited
  BY <1>2 DEF NotInherited, Live
<1>6. Honest
  <2>1. \A d \in Rows : ~Touched(d)
    BY <1>2 DEF Touched
  <2> QED BY <1>2, <2>1, RowKinds DEF Honest
<1>7. Waiting
  BY <1>2 DEF Waiting, Init
<1>8. Sending
  BY <1>2 DEF Sending, SenderFits
<1>9. Checked
  BY <1>2 DEF Checked, Senders
<1> QED BY <1>1, <1>3, <1>4, <1>5, <1>6, <1>7, <1>8, <1>9, TypesAreTypeOK DEF IInv

(* The workers of a behaviour are workers, and those are senders. *)
LEMMA CrewWorks == ASSUME NotificationAssumption, Types PROVE mode.crew \subseteq Workers /\ Workers \subseteq Senders
  BY NotificationAssumption DEF Types, Senders

(* Every step keeps the invariant. *)
LEMMA NextInv == ASSUME NotificationAssumption, IInv, [Next]_vars PROVE IInv'
<1>t. Types
  BY TypesAreTypeOK DEF IInv
<1>c. mode.crew \subseteq Workers /\ Workers \subseteq Senders
  BY <1>t, CrewWorks
<1>0. CASE UNCHANGED vars
  BY <1>0, StutterKeeps
<1>1. ASSUME NEW o \in Occurrences, Complete(o) \/ ClearEvidence(o) \/ Cleanup(o) PROVE IInv'
  BY <1>1, EvidenceKeeps, CleanupKeeps
<1>2. ASSUME NEW c \in Capturers, ReadEvidence(c) \/ Route(c) \/ Capture(c) PROVE IInv'
  BY <1>2, CaptureKeeps, RouteKeeps
<1>3. ASSUME NEW w \in mode.crew, Work(w) \/ Panic(w) PROVE IInv'
  <2>1. w \in Workers /\ w \in Senders
    BY <1>c
  <2>2. CASE ClaimNotification(w)
    BY <2>1, <2>2, ClaimKeeps
  <2>3. CASE CheckChannel(w)
    BY <2>1, <2>3, CheckChannelKeeps
  <2>4. CASE CheckRecipient(w)
    BY <2>1, <2>4, CheckRecipientKeeps
  <2>5. CASE BeginNotificationAttempt(w)
    BY <1>3, <2>1, <2>5, BeginKeeps
  <2>6. CASE Panic(w)
    BY <1>3, <2>1, <2>6, StopsKeep
  <2> QED BY <1>3, <2>2, <2>3, <2>4, <2>5, <2>6 DEF Work
<1>4. ASSUME NEW w \in Senders, Attempt(w) \/ FinishNotification(w) PROVE IInv'
  BY <1>4, AttemptKeeps, FinishKeeps
<1>5. CASE \/ RecoverNotificationLeases
           \/ \E d \in Rows : LeaseRunsOut(d) \/ RetryComesDue(d) \/ Expires(d) \/ Review(d)
  BY <1>5, RowsKeep
<1>6. CASE DeleteUser
  BY <1>6, DeleteUserKeeps
<1>7. CASE (\E c \in Channels : SaveChannel(c)) \/ ChangeAccount \/ SaveRoute \/ SwitchDispatch \/ ChangeSettings
  BY <1>7, SwitchKeeps
<1>8. CASE (\E c \in Channels : DeleteChannel(c)) \/ DeleteRoute
  BY <1>8, DeleteKeeps
<1>9. ASSUME NEW c \in Channels, BeginTest(c) PROVE IInv'
  BY <1>9, TestKeeps
<1>10. ASSUME NEW d \in Deliveries, NEW confirm \in BOOLEAN, ReplayNotification(d, confirm) PROVE IInv'
  BY <1>10, ReplayKeeps
<1>11. CASE Crash
  BY <1>11, StopsKeep
<1> QED BY <1>0, <1>1, <1>2, <1>3, <1>4, <1>5, <1>6, <1>7, <1>8, <1>9, <1>10, <1>11 DEF Next

-----------------------------------------------------------------------------
(* The inductive invariant of the notification deliveries holds in every   *)
(* reachable state, whatever requests and faults are mixed.                *)
THEOREM Invariance == ASSUME NotificationAssumption PROVE Spec => []IInv
<1>1. Init => IInv
  BY InitInv
<1>2. IInv /\ [Next]_vars => IInv'
  BY NextInv
<1> QED BY <1>1, <1>2, PTL DEF Spec

-----------------------------------------------------------------------------
(* Messages and attempts: what the destination took of a delivery is no    *)
(* more than the attempts its row counts, and while a sender is on the     *)
(* wire one of these is still to come.                                     *)
Spent(d) == got[d] + denied[d]
OnWire(d) == \E w \in Senders : snd[w].pc = "sending" /\ snd[w].d = d
CountedRow(d) ==
    /\ Spent(d) <= MaxAttempts
    /\ row[d].st # "none" => Spent(d) <= row[d].attempts
    /\ row[d].st = "none" => Spent(d) = 0 \/ Removed(d)
    /\ OnWire(d) => /\ Spent(d) < MaxAttempts
                    /\ row[d].st # "none" => Spent(d) < row[d].attempts
                    /\ row[d].st = "none" => Removed(d)
Counted == \A d \in Rows : CountedRow(d)

LEMMA AttemptsNat ==
  ASSUME NotificationAssumption, NEW r \in RowType PROVE r.attempts \in Nat /\ MaxAttempts \in Nat
<1>1. r.attempts \in 0..MaxAttempts
  BY DEF RowType
<1> QED BY <1>1, NotificationAssumption

(* Steps that begin no attempt, end none and count none. *)
LEMMA SteadyCounted ==
  ASSUME Counted, UNCHANGED <<got, denied>>, events \subseteq events',
         \A v \in Senders : snd'[v].pc = "sending" => snd'[v] = snd[v],
         \A d \in Rows : /\ row'[d].attempts = row[d].attempts
                         /\ row'[d].st = "none" <=> row[d].st = "none"
  PROVE  Counted'
<1> SUFFICES ASSUME NEW d \in Rows PROVE CountedRow(d)'
  BY DEF Counted
<1>1. OnWire(d)' => OnWire(d)
  BY DEF OnWire
<1>2. Removed(d) => Removed(d)'
  BY RowKinds DEF Removed
<1>3. Spent(d)' = Spent(d)
  BY DEF Spent
<1>4. CountedRow(d)
  BY DEF Counted
<1> QED BY <1>1, <1>2, <1>3, <1>4 DEF CountedRow

(* A step that changes one row and what was received of it. *)
LEMMA OtherRowsCounted ==
  ASSUME Counted, events' = events, NEW d \in Rows,
         \A v \in Senders : snd'[v].pc = "sending" => snd'[v] = snd[v] \/ snd'[v].d = d,
         \A e \in Rows : e # d => row'[e] = row[e] /\ got'[e] = got[e] /\ denied'[e] = denied[e],
         row'[d].st = "none" <=> row[d].st = "none", CountedRow(d)'
  PROVE  Counted'
<1> SUFFICES ASSUME NEW e \in Rows, e # d PROVE CountedRow(e)'
  BY DEF Counted
<1>1. OnWire(e)' => OnWire(e)
  BY DEF OnWire
<1>2. Removed(e) => Removed(e)'
  BY RowKinds DEF Removed
<1>3. Spent(e)' = Spent(e) /\ row'[e] = row[e]
  BY DEF Spent
<1>4. CountedRow(e)
  BY DEF Counted
<1> QED BY <1>1, <1>2, <1>3, <1>4 DEF CountedRow

(* The locals of a sender whose step is no beginning. *)
LEMMA NoBeginning ==
  ASSUME Types, NEW w \in Senders,
         \/ SetSender(w, Idle) \/ \E st : Outcome(w, st)
         \/ \E pc \in {"channelOk", "ready"} : To(w, pc)
         \/ \E d : SetSender(w, [pc |-> "claimed", d |-> d, out |-> ""])
  PROVE  \A v \in Senders : snd'[v].pc = "sending" => snd'[v] = snd[v] /\ v # w
<1>1. snd \in [Senders -> SndType] /\ snd[w] \in SndType
  BY DEF Types
<1>2. ASSUME NEW s, snd' = [snd EXCEPT ![w] = s], s.pc # "sending"
      PROVE  \A v \in Senders : snd'[v].pc = "sending" => snd'[v] = snd[v] /\ v # w
  <2>1. snd'[w] = s /\ \A v \in Senders : v # w => snd'[v] = snd[v]
    BY <1>1, <1>2
  <2> QED BY <1>2, <2>1
<1>3. CASE SetSender(w, Idle)
  <2>1. Idle.pc # "sending"
    BY DEF Idle
  <2> QED BY <1>2, <1>3, <2>1 DEF SetSender
<1>4. ASSUME NEW st, Outcome(w, st)
      PROVE  \A v \in Senders : snd'[v].pc = "sending" => snd'[v] = snd[v] /\ v # w
  <2>1. [snd[w] EXCEPT !.pc = "finish", !.out = st].pc = "finish"
    BY <1>1 DEF SndType
  <2> QED BY <1>2, <1>4, <2>1 DEF Outcome, SetSender
<1>5. ASSUME NEW pc \in {"channelOk", "ready"}, To(w, pc)
      PROVE  \A v \in Senders : snd'[v].pc = "sending" => snd'[v] = snd[v] /\ v # w
  <2>1. [snd[w] EXCEPT !.pc = pc].pc = pc
    BY <1>1 DEF SndType
  <2> QED BY <1>2, <1>5, <2>1 DEF To, SetSender
<1>6. ASSUME NEW d, SetSender(w, [pc |-> "claimed", d |-> d, out |-> ""])
      PROVE  \A v \in Senders : snd'[v].pc = "sending" => snd'[v] = snd[v] /\ v # w
  <2>1. [pc |-> "claimed", d |-> d, out |-> ""].pc = "claimed"
    OBVIOUS
  <2> QED BY <1>2, <1>6, <2>1 DEF SetSender
<1> QED BY <1>3, <1>4, <1>5, <1>6

(* A worker looks, claims, finishes or is stopped: nothing is counted. *)
LEMMA LooksCounted ==
  ASSUME NotificationAssumption, IInv, Counted, NEW w \in Senders,
         \/ ClaimNotification(w) \/ CheckChannel(w) \/ CheckRecipient(w)
         \/ FinishNotification(w) \/ Panic(w)
  PROVE  Counted'
<1>t. Types
  BY TypesAreTypeOK DEF IInv
<1>r. row \in [Rows -> RowType] /\ snd[w].d \in Rows
  BY <1>t DEF Types, SndType
<1>1. UNCHANGED <<got, denied, events>>
  BY DEF ClaimNotification, CheckChannel, CheckRecipient, FinishNotification, Panic, store
<1>2. \A v \in Senders : snd'[v].pc = "sending" => snd'[v] = snd[v]
  <2>1. CASE ClaimNotification(w)
    BY <1>t, <2>1, NoBeginning DEF ClaimNotification
  <2>2. CASE CheckChannel(w)
    BY <1>t, <2>2, NoBeginning DEF CheckChannel
  <2>3. CASE CheckRecipient(w)
    BY <1>t, <2>3, NoBeginning DEF CheckRecipient
  <2>4. CASE FinishNotification(w)
    BY <1>t, <2>4, NoBeginning DEF FinishNotification
  <2>5. CASE Panic(w)
    BY <1>t, <2>5, NoBeginning DEF Panic
  <2> QED BY <2>1, <2>2, <2>3, <2>4, <2>5
<1>3. \A d \in Rows : /\ row'[d].attempts = row[d].attempts
                      /\ row'[d].st = "none" <=> row[d].st = "none"
  <2>1. CASE ClaimNotification(w)
    <3>1. PICK d \in Rows : /\ row[d].st \in {"pending", "retry_wait"}
                            /\ row' = [row EXCEPT ![d].st = "leased", ![d].token = w, ![d].fresh = TRUE]
      BY <2>1 DEF ClaimNotification
    <3> DEFINE r == [row[d] EXCEPT !.st = "leased", !.token = w, !.fresh = TRUE]
    <3>2. row' = [row EXCEPT ![d] = r]
      BY <1>r, <3>1
    <3>3. r.st = "leased" /\ r.attempts = row[d].attempts
      <4>1. row[d] \in RowType
        BY <1>r
      <4> QED BY <4>1 DEF RowType
    <3> HIDE DEF r
    <3>4. row'[d] = r /\ \A e \in Rows : e # d => row'[e] = row[e]
      BY <1>r, <3>2
    <3> QED BY <3>1, <3>3, <3>4
  <2>2. CASE CheckChannel(w) \/ CheckRecipient(w) \/ Panic(w)
    BY <2>2 DEF CheckChannel, CheckRecipient, Panic, store
  <2>3. CASE FinishNotification(w)
    <3> DEFINE d == snd[w].d
               o == snd[w].out
               st == IF o = "retry_later" THEN "retry_wait" ELSE o
               due == IF o = "retry_later" THEN FALSE ELSE row[d].due
               r == [row[d] EXCEPT !.st = st, !.why = "", !.due = due,
                                   !.sending = FALSE, !.token = "", !.fresh = FALSE]
    <3>1. CASE row' = row
      BY <3>1
    <3>2. CASE row[d].st = "leased" /\ row' = [row EXCEPT ![d] = r]
      <4>1. SenderFits(w) /\ snd[w].pc = "finish" /\ snd[w] \in SndType
        BY <1>t, <2>3 DEF IInv, Sending, FinishNotification, Types
      <4>2. o # "" /\ o \in {"", "retry_later", "retry_wait"} \cup Closed
        BY <4>1 DEF SenderFits, SndType
      <4>3. st # "none"
        BY <4>2 DEF Closed
      <4>4. row[d] \in RowType
        BY <1>r
      <4> HIDE DEF st, due, o
      <4>5. r.st = st /\ r.attempts = row[d].attempts
        BY <4>4 DEF RowType
      <4> HIDE DEF r
      <4>6. row'[d] = r /\ \A e \in Rows : e # d => row'[e] = row[e]
        BY <1>r, <3>2
      <4> QED BY <3>2, <4>3, <4>5, <4>6
    <3>3. row' = row \/ (row[d].st = "leased" /\ row' = [row EXCEPT ![d] = r])
      BY <1>r, <2>3 DEF FinishNotification, HoldsLease
    <3> QED BY <3>1, <3>2, <3>3
  <2> QED BY <2>1, <2>2, <2>3
<1> QED BY <1>1, <1>2, <1>3, SteadyCounted

(* An attempt is counted when it begins. *)
LEMMA BeginCounted ==
  ASSUME NotificationAssumption, IInv, Counted, NEW w \in Senders, BeginNotificationAttempt(w)
  PROVE  Counted'
<1>t. Types
  BY TypesAreTypeOK DEF IInv
<1>d. PICK d \in Rows : d = snd[w].d
  BY <1>t DEF Types, SndType
<1>r. /\ row \in [Rows -> RowType] /\ row[d] \in RowType
      /\ snd \in [Senders -> SndType] /\ snd[w] \in SndType
      /\ got[d] \in Nat /\ denied[d] \in Nat
  BY <1>t DEF Types
<1>1. UNCHANGED <<got, denied, events>>
  BY DEF BeginNotificationAttempt
<1>2. CASE SetSender(w, Idle) /\ UNCHANGED row
  BY <1>t, <1>1, <1>2, NoBeginning, SteadyCounted
<1>3. CASE /\ HoldsLease(w) /\ ~row[d].sending /\ To(w, "sending")
           /\ row' = [row EXCEPT ![d].sending = TRUE, ![d].attempts = @ + 1]
  <2>1. row[d].st = "leased" /\ ~row[d].sending
    BY <1>d, <1>3 DEF HoldsLease
  <2>2. row[d].attempts < MaxAttempts
    BY <1>t, <2>1, FreshRow DEF IInv
  <2>3. row[d].attempts \in Nat /\ MaxAttempts \in Nat
    BY <1>r, AttemptsNat
  <2>4. /\ row'[d].attempts = row[d].attempts + 1 /\ row'[d].st = "leased"
        /\ \A e \in Rows : e # d => row'[e] = row[e]
    <3> DEFINE r == [row[d] EXCEPT !.sending = TRUE, !.attempts = @ + 1]
    <3>1. row' = [row EXCEPT ![d] = r]
      BY <1>r, <1>3
    <3>2. r.attempts = row[d].attempts + 1 /\ r.st = row[d].st
      BY <1>r DEF RowType
    <3> HIDE DEF r
    <3>3. row'[d] = r /\ \A e \in Rows : e # d => row'[e] = row[e]
      BY <1>r, <3>1
    <3> QED BY <2>1, <3>2, <3>3
  <2>5. \A v \in Senders : snd'[v].pc = "sending" => snd'[v] = snd[v] \/ snd'[v].d = d
    <3>1. [snd[w] EXCEPT !.pc = "sending"].d = d
      BY <1>d, <1>r DEF SndType
    <3> QED BY <1>r, <1>3, <3>1 DEF To, SetSender
  <2>6. Spent(d) <= row[d].attempts /\ Spent(d) \in Nat /\ Spent(d)' = Spent(d)
    BY <1>r, <1>1, <2>1 DEF Counted, CountedRow, Spent
  <2>7. Spent(d)' < MaxAttempts /\ Spent(d)' < row'[d].attempts
        /\ Spent(d)' <= MaxAttempts /\ Spent(d)' <= row'[d].attempts
    BY <2>2, <2>3, <2>4, <2>6
  <2>8. row'[d].st # "none" /\ row[d].st # "none"
    BY <2>1, <2>4
  <2>9. CountedRow(d)'
    BY <2>7, <2>8 DEF CountedRow
  <2> QED BY <1>1, <2>4, <2>5, <2>8, <2>9, OtherRowsCounted
<1> QED BY <1>d, <1>2, <1>3 DEF BeginNotificationAttempt

(* An attempt reaches the destination once at most. *)
LEMMA AttemptCounted ==
  ASSUME NotificationAssumption, IInv, Counted, NEW w \in Senders, Attempt(w)
  PROVE  Counted'
<1>t. Types
  BY TypesAreTypeOK DEF IInv
<1>d. PICK d \in Rows : d = snd[w].d
  BY <1>t DEF Types, SndType
<1>1. PICK x \in {0, 1}, y \in {0, 1} :
        /\ x + y <= 1
        /\ got' = [got EXCEPT ![d] = @ + x] /\ denied' = [denied EXCEPT ![d] = @ + y]
  <2>1. PICK a \in Attempts :
          /\ got' = [got EXCEPT ![d] = @ + IF a.received /\ a.out \notin {"retryable", "rejected"} THEN 1 ELSE 0]
          /\ denied' = [denied EXCEPT ![d] = @ + IF a.received /\ a.out \in {"retryable", "rejected"} THEN 1 ELSE 0]
    BY <1>d DEF Attempt
  <2> DEFINE x == IF a.received /\ a.out \notin {"retryable", "rejected"} THEN 1 ELSE 0
             y == IF a.received /\ a.out \in {"retryable", "rejected"} THEN 1 ELSE 0
  <2>2. got' = [got EXCEPT ![d] = @ + x] /\ denied' = [denied EXCEPT ![d] = @ + y]
    BY <2>1
  <2>3. x \in {0, 1} /\ y \in {0, 1} /\ x + y <= 1
    OBVIOUS
  <2> HIDE DEF x, y
  <2> QED BY <2>2, <2>3
<1>2. got \in [Rows -> Nat] /\ denied \in [Rows -> Nat] /\ MaxAttempts \in Nat /\ row[d].attempts \in Nat
  <2>1. row[d] \in RowType
    BY <1>t DEF Types
  <2> QED BY <1>t, <2>1, AttemptsNat DEF Types
<1>3. UNCHANGED <<row, events>> /\ snd[w].pc = "sending" /\ \E st : Outcome(w, st)
  BY DEF Attempt, store
<1>4. \A v \in Senders : snd'[v].pc = "sending" => snd'[v] = snd[v] /\ v # w
  BY <1>t, <1>3, NoBeginning
<1>5. ~OnWire(d)'
  BY <1>d, <1>3, <1>4 DEF OnWire, IInv, OnWireOnce
<1>6. OnWire(d) /\ CountedRow(d)
  BY <1>d, <1>3 DEF OnWire, Counted
<1>7. Spent(d)' <= Spent(d) + 1 /\ Spent(d)' \in Nat /\ Spent(d) \in Nat
  BY <1>1, <1>2 DEF Spent
<1>8. Spent(d)' <= MaxAttempts /\ (row[d].st # "none" => Spent(d)' <= row[d].attempts)
  BY <1>2, <1>6, <1>7 DEF CountedRow
<1>9. Removed(d)' <=> Removed(d)
  BY <1>3 DEF Removed
<1>10. CountedRow(d)'
  BY <1>3, <1>5, <1>6, <1>8, <1>9 DEF CountedRow
<1>11. \A e \in Rows : e # d => row'[e] = row[e] /\ got'[e] = got[e] /\ denied'[e] = denied[e]
  BY <1>1, <1>2, <1>3
<1> QED BY <1>3, <1>4, <1>10, <1>11, OtherRowsCounted

(* A manual test is a row of its own, with its one attempt counted. *)
LEMMA TestCounted ==
  ASSUME NotificationAssumption, IInv, Counted, NEW c \in Channels, BeginTest(c)
  PROVE  Counted'
<1>t. Types
  BY TypesAreTypeOK DEF IInv
<1>d. PICK d \in Rows : d = TestRow(c) /\ d \notin Deliveries
  BY RowKinds
<1>1. /\ got' = [got EXCEPT ![d] = 0] /\ denied' = [denied EXCEPT ![d] = 0]
      /\ snd' = [snd EXCEPT !["tester"] = [pc |-> "sending", d |-> d, out |-> ""]]
      /\ events' = events
  BY <1>d DEF BeginTest, SetSender
<1>2. PICK r : r.st = "leased" /\ r.attempts = 1 /\ row' = [row EXCEPT ![d] = r]
  <2> DEFINE r == [NoRow EXCEPT !.st = "leased", !.sending = TRUE, !.attempts = 1, !.chRev = chan[c].rev,
                                !.token = "tester", !.fresh = TRUE]
  <2>1. r.st = "leased" /\ r.attempts = 1
    BY DEF NoRow
  <2>2. row' = [row EXCEPT ![d] = r]
    BY <1>d DEF BeginTest
  <2> QED BY <2>1, <2>2
<1>3. row \in [Rows -> RowType] /\ got \in [Rows -> Nat] /\ denied \in [Rows -> Nat] /\ snd \in [Senders -> SndType]
  BY <1>t DEF Types
<1>4. Spent(d)' = 0 /\ row'[d] = r
  <2>1. got'[d] = 0 /\ denied'[d] = 0 /\ row'[d] = r
    BY <1>1, <1>2, <1>3
  <2> QED BY <2>1 DEF Spent
<1>5. 0 < MaxAttempts /\ 0 <= MaxAttempts
  BY NotificationAssumption
<1>6. CountedRow(d)'
  BY <1>2, <1>4, <1>5 DEF CountedRow
<1> SUFFICES ASSUME NEW e \in Rows, e # d PROVE CountedRow(e)'
  BY <1>6 DEF Counted
<1>7. OnWire(e)' => OnWire(e)
  BY <1>1, <1>3 DEF OnWire
<1>8. Removed(e)' <=> Removed(e)
  BY <1>1, <1>2, <1>3, <1>d, RowKinds DEF Removed
<1>9. Spent(e)' = Spent(e) /\ row'[e] = row[e]
  BY <1>1, <1>2, <1>3 DEF Spent
<1>10. CountedRow(e)
  BY DEF Counted
<1> QED BY <1>7, <1>8, <1>9, <1>10 DEF CountedRow

(* Deliveries that are queued start with nothing received. *)
LEMMA NewRowsCounted ==
  ASSUME IInv, Counted, UNCHANGED <<snd, got, denied>>, events \subseteq events',
         \A d \in Rows : row'[d] = row[d] \/ (Queued(d) /\ row'[d].attempts \in Nat), MaxAttempts \in Nat
  PROVE  Counted'
<1> SUFFICES ASSUME NEW d \in Rows PROVE CountedRow(d)'
  BY DEF Counted
<1>1. Spent(d)' = Spent(d) /\ (OnWire(d)' <=> OnWire(d)) /\ CountedRow(d)
  BY DEF Spent, OnWire, Counted
<1>2. CASE Queued(d) /\ row'[d].attempts \in Nat
  <2>1. Spent(d) = 0 /\ ~OnWire(d) /\ row'[d].st # "none"
    BY <1>1, <1>2 DEF Queued, CountedRow
  <2>2. 0 <= MaxAttempts /\ 0 <= row'[d].attempts
    BY <1>2
  <2> QED BY <1>1, <2>1, <2>2 DEF CountedRow
<1>3. CASE row'[d] = row[d]
  <2>1. ASSUME Removed(d) PROVE Removed(d)'
    <3>1. \A e \in Deliveries : e.occ = d.occ => e \in Rows /\ Removed(e) /\ row[e].st = "none"
      BY <2>1, RowKinds DEF Removed
    <3>2. \A e \in Deliveries : e.occ = d.occ => row'[e].st = "none"
      BY <3>1 DEF Queued
    <3> QED BY <2>1, <3>2 DEF Removed
  <2> QED BY <1>1, <1>3, <2>1 DEF CountedRow
<1> QED BY <1>2, <1>3

(* A capture or a replay queues deliveries. *)
LEMMA QueueingCounted ==
  ASSUME NotificationAssumption, IInv, IInv', Counted,
         \/ \E c \in Capturers : Capture(c)
         \/ \E d \in Deliveries, confirm \in BOOLEAN : ReplayNotification(d, confirm)
  PROVE  Counted'
<1>t. Types /\ Types'
  BY TypesAreTypeOK DEF IInv, Types, TypeOK, RowType, SndType, ChanType, RouteType, AcctType, CaptType
<1>r. row \in [Rows -> RowType] /\ row' \in [Rows -> RowType] /\ Deliveries \subseteq Rows
  BY <1>t, RowKinds DEF Types
<1>1. UNCHANGED <<snd, got, denied>> /\ events \subseteq events'
  BY DEF Capture, ReplayNotification, store
<1>2. ASSUME NEW d \in Deliveries, row[d].st = "none", ~Removed(d), row'[d].st = "pending"
      PROVE  Queued(d) /\ row'[d].attempts \in Nat
  <2>1. row'[d] \in RowType /\ d \in Rows
    BY <1>r
  <2>2. ~row'[d].sending /\ row'[d].attempts < MaxAttempts /\ d.occ \in events'
    BY <1>2, <2>1 DEF IInv, Waiting, Honest
  <2>3. row'[d].attempts \in Nat
    BY <2>1, AttemptsNat
  <2> QED BY <1>2, <2>2, <2>3 DEF Queued
<1>3. ASSUME NEW c \in Capturers, Capture(c), NEW d \in Rows, row'[d] # row[d]
      PROVE  d \in Deliveries /\ row[d].st = "none" /\ ~Removed(d) /\ row'[d].st = "pending"
  <2>1. capt[c].occ \notin events
    BY <1>3 DEF Capture, store
  <2>2. d \in Deliveries /\ d.occ = capt[c].occ
    BY <1>3 DEF Capture, store
  <2>3. row'[d] = [NoRow EXCEPT !.st = "pending", !.due = TRUE, !.chRev = capt[c].chRev[d.to.ch],
                                !.rtRev = IF d.to.routed THEN capt[c].rtRev ELSE 0]
    <3> HIDE DEF NoRow
    <3> QED BY <1>3 DEF Capture, store
  <2>4. row'[d].st = "pending"
    BY <2>3 DEF NoRow
  <2> QED BY <2>1, <2>2, <2>4 DEF IInv, Honest, Removed
<1>4. ASSUME NEW e \in Deliveries, NEW confirm \in BOOLEAN, ReplayNotification(e, confirm),
             NEW d \in Rows, row'[d] # row[d]
      PROVE  d \in Deliveries /\ row[d].st = "none" /\ ~Removed(d) /\ row'[d].st = "pending"
  <2> DEFINE n == NextGeneration(e)
  <2>1. row[e].st # "none" /\ row[[e EXCEPT !.gen = Generations]].st = "none"
    BY <1>4 DEF ReplayNotification, Replayable, Closed
  <2>2. n \in Deliveries /\ n.occ = e.occ /\ row[n].st = "none"
    BY <2>1, NextIsFree
  <2>3. PICK x, y : row' = [row EXCEPT ![n] = [NoRow EXCEPT !.st = "pending", !.due = TRUE,
                                                         !.chRev = x, !.rtRev = y]]
    BY <1>4 DEF ReplayNotification
  <2> HIDE DEF n
  <2>4. d = n
    BY <1>r, <1>4, <2>3
  <2>5. row'[d] = [NoRow EXCEPT !.st = "pending", !.due = TRUE, !.chRev = x, !.rtRev = y]
    BY <1>r, <2>3, <2>4
  <2>6. row'[d].st = "pending"
    BY <2>5 DEF NoRow
  <2>7. ~Removed(n)
    BY <2>1, <2>2 DEF Removed
  <2> QED BY <2>2, <2>4, <2>6, <2>7
<1>5. \A d \in Rows : row'[d] = row[d] \/ (Queued(d) /\ row'[d].attempts \in Nat)
  BY <1>2, <1>3, <1>4
<1> QED BY <1>1, <1>5, NewRowsCounted, NotificationAssumption

(* Retention forgets the attempts, and keeps the event. *)
LEMMA CleanupCounted ==
  ASSUME NotificationAssumption, IInv, Counted, NEW o \in Occurrences, Cleanup(o)
  PROVE  Counted'
<1>t. Types
  BY TypesAreTypeOK DEF IInv
<1>r. row \in [Rows -> RowType] /\ Deliveries \subseteq Rows
  BY <1>t, RowKinds DEF Types
<1>1. UNCHANGED <<snd, got, denied, events>> /\ o \in events
  BY DEF Cleanup
<1>2. NoRow.st = "none"
  BY DEF NoRow
<1>3. /\ \A d \in Deliveries : d.occ = o => row'[d] = NoRow
      /\ \A d \in Rows : ~(d \in Deliveries /\ d.occ = o) => row'[d] = row[d]
  <2>1. row' = [d \in Rows |-> IF d \in {e \in Deliveries : e.occ = o} THEN NoRow ELSE row[d]]
    BY DEF Cleanup
  <2> HIDE DEF NoRow
  <2> QED BY <1>r, <2>1
<1> HIDE DEF NoRow
<1>4. \A d \in Rows : Removed(d) => Removed(d)'
  BY <1>1, <1>2, <1>3, <1>r DEF Removed
<1>5. \A d \in Rows : d \in Deliveries /\ d.occ = o => Removed(d)'
  BY <1>1, <1>2, <1>3 DEF Removed
<1> SUFFICES ASSUME NEW d \in Rows PROVE CountedRow(d)'
  BY DEF Counted
<1>6. Spent(d)' = Spent(d) /\ (OnWire(d)' <=> OnWire(d)) /\ CountedRow(d)
  BY <1>1 DEF Spent, OnWire, Counted
<1>7. CASE d \in Deliveries /\ d.occ = o
  BY <1>2, <1>3, <1>5, <1>6, <1>7 DEF CountedRow
<1>8. CASE ~(d \in Deliveries /\ d.occ = o)
  BY <1>3, <1>4, <1>6, <1>8 DEF CountedRow
<1> QED BY <1>7, <1>8

(* A request, the clock or the recovery changes rows, and counts nothing. *)
LEMMA CalmCounted ==
  ASSUME NotificationAssumption, IInv, Counted,
         \/ RecoverNotificationLeases \/ DeleteUser \/ DeleteRoute \/ \E c \in Channels : DeleteChannel(c)
         \/ \E d \in Rows : LeaseRunsOut(d) \/ RetryComesDue(d) \/ Expires(d) \/ Review(d)
  PROVE  Counted'
<1>t. Types
  BY TypesAreTypeOK DEF IInv
<1>1. UNCHANGED <<snd, got, denied, events>>
  BY DEF RecoverNotificationLeases, DeleteUser, DeleteRoute, DeleteChannel, LeaseRunsOut, RetryComesDue,
         Expires, Tick, Review
<1>2. \A d \in Rows : Calm(row[d], row'[d])
  <2>1. CASE RecoverNotificationLeases
    BY <1>t, <2>1, RecoveredRow DEF RecoverNotificationLeases, Types
  <2>2. CASE DeleteUser
    BY <1>t, <2>2, DeletedRows
  <2>3. CASE DeleteRoute \/ \E c \in Channels : DeleteChannel(c)
    BY <1>t, <2>3, RevokedRows DEF DeleteRoute, DeleteChannel
  <2>4. ASSUME NEW x \in Rows, LeaseRunsOut(x) \/ RetryComesDue(x) \/ Expires(x)
        PROVE  \A d \in Rows : Calm(row[d], row'[d])
    BY <1>t, <2>4, TickedRows
  <2>5. ASSUME NEW x \in Rows, Review(x) PROVE \A d \in Rows : Calm(row[d], row'[d])
    BY <1>t, <2>5, ReviewedRows
  <2> QED BY <2>1, <2>2, <2>3, <2>4, <2>5
<1> QED BY <1>1, <1>2, SteadyCounted DEF Calm

(* Every step keeps the count. *)
LEMMA NextCounted == ASSUME NotificationAssumption, IInv, Counted, [Next]_vars PROVE Counted'
<1>t. Types /\ IInv'
  BY TypesAreTypeOK, NextInv DEF IInv
<1>c. mode.crew \subseteq Senders
  BY <1>t, CrewWorks
<1>0. ASSUME UNCHANGED <<row, snd, got, denied, events>> PROVE Counted'
  BY <1>0, SteadyCounted
<1>1. ASSUME NEW o \in Occurrences, Complete(o) \/ ClearEvidence(o) \/ Cleanup(o) PROVE Counted'
  BY <1>0, <1>1, CleanupCounted DEF Complete, ClearEvidence
<1>2. ASSUME NEW c \in Capturers, ReadEvidence(c) \/ Route(c) \/ Capture(c) PROVE Counted'
  BY <1>0, <1>t, <1>2, QueueingCounted DEF ReadEvidence, Route, store
<1>3. ASSUME NEW w \in mode.crew, Work(w) \/ Panic(w) PROVE Counted'
  BY <1>c, <1>3, LooksCounted, BeginCounted DEF Work
<1>4. ASSUME NEW w \in Senders, Attempt(w) \/ FinishNotification(w) PROVE Counted'
  BY <1>4, AttemptCounted, LooksCounted
<1>5. CASE \/ RecoverNotificationLeases \/ DeleteUser \/ DeleteRoute \/ \E c \in Channels : DeleteChannel(c)
           \/ \E d \in Rows : LeaseRunsOut(d) \/ RetryComesDue(d) \/ Expires(d) \/ Review(d)
  BY <1>5, CalmCounted
<1>6. CASE (\E c \in Channels : SaveChannel(c)) \/ ChangeAccount \/ SaveRoute \/ SwitchDispatch \/ ChangeSettings
  BY <1>0, <1>6 DEF SaveChannel, ChangeAccount, SaveRoute, SwitchDispatch, ChangeSettings, store
<1>7. ASSUME NEW c \in Channels, BeginTest(c) PROVE Counted'
  BY <1>7, TestCounted
<1>8. ASSUME NEW d \in Deliveries, NEW confirm \in BOOLEAN, ReplayNotification(d, confirm) PROVE Counted'
  BY <1>t, <1>8, QueueingCounted
<1>9. CASE Crash
  <2>1. UNCHANGED <<row, got, denied, events>> /\ \A v \in Senders : snd'[v].pc = "idle"
    BY <1>9 DEF Crash, store, Idle
  <2> QED BY <2>1, SteadyCounted
<1>10. CASE UNCHANGED vars
  BY <1>0, <1>10 DEF vars
<1> QED BY <1>1, <1>2, <1>3, <1>4, <1>5, <1>6, <1>7, <1>8, <1>9, <1>10 DEF Next

(* What the destination took fits the attempts in every reachable state. *)
LEMMA AttemptsBound == ASSUME NotificationAssumption PROVE Spec => []Counted
<1>1. Init => Counted
  <2> SUFFICES ASSUME Init PROVE Counted
    OBVIOUS
  <2>1. \A d \in Rows : row[d].st = "none" /\ got[d] = 0 /\ denied[d] = 0
    BY DEF Init, NoRow
  <2>2. \A w \in Senders : snd[w].pc = "idle"
    BY DEF Init, Idle
  <2>3. 0 <= MaxAttempts
    BY NotificationAssumption
  <2> QED BY <2>1, <2>2, <2>3 DEF Counted, CountedRow, Spent, OnWire
<1>2. IInv /\ Counted /\ [Next]_vars => Counted'
  BY NextCounted
<1> QED BY <1>1, <1>2, Invariance, PTL DEF Spec

-----------------------------------------------------------------------------
(* The destination takes the message of a delivery at most once, and       *)
(* beside that in attempts whose answer was an error, all together no more *)
(* often than attempts are allowed; the table tells the administrator the  *)
(* truth about it, and a channel has one lease at a time:                  *)
(* BeginNotificationAttempt, FinishNotification and                        *)
(* RecoverNotificationLeases against everything that closes a row.         *)
THEOREM Soundness == ASSUME NotificationAssumption PROVE Spec => []DeliverySound
<1>1. ASSUME IInv, Counted PROVE DeliverySound
  <2>1. RecordTellsTruth
    <3>1. \A d \in Deliveries : d \in Rows
      BY RowKinds
    <3>2. ASSUME NEW d \in Deliveries, row[d].why = "",
                 row[d].st \in {"failed", "expired", "canceled", "pending", "retry_wait"}
          PROVE  got[d] = 0 /\ \A w \in Senders : snd[w].pc = "sending" => snd[w].d # d
      <4>1. ~Admits(row[d]) /\ ~Removed(d)
        BY <3>2 DEF Admits, Removed
      <4> QED BY <1>1, <3>1, <4>1 DEF IInv, Honest, Touched
    <3> QED BY <1>1, <3>2 DEF IInv, Honest, RecordTellsTruth
  <2>2. AtMostOnce
    BY <1>1 DEF IInv, OnWireOnce, Counted, CountedRow, Spent, AtMostOnce
  <2> QED BY <1>1, <2>1, <2>2 DEF IInv, DeliverySound
<1> QED BY <1>1, Invariance, AttemptsBound, PTL

(* Live deliveries and inbox rows of a person belong to the account that   *)
(* now exists: DeleteUser sweeps them, and captureNotification looks at    *)
(* the account again inside its transaction.                               *)
THEOREM NothingInherited == ASSUME NotificationAssumption PROVE Spec => []NotInherited
<1>1. IInv => NotInherited
  BY DEF IInv
<1> QED BY <1>1, Invariance, PTL

-----------------------------------------------------------------------------
(* Which steps begin an attempt, and which change a closed row.            *)

(* A worker that has checked everything begins only by the conditional     *)
(* update of its row. *)
LEMMA OnlyBeginBegins ==
  ASSUME NotificationAssumption, IInv, [Next]_vars, NEW w \in Workers,
         snd[w].pc = "ready", snd'[w].pc = "sending"
  PROVE  HoldsLease(w)
<1>t. Types
  BY TypesAreTypeOK DEF IInv
<1>s. snd \in [Senders -> SndType] /\ w \in Senders /\ w # "tester" /\ mode.crew \subseteq Senders
  BY <1>t, CrewWorks, NotificationAssumption DEF Types
<1>i. Idle.pc = "idle"
  BY DEF Idle
<1>1. ASSUME NEW v \in Senders, NEW s, SetSender(v, s), s.pc # "sending" PROVE FALSE
  BY <1>s, <1>1 DEF SetSender
<1>2. ASSUME NEW v \in Senders, NEW st, Outcome(v, st) PROVE FALSE
  <2>1. snd[v] \in SndType
    BY <1>s
  <2>2. [snd[v] EXCEPT !.pc = "finish", !.out = st].pc = "finish"
    BY <2>1 DEF SndType
  <2> QED BY <1>1, <1>2, <2>2 DEF Outcome
<1>3. ASSUME NEW v \in Senders, NEW pc, To(v, pc), pc # "sending" PROVE FALSE
  <2>1. snd[v] \in SndType
    BY <1>s
  <2>2. [snd[v] EXCEPT !.pc = pc].pc = pc
    BY <2>1 DEF SndType
  <2> QED BY <1>1, <1>3, <2>2 DEF To
<1>4. snd' # snd
  OBVIOUS
<1>5. ASSUME NEW v \in mode.crew, Work(v) \/ Panic(v) PROVE HoldsLease(w)
  <2>1. v \in Senders
    BY <1>s
  <2>2. CASE ClaimNotification(v)
    BY <1>1, <2>1, <2>2 DEF ClaimNotification
  <2>3. CASE CheckChannel(v)
    BY <1>2, <1>3, <2>1, <2>3 DEF CheckChannel
  <2>4. CASE CheckRecipient(v)
    BY <1>2, <1>3, <2>1, <2>4 DEF CheckRecipient
  <2>5. CASE BeginNotificationAttempt(v)
    <3>1. HoldsLease(v)
      BY <1>1, <1>i, <2>1, <2>5 DEF BeginNotificationAttempt
    <3>2. v = w
      BY <1>s, <2>1, <2>5, <3>1 DEF BeginNotificationAttempt, To, SetSender
    <3> QED BY <3>1, <3>2
  <2>6. CASE Panic(v)
    BY <1>1, <1>i, <2>1, <2>6 DEF Panic
  <2> QED BY <1>5, <2>2, <2>3, <2>4, <2>5, <2>6 DEF Work
<1>6. ASSUME NEW v \in Senders, Attempt(v) \/ FinishNotification(v) PROVE FALSE
  BY <1>1, <1>2, <1>i, <1>6 DEF Attempt, FinishNotification
<1>7. ASSUME NEW c \in Channels, BeginTest(c) PROVE FALSE
  BY <1>s, <1>7 DEF BeginTest, SetSender
<1>8. ~Crash
  BY <1>s, <1>i DEF Crash
<1>9. ASSUME NEW o \in Occurrences PROVE ~Complete(o) /\ ~ClearEvidence(o) /\ ~Cleanup(o)
  BY <1>4 DEF Complete, ClearEvidence, Cleanup
<1>10. ASSUME NEW c \in Capturers PROVE ~Capture(c) /\ ~Route(c) /\ ~ReadEvidence(c)
  BY <1>4 DEF Capture, Route, ReadEvidence
<1>11. ~RecoverNotificationLeases /\ \A d \in Rows : ~LeaseRunsOut(d) /\ ~RetryComesDue(d) /\ ~Expires(d) /\ ~Review(d)
  BY <1>4 DEF RecoverNotificationLeases, LeaseRunsOut, RetryComesDue, Expires, Tick, Review
<1>12. ~DeleteUser /\ ~ChangeAccount /\ ~SaveRoute /\ ~DeleteRoute /\ ~SwitchDispatch /\ ~ChangeSettings
  BY <1>4 DEF DeleteUser, ChangeAccount, SaveRoute, DeleteRoute, SwitchDispatch, ChangeSettings
<1>13. \A c \in Channels : ~SaveChannel(c) /\ ~DeleteChannel(c)
  BY <1>4 DEF SaveChannel, DeleteChannel
<1>14. \A d \in Deliveries, confirm \in BOOLEAN : ~ReplayNotification(d, confirm)
  BY <1>4 DEF ReplayNotification
<1>15. ~UNCHANGED vars
  BY <1>4 DEF vars
<1> QED BY <1>5, <1>6, <1>7, <1>8, <1>9, <1>10, <1>11, <1>12, <1>13, <1>14, <1>15 DEF Next

(* A closed delivery after a step. *)
Stays(d) == row[d].st \in Closed =>
    row'[d].st = row[d].st \/ row'[d].st = "none" \/ (row[d].st = "uncertain" /\ row'[d].st = "canceled")

(* No step of a sender closes a row again. *)
LEMMA ClosedUnderSenders ==
  ASSUME NotificationAssumption, IInv, NEW d \in Deliveries,
         \/ \E w \in mode.crew : Work(w) \/ Panic(w)
         \/ \E w \in Senders : Attempt(w) \/ FinishNotification(w)
         \/ \E c \in Channels : BeginTest(c)
  PROVE  Stays(d)
<1>t. Types
  BY TypesAreTypeOK DEF IInv
<1>r. row \in [Rows -> RowType] /\ d \in Rows /\ \A w \in Senders : snd[w].d \in Rows
  BY <1>t, RowKinds DEF Types, SndType
<1>c. mode.crew \subseteq Workers /\ Workers \subseteq Senders
  BY <1>t, CrewWorks
<1>0. ASSUME row'[d] = row[d] PROVE Stays(d)
  BY <1>0 DEF Stays
<1>1. ASSUME row[d].st \notin Closed PROVE Stays(d)
  BY <1>1 DEF Stays
<1>2. ASSUME NEW w \in mode.crew, Work(w) \/ Panic(w) PROVE Stays(d)
  <2>1. CASE ClaimNotification(w)
    <3>1. PICK e \in Rows : /\ row[e].st \in {"pending", "retry_wait"}
                            /\ row' = [row EXCEPT ![e].st = "leased", ![e].token = w, ![e].fresh = TRUE]
      BY <2>1 DEF ClaimNotification
    <3>2. CASE e = d
      BY <1>1, <3>1, <3>2 DEF Closed
    <3>3. CASE e # d
      BY <1>0, <1>r, <3>1, <3>3
    <3> QED BY <3>2, <3>3
  <2>2. CASE CheckChannel(w) \/ CheckRecipient(w) \/ Panic(w)
    BY <1>0, <2>2 DEF CheckChannel, CheckRecipient, Panic, store
  <2>3. CASE BeginNotificationAttempt(w)
    <3>1. CASE UNCHANGED row
      BY <1>0, <3>1
    <3>2. CASE HoldsLease(w) /\ row' = [row EXCEPT ![snd[w].d].sending = TRUE, ![snd[w].d].attempts = @ + 1]
      <4>1. CASE snd[w].d = d
        BY <1>1, <3>2, <4>1 DEF Closed, HoldsLease
      <4>2. CASE snd[w].d # d
        BY <1>0, <1>r, <3>2, <4>2
      <4> QED BY <4>1, <4>2
    <3> QED BY <2>3, <3>1, <3>2 DEF BeginNotificationAttempt
  <2> QED BY <1>2, <2>1, <2>2, <2>3 DEF Work
<1>3. ASSUME NEW w \in Senders, Attempt(w) PROVE Stays(d)
  BY <1>0, <1>3 DEF Attempt, store
<1>4. ASSUME NEW w \in Senders, FinishNotification(w) PROVE Stays(d)
  <2>1. CASE ~HoldsLease(w)
    BY <1>0, <1>4, <2>1 DEF FinishNotification
  <2>2. CASE HoldsLease(w) /\ snd[w].d = d
    BY <1>1, <2>2 DEF Closed, HoldsLease
  <2>3. CASE HoldsLease(w) /\ snd[w].d # d
    BY <1>0, <1>4, <1>r, <2>3 DEF FinishNotification
  <2> QED BY <2>1, <2>2, <2>3
<1>5. ASSUME NEW c \in Channels, BeginTest(c) PROVE Stays(d)
  <2>1. TestRow(c) # d
    BY RowKinds
  <2> QED BY <1>0, <1>5, <1>r, <2>1 DEF BeginTest
<1> QED BY <1>2, <1>3, <1>4, <1>5

(* Nor does a request, the clock, the recovery, a capture or a replay. *)
LEMMA ClosedUnderRequests ==
  ASSUME NotificationAssumption, IInv, [Next]_vars, NEW d \in Deliveries,
         ~ \E w \in mode.crew : Work(w) \/ Panic(w),
         ~ \E w \in Senders : Attempt(w) \/ FinishNotification(w),
         ~ \E c \in Channels : BeginTest(c)
  PROVE  Stays(d)
<1>t. Types
  BY TypesAreTypeOK DEF IInv
<1>r. row \in [Rows -> RowType] /\ d \in Rows /\ Deliveries \subseteq Rows
  BY <1>t, RowKinds DEF Types
<1>0. ASSUME row'[d] = row[d] PROVE Stays(d)
  BY <1>0 DEF Stays
<1>1. ASSUME row[d].st \notin Closed PROVE Stays(d)
  BY <1>1 DEF Stays
<1>2. ASSUME Calm(row[d], row'[d]) PROVE Stays(d)
  BY <1>2 DEF Stays, Calm
<1>3. ASSUME NEW o \in Occurrences, Complete(o) \/ ClearEvidence(o) PROVE Stays(d)
  BY <1>0, <1>3 DEF Complete, ClearEvidence
<1>4. ASSUME NEW o \in Occurrences, Cleanup(o) PROVE Stays(d)
  <2>1. CASE d.occ = o
    <3>1. row' = [e \in Rows |-> IF e \in {f \in Deliveries : f.occ = o} THEN NoRow ELSE row[e]]
      BY <1>4 DEF Cleanup
    <3>2. d \in {f \in Deliveries : f.occ = o}
      BY <2>1
    <3>3. row'[d] = NoRow
      BY <1>r, <3>1, <3>2, Zenon
    <3>4. NoRow.st = "none"
      BY DEF NoRow
    <3> QED BY <3>3, <3>4 DEF Stays
  <2>2. CASE d.occ # o
    BY <1>0, <1>4, <1>r, <2>2 DEF Cleanup
  <2> QED BY <2>1, <2>2
<1>5. ASSUME NEW c \in Capturers, Capture(c) PROVE Stays(d)
  <2>1. CASE UNCHANGED row
    BY <1>0, <2>1
  <2>2. CASE ~UNCHANGED row
    <3>1. capt[c].occ \notin events /\ (d.occ # capt[c].occ => row'[d] = row[d])
      BY <1>5, <1>r, <2>2 DEF Capture, store
    <3>2. d.occ = capt[c].occ => row[d].st = "none"
      BY <3>1 DEF IInv, Honest
    <3> QED BY <1>0, <1>1, <3>1, <3>2 DEF Closed
  <2> QED BY <2>1, <2>2
<1>6. ASSUME NEW c \in Capturers, ReadEvidence(c) \/ Route(c) PROVE Stays(d)
  BY <1>0, <1>6 DEF ReadEvidence, Route, store
<1>7. CASE RecoverNotificationLeases
  BY <1>2, <1>7, <1>r, RecoveredRow DEF RecoverNotificationLeases
<1>8. ASSUME NEW e \in Rows, LeaseRunsOut(e) \/ RetryComesDue(e) \/ Expires(e) PROVE Stays(d)
  BY <1>2, <1>8, <1>t, <1>r, TickedRows
<1>9. ASSUME NEW e \in Rows, Review(e) PROVE Stays(d)
  BY <1>2, <1>9, <1>t, <1>r, ReviewedRows
<1>10. CASE DeleteUser
  BY <1>2, <1>10, <1>t, <1>r, DeletedRows
<1>11. CASE ChangeAccount \/ SaveRoute \/ SwitchDispatch \/ ChangeSettings
  BY <1>0, <1>11 DEF ChangeAccount, SaveRoute, SwitchDispatch, ChangeSettings, store
<1>12. ASSUME NEW c \in Channels, SaveChannel(c) PROVE Stays(d)
  BY <1>0, <1>12 DEF SaveChannel
<1>13. ASSUME NEW c \in Channels, DeleteChannel(c) PROVE Stays(d)
  BY <1>2, <1>13, <1>t, <1>r, RevokedRows DEF DeleteChannel
<1>14. CASE DeleteRoute
  BY <1>2, <1>14, <1>t, <1>r, RevokedRows DEF DeleteRoute
<1>15. ASSUME NEW e \in Deliveries, NEW confirm \in BOOLEAN, ReplayNotification(e, confirm) PROVE Stays(d)
  <2>1. row[e].st # "none" /\ row[[e EXCEPT !.gen = Generations]].st = "none"
    BY <1>15 DEF ReplayNotification, Replayable, Closed
  <2> DEFINE new == NextGeneration(e)
  <2>2. row[new].st = "none"
    BY <2>1, NextIsFree
  <2>3. new # d => row'[d] = row[d]
    BY <1>15, <1>r DEF ReplayNotification
  <2> HIDE DEF new
  <2> QED BY <1>0, <1>1, <2>2, <2>3 DEF Closed
<1>16. CASE Crash
  BY <1>0, <1>16 DEF Crash, store
<1>17. CASE UNCHANGED vars
  BY <1>0, <1>17 DEF vars
<1> QED BY <1>3, <1>4, <1>5, <1>6, <1>7, <1>8, <1>9, <1>10, <1>11, <1>12, <1>13, <1>14, <1>15, <1>16, <1>17 DEF Next

(* A deletion is final for the workers that are under way: an attempt      *)
(* starts only while channel, rule and account exist, and a closed         *)
(* delivery is not written over by a worker that lost its lease.           *)
THEOREM DeletionIsFinal == ASSUME NotificationAssumption PROVE Spec => WorkersObeyDeletion
<1>1. ASSUME IInv, [Next]_vars
      PROVE  [\A w \in Workers : snd[w].pc = "ready" /\ snd'[w].pc = "sending" =>
                 LET d == snd[w].d IN
                 /\ chan[ChannelOf(d)].exists
                 /\ Routed(d) => route.exists
                 /\ Personal(d) => OwnerIsThere]_vars
  <2> SUFFICES ASSUME NEW w \in Workers, snd[w].pc = "ready", snd'[w].pc = "sending"
               PROVE  /\ chan[ChannelOf(snd[w].d)].exists
                      /\ Routed(snd[w].d) => route.exists
                      /\ Personal(snd[w].d) => OwnerIsThere
    OBVIOUS
  <2>1. HoldsLease(w)
    BY <1>1, OnlyBeginBegins
  <2>2. Leased(w)
    BY <2>1 DEF HoldsLease, Leased
  <2> QED BY <1>1, <2>2 DEF IInv, Checked
<1>2. ASSUME IInv, [Next]_vars
      PROVE  [\A d \in Deliveries : row[d].st \in Closed /\ row'[d].st # row[d].st =>
                 \/ row'[d].st = "none"
                 \/ row[d].st = "uncertain" /\ row'[d].st = "canceled"]_vars
  <2>1. ASSUME NEW d \in Deliveries PROVE Stays(d)
    BY <1>2, ClosedUnderSenders, ClosedUnderRequests
  <2> QED BY <2>1 DEF Stays
<1> QED BY <1>1, <1>2, Invariance, PTL DEF Spec, WorkersObeyDeletion, NoAttemptAfterDeletion, ClosedStaysClosed
=============================================================================
