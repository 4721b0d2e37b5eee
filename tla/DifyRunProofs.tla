--------------------------- MODULE DifyRunProofs ---------------------------
(***************************************************************************)
(* Theorems of a row run against Dify, for every set of modes a retry can  *)
(* survive: any retry count without a lost reply or a reset stream, and    *)
(* either fault without retries.  The runs show that the money guard fails *)
(* in the modes left out.                                                  *)
(***************************************************************************)
EXTENDS DifyRun, FiniteSetTheorems, TLAPS

(* RunItem retries what it takes for a refusal, so it may either retry, or *)
(* meet the faults that make an accepted run look like one.                *)
RetriesAreSafe == \A m \in Modes : m.faults = {} \/ m.retries = 0

(* Only the attempt under way can have a run on Dify, and an attempt that  *)
(* is waiting or has not been sent has none and has heard of no id.        *)
OneAttemptCounts ==
  /\ \A a \in Attempts : a # attempt => dify[a] = "none"
  /\ pc \in {"post", "backoff"} => dify[attempt] = "none"
  /\ pc \in {"post", "sent", "backoff"} => got = {}
  /\ pc \in {"open", "poll"} => dify[attempt] # "none"

(* There is another attempt to wait for, and a handle to poll by. *)
PhaseFits ==
  /\ pc = "backoff" => attempt <= mode.retries
  /\ pc = "poll" => Handle(got)

IInv == TypeOK /\ OneAttemptCounts /\ PhaseFits /\ FailedIsTrue

-----------------------------------------------------------------------------
(* What an attempt that ends in an error leaves: RunItem waits for another *)
(* attempt, or returns a failure.                                          *)
LEMMA ErrsLeaves ==
  ASSUME NEW transient, Errs(transient)
  PROVE \/ pc' = "backoff" /\ out' = out /\ attempt <= mode.retries
        \/ pc' = "done" /\ out' = "failed"
  BY DEF Errs, Ends

(* Which attempts Dify accepted does not change while each attempt keeps   *)
(* whether it has a run.                                                   *)
LEMMA SameAccepted ==
  ASSUME UNCHANGED mode, \A a \in Attempts : dify'[a] = "none" <=> dify[a] = "none"
  PROVE Accepted' = Accepted
  BY DEF Accepted, Attempts

(* The attempt under way is the only one that may have been accepted. *)
LEMMA AcceptedIsCurrent ==
  ASSUME IInv
  PROVE Accepted = IF dify[attempt] = "none" THEN {} ELSE {attempt}
  BY DEF IInv, TypeOK, OneAttemptCounts, Accepted

(* The ids of an event: a task id alone is no handle. *)
LEMMA HandleOrTask ==
  ASSUME TypeOK, ~Handle(got)
  PROVE got = {} \/ got = {"task"}
  BY DEF TypeOK, Ids, Handle

-----------------------------------------------------------------------------
(* Before a run there is nothing on Dify. *)
LEMMA InitInv == ASSUME DifyAssumption, Init PROVE IInv
<1>1. mode \in [chat : BOOLEAN, poll : BOOLEAN, retries : Nat,
                 faults : SUBSET {"lostReply", "reset"}]
  BY DEF DifyAssumption, Init
<1>2. 1 \in Attempts
  BY <1>1 DEF Attempts
<1>3. dify \in [Attempts -> {"none", "running", "succeeded", "failed", "stopped"}]
  BY DEF Init
<1> QED BY <1>2, <1>3 DEF Init, IInv, TypeOK, OneAttemptCounts, PhaseFits, FailedIsTrue

(* Every step of RunItem, the provider and Dify keeps the invariant. *)
LEMMA NextInv == ASSUME DifyAssumption, RetriesAreSafe, IInv, [Next]_vars PROVE IInv'
<1> USE DEF IInv, TypeOK, OneAttemptCounts, PhaseFits
<1>m. /\ mode \in [chat : BOOLEAN, poll : BOOLEAN, retries : Nat,
                   faults : SUBSET {"lostReply", "reset"}]
      /\ mode.faults = {} \/ mode.retries = 0
  BY DEF DifyAssumption, RetriesAreSafe
<1>t. attempt \in Nat /\ attempt >= 1 /\ attempt <= mode.retries + 1 /\ mode.retries \in Nat
  BY <1>m DEF Attempts
<1>1. ASSUME Backoff PROVE IInv'
  BY <1>1, <1>m, <1>t DEF Backoff, Attempts, Handle, Ids, FailedIsTrue
<1>2. ASSUME Send PROVE IInv'
  BY <1>2, <1>m, <1>t DEF Send, Attempts, Ids, FailedIsTrue
<1>3. ASSUME NEW transient \in BOOLEAN, Refused(transient) PROVE IInv'
  <2>1. \/ pc' = "backoff" /\ out' = out /\ attempt <= mode.retries
        \/ pc' = "done" /\ out' = "failed"
    BY <1>3, ErrsLeaves DEF Refused
  <2> QED BY <2>1, <1>3, <1>m, <1>t DEF Refused, Attempts, Ids, FailedIsTrue, Outcomes
<1>4. ASSUME LostReply PROVE IInv'
  <2>1. \/ pc' = "backoff" /\ out' = out /\ attempt <= mode.retries
        \/ pc' = "done" /\ out' = "failed"
    BY <1>4, ErrsLeaves DEF LostReply
  <2>2. mode.retries = 0 /\ mode.faults # {}
    BY <1>4, <1>m DEF LostReply
  <2> QED BY <2>1, <2>2, <1>4, <1>m, <1>t DEF LostReply, Attempts, Ids, FailedIsTrue, Outcomes
<1>5. ASSUME Open PROVE IInv'
  BY <1>5, <1>m, <1>t DEF Open, Attempts, Ids, FailedIsTrue
<1>6. ASSUME NEW ids \in SUBSET Ids, Event(ids) PROVE IInv'
  BY <1>6, <1>m, <1>t DEF Event, Attempts, Ids, FailedIsTrue, Handle
<1>7. ASSUME FinishedEvent PROVE IInv'
  BY <1>7, <1>m, <1>t DEF FinishedEvent, Ends, Attempts, Ids, FailedIsTrue, Outcomes
<1>8. ASSUME ErrorEvent PROVE IInv'
  BY <1>8, <1>m, <1>t DEF ErrorEvent, Ends, Attempts, Ids, FailedIsTrue, Outcomes
<1>9. ASSUME NEW ended \in BOOLEAN, StreamDrops(ended) PROVE IInv'
  <2>1. CASE Handle(got)
    BY <2>1, <1>9, <1>m, <1>t DEF StreamDrops, Dropped, Attempts, Ids, FailedIsTrue, Handle
  <2>2. CASE ~Handle(got) /\ ("task" \in got \/ ended)
    BY <2>2, <1>9, <1>m, <1>t DEF StreamDrops, Dropped, Ends, Attempts, Ids, FailedIsTrue, Outcomes
  <2>3. CASE ~Handle(got) /\ ~("task" \in got \/ ended)
    <3>1. Errs(TRUE)
      BY <2>3, <1>9 DEF StreamDrops, Dropped
    <3>2. \/ pc' = "backoff" /\ out' = out /\ attempt <= mode.retries
          \/ pc' = "done" /\ out' = "failed"
      BY <3>1, ErrsLeaves
    <3>3. mode.retries = 0 /\ mode.faults # {}
      BY <2>3, <1>9, <1>m DEF StreamDrops
    <3> QED BY <3>2, <3>3, <1>9, <1>m, <1>t DEF StreamDrops, Attempts, Ids, FailedIsTrue, Outcomes
  <2> QED BY <2>1, <2>2, <2>3
<1>10. ASSUME Abort PROVE IInv'
  BY <1>10, <1>m, <1>t DEF Abort, Ends, Attempts, Ids, FailedIsTrue, Outcomes
<1>11. ASSUME PollAnswer PROVE IInv'
  BY <1>11, <1>m, <1>t DEF PollAnswer, Ends, Attempts, Ids, FailedIsTrue, Outcomes
<1>12. ASSUME PollGiveUp PROVE IInv'
  BY <1>12, <1>m, <1>t DEF PollGiveUp, Ends, Attempts, Ids, FailedIsTrue, Outcomes
<1>13. ASSUME Cancel PROVE IInv'
  BY <1>13, <1>m, <1>t DEF Cancel, Attempts, Ids, FailedIsTrue
<1>14. ASSUME DifyAccepts PROVE IInv'
  BY <1>14, <1>m, <1>t DEF DifyAccepts, Attempts, Ids, FailedIsTrue
<1>15. ASSUME NEW a \in Attempts, NEW s \in {"succeeded", "failed"}, DifyEnds(a, s) PROVE IInv'
  BY <1>15, <1>m, <1>t DEF DifyEnds, Attempts, Ids, FailedIsTrue
<1>16. CASE UNCHANGED vars
  BY <1>16 DEF vars, Attempts, Ids, FailedIsTrue, Handle
<1> QED
  BY <1>1, <1>2, <1>3, <1>4, <1>5, <1>6, <1>7, <1>8, <1>9, <1>10, <1>11, <1>12, <1>13, <1>14,
     <1>15, <1>16 DEF Next, Portal

(* Only the attempt under way can have reached Dify, and 'failed' is true. *)
THEOREM Invariance == ASSUME DifyAssumption, RetriesAreSafe PROVE Spec => []IInv
<1>1. Init => IInv
  BY InitInv, DifyAssumption
<1>2. IInv /\ [Next]_vars => IInv'
  BY NextInv, DifyAssumption, RetriesAreSafe
<1> QED BY <1>1, <1>2, PTL DEF Spec

(* RunItem never fires a second run of a row once Dify has taken one, and  *)
(* never calls a run failed that goes on or has succeeded.                 *)
THEOREM TrustedOutcome ==
  ASSUME DifyAssumption, RetriesAreSafe PROVE Spec => []OutcomeCanBeTrusted
<1>1. ASSUME IInv PROVE OutcomeCanBeTrusted
  <2>1. Accepted = {} \/ Accepted = {attempt}
    BY <1>1, AcceptedIsCurrent
  <2>2. Cardinality(Accepted) <= 1
    <3>1. CASE Accepted = {}
      <4>1. Cardinality({}) = 0
        BY FS_EmptySet
      <4>2. Cardinality(Accepted) = 0
        BY <3>1, <4>1
      <4> QED BY <4>2
    <3>2. CASE Accepted = {attempt}
      <4>1. Cardinality({attempt}) = 1
        BY FS_Singleton
      <4>2. Cardinality(Accepted) = 1
        BY <3>2, <4>1
      <4> QED BY <4>2
    <3> QED BY <2>1, <3>1, <3>2
  <2> QED BY <1>1, <2>2 DEF IInv, OutcomeCanBeTrusted, StartedNeverRerun
<1> QED BY <1>1, Invariance, PTL
-----------------------------------------------------------------------------
(* The refinement: what RunQueue takes for granted of a goroutine. *)

(* The outcome the contract sees, and its whole state. *)
AbsOut == IF pc # "done" \/ dead THEN "failed" ELSE out
AbsRun == [pc |-> absPc, dead |-> dead, got |-> absGot, out |-> AbsOut]
Posts  == Cardinality(Accepted)

(* A step that leaves what the contract sees is a stutter. *)
LEMMA Stutters ==
  ASSUME absPc' = absPc, dead' = dead, absGot' = absGot, AbsOut' = AbsOut, Posts' = Posts
  PROVE [Contract!Next]_<<AbsRun, Posts>>
  BY DEF AbsRun

(* Dify takes the request. *)
LEMMA IsAccept ==
  ASSUME absPc = "go", ~dead, absPc' = "acc", dead' = dead, absGot' = absGot,
         AbsOut' = AbsOut, Posts' = Posts + 1
  PROVE Contract!Next
  BY DEF Contract!Next, Contract!Accept, AbsOut, Posts

(* The stream opens. *)
LEMMA IsOpen ==
  ASSUME absPc = "acc", ~dead, absPc' = "open", dead' = dead, absGot' = absGot,
         AbsOut' = AbsOut, Posts' = Posts
  PROVE Contract!Next
  BY DEF Contract!Next, Contract!StreamOpen, AbsOut, Posts

(* A better handle arrives. *)
LEMMA IsSaveRef ==
  ASSUME absPc = "open", ~dead, absPc' = "open", dead' = dead, absGot # "run",
         absGot' \in {"task", "run"}, absGot' # absGot, AbsOut' = AbsOut, Posts' = Posts
  PROVE Contract!Next
  BY DEF Contract!Next, Contract!SaveRef, AbsOut, Posts

(* The row or its job is cancelled. *)
LEMMA IsCancel ==
  ASSUME absPc # "ret", absPc' = absPc, dead' = TRUE, absGot' = absGot,
         AbsOut' = AbsOut, Posts' = Posts
  PROVE Contract!Next
<1>0. AbsRun.pc # "ret"
  BY DEF AbsRun
<1>1. AbsRun' = [AbsRun EXCEPT !.dead = TRUE]
  <2>1. AbsRun' = [pc |-> absPc, dead |-> TRUE, got |-> absGot, out |-> AbsOut]
    BY Zenon DEF AbsRun
  <2>2. AbsRun = [pc |-> absPc, dead |-> dead, got |-> absGot, out |-> AbsOut]
    BY Zenon DEF AbsRun
  <2>3. ASSUME NEW d
        PROVE [AbsRun EXCEPT !.dead = d] = [pc |-> absPc, dead |-> d, got |-> absGot, out |-> AbsOut]
    BY <2>2
  <2> QED BY <2>1, <2>3, Zenon

<1>2. Contract!Cancel
  BY <1>0, <1>1 DEF Contract!Cancel, AbsRun, AbsOut, Posts
<1> QED BY <1>2 DEF Contract!Next

(* RunItem returns what the run may end as. *)
LEMMA IsReturn ==
  ASSUME absPc \in {"go", "acc", "open"}, absPc' = "ret", dead' = dead, absGot' = absGot,
         absGot \in {"none", "task", "run"}, dead \in BOOLEAN,
         AbsOut' \in Outcomes, dead \/ absPc # "open" => AbsOut' = "failed",
         absGot # "run" => AbsOut' # "succeeded", Posts' = Posts
  PROVE Contract!Next
<1>1. AbsOut' \in Contract!RunOutcomes(AbsRun)
  BY DEF AbsRun, Contract!RunOutcomes, Contract!Outcomes, Outcomes
<1>0. AbsRun.pc \in {"go", "acc", "open"}
  BY DEF AbsRun
<1>2. AbsRun' = [AbsRun EXCEPT !.pc = "ret", !.out = AbsOut']
  <2>1. AbsRun' = [pc |-> "ret", dead |-> dead, got |-> absGot, out |-> AbsOut']
    BY Zenon DEF AbsRun
  <2>2. AbsRun = [pc |-> absPc, dead |-> dead, got |-> absGot, out |-> AbsOut]
    BY Zenon DEF AbsRun
  <2>3. [AbsRun EXCEPT !.pc = "ret", !.out = AbsOut']
          = [[AbsRun EXCEPT !.pc = "ret"] EXCEPT !.out = AbsOut']
    BY Zenon
  <2>4. [AbsRun EXCEPT !.pc = "ret"]
          = [pc |-> "ret", dead |-> dead, got |-> absGot, out |-> AbsOut]
    BY <2>2
  <2>5. [[AbsRun EXCEPT !.pc = "ret"] EXCEPT !.out = AbsOut']
          = [pc |-> "ret", dead |-> dead, got |-> absGot, out |-> AbsOut']
    <3>1. ASSUME NEW r, r = [pc |-> "ret", dead |-> dead, got |-> absGot, out |-> AbsOut]
          PROVE [r EXCEPT !.out = AbsOut']
                  = [pc |-> "ret", dead |-> dead, got |-> absGot, out |-> AbsOut']
      BY <3>1
    <3> QED BY <2>4, <3>1, Zenon
  <2> QED BY <2>1, <2>3, <2>5, Zenon
<1>3. \A o : /\ AbsRun.pc \in {"go", "acc", "open"} /\ o \in Contract!RunOutcomes(AbsRun)
             /\ AbsRun' = [AbsRun EXCEPT !.pc = "ret", !.out = o] /\ UNCHANGED Posts
             => Contract!Return(o)
  BY DEF Contract!Return, AbsRun, AbsOut, Posts
<1>4. Contract!Return(AbsOut')
  BY <1>0, <1>1, <1>2, <1>3
<1> QED BY <1>4 DEF Contract!Next, Contract!Outcomes, Outcomes

(* Nothing has happened at the start of either. *)
LEMMA RefinesInit == ASSUME DifyAssumption, Init PROVE Contract!Init
<1>1. Posts = 0
  <2>1. Accepted = {}
    BY DEF Init, Accepted
  <2> QED BY <2>1, FS_EmptySet DEF Posts
<1>2. absPc = "go" /\ dead = FALSE /\ absGot = "none" /\ AbsOut = "failed"
  BY DEF Init, absPc, absGot, AbsOut, Handle
<1>3. AbsRun = [Contract!IdleRun EXCEPT !.pc = "go"]
  <2>1. AbsRun = [pc |-> "go", dead |-> FALSE, got |-> "none", out |-> "failed"]
    BY <1>2, Zenon DEF AbsRun
  <2>2. Contract!IdleRun = [pc |-> "idle", dead |-> FALSE, got |-> "none", out |-> "failed"]
    BY Zenon DEF Contract!IdleRun
  <2>3. ASSUME NEW r, NEW d, r = [pc |-> "idle", dead |-> d, got |-> "none", out |-> "failed"]
        PROVE [r EXCEPT !.pc = "go"] = [pc |-> "go", dead |-> d, got |-> "none", out |-> "failed"]
    BY <2>3
  <2> QED BY <2>1, <2>2, <2>3, Zenon
<1> QED BY <1>1, <1>3 DEF Contract!Init, AbsRun, AbsOut, Posts

(* Every step is one of the contract's or leaves its state as it is. *)
LEMMA RefinesNext ==
  ASSUME DifyAssumption, RetriesAreSafe, IInv, IInv', [Next]_vars
  PROVE [Contract!Next]_<<AbsRun, Posts>>
<1> USE DEF IInv, TypeOK, OneAttemptCounts, PhaseFits
<1>m. /\ mode \in [chat : BOOLEAN, poll : BOOLEAN, retries : Nat,
                   faults : SUBSET {"lostReply", "reset"}]
      /\ mode.faults = {} \/ mode.retries = 0
  BY DEF DifyAssumption, RetriesAreSafe
<1>t. attempt \in Nat /\ attempt >= 1 /\ attempt <= mode.retries + 1 /\ mode.retries \in Nat
  BY <1>m DEF Attempts
<1>p. ASSUME mode' = mode, \A a \in Attempts : dify'[a] = "none" <=> dify[a] = "none"
      PROVE Posts' = Posts
  BY <1>p, SameAccepted DEF Posts
<1>g. absGot \in {"none", "task", "run"} /\ dead \in BOOLEAN
  BY DEF absGot
<1>1. CASE Backoff
  <2>1. Posts' = Posts
    BY <1>1, <1>p DEF Backoff
  <2>2. dify'[attempt'] = "none" /\ dify' = dify
    BY <1>1, <1>t DEF Backoff, Attempts
  <2> QED BY <1>1, <2>1, <2>2, Stutters DEF Backoff, absPc, absGot, AbsOut, Handle
<1>2. CASE Send
  <2>1. Posts' = Posts
    BY <1>2, <1>p DEF Send
  <2> QED BY <1>2, <2>1, Stutters DEF Send, absPc, absGot, AbsOut, Handle
<1>3. ASSUME NEW transient \in BOOLEAN, Refused(transient)
      PROVE [Contract!Next]_<<AbsRun, Posts>>
  <2>1. Posts' = Posts
    BY <1>3, <1>p DEF Refused
  <2>2. \/ pc' = "backoff" /\ out' = out
        \/ pc' = "done" /\ out' = "failed"
    BY <1>3, ErrsLeaves DEF Refused
  <2>3. absPc = "go" /\ absGot' = absGot /\ dead' = dead
    BY <1>3 DEF Refused, absPc, absGot, Handle
  <2>4. CASE pc' = "backoff" /\ out' = out
    BY <2>4, <2>1, <2>3, <1>3, Stutters DEF Refused, absPc, AbsOut
  <2>5. CASE pc' = "done" /\ out' = "failed"
    BY <2>5, <2>1, <2>3, <1>3, <1>g, IsReturn DEF Refused, absPc, AbsOut, Outcomes
  <2> QED BY <2>2, <2>4, <2>5
<1>4. CASE LostReply
  <2>1. Posts' = Posts
    BY <1>4, <1>p DEF LostReply
  <2>2. pc' = "done" /\ out' = "failed"
    BY <1>4, <1>m, <1>t, ErrsLeaves DEF LostReply
  <2>3. absPc = "acc" /\ absGot' = absGot /\ dead' = dead
    BY <1>4 DEF LostReply, absPc, absGot, Handle
  <2> QED BY <2>1, <2>2, <2>3, <1>g, IsReturn DEF absPc, AbsOut, Outcomes
<1>5. CASE Open
  <2>1. Posts' = Posts
    BY <1>5, <1>p DEF Open
  <2> QED BY <1>5, <2>1, IsOpen DEF Open, absPc, absGot, AbsOut, Handle
<1>6. ASSUME NEW ids \in SUBSET Ids, Event(ids)
      PROVE [Contract!Next]_<<AbsRun, Posts>>
  <2>1. Posts' = Posts
    BY <1>6, <1>p DEF Event
  <2>2. absPc = "open" /\ absPc' = "open" /\ ~dead /\ dead' = dead /\ AbsOut' = AbsOut
    BY <1>6 DEF Event, absPc, AbsOut
  <2>3. CASE absGot' = absGot
    BY <2>1, <2>2, <2>3, Stutters
  <2>4. CASE absGot' # absGot
    <3>1. absGot # "run" /\ absGot' \in {"task", "run"}
      BY <2>4, <1>6 DEF Event, absGot, Handle, Ids
    <3> QED BY <2>1, <2>2, <2>4, <3>1, IsSaveRef
  <2> QED BY <2>3, <2>4
<1>7. CASE FinishedEvent
  <2>1. Posts' = Posts
    BY <1>7, <1>p DEF FinishedEvent
  <2>2. absPc = "open" /\ absPc' = "ret" /\ dead' = dead /\ absGot' = absGot /\ absGot = "run"
    BY <1>7 DEF FinishedEvent, Ends, absPc, absGot, Handle
  <2>3. AbsOut' \in Outcomes /\ (dead => AbsOut' = "failed")
    BY <1>7 DEF FinishedEvent, Ends, AbsOut, Outcomes
  <2> QED BY <2>1, <2>2, <2>3, <1>g, IsReturn
<1>8. CASE ErrorEvent
  <2>1. Posts' = Posts
    BY <1>8, <1>p DEF ErrorEvent
  <2>2. absPc = "open" /\ absPc' = "ret" /\ dead' = dead /\ absGot' = absGot
    BY <1>8 DEF ErrorEvent, Ends, absPc, absGot, Handle
  <2>3. AbsOut' = "failed"
    BY <1>8 DEF ErrorEvent, Ends, AbsOut
  <2> QED BY <2>1, <2>2, <2>3, <1>g, IsReturn DEF Outcomes
<1>9. ASSUME NEW ended \in BOOLEAN, StreamDrops(ended)
      PROVE [Contract!Next]_<<AbsRun, Posts>>
  <2>1. Posts' = Posts
    BY <1>9, <1>p DEF StreamDrops
  <2>2. absPc = "open" /\ dead' = dead /\ absGot' = absGot /\ ~dead
    BY <1>9 DEF StreamDrops, absPc, absGot, Handle
  <2>3. CASE Handle(got)
    BY <2>1, <2>2, <2>3, <1>9, Stutters DEF StreamDrops, Dropped, absPc, AbsOut
  <2>4. CASE ~Handle(got)
    <3>1. pc' = "done" /\ out' \in {"untracked", "failed"}
      <4>1. CASE "task" \in got \/ ended
        BY <2>4, <4>1, <1>9 DEF StreamDrops, Dropped, Ends
      <4>2. CASE ~("task" \in got \/ ended)
        <5>1. Errs(TRUE) /\ mode.retries = 0
          BY <2>4, <4>2, <1>9, <1>m DEF StreamDrops, Dropped
        <5>2. ~(attempt <= mode.retries)
          BY <5>1, <1>t
        <5> QED BY <5>1, <5>2 DEF Errs, Ends
      <4> QED BY <4>1, <4>2
    <3>2. absPc' = "ret" /\ AbsOut' \in {"untracked", "failed"} /\ absGot # "run"
      BY <3>1, <2>4 DEF absPc, AbsOut, absGot
    <3> QED BY <2>1, <2>2, <3>2, <1>g, IsReturn DEF Outcomes
  <2> QED BY <2>3, <2>4
<1>10. CASE Abort
  <2>1. Posts' = Posts
    <3>1. mode' = mode /\ \A a \in Attempts : dify'[a] = "none" <=> dify[a] = "none"
      BY <1>10 DEF Abort
    <3> QED BY <3>1, <1>p
  <2>2. absPc \in {"go", "acc", "open"} /\ absPc' = "ret" /\ dead' = dead /\ absGot' = absGot
    BY <1>10 DEF Abort, Ends, absPc, absGot, Handle
  <2>3. AbsOut' = "failed"
    BY <1>10 DEF Abort, Ends, AbsOut
  <2> QED BY <2>1, <2>2, <2>3, <1>g, IsReturn DEF Outcomes
<1>11. CASE PollAnswer
  <2>1. Posts' = Posts
    BY <1>11, <1>p DEF PollAnswer
  <2>2. absPc = "open" /\ absPc' = "ret" /\ dead' = dead /\ absGot' = absGot /\ absGot = "run"
    BY <1>11 DEF PollAnswer, Ends, absPc, absGot, Handle
  <2>3. AbsOut' \in Outcomes /\ (dead => AbsOut' = "failed")
    BY <1>11 DEF PollAnswer, Ends, AbsOut, Outcomes
  <2> QED BY <2>1, <2>2, <2>3, <1>g, IsReturn
<1>12. CASE PollGiveUp
  <2>1. Posts' = Posts
    BY <1>12, <1>p DEF PollGiveUp
  <2>2. absPc = "open" /\ absPc' = "ret" /\ dead' = dead /\ absGot' = absGot /\ absGot = "run"
    BY <1>12 DEF PollGiveUp, Ends, absPc, absGot, Handle
  <2>3. AbsOut' \in Outcomes /\ (dead => AbsOut' = "failed")
    BY <1>12 DEF PollGiveUp, Ends, AbsOut, Outcomes
  <2> QED BY <2>1, <2>2, <2>3, <1>g, IsReturn
<1>13. CASE Cancel
  <2>1. Posts' = Posts
    BY <1>13, <1>p DEF Cancel
  <2>2. absPc # "ret" /\ absPc' = absPc /\ dead' = TRUE /\ absGot' = absGot /\ AbsOut' = AbsOut
    BY <1>13 DEF Cancel, absPc, absGot, AbsOut, Handle
  <2> QED BY <2>1, <2>2, IsCancel
<1>14. CASE DifyAccepts
  <2>1. Accepted = {} /\ Accepted' = {attempt}
    BY <1>14 DEF DifyAccepts, Accepted, Attempts
  <2>2. Posts = 0 /\ Posts' = 1
    <3>1. Cardinality({}) = 0
      BY FS_EmptySet
    <3>2. Cardinality({attempt}) = 1
      BY FS_Singleton
    <3> QED BY <2>1, <3>1, <3>2 DEF Posts
  <2>3. /\ absPc = "go" /\ absPc' = "acc" /\ ~dead /\ dead' = dead
        /\ absGot' = absGot /\ AbsOut' = AbsOut
    BY <1>14 DEF DifyAccepts, absPc, absGot, AbsOut, Handle
  <2> QED BY <2>2, <2>3, IsAccept
<1>15. ASSUME NEW a \in Attempts, NEW s \in {"succeeded", "failed"}, DifyEnds(a, s)
       PROVE [Contract!Next]_<<AbsRun, Posts>>
  <2>1. Posts' = Posts
    BY <1>15, <1>p DEF DifyEnds
  <2>2. absPc' = absPc /\ dead' = dead /\ absGot' = absGot /\ AbsOut' = AbsOut
    BY <1>15 DEF DifyEnds, absPc, absGot, AbsOut, Handle
  <2> QED BY <2>1, <2>2, Stutters
<1>16. CASE UNCHANGED vars
  <2>1. Posts' = Posts
    BY <1>16, <1>p DEF vars
  <2> QED BY <2>1, <1>16, Stutters DEF vars, absPc, absGot, AbsOut, Handle
<1> QED
  BY <1>1, <1>2, <1>3, <1>4, <1>5, <1>6, <1>7, <1>8, <1>9, <1>10, <1>11, <1>12, <1>13, <1>14,
     <1>15, <1>16 DEF Next, Portal

(* A run of a row against Dify, with its retries, its reconcile loop and   *)
(* its cancellation, implements the contract the run queue is built on.    *)
THEOREM ImplementsContract ==
  ASSUME DifyAssumption, RetriesAreSafe PROVE Spec => MeetsContract
<1>1. Init => Contract!Init
  BY RefinesInit, DifyAssumption
<1>2. IInv /\ IInv' /\ [Next]_vars
      => [Contract!Next]_<<[pc |-> absPc, dead |-> dead, got |-> absGot,
                            out |-> IF pc # "done" \/ dead THEN "failed" ELSE out],
                           Cardinality(Accepted)>>
  BY RefinesNext, DifyAssumption, RetriesAreSafe DEF AbsRun, AbsOut, Posts
<1> QED BY <1>1, <1>2, Invariance, PTL DEF Spec, MeetsContract, Contract!Spec
=============================================================================
