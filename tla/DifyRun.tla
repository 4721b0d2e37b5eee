------------------------------ MODULE DifyRun ------------------------------
(***************************************************************************)
(* One row run against Dify: RunItem of internal/batch (the retry loop),   *)
(* difyProvider.Run of internal/app/dify_provider.go (stream, reconcile,   *)
(* stop) and the stream readers of internal/dify/stream.go.  A run costs   *)
(* money the moment Dify accepts it, so the question is when another one   *)
(* may be fired.                                                           *)
(*                                                                         *)
(* dify is the other side: what became of the run of each attempt.         *)
(***************************************************************************)
EXTENDS RunOutcome, Integers, FiniteSets

CONSTANT Modes  \* the kinds of run the instance looks at

(***************************************************************************)
(* chat: the target is a chat or agent app (RunChatStream); poll: leave    *)
(* the stream once the run id is known; retries: the job's retry count.    *)
(* faults: "lostReply" loses the answer to an accepted request, "reset"    *)
(* fails an open stream with a read error instead of an end.               *)
(***************************************************************************)
ASSUME DifyAssumption ==
  Modes \subseteq [chat : BOOLEAN, poll : BOOLEAN, retries : Nat, faults : SUBSET {"lostReply", "reset"}]

VARIABLES
  mode,     \* what is run and how, fixed when RunItem is called
  pc,       \* where RunItem is: post, sent, open, poll, backoff, done
  attempt,  \* RunItem's counter
  got,      \* ids the stream of this attempt has delivered
  dead,     \* the row's context is cancelled
  out,      \* the outcome returned
  dify      \* external: the Dify run of each attempt

vars == <<mode, pc, attempt, got, dead, out, dify>>

Attempts == 1 .. mode.retries + 1
Ids      == IF mode.chat THEN {"task", "run", "conv"} ELSE {"task", "run"}
(* A handle the provider can reconcile by. *)
Handle(g) == "run" \in g \/ "conv" \in g
Accepted  == {a \in Attempts : dify[a] # "none"}

Init ==
  /\ mode \in Modes
  /\ pc = "post" /\ attempt = 1 /\ got = {} /\ dead = FALSE /\ out = "none"
  /\ dify = [a \in Attempts |-> "none"]

Ends(o) == pc' = "done" /\ out' = o

(* Mutant of Errs: one retry too many. *)
ErrsOneMore(transient) ==
  IF transient /\ attempt <= mode.retries + 1 /\ ~dead
  THEN pc' = "backoff" /\ UNCHANGED out
  ELSE Ends("failed")
(* RunItem on an error: transient ones are retried while attempts last and *)
(* the context lives; anything else is a failure.                          *)
Errs(transient) ==
  IF transient /\ attempt <= mode.retries /\ ~dead
  THEN pc' = "backoff" /\ UNCHANGED out
  ELSE Ends("failed")

Backoff ==
  /\ pc = "backoff" /\ pc' = "post" /\ attempt' = attempt + 1 /\ got' = {}
  /\ UNCHANGED <<mode, dead, out, dify>>

-----------------------------------------------------------------------------
(* runStream up to the response. *)

Send == pc = "post" /\ ~dead /\ pc' = "sent" /\ UNCHANGED <<mode, attempt, got, dead, out, dify>>

(* Connection refused, 5xx or 429 (transient), another 4xx (permanent): no run. *)
Refused(transient) ==
  /\ pc = "sent" /\ dify[attempt] = "none"
  /\ Errs(transient)
  /\ UNCHANGED <<mode, attempt, got, dead, dify>>

(* A timeout, a reset or a proxy's 5xx after Dify took the request: the    *)
(* client cannot tell it from a refusal.                                   *)
LostReply ==
  /\ "lostReply" \in mode.faults /\ pc = "sent" /\ dify[attempt] # "none"
  /\ Errs(TRUE)
  /\ UNCHANGED <<mode, attempt, got, dead, dify>>

(* 2xx: EventStreamOpen. *)
Open ==
  /\ pc = "sent" /\ ~dead /\ dify[attempt] # "none"
  /\ pc' = "open"
  /\ UNCHANGED <<mode, attempt, got, dead, out, dify>>

-----------------------------------------------------------------------------
(* The open stream. *)

(* An event brings ids; in poll mode the run id ends the stream. *)
Event(ids) ==
  /\ pc = "open" /\ ~dead /\ ids \subseteq Ids /\ ~(ids \subseteq got)
  /\ got' = got \cup ids
  /\ pc' = (IF mode.poll /\ "run" \in got' THEN "poll" ELSE pc)
  /\ UNCHANGED <<mode, attempt, dead, out, dify>>

(* workflow_finished or message_end. *)
FinishedEvent ==
  /\ pc = "open" /\ Handle(got) /\ dify[attempt] \in {"succeeded", "failed"}
  /\ Ends(dify[attempt])
  /\ UNCHANGED <<mode, attempt, got, dead, dify>>

(* An error event is Dify's own terminal failure, often before any id. *)
ErrorEvent ==
  /\ pc = "open" /\ dify[attempt] \in {"running", "failed"}
  /\ dify' = [dify EXCEPT ![attempt] = "failed"]
  /\ Ends("failed")
  /\ UNCHANGED <<mode, attempt, got, dead>>

(* Mutants of Dropped: a task id is not taken for a started run; a stream  *)
(* that ended without an id is retried.                                    *)
DroppedIgnoresTask(ended) ==
  CASE Handle(got) -> pc' = "poll" /\ UNCHANGED out
    [] ~Handle(got) /\ got = {} /\ ended -> Ends("untracked")
    [] OTHER -> Errs(TRUE)
DroppedRetries(ended) ==
  CASE Handle(got) -> pc' = "poll" /\ UNCHANGED out
    [] ~Handle(got) /\ "task" \in got -> Ends("untracked")
    [] OTHER -> Errs(TRUE)
(* The stream is gone before a terminal event: reconcile by a handle, give *)
(* up as untracked when the run demonstrably started, else it is an error. *)
Dropped(ended) ==
  CASE Handle(got) -> pc' = "poll" /\ UNCHANGED out
    [] ~Handle(got) /\ ("task" \in got \/ ended) -> Ends("untracked")
    [] OTHER -> Errs(TRUE)

(* End of stream (ErrStreamEnded), or a read error returned as it is. *)
StreamDrops(ended) ==
  /\ pc = "open" /\ ~dead
  /\ ended \/ "reset" \in mode.faults
  /\ Dropped(ended)
  /\ UNCHANGED <<mode, attempt, got, dead, dify>>

(* The context was cancelled while sending or streaming: with a task id    *)
(* Dify is asked to stop the run; the error is final.                      *)
Abort ==
  /\ dead /\ pc \in {"post", "sent", "open"}
  /\ dify' = [dify EXCEPT ![attempt] =
       IF pc = "open" /\ "task" \in got /\ @ = "running" THEN "stopped" ELSE @]
  /\ Ends("failed")
  /\ UNCHANGED <<mode, attempt, got, dead>>

-----------------------------------------------------------------------------
(* reconcileLoop: poll until the run is terminal. *)

(* Mutant of PollAnswer: a run that is still going counts as failed. *)
PollAnswerEarly ==
  /\ pc = "poll" /\ ~dead
  /\ Ends(IF dify[attempt] = "succeeded" THEN "succeeded" ELSE "failed")
  /\ UNCHANGED <<mode, attempt, got, dead, dify>>
PollAnswer ==
  /\ pc = "poll" /\ ~dead /\ dify[attempt] \notin {"none", "running"}
  /\ Ends(IF dify[attempt] = "succeeded" THEN "succeeded" ELSE "failed")
  /\ UNCHANGED <<mode, attempt, got, dead, dify>>

(* Mutant of PollGiveUp: only a cancel ends the loop. *)
PollGiveUpOnCancel ==
  pc = "poll" /\ dead /\ Ends("untracked") /\ UNCHANGED <<mode, attempt, got, dead, dify>>
(* The deadline, a permanent error or the cancelled context. *)
PollGiveUp ==
  pc = "poll" /\ Ends("untracked") /\ UNCHANGED <<mode, attempt, got, dead, dify>>

-----------------------------------------------------------------------------
(* The row or its job is cancelled. *)
Cancel == pc # "done" /\ ~dead /\ dead' = TRUE /\ UNCHANGED <<mode, pc, attempt, got, out, dify>>

(* Dify accepts the request in flight, and later ends the run. *)
DifyAccepts ==
  /\ pc = "sent" /\ ~dead /\ dify[attempt] = "none"
  /\ dify' = [dify EXCEPT ![attempt] = "running"]
  /\ UNCHANGED <<mode, pc, attempt, got, dead, out>>
DifyEnds(a, st) ==
  /\ dify[a] = "running" /\ dify' = [dify EXCEPT ![a] = st]
  /\ UNCHANGED <<mode, pc, attempt, got, dead, out>>

Portal ==
  \/ Backoff \/ Send \/ LostReply \/ Open \/ FinishedEvent \/ ErrorEvent \/ Abort
  \/ PollAnswer \/ PollGiveUp
  \/ \E transient \in BOOLEAN : Refused(transient)
  \/ \E ids \in SUBSET Ids : Event(ids)
  \/ \E ended \in BOOLEAN : StreamDrops(ended)
Next ==
  \/ Portal \/ Cancel \/ DifyAccepts
  \/ \E a \in Attempts, st \in {"succeeded", "failed"} : DifyEnds(a, st)

Spec == Init /\ [][Next]_vars

(* The HTTP client and the reconcile loop are bounded by the run timeout,  *)
(* so RunItem keeps moving whether or not Dify answers.                    *)
FairSpec == Spec /\ WF_vars(Portal)

-----------------------------------------------------------------------------
(* Locals and statuses hold values of their kind; an outcome is there      *)
(* exactly when RunItem has returned.                                      *)
TypeOK ==
  /\ mode \in Modes
  /\ pc \in {"post", "sent", "open", "poll", "backoff", "done"}
  /\ attempt \in Attempts /\ got \subseteq Ids /\ dead \in BOOLEAN
  /\ out \in Outcomes \cup {"none"} /\ (out # "none" <=> pc = "done")
  /\ dify \in [Attempts -> {"none", "running", "succeeded", "failed", "stopped"}]

(* The money guard: whatever the retry count, Dify accepts one run per row. *)
StartedNeverRerun == Cardinality(Accepted) <= 1

(* 'failed' is Dify's word or the absence of a run: unless a reply is lost *)
(* it is never reported while a run of the row goes on or has succeeded.   *)
FailedIsTrue ==
  pc = "done" /\ out = "failed" /\ ~dead /\ mode.faults = {} =>
    \A a \in Attempts : dify[a] \notin {"running", "succeeded"}

(* What the caller is told can be acted on: one run was accepted at most,  *)
(* and a failure is one (what a retry of the row relies on).               *)
OutcomeCanBeTrusted == TypeOK /\ StartedNeverRerun /\ FailedIsTrue

(* A cancelled run whose task id is known has been told to stop. *)
CancelStopsRun == pc = "done" /\ dead /\ "task" \in got => dify[attempt] # "running"

(* The refinement mapping to the contract RunQueue relies on. *)
absPc ==
  CASE pc = "done" -> "ret"
    [] pc \in {"open", "poll"} -> "open"
    [] pc = "sent" /\ dify[attempt] # "none" -> "acc"
    [] OTHER -> "go"
absGot == IF Handle(got) THEN "run" ELSE IF "task" \in got THEN "task" ELSE "none"
Contract == INSTANCE RunContract
              WITH w <- [pc |-> absPc, dead |-> dead, got |-> absGot,
                         out |-> IF pc # "done" \/ dead THEN "failed" ELSE out],
                   posts <- Cardinality(Accepted)

(* RunItem with the Dify provider is what RunQueue takes a run to be. *)
MeetsContract == Contract!Spec

(* RunItem returns. *)
Returns == <>(pc = "done")
=============================================================================
