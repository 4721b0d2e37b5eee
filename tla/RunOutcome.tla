----------------------------- MODULE RunOutcome -----------------------------
(***************************************************************************)
(* What a run of one row may end as, by how far it got on Dify.  RunQueue  *)
(* takes this for granted of each goroutine; RunContract states it as a    *)
(* specification, and DifyRun is shown to implement it.                    *)
(***************************************************************************)

(* "succeeded" stands for the two successful outcomes, Ok and Partial. *)
Outcomes == {"succeeded", "failed", "untracked"}

(* A run goroutine: pc "go" (nothing reached Dify), "acc" (Dify accepted   *)
(* the request), "open" (the stream is open), "ret" (an outcome is known). *)
(* got is the best handle seen: "run" is a run or conversation id.         *)
IdleRun == [pc |-> "idle", dead |-> FALSE, got |-> "none", out |-> "failed"]

(* What RunItem may return.  Without an id only Dify's own error event     *)
(* tells a failure.  The result of a cancelled run is not read, so one     *)
(* value stands for all of them.                                           *)
RunOutcomes(w) ==
  CASE w.dead          -> {"failed"}
    [] w.pc # "open"   -> {"failed"}
    [] w.got # "run"   -> {"untracked", "failed"}
    [] w.got = "run"   -> Outcomes
=============================================================================
