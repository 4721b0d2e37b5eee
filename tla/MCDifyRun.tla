----------------------------- MODULE MCDifyRun -----------------------------
(* Instances of DifyRun for TLC. *)
EXTENDS DifyRun

Mode(c, p, r, f) == [chat |-> c, poll |-> p, retries |-> r, faults |-> f]

(* Workflow and chat apps, streamed and polled, retried twice; and with    *)
(* the faults a retry does not survive, without retries.                   *)
AllModes  == {Mode(c, p, 2, {}) : c \in BOOLEAN, p \in BOOLEAN}
             \cup {Mode(c, p, 0, {"lostReply", "reset"}) : c \in BOOLEAN, p \in BOOLEAN}
(* One retry of a streamed workflow whose stream is reset, or whose reply  *)
(* is lost; a polled workflow.                                             *)
ResetOnce == {Mode(FALSE, FALSE, 1, {"reset"})}
LostOnce  == {Mode(FALSE, FALSE, 1, {"lostReply"})}
PollOnly  == {Mode(FALSE, TRUE, 0, {})}
ResetOrPoll == ResetOnce \cup PollOnly
=============================================================================
