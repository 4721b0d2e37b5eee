----------------------------- MODULE MCRunQueue -----------------------------
(* Instances of RunQueue for TLC: one job of two rows. *)
EXTENDS RunQueue, TLC

OneJob     == (1 :> 1) @@ (2 :> 1)
OneAtATime == [j \in Jobs |-> 1]
TwoAtATime == [j \in Jobs |-> 2]
AllNormal  == [j \in Jobs |-> 1]
FailedOnly == {{"failed"}}
RunningOnly == {{"running"}}
FailedOrRunning == {{"failed"}, {"running"}}
=============================================================================
