---------------------------- MODULE RunContract ----------------------------
(***************************************************************************)
(* The contract between the run queue and a provider, as one goroutine of  *)
(* RunQueue sees it: Dify accepts the run once, the stream opens, handles  *)
(* arrive, an outcome is returned.  The actions are those of RunQueue for  *)
(* a single run, without the rows and the scheduler.                       *)
(***************************************************************************)
EXTENDS RunOutcome, Naturals

VARIABLES w, posts

Init == w = [IdleRun EXCEPT !.pc = "go"] /\ posts = 0

Accept     == w.pc = "go" /\ ~w.dead /\ w' = [w EXCEPT !.pc = "acc"] /\ posts' = posts + 1
StreamOpen == w.pc = "acc" /\ ~w.dead /\ w' = [w EXCEPT !.pc = "open"] /\ UNCHANGED posts
SaveRef(g) ==
  /\ w.pc = "open" /\ ~w.dead /\ w.got # "run" /\ g # w.got
  /\ w' = [w EXCEPT !.got = g] /\ UNCHANGED posts
Return(out) ==
  /\ w.pc \in {"go", "acc", "open"} /\ out \in RunOutcomes(w)
  /\ w' = [w EXCEPT !.pc = "ret", !.out = out] /\ UNCHANGED posts
Cancel     == w.pc # "ret" /\ w' = [w EXCEPT !.dead = TRUE] /\ UNCHANGED posts

Next == Accept \/ StreamOpen \/ Cancel
        \/ (\E g \in {"task", "run"} : SaveRef(g)) \/ (\E out \in Outcomes : Return(out))

Spec == Init /\ [][Next]_<<w, posts>>
=============================================================================
