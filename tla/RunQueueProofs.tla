--------------------------- MODULE RunQueueProofs ---------------------------
(***************************************************************************)
(* Theorems of the run queue, for every number of jobs and rows and every  *)
(* budget, window, priority and set of requests.                           *)
(***************************************************************************)
EXTENDS RunQueue, SumLemmas, TLAPS, FiniteSetTheorems

(* The initial state is well typed. *)
LEMMA TypeInit == Init => TypeOK
  BY QueueAssumption
     DEF Init, TypeOK, Overruns, JobStatus, ItemStatus, Windows, Outcomes, RunType, ResType,
         FinType, IdleRun, IdleRes, NoFin, None, Runs

(* A goroutine's record stays one when its run returns or is cancelled. *)
LEMMA RunUpdates ==
  ASSUME NEW w \in RunType
  PROVE  /\ \A out \in Outcomes : [w EXCEPT !.pc = "ret", !.out = out] \in RunType
         /\ \A b : [w EXCEPT !.dead = w.dead \/ b] \in RunType
<1>1. ASSUME NEW out \in Outcomes PROVE [w EXCEPT !.pc = "ret", !.out = out] \in RunType
  BY DEF RunType
<1>2. ASSUME NEW b PROVE [w EXCEPT !.dead = w.dead \/ b] \in RunType
  BY DEF RunType
<1> QED
  BY <1>1, <1>2

(* Cancelling a scope changes the dead flags of goroutines, nothing else. *)
LEMMA KillTypes ==
  ASSUME TypeOK, NEW j \in Jobs
  PROVE  KillRuns(j) \in [Runs -> RunType] /\ KillRes(j) \in [Items -> ResType]
<1>1. KillRuns(j) \in [Runs -> RunType]
  <2> DEFINE dies(r) == JobOf[r[1]] = j /\ Live(r)
  <2>1. KillRuns(j) = [r \in Runs |-> [wk[r] EXCEPT !.dead = wk[r].dead \/ dies(r)]]
    BY DEF KillRuns
  <2> HIDE DEF dies
  <2>2. ASSUME NEW r \in Runs PROVE [wk[r] EXCEPT !.dead = wk[r].dead \/ dies(r)] \in RunType
    <3>1. wk[r] \in RunType
      BY DEF TypeOK
    <3> QED
      BY <3>1, RunUpdates
  <2> QED
    BY <2>1, <2>2
<1>2. KillRes(j) \in [Items -> ResType]
  BY DEF TypeOK, KillRes, ResType
<1> QED
  BY <1>1, <1>2

(* A retry recalls rows. *)
LEMMA RecalledRows ==
  ASSUME NEW j, NEW sts, Retry(j, sts), recalled \in SUBSET Items PROVE recalled' \in SUBSET Items
  BY DEF Retry, RowsIn, Rows

(* Every step, of the scheduler, a run, a request or a restart, keeps the  *)
(* state well typed: one case per action.                                  *)
LEMMA TypeNext == TypeOK /\ [Next]_vars => TypeOK'
<1> SUFFICES ASSUME TypeOK, [Next]_vars PROVE TypeOK'
  OBVIOUS
<1> USE QueueAssumption
    DEF TypeOK, jobVars, rowVars, ctxVars, lockVars, bounds, persisted, memory
<1>1. CASE UNCHANGED vars
  BY <1>1
     DEF vars
<1>2. CASE TickBegin \/ TimerTick
  <2>1. ReadPlan
    BY <1>2 DEF TickBegin, TimerTick
  <2>2. tasks' \in SUBSET TaskSet /\ \A t \in tasks' : t.kind # "tick" => t.job \in Jobs
    BY <1>2 DEF TickBegin, TimerTick
  <2>3. jobS' \in [Jobs -> JobStatus] /\ window' \in [Jobs -> Windows]
    BY <2>1 DEF ReadPlan, SweptJobS, SweptWindow, JobStatus, Windows
  <2>4. plan' \in SUBSET Items
    <3>1. \A js, win : Candidates(js, win) \subseteq Items
      BY DEF Candidates
    <3> QED
      BY <2>1, <3>1 DEF ReadPlan
  <2>5. todo' \in SUBSET Jobs
    <3>1. \A js : Leftover(js) \in SUBSET Jobs
      BY DEF Leftover, Schedulable
    <3> QED
      BY <2>1, <3>1 DEF ReadPlan
  <2>6. /\ muPc = "free"
        /\ muPc' = (IF plan' # {} THEN "admit" ELSE IF todo' # {} THEN "sweep" ELSE "free")
        /\ UNCHANGED <<overrun, prio, occ, rowVars, ctxVars, rc, cur, fin, boot, posts, bounds>>
    BY <2>1 DEF ReadPlan
  <2> QED
    BY <2>2, <2>3, <2>4, <2>5, <2>6 DEF NoFin
<1>3. CASE MarkItemRunning
  BY <1>3
     DEF MarkItemRunning, ItemStatus, None
<1>4. CASE MarkJobRunning
  BY <1>4
     DEF MarkJobRunning, JobStatus
<1>5. CASE StartItem
  <2>1. cur \in Items
    BY <1>5 DEF StartItem
  <2>2. PICK s \in Slots :
          /\ wk' = [wk EXCEPT ![<<cur, s>>] =
               [IdleRun EXCEPT !.pc = "go", !.dead = scope[JobOf[cur]] = "dead"]]
          /\ itemCancels' = StoreCancel(cur, s)
    BY <1>5 DEF StartItem
  <2>3. [IdleRun EXCEPT !.pc = "go", !.dead = scope[JobOf[cur]] = "dead"] \in RunType
    BY DEF IdleRun, RunType, Outcomes
  <2>4. wk' \in [Runs -> RunType]
    BY <2>1, <2>2, <2>3 DEF Runs
  <2>5. scope' \in [Jobs -> {"none", "live", "dead"}]
    BY <1>5, <2>1 DEF StartItem, ScopeFor
  <2>6. itemCancels' \in [Items -> Slots \cup {None}]
    BY <2>1, <2>2 DEF StoreCancel
  <2> QED
    BY <1>5, <2>4, <2>5, <2>6 DEF StartItem
<1>6. CASE AdmitDone
  <2>1. todo' \in SUBSET Jobs
    BY <1>6 DEF AdmitDone, Leftover, Schedulable
  <2> QED
    BY <1>6, <2>1 DEF AdmitDone, NoFin
<1>7. CASE SweepFinalize
  <2>1. PICK j \in todo : /\ todo' = todo \ {j}
                          /\ FinalizeRead(j, IF todo = {j} THEN "free" ELSE "sweep")
    BY <1>7 DEF SweepFinalize
  <2>2. UNCHANGED <<persisted, ctxVars, rc, plan, cur, tasks, boot, posts, bounds>>
    BY <1>7 DEF SweepFinalize
  <2>3. muPc = "sweep"
    BY <1>7 DEF SweepFinalize
  <2> DEFINE back == IF todo = {j} THEN "free" ELSE "sweep"
  <2>4. CASE Closable(j)
    <3>1. muPc' = "finish" /\ fin' = [job |-> j, cancelled |-> jobS[j] = "cancelling", back |-> back]
      BY <2>1, <2>4 DEF FinalizeRead
    <3>2. fin' \in FinType
      BY <3>1 DEF FinType
    <3> QED
      BY <2>1, <2>2, <2>3, <3>1, <3>2
  <2>5. CASE ~Closable(j)
    <3>1. muPc' = back /\ UNCHANGED fin
      BY <2>1, <2>5 DEF FinalizeRead
    <3> QED
      BY <2>1, <2>2, <2>3, <3>1 DEF NoFin
  <2> QED
    BY <2>4, <2>5
<1>8. CASE FinishJob
  <2>1. muPc = "finish" /\ fin.job \in Jobs
    BY <1>8 DEF FinishJob
  <2>2. /\ muPc' = fin.back /\ fin' = NoFin
        /\ UNCHANGED <<window, overrun, prio, rowVars, itemCancels, rc, plan, cur, todo,
                       tasks, boot, posts, bounds>>
    BY <1>8 DEF FinishJob
  <2>3. jobS' \in [Jobs -> JobStatus]
    BY <1>8 DEF FinishJob, JobStatus
  <2>4. occ' \in [Jobs -> {"none", "finished", "cancelled"}]
    BY <1>8 DEF FinishJob, RecordOccurrence
  <2>5. scope' \in [Jobs -> {"none", "live", "dead"}]
    BY <1>8 DEF FinishJob
  <2>6. wk' \in [Runs -> RunType] /\ rs' \in [Items -> ResType]
    <3>1. KillRuns(fin.job) \in [Runs -> RunType] /\ KillRes(fin.job) \in [Items -> ResType]
      BY <2>1, KillTypes
    <3> QED
      BY <1>8, <3>1 DEF FinishJob
  <2>7. fin.back \in {"free", "sweep"} /\ fin' \in FinType
    BY <2>2 DEF FinType, NoFin
  <2> QED
    BY <2>1, <2>2, <2>3, <2>4, <2>5, <2>6, <2>7 DEF NoFin
<1>9. CASE ResumeReconcile
  BY <1>9
     DEF ResumeReconcile, ResType, IdleRes
<1>10. CASE ResumeStuck
  BY <1>10
     DEF ResumeStuck, ItemStatus, Outcomes
<1>11. CASE ResumeReset
  BY <1>11
     DEF ResumeReset, ItemStatus, TaskSet, TaskKinds, TickTask, Task
<1>12. CASE ResumeFinalize
  BY <1>12
     DEF ResumeFinalize, ResumableJobIDs, TaskSet, TaskKinds, Task
<1>13. CASE Crash
  BY <1>13
     DEF Crash, IdleRun, IdleRes, RunType, ResType, FinType, NoFin,
         Outcomes, Runs, None
<1>14. ASSUME NEW t \in tasks, NEW o \in Overruns, WriteWindow(t, o) PROVE  TypeOK'
  <2>1. t.job \in Jobs
    BY <1>14 DEF WriteWindow
  <2>2. window' \in [Jobs -> Windows]
    <3>1. t.kind \in {"setAsap", "setLater", "setBefore"}
      BY <1>14 DEF WriteWindow
    <3> QED
      BY <1>14, <2>1, <3>1 DEF WriteWindow, Windows
  <2>3. tasks' \in SUBSET TaskSet /\ \A u \in tasks' : u.kind # "tick" => u.job \in Jobs
    BY <1>14 DEF WriteWindow, TaskSet, TaskKinds, TickTask, Task, None
  <2>4. overrun' \in [Jobs -> Overruns]
    BY <1>14, <2>1 DEF WriteWindow
  <2> QED
    BY <1>14, <2>2, <2>3, <2>4 DEF WriteWindow
<1>15. ASSUME NEW t \in tasks, AbortScope(t) PROVE  TypeOK'
  <2>1. t.job \in Jobs
    BY <1>15 DEF AbortScope
  <2>2. wk' \in [Runs -> RunType] /\ rs' \in [Items -> ResType]
    <3>1. KillRuns(t.job) \in [Runs -> RunType] /\ KillRes(t.job) \in [Items -> ResType]
      BY <2>1, KillTypes
    <3> QED
      BY <1>15, <3>1 DEF AbortScope
  <2>3. scope' \in [Jobs -> {"none", "live", "dead"}]
    BY <1>15, <2>1 DEF AbortScope
  <2>4. tasks' \in SUBSET TaskSet /\ \A u \in tasks' : u.kind # "tick" => u.job \in Jobs
    BY <1>15, <2>1 DEF AbortScope, TaskSet, TaskKinds, Task
  <2> QED
    BY <1>15, <2>2, <2>3, <2>4 DEF AbortScope
<1>16. ASSUME NEW t \in tasks, DeleteJob(t) PROVE  TypeOK'
  BY <1>16
     DEF DeleteJob, JobStatus, ItemStatus, TaskSet
<1>17. ASSUME NEW t \in tasks, FinalizeJob(t) PROVE  TypeOK'
  <2>1. t.job \in Jobs /\ muPc = "free" /\ FinalizeRead(t.job, "free")
    BY <1>17 DEF FinalizeJob
  <2>2. tasks' \in SUBSET TaskSet /\ \A u \in tasks' : u.kind # "tick" => u.job \in Jobs
    BY <1>17 DEF FinalizeJob, TaskSet, TaskKinds, TickTask, Task, None
  <2>3. UNCHANGED <<persisted, ctxVars, rc, plan, cur, todo, boot, posts, bounds>>
    BY <1>17 DEF FinalizeJob
  <2>4. CASE Closable(t.job)
    <3>1. /\ muPc' = "finish"
          /\ fin' = [job |-> t.job, cancelled |-> jobS[t.job] = "cancelling", back |-> "free"]
      BY <2>1, <2>4 DEF FinalizeRead
    <3>2. fin' \in FinType
      BY <2>1, <3>1 DEF FinType
    <3> QED
      BY <2>1, <2>2, <2>3, <3>1, <3>2
  <2>5. CASE ~Closable(t.job)
    <3>1. muPc' = "free" /\ UNCHANGED fin
      BY <2>1, <2>5 DEF FinalizeRead
    <3> QED
      BY <2>1, <2>2, <2>3, <3>1
  <2> QED
    BY <2>4, <2>5
<1>18. ASSUME NEW r \in Runs, Accept(r) PROVE  TypeOK'
  <2>1. wk' \in [Runs -> RunType]
    BY <1>18 DEF Accept, RunType
  <2>2. posts' \in [Items -> Nat]
    BY <1>18 DEF Accept, Runs
  <2> QED
    BY <1>18, <2>1, <2>2 DEF Accept
<1>19. ASSUME NEW r \in Runs, StreamOpen(r) PROVE  TypeOK'
  <2>1. wk' \in [Runs -> RunType]
    BY <1>19 DEF StreamOpen, RunType
  <2>2. started' \in [Items -> BOOLEAN]
    BY <1>19 DEF StreamOpen
  <2> QED
    BY <1>19, <2>1, <2>2 DEF StreamOpen
<1>20. ASSUME NEW r \in Runs, NEW g \in {"task", "run"}, SaveRef(r, g) PROVE  TypeOK'
  <2>1. wk' \in [Runs -> RunType]
    BY <1>20 DEF SaveRef, RunType
  <2>2. ref' \in [Items -> {"none", "task", "run"}]
    BY <1>20 DEF SaveRef
  <2> QED
    BY <1>20, <2>1, <2>2 DEF SaveRef
<1>21. ASSUME NEW r \in Runs, NEW out \in Outcomes, Return(r, out) PROVE  TypeOK'
  <2>1. wk' \in [Runs -> RunType]
    <3>1. [wk[r] EXCEPT !.pc = "ret", !.out = out] \in RunType
      BY RunUpdates
    <3>2. wk' = [wk EXCEPT ![r] = [wk[r] EXCEPT !.pc = "ret", !.out = out]]
      BY <1>21 DEF Return
    <3> QED
      BY <3>1, <3>2
  <2> QED
    BY <1>21, <2>1 DEF Return
<1>22. ASSUME NEW r \in Runs, PersistOutcome(r) \/ Panic(r) \/ NoProvider(r) PROVE  TypeOK'
  <2>1. wk' \in [Runs -> RunType]
    <3>1. wk' = [wk EXCEPT ![r].pc = "clean"]
      BY <1>22 DEF PersistOutcome, Panic, NoProvider
    <3> QED
      BY <3>1 DEF RunType
  <2>2. Recorded(wk[r]) \in ItemStatus
    BY DEF Recorded, RunType, ItemStatus
  <2>3. itemS' \in [Items -> ItemStatus]
    BY <1>22, <2>2 DEF PersistOutcome, Panic, NoProvider, FinishRow, ItemStatus, Outcomes
  <2>4. UNCHANGED <<jobVars, started, ref, scope, itemCancels, rs, rc, lockVars, tasks,
                    boot, posts, bounds>>
    BY <1>22 DEF PersistOutcome, Panic, NoProvider
  <2> QED
    BY <2>1, <2>3, <2>4
<1>23. ASSUME NEW r \in Runs, Cleanup(r) PROVE  TypeOK'
  <2>1. wk' \in [Runs -> RunType]
    BY <1>23 DEF Cleanup, IdleRun, RunType, Outcomes
  <2>2. itemCancels' \in [Items -> Slots \cup {None}]
    BY <1>23 DEF Cleanup
  <2>3. JobOf[r[1]] \in Jobs
    BY DEF Runs
  <2>4. tasks' \in SUBSET TaskSet /\ \A u \in tasks' : u.kind # "tick" => u.job \in Jobs
    BY <1>23, <2>3 DEF Cleanup, TaskSet, TaskKinds, Task
  <2> QED
    BY <1>23, <2>1, <2>2, <2>4 DEF Cleanup
<1>24. ASSUME NEW j \in Jobs, NEW how \in SubmitKinds, CreateJob(j, how) PROVE  TypeOK'
  BY <1>24
     DEF CreateJob, SubmitKinds, JobStatus, ItemStatus, TaskSet, TaskKinds,
         TickTask, Task, None
<1>25. ASSUME NEW j \in Jobs, CancelJob(j) PROVE  TypeOK'
  BY <1>25
     DEF CancelJob, RecordOccurrence, JobStatus, TaskSet, TaskKinds, Task
<1>26. ASSUME NEW j \in Jobs, DeleteRequest(j) PROVE  TypeOK'
  BY <1>26
     DEF DeleteRequest, TaskSet, TaskKinds, Task
<1>27. ASSUME NEW j \in Jobs, TimePasses(j) PROVE  TypeOK'
  BY <1>27
     DEF TimePasses, Windows
<1>28. ASSUME NEW j \in Jobs, NEW k \in {"setAsap", "setLater"}, Reschedule(j, k)
     PROVE  TypeOK'
  BY <1>28
     DEF Reschedule, TaskSet, TaskKinds, Task
<1>29. ASSUME NEW j \in Jobs, NEW p \in Prios, Reprioritize(j, p) PROVE  TypeOK'
  BY <1>29
     DEF Reprioritize, TaskSet, TaskKinds, TickTask, Task, None
<1>30. ASSUME NEW j \in Jobs, NEW sts \in RetrySets, Retry(j, sts) PROVE  TypeOK'
  <2>1. recalled' \in SUBSET Items
    <3>1. recalled \in SUBSET Items
      OBVIOUS
    <3> HIDE DEF TypeOK, jobVars, rowVars, ctxVars, lockVars, bounds, persisted, memory
    <3> QED
      BY <1>30, <3>1, RecalledRows
  <2>2. /\ itemS' \in [Items -> ItemStatus] /\ ref' \in [Items -> {"none", "task", "run"}]
        /\ posts' \in [Items -> Nat]
    BY <1>30 DEF Retry, ItemStatus
  <2>3. jobS' \in [Jobs -> JobStatus] /\ occ' \in [Jobs -> {"none", "finished", "cancelled"}]
    BY <1>30 DEF Retry, JobStatus
  <2>4. tasks' \in SUBSET TaskSet /\ \A u \in tasks' : u.kind # "tick" => u.job \in Jobs
    BY <1>30 DEF Retry, TaskSet, TaskKinds, TickTask, Task, None
  <2>5. /\ UNCHANGED <<window, overrun, prio, started, ctxVars, rc, lockVars, boot, crashes, ops>>
        /\ retries' \in Nat
    BY <1>30 DEF Retry
  <2> QED
    BY <2>1, <2>2, <2>3, <2>4, <2>5
<1>31. ASSUME NEW i \in Items, CancelItem(i) PROVE  TypeOK'
  <2> DEFINE r == <<i, itemCancels[i]>>
  <2>1. itemS' \in [Items -> ItemStatus]
    BY <1>31 DEF CancelItem, ItemStatus
  <2>2. wk' \in [Runs -> RunType]
    <3>1. \/ wk' = wk
          \/ itemCancels[i] # None /\ wk' = [wk EXCEPT ![r].dead = wk[r].dead \/ Live(r)]
      BY <1>31 DEF CancelItem
    <3>2. CASE itemCancels[i] # None /\ wk' = [wk EXCEPT ![r].dead = wk[r].dead \/ Live(r)]
      <4>1. r \in Runs
        BY <3>2 DEF Runs
      <4> HIDE DEF r
      <4>2. [wk[r] EXCEPT !.dead = wk[r].dead \/ Live(r)] \in RunType
        BY <4>1, RunUpdates
      <4> QED
        BY <3>2, <4>1, <4>2
    <3> QED
      BY <3>1, <3>2
  <2>3. tasks' \in SUBSET TaskSet /\ \A u \in tasks' : u.kind # "tick" => u.job \in Jobs
    BY <1>31 DEF CancelItem, TaskSet, TaskKinds, Task
  <2> QED
    BY <1>31, <2>1, <2>2, <2>3 DEF CancelItem
<1>32. ASSUME NEW i \in Items, ReconcileBegin(i) \/ ReconcileGiveUp(i) PROVE  TypeOK'
  <2>1. rc' \in [Items -> BOOLEAN]
    <3>1. \E b \in BOOLEAN : rc' = [rc EXCEPT ![i] = b]
      BY <1>32 DEF ReconcileBegin, ReconcileGiveUp
    <3>2. rc \in [Items -> BOOLEAN]
      OBVIOUS
    <3> HIDE DEF TypeOK
    <3> QED
      BY <3>1, <3>2
  <2>2. UNCHANGED <<persisted, ctxVars, lockVars, tasks, boot, posts, bounds>>
    BY <1>32 DEF ReconcileBegin, ReconcileGiveUp
  <2> QED
    BY <2>1, <2>2
<1>33. ASSUME NEW i \in Items, NEW out \in Outcomes, ReconcileAnswer(i, out)
     PROVE  TypeOK'
  BY <1>33
     DEF ReconcileAnswer, FinishRow, ItemStatus, Outcomes, TaskSet,
         TaskKinds, Task
<1>34. ASSUME NEW i \in Items, NEW out \in Outcomes, ResumeAnswer(i, out) PROVE  TypeOK'
  BY <1>34
     DEF ResumeAnswer, FinishRow, IdleRes, ResType, ItemStatus, Outcomes,
         TaskSet, TaskKinds, Task
<1> HIDE DEF TypeOK, jobVars, rowVars, ctxVars, lockVars, bounds, persisted, memory
<1> QED
  BY <1>1, <1>2, <1>3, <1>4, <1>5, <1>6, <1>7, <1>8, <1>9, <1>10, <1>11,
     <1>12, <1>13, <1>14, <1>15, <1>16, <1>17, <1>18, <1>19, <1>20, <1>21,
     <1>22, <1>23, <1>24, <1>25, <1>26, <1>27, <1>28, <1>29, <1>30, <1>31,
     <1>32, <1>33, <1>34
     DEF Next, Scheduler, Resume, Run, RunTask

(* Every reachable state is well typed, the locals of the schedMu holder   *)
(* included.                                                               *)
LEMMA TypeCorrect == Spec => []TypeOK
<1>1. Init => TypeOK
  BY TypeInit
<1>2. TypeOK /\ [Next]_vars => TypeOK'
  BY TypeNext
<1> QED
  BY <1>1, <1>2, PTL DEF Spec

(* An outcome is written to a row that is still there. *)
LEMMA OutcomeKeepsGone ==
  ASSUME TypeOK, NEW i \in Items, NEW out, out # "gone", itemS' = FinishRow(i, out)
  PROVE  \A k \in Items : itemS'[k] = "gone" <=> itemS[k] = "gone"
  BY DEF TypeOK, FinishRow

(* Rows and jobs are deleted by one statement, and no other step does it.  *)
LEMMA DeletedNext == ASSUME TypeOK, RowsEndWithJob, [Next]_vars PROVE RowsEndWithJob'
<1> USE DEF jobVars, rowVars, ctxVars, lockVars, bounds, persisted, memory
<1>0. \A i \in Items : JobOf[i] \in Jobs
  BY QueueAssumption
<1>1. ASSUME \A i \in Items : itemS'[i] = "gone" <=> itemS[i] = "gone",
             \A j \in Jobs : jobS'[j] = "gone" <=> jobS[j] = "gone"
      PROVE  RowsEndWithJob'
  BY <1>0, <1>1 DEF RowsEndWithJob
<1>2. CASE UNCHANGED vars \/ Crash
  BY <1>1, <1>2 DEF vars, Crash
<1>3. CASE TickBegin \/ TimerTick
  <2>1. jobS' = SweptJobS /\ itemS' = itemS
    BY <1>3 DEF TickBegin, TimerTick, ReadPlan
  <2>2. \A j \in Jobs : jobS'[j] = "gone" <=> jobS[j] = "gone"
    BY <2>1 DEF SweptJobS, Overran
  <2> QED
    BY <1>1, <2>1, <2>2
<1>4. CASE Scheduler
  <2>1. CASE MarkItemRunning \/ MarkJobRunning
    BY <1>1, <2>1 DEF TypeOK, MarkItemRunning, MarkJobRunning
  <2>2. CASE StartItem \/ AdmitDone \/ SweepFinalize
    BY <1>1, <2>2 DEF StartItem, AdmitDone, SweepFinalize
  <2>3. CASE FinishJob
    BY <1>1, <2>3 DEF TypeOK, FinishJob
  <2> QED
    BY <1>4, <2>1, <2>2, <2>3 DEF Scheduler
<1>5. CASE Resume
  <2>1. CASE ResumeReconcile \/ ResumeFinalize
    BY <1>1, <2>1 DEF ResumeReconcile, ResumeFinalize
  <2>2. CASE ResumeStuck
    BY <1>1, <2>2 DEF ResumeStuck, Unreconcilable
  <2>3. CASE ResumeReset
    BY <1>1, <2>3 DEF ResumeReset, NoEvidence
  <2> QED
    BY <1>5, <2>1, <2>2, <2>3 DEF Resume
<1>6. ASSUME NEW t \in tasks, RunTask(t) \/ FinalizeJob(t) PROVE RowsEndWithJob'
  <2>1. CASE DeleteJob(t)
    BY <1>0, <2>1 DEF TypeOK, DeleteJob, RowsEndWithJob
  <2>2. CASE ~DeleteJob(t)
    BY <1>1, <1>6, <2>2 DEF RunTask, WriteWindow, AbortScope, FinalizeJob
  <2> QED
    BY <2>1, <2>2
<1>7. ASSUME NEW r \in Runs, Run(r) \/ Panic(r) PROVE RowsEndWithJob'
  <2>1. r[1] \in Items /\ Recorded(wk[r]) # "gone"
    BY DEF TypeOK, Runs, Recorded, RunType, Outcomes
  <2>2. CASE PersistOutcome(r) \/ NoProvider(r) \/ Panic(r)
    <3>1. jobS' = jobS
      BY <2>2 DEF PersistOutcome, NoProvider, Panic
    <3>2. \E out : out # "gone" /\ itemS' = FinishRow(r[1], out)
      BY <2>1, <2>2 DEF PersistOutcome, NoProvider, Panic
    <3>3. \A i \in Items : itemS'[i] = "gone" <=> itemS[i] = "gone"
      BY <2>1, <3>2, OutcomeKeepsGone
    <3> QED
      BY <1>1, <3>1, <3>3
  <2>3. CASE ~PersistOutcome(r) /\ ~NoProvider(r) /\ ~Panic(r)
    BY <1>1, <1>7, <2>3 DEF Run, Accept, StreamOpen, SaveRef, Return, Cleanup
  <2> QED
    BY <2>2, <2>3
<1>8. ASSUME NEW j \in Jobs, NEW how \in SubmitKinds, CreateJob(j, how) PROVE RowsEndWithJob'
  BY <1>0, <1>8 DEF TypeOK, CreateJob, RowsEndWithJob
<1>9. ASSUME NEW j \in Jobs, NEW sts \in RetrySets, Retry(j, sts) PROVE RowsEndWithJob'
  BY <1>0, <1>9 DEF TypeOK, Retry, Requeued, RowsIn, Rows, Existing, RowsEndWithJob
<1>10. ASSUME NEW j \in Jobs,
              \/ CancelJob(j) \/ DeleteRequest(j) \/ TimePasses(j)
              \/ \E k \in {"setAsap", "setLater"} : Reschedule(j, k)
              \/ \E p \in Prios : Reprioritize(j, p)
       PROVE  RowsEndWithJob'
  <2>1. CASE CancelJob(j)
    BY <1>1, <2>1 DEF TypeOK, CancelJob
  <2>2. CASE ~CancelJob(j)
    BY <1>1, <1>10, <2>2 DEF DeleteRequest, TimePasses, Reschedule, Reprioritize
  <2> QED
    BY <2>1, <2>2
<1>11. ASSUME NEW i \in Items, CancelItem(i) \/ ReconcileBegin(i) \/ ReconcileGiveUp(i)
       PROVE  RowsEndWithJob'
  <2>1. CASE CancelItem(i)
    BY <1>1, <2>1 DEF TypeOK, CancelItem
  <2>2. CASE ~CancelItem(i)
    BY <1>1, <1>11, <2>2 DEF ReconcileBegin, ReconcileGiveUp
  <2> QED
    BY <2>1, <2>2
<1>12. ASSUME NEW i \in Items, NEW out \in Outcomes, ReconcileAnswer(i, out) \/ ResumeAnswer(i, out)
       PROVE  RowsEndWithJob'
  <2>1. jobS' = jobS /\ itemS' = FinishRow(i, out) /\ out # "gone"
    BY <1>12 DEF ReconcileAnswer, ResumeAnswer, Outcomes
  <2>2. \A k \in Items : itemS'[k] = "gone" <=> itemS[k] = "gone"
    BY <2>1, OutcomeKeepsGone
  <2> QED
    BY <1>1, <2>1, <2>2
<1> QED
  BY <1>2, <1>3, <1>4, <1>5, <1>6, <1>7, <1>8, <1>9, <1>10, <1>11, <1>12 DEF Next

(* The tables and maps are well formed in every reachable state, and a     *)
(* deletion is final: neither a run that ends later, nor an answer, nor a  *)
(* retry writes a row of a deleted job again.                              *)
THEOREM StoreStaysSound == Spec => []StoreSound
<1>1. Init => RowsEndWithJob
  BY QueueAssumption DEF Init, RowsEndWithJob
<1>2. TypeOK /\ RowsEndWithJob /\ [Next]_vars => RowsEndWithJob'
  BY DeletedNext
<1> QED
  BY <1>1, <1>2, TypeCorrect, PTL DEF Spec, StoreSound

-----------------------------------------------------------------------------
(***************************************************************************)
(* The global budget.  BudgetRespected is not inductive: between the count *)
(* a tick reads and the rows it marks, the rows of its plan are promised   *)
(* slots that no 'running' row shows yet.  BudgetInv counts them.          *)
(***************************************************************************)
BudgetInv == Cardinality(RunningItems) + Cardinality(plan) <= Budget

(* The sets counted are finite, so their cardinalities are numbers. *)
LEMMA CountsAreNat ==
  ASSUME TypeOK
  PROVE  /\ IsFiniteSet(RunningItems) /\ Cardinality(RunningItems) \in Nat
         /\ IsFiniteSet(plan) /\ Cardinality(plan) \in Nat
<1>1. RunningItems \in SUBSET Items /\ plan \in SUBSET Items
  BY DEF RunningItems, TypeOK
<1> QED
  BY <1>1, QueueAssumption, FS_Subset, FS_CardinalityType

(* Only a tick plans a row and only MarkItemRunning makes one 'running':   *)
(* no request, run, finalize or restart adds to either set.                *)
LEMMA OnlyTicksAdd ==
  ASSUME TypeOK, [Next]_vars, ~TickBegin, ~TimerTick, ~MarkItemRunning
  PROVE  RunningItems' \subseteq RunningItems /\ plan' \subseteq plan
<1> USE DEF RunningItems, jobVars, rowVars, ctxVars, lockVars, persisted, memory
<1>1. CASE UNCHANGED vars
  BY <1>1 DEF vars
<1>2. CASE MarkJobRunning \/ StartItem \/ AdmitDone \/ SweepFinalize \/ FinishJob
  BY <1>2 DEF MarkJobRunning, StartItem, AdmitDone, SweepFinalize, FinishJob
<1>3. CASE Resume
  BY <1>3 DEF Resume, ResumeReconcile, ResumeStuck, ResumeReset, ResumeFinalize
<1>4. CASE Crash
  BY <1>4 DEF Crash
<1>5. ASSUME NEW t \in tasks, RunTask(t) \/ FinalizeJob(t)
      PROVE  RunningItems' \subseteq RunningItems /\ plan' \subseteq plan
  BY <1>5 DEF RunTask, WriteWindow, AbortScope, DeleteJob, FinalizeJob
<1>6. ASSUME NEW r \in Runs, PersistOutcome(r) \/ Panic(r) \/ NoProvider(r)
      PROVE  RunningItems' \subseteq RunningItems /\ plan' \subseteq plan
  <2>1. Recorded(wk[r]) # "running"
    BY DEF TypeOK, Recorded, RunType, Outcomes
  <2> QED
    BY <1>6, <2>1 DEF PersistOutcome, Panic, NoProvider, FinishRow, TypeOK
<1>7. ASSUME NEW r \in Runs, Run(r), ~PersistOutcome(r), ~NoProvider(r)
      PROVE  RunningItems' \subseteq RunningItems /\ plan' \subseteq plan
  BY <1>7 DEF Run, Accept, StreamOpen, SaveRef, Return, Cleanup
<1>8. ASSUME NEW j \in Jobs,
             \/ \E how \in SubmitKinds : CreateJob(j, how)
             \/ CancelJob(j) \/ DeleteRequest(j) \/ TimePasses(j)
             \/ \E k \in {"setAsap", "setLater"} : Reschedule(j, k)
             \/ \E p \in Prios : Reprioritize(j, p)
      PROVE  RunningItems' \subseteq RunningItems /\ plan' \subseteq plan
  BY <1>8 DEF CreateJob, CancelJob, DeleteRequest, TimePasses, Reschedule, Reprioritize
<1>9. ASSUME NEW j \in Jobs, NEW sts \in RetrySets, Retry(j, sts)
      PROVE  RunningItems' \subseteq RunningItems /\ plan' \subseteq plan
  BY <1>9 DEF Retry
<1>10. ASSUME NEW i \in Items, CancelItem(i) \/ ReconcileBegin(i) \/ ReconcileGiveUp(i)
       PROVE  RunningItems' \subseteq RunningItems /\ plan' \subseteq plan
  BY <1>10 DEF CancelItem, ReconcileBegin, ReconcileGiveUp, TypeOK
<1>11. ASSUME NEW i \in Items, NEW out \in Outcomes, ReconcileAnswer(i, out) \/ ResumeAnswer(i, out)
       PROVE  RunningItems' \subseteq RunningItems /\ plan' \subseteq plan
  <2>1. out # "running"
    BY DEF Outcomes
  <2> QED
    BY <1>11, <2>1 DEF ReconcileAnswer, ResumeAnswer, FinishRow, TypeOK
<1> QED
  BY <1>1, <1>2, <1>3, <1>4, <1>5, <1>6, <1>7, <1>8, <1>9, <1>10, <1>11
     DEF Next, Scheduler

(* A tick promises no more slots than the budget has left. *)
LEMMA TickBudget ==
  ASSUME TypeOK, TypeOK', BudgetInv, ReadPlan
  PROVE  BudgetInv'
<1>1. PICK S \in SUBSET Candidates(SweptJobS, SweptWindow) :
        Admit(S, SweptJobS, SweptWindow) /\ plan' = S
  BY DEF ReadPlan
<1>2. RunningItems' = RunningItems
  BY DEF ReadPlan, RunningItems, rowVars
<1>3. plan' # {} => Cardinality(plan') <= Budget - Cardinality(RunningItems)
  BY <1>1 DEF Admit, Admitted
<1>4. plan' = {} => Cardinality(plan') = 0
  BY FS_EmptySet
<1>5. Cardinality(plan') \in Nat
  BY QueueAssumption, FS_Subset, FS_CardinalityType DEF TypeOK
<1> QED
  BY <1>2, <1>3, <1>4, <1>5, CountsAreNat, QueueAssumption DEF BudgetInv

(* Marking a row takes the slot its plan was promised; a row that is no    *)
(* longer queued gives it back.                                            *)
LEMMA MarkBudget ==
  ASSUME TypeOK, BudgetInv, MarkItemRunning
  PROVE  BudgetInv'
<1>1. PICK i \in plan :
        /\ plan' = plan \ {i}
        /\ \/ itemS[i] = "queued" /\ itemS' = [itemS EXCEPT ![i] = "running"]
           \/ itemS' = itemS
  BY DEF MarkItemRunning
<1>2. i \in Items
  BY <1>1 DEF TypeOK
<1>3. Cardinality(plan') = Cardinality(plan) - 1
  BY <1>1, CountsAreNat, FS_RemoveElement
<1>4. CASE itemS' = itemS
  <2>1. RunningItems' = RunningItems
    BY <1>4 DEF RunningItems
  <2> QED
    BY <1>3, <2>1, CountsAreNat, QueueAssumption DEF BudgetInv
<1>5. CASE itemS[i] = "queued" /\ itemS' = [itemS EXCEPT ![i] = "running"]
  <2>1. RunningItems' = RunningItems \cup {i} /\ i \notin RunningItems
    BY <1>2, <1>5 DEF RunningItems, TypeOK
  <2>2. Cardinality(RunningItems') = Cardinality(RunningItems) + 1
    BY <2>1, CountsAreNat, FS_AddElement
  <2> QED
    BY <1>3, <2>2, CountsAreNat, QueueAssumption DEF BudgetInv
<1> QED
  BY <1>1, <1>4, <1>5

(* The two lemmas and OnlyTicksAdd cover every step. *)
LEMMA BudgetNext ==
  ASSUME TypeOK, TypeOK', BudgetInv, [Next]_vars
  PROVE  BudgetInv'
<1>1. CASE TickBegin \/ TimerTick
  BY <1>1, TickBudget DEF TickBegin, TimerTick
<1>2. CASE MarkItemRunning
  BY <1>2, MarkBudget
<1>3. CASE ~TickBegin /\ ~TimerTick /\ ~MarkItemRunning
  <2>1. RunningItems' \subseteq RunningItems /\ plan' \subseteq plan
    BY <1>3, OnlyTicksAdd
  <2>2. Cardinality(RunningItems') <= Cardinality(RunningItems) /\ Cardinality(RunningItems') \in Nat
    BY <2>1, CountsAreNat, FS_Subset, FS_CardinalityType
  <2>3. Cardinality(plan') <= Cardinality(plan) /\ Cardinality(plan') \in Nat
    BY <2>1, CountsAreNat, FS_Subset, FS_CardinalityType
  <2> QED
    BY <2>2, <2>3, CountsAreNat, QueueAssumption DEF BudgetInv
<1> QED
  BY <1>1, <1>2, <1>3

(* batch_budget is never exceeded: for any jobs, rows, priorities, windows *)
(* and requests, retries, deletions, crashes and restarts included, at     *)
(* most Budget rows are 'running'.                                         *)
THEOREM BudgetSafe == Spec => []BudgetRespected
<1>1. Init => BudgetInv
  <2> SUFFICES ASSUME Init PROVE BudgetInv
    OBVIOUS
  <2>1. RunningItems = {} /\ plan = {}
    BY DEF Init, RunningItems
  <2>2. Cardinality(RunningItems) = 0 /\ Cardinality(plan) = 0
    BY <2>1, FS_EmptySet
  <2> QED
    BY <2>2, QueueAssumption DEF BudgetInv
<1>2. TypeOK /\ TypeOK' /\ BudgetInv /\ [Next]_vars => BudgetInv'
  BY BudgetNext
<1>3. TypeOK /\ BudgetInv => BudgetRespected
  BY CountsAreNat, QueueAssumption DEF BudgetInv, BudgetRespected
<1> QED
  BY <1>1, <1>2, <1>3, TypeCorrect, PTL DEF Spec

-----------------------------------------------------------------------------
(***************************************************************************)
(* Cancellation.  JobCancelReachesRuns is inductive: a goroutine is given  *)
(* the scope that is in the map, and a scope leaves the map or dies only   *)
(* together with every goroutine under it.                                 *)
(***************************************************************************)

(* A step that touches neither scopes nor goroutines of startItem, or only *)
(* lets goroutines end, keeps the property.                                *)
LEMMA ReachKept ==
  ASSUME JobCancelReachesRuns,
         \A r \in Runs : Live(r)' /\ ~wk'[r].dead => Live(r) /\ ~wk[r].dead,
         \A r \in Runs : scope[JobOf[r[1]]] = "live" => scope'[JobOf[r[1]]] = "live"
  PROVE  JobCancelReachesRuns'
  BY DEF JobCancelReachesRuns

(* Every step keeps it: one case per action that changes scope or wk. *)
LEMMA ReachNext ==
  ASSUME TypeOK, JobCancelReachesRuns, [Next]_vars
  PROVE  JobCancelReachesRuns'
<1> USE DEF jobVars, rowVars, ctxVars, lockVars, persisted, memory
<1>1. CASE UNCHANGED <<scope, wk>>
  BY <1>1 DEF JobCancelReachesRuns, Live
<1>2. CASE StartItem
  <2>1. cur \in Items /\ JobOf[cur] \in Jobs
    BY <1>2, QueueAssumption DEF StartItem, TypeOK
  <2>2. PICK s \in Slots :
          /\ wk' = [wk EXCEPT ![<<cur, s>>] =
               [IdleRun EXCEPT !.pc = "go", !.dead = scope[JobOf[cur]] = "dead"]]
          /\ scope' = [scope EXCEPT ![JobOf[cur]] = ScopeFor(JobOf[cur])]
    BY <1>2 DEF StartItem
  <2>3. SUFFICES ASSUME NEW r \in Runs, Live(r)', ~wk'[r].dead
                 PROVE  scope'[JobOf[r[1]]] = "live"
    BY DEF JobCancelReachesRuns
  <2>4. CASE r = <<cur, s>>
    <3>1. wk'[r].dead = (scope[JobOf[cur]] = "dead")
      BY <2>2, <2>4 DEF TypeOK, IdleRun
    <3>2. scope[JobOf[cur]] \in {"none", "live"}
      BY <2>1, <2>3, <3>1 DEF TypeOK
    <3> QED
      BY <2>1, <2>2, <2>4, <3>2 DEF ScopeFor, TypeOK
  <2>5. CASE r # <<cur, s>>
    <3>1. wk'[r] = wk[r]
      BY <2>2, <2>5 DEF TypeOK
    <3>2. scope[JobOf[r[1]]] = "live"
      BY <2>3, <3>1 DEF Live, JobCancelReachesRuns
    <3> QED
      BY <2>1, <2>2, <3>2 DEF ScopeFor, TypeOK
  <2> QED
    BY <2>4, <2>5
<1>3. ASSUME NEW j \in Jobs, NEW st \in {"none", "dead"},
             scope' = [scope EXCEPT ![j] = st],
             wk' = (IF scope[j] = "none" THEN wk ELSE KillRuns(j))
      PROVE  JobCancelReachesRuns'
  <2> SUFFICES ASSUME NEW r \in Runs, Live(r)', ~wk'[r].dead
               PROVE  scope'[JobOf[r[1]]] = "live"
    BY DEF JobCancelReachesRuns
  <2>1. wk[r] \in RunType
    BY DEF TypeOK
  <2>2. Live(r) /\ ~wk[r].dead /\ (scope[j] # "none" => JobOf[r[1]] # j)
    BY <1>3, <2>1 DEF KillRuns, Live, RunType
  <2>3. scope[JobOf[r[1]]] = "live"
    BY <2>2 DEF JobCancelReachesRuns
  <2>4. JobOf[r[1]] # j
    BY <2>2, <2>3
  <2> QED
    BY <1>3, <2>3, <2>4 DEF TypeOK
<1>4. CASE FinishJob
  <2>1. fin.job \in Jobs
    BY <1>4 DEF FinishJob, TypeOK
  <2>2. CASE jobS[fin.job] = "gone"
    BY <1>1, <1>4, <2>2 DEF FinishJob
  <2>3. CASE jobS[fin.job] # "gone"
    BY <1>3, <1>4, <2>1, <2>3 DEF FinishJob
  <2> QED
    BY <2>2, <2>3
<1>5. ASSUME NEW t \in tasks, AbortScope(t) PROVE JobCancelReachesRuns'
  <2>1. t.job \in Jobs
    BY <1>5 DEF AbortScope, TypeOK
  <2>2. CASE scope[t.job] = "none"
    BY <1>1, <1>5, <2>2 DEF AbortScope
  <2>3. CASE scope[t.job] # "none"
    BY <1>3, <1>5, <2>1, <2>3 DEF AbortScope
  <2> QED
    BY <2>2, <2>3
<1>6. CASE Crash
  BY <1>6 DEF Crash, JobCancelReachesRuns, Live, IdleRun
<1>7. CASE ResumeReconcile
  <2>1. \A j \in Jobs : scope[j] = "live" => scope'[j] = "live"
    BY <1>7 DEF ResumeReconcile, TypeOK
  <2>2. \A r \in Runs : JobOf[r[1]] \in Jobs
    BY QueueAssumption DEF Runs
  <2>3. wk' = wk
    BY <1>7 DEF ResumeReconcile
  <2> QED
    BY <2>1, <2>2, <2>3 DEF JobCancelReachesRuns, Live
<1>8. ASSUME NEW r \in Runs, Run(r) \/ Panic(r) PROVE JobCancelReachesRuns'
  <2>1. wk[r] \in RunType
    BY DEF TypeOK
  <2>2. scope' = scope
    <3>1. CASE Accept(r) \/ StreamOpen(r) \/ \E g \in {"task", "run"} : SaveRef(r, g)
      BY <3>1 DEF Accept, StreamOpen, SaveRef
    <3>2. CASE (\E out \in Outcomes : Return(r, out)) \/ PersistOutcome(r) \/ Cleanup(r)
      BY <3>2 DEF Return, PersistOutcome, Cleanup
    <3>3. CASE Panic(r) \/ NoProvider(r)
      BY <3>3 DEF Panic, NoProvider
    <3> QED
      BY <1>8, <3>1, <3>2, <3>3 DEF Run
  <2>3. ASSUME NEW q \in Runs, q # r PROVE wk'[q] = wk[q]
    <3>1. CASE Accept(r) \/ StreamOpen(r) \/ \E g \in {"task", "run"} : SaveRef(r, g)
      BY <2>3, <3>1 DEF Accept, StreamOpen, SaveRef, TypeOK
    <3>2. CASE (\E out \in Outcomes : Return(r, out)) \/ PersistOutcome(r) \/ Cleanup(r)
      BY <2>3, <3>2 DEF Return, PersistOutcome, Cleanup, TypeOK
    <3>3. CASE Panic(r) \/ NoProvider(r)
      BY <2>3, <3>3 DEF Panic, NoProvider, TypeOK
    <3> QED
      BY <1>8, <3>1, <3>2, <3>3 DEF Run
  <2>4. CASE Accept(r) \/ StreamOpen(r) \/ \E g \in {"task", "run"} : SaveRef(r, g)
    <3>1. Live(r) /\ ~wk[r].dead
      BY <2>4 DEF Accept, StreamOpen, SaveRef, Live
    <3> QED
      BY <2>2, <2>3, <3>1, ReachKept DEF Live
  <2>5. CASE \E out \in Outcomes : Return(r, out)
    <3>1. Live(r) /\ wk'[r].dead = wk[r].dead
      BY <2>1, <2>5 DEF Return, Live, RunType, TypeOK
    <3> QED
      BY <2>2, <2>3, <3>1, ReachKept DEF Live
  <2>6. CASE PersistOutcome(r) \/ Panic(r) \/ NoProvider(r) \/ Cleanup(r)
    <3>1. wk'[r].pc \in {"clean", "idle"}
      BY <2>1, <2>6 DEF PersistOutcome, Panic, NoProvider, Cleanup, IdleRun, RunType, TypeOK
    <3> QED
      BY <2>2, <2>3, <3>1, ReachKept DEF Live
  <2> QED
    BY <1>8, <2>4, <2>5, <2>6 DEF Run
<1>9. ASSUME NEW i \in Items, CancelItem(i) PROVE JobCancelReachesRuns'
  <2> DEFINE r == <<i, itemCancels[i]>>
  <2>1. ASSUME NEW q \in Runs, Live(q)', ~wk'[q].dead PROVE Live(q) /\ ~wk[q].dead
    <3>1. wk' = wk \/ wk' = [wk EXCEPT ![r].dead = wk[r].dead \/ Live(r)]
      BY <1>9 DEF CancelItem
    <3>2. CASE wk' = wk
      BY <2>1, <3>2 DEF Live
    <3>3. CASE wk' = [wk EXCEPT ![r].dead = wk[r].dead \/ Live(r)]
      <4>1. wk[q] \in RunType
        BY DEF TypeOK
      <4>2. CASE q # r
        BY <2>1, <3>3, <4>2 DEF Live, TypeOK
      <4>3. CASE q = r
        <5>1. wk'[q] = [wk[q] EXCEPT !.dead = wk[q].dead \/ Live(q)]
          BY <3>3, <4>3 DEF TypeOK
        <5>2. wk'[q].pc = wk[q].pc /\ wk'[q].dead = (wk[q].dead \/ Live(q))
          BY <4>1, <5>1 DEF RunType
        <5> QED
          BY <2>1, <5>2 DEF Live
      <4> QED
        BY <4>2, <4>3
    <3> QED
      BY <3>1, <3>2, <3>3
  <2>2. scope' = scope
    BY <1>9 DEF CancelItem
  <2> QED
    BY <2>1, <2>2, ReachKept
<1>10. ASSUME ~StartItem, ~FinishJob, ~Crash, ~ResumeReconcile,
              \A t \in tasks : ~AbortScope(t),
              \A r \in Runs : ~Run(r) /\ ~Panic(r),
              \A i \in Items : ~CancelItem(i)
       PROVE  UNCHANGED <<scope, wk>>
  <2>1. CASE TickBegin \/ TimerTick
    BY <2>1 DEF TickBegin, TimerTick, ReadPlan, ctxVars, memory
  <2>2. CASE Scheduler \/ Resume
    BY <1>10, <2>2
       DEF Scheduler, MarkItemRunning, MarkJobRunning, AdmitDone, SweepFinalize, Resume, ResumeStuck,
           ResumeReset, ResumeFinalize, ctxVars, memory
  <2>3. ASSUME NEW t \in tasks, RunTask(t) \/ FinalizeJob(t) PROVE UNCHANGED <<scope, wk>>
    BY <1>10, <2>3 DEF RunTask, WriteWindow, DeleteJob, FinalizeJob, ctxVars, memory
  <2>4. ASSUME NEW j \in Jobs,
               \/ (\E how \in SubmitKinds : CreateJob(j, how)) \/ CancelJob(j)
               \/ DeleteRequest(j) \/ TimePasses(j)
        PROVE  UNCHANGED <<scope, wk>>
    BY <2>4 DEF CreateJob, CancelJob, DeleteRequest, TimePasses, ctxVars, memory
  <2>5. ASSUME NEW j \in Jobs,
               \/ \E k \in {"setAsap", "setLater"} : Reschedule(j, k)
               \/ \E p \in Prios : Reprioritize(j, p)
               \/ \E sts \in RetrySets : Retry(j, sts)
        PROVE  UNCHANGED <<scope, wk>>
    BY <2>5 DEF Reschedule, Reprioritize, Retry, ctxVars, memory
  <2>6. ASSUME NEW i \in Items,
               \/ ReconcileBegin(i) \/ ReconcileGiveUp(i)
               \/ \E out \in Outcomes : ReconcileAnswer(i, out) \/ ResumeAnswer(i, out)
        PROVE  UNCHANGED <<scope, wk>>
    BY <2>6 DEF ReconcileBegin, ReconcileGiveUp, ReconcileAnswer, ResumeAnswer, ctxVars, memory
  <2>7. CASE UNCHANGED vars
    BY <2>7 DEF vars, memory, ctxVars
  <2> QED
    BY <1>10, <2>1, <2>2, <2>3, <2>4, <2>5, <2>6, <2>7 DEF Next
<1> QED
  BY <1>1, <1>2, <1>4, <1>5, <1>6, <1>7, <1>8, <1>9, <1>10

(* Cancelling a job aborts every live run of it, however its rows were     *)
(* started, retried, finalized or resumed: no goroutine outlives the scope *)
(* it is reached through.                                                  *)
THEOREM CancelReaches == Spec => []JobCancelReachesRuns
<1>1. Init => JobCancelReachesRuns
  BY DEF Init, JobCancelReachesRuns, Live, IdleRun
<1>2. TypeOK /\ JobCancelReachesRuns /\ [Next]_vars => JobCancelReachesRuns'
  BY ReachNext
<1> QED
  BY <1>1, <1>2, TypeCorrect, PTL DEF Spec

-----------------------------------------------------------------------------
(***************************************************************************)
(* What most steps leave alone: the columns of the jobs, and the locals of *)
(* the holder of schedMu.                                                  *)
(***************************************************************************)
LEMMA RunsKeepJobs ==
  ASSUME NEW r, Run(r) \/ Panic(r) PROVE UNCHANGED <<jobVars, lockVars>>
<1> USE DEF jobVars, lockVars, persisted
<1>1. CASE NoProvider(r) \/ Accept(r) \/ StreamOpen(r)
  BY <1>1 DEF NoProvider, Accept, StreamOpen
<1>2. CASE PersistOutcome(r) \/ Cleanup(r) \/ Panic(r)
  BY <1>2 DEF PersistOutcome, Cleanup, Panic
<1>3. ASSUME NEW g, SaveRef(r, g) PROVE UNCHANGED <<jobVars, lockVars>>
  BY <1>3 DEF SaveRef
<1>4. ASSUME NEW out, Return(r, out) PROVE UNCHANGED <<jobVars, lockVars>>
  BY <1>4 DEF Return
<1> HIDE DEF jobVars, lockVars
<1> QED
  BY <1>1, <1>2, <1>3, <1>4 DEF Run

LEMMA AnswersKeepJobs ==
  ASSUME NEW i, \/ CancelItem(i) \/ ReconcileBegin(i) \/ ReconcileGiveUp(i)
                \/ \E out \in Outcomes : ReconcileAnswer(i, out) \/ ResumeAnswer(i, out)
  PROVE  UNCHANGED <<jobVars, lockVars>>
<1> USE DEF jobVars, lockVars, persisted
<1>1. CASE CancelItem(i) \/ ReconcileBegin(i) \/ ReconcileGiveUp(i)
  BY <1>1 DEF CancelItem, ReconcileBegin, ReconcileGiveUp
<1>2. ASSUME NEW out, ReconcileAnswer(i, out) \/ ResumeAnswer(i, out) PROVE UNCHANGED <<jobVars, lockVars>>
  BY <1>2 DEF ReconcileAnswer, ResumeAnswer
<1> HIDE DEF jobVars, lockVars
<1> QED
  BY <1>1, <1>2

LEMMA ResumeKeepsJobs == ASSUME Resume PROVE UNCHANGED <<jobVars, lockVars>>
  BY DEF Resume, ResumeReconcile, ResumeStuck, ResumeReset, ResumeFinalize, jobVars, lockVars, persisted

LEMMA RequestsKeepJobs ==
  ASSUME NEW j, \/ DeleteRequest(j) \/ TimePasses(j)
                \/ \E k \in {"setAsap", "setLater"} : Reschedule(j, k)
                \/ \E p \in Prios : Reprioritize(j, p)
  PROVE  UNCHANGED <<jobS, occ, lockVars>> /\ (~TimePasses(j) => UNCHANGED window)
<1> USE DEF lockVars, persisted, memory
<1>1. CASE DeleteRequest(j) \/ TimePasses(j)
  BY <1>1 DEF DeleteRequest, TimePasses
<1>2. ASSUME NEW k, Reschedule(j, k) PROVE UNCHANGED <<jobS, occ, lockVars, window>>
  BY <1>2 DEF Reschedule
<1>3. ASSUME NEW p, Reprioritize(j, p) PROVE UNCHANGED <<jobS, occ, lockVars, window>>
  BY <1>3 DEF Reprioritize
<1> HIDE DEF lockVars
<1> QED
  BY <1>1, <1>2, <1>3

LEMMA TasksKeep ==
  ASSUME NEW t
  PROVE  /\ RunTask(t) => UNCHANGED lockVars
         /\ \A o : WriteWindow(t, o) => UNCHANGED <<jobS, occ>>
         /\ AbortScope(t) \/ FinalizeJob(t) => UNCHANGED jobVars
         /\ DeleteJob(t) => UNCHANGED window
<1> USE DEF jobVars, lockVars, persisted
<1>1. ASSUME NEW o, WriteWindow(t, o) PROVE UNCHANGED <<jobS, occ, lockVars>>
  BY <1>1 DEF WriteWindow
<1>2. AbortScope(t) \/ FinalizeJob(t) => UNCHANGED jobVars
  BY DEF AbortScope, FinalizeJob
<1>3. AbortScope(t) => UNCHANGED lockVars
  BY DEF AbortScope
<1>4. DeleteJob(t) => UNCHANGED <<window, lockVars>>
  BY DEF DeleteJob
<1> HIDE DEF jobVars, lockVars
<1> QED
  BY <1>1, <1>2, <1>3, <1>4 DEF RunTask

LEMMA HolderKeepsJobs ==
  ASSUME MarkItemRunning \/ StartItem \/ AdmitDone \/ SweepFinalize \/ Crash PROVE UNCHANGED jobVars
<1> USE DEF jobVars, persisted
<1>1. CASE MarkItemRunning \/ StartItem
  BY <1>1 DEF MarkItemRunning, StartItem
<1>2. CASE AdmitDone \/ SweepFinalize \/ Crash
  BY <1>2 DEF AdmitDone, SweepFinalize, Crash
<1> QED
  BY <1>1, <1>2

(* The steps that write a status or the evidence of a job. *)
LEMMA OnlyTheseWriteJobs ==
  ASSUME [Next]_vars, ~TickBegin, ~TimerTick, ~MarkJobRunning, ~FinishJob,
         \A j \in Jobs : /\ ~CancelJob(j) /\ \A how \in SubmitKinds : ~CreateJob(j, how)
                         /\ \A sts \in RetrySets : ~Retry(j, sts),
         \A t \in tasks : ~DeleteJob(t)
  PROVE  UNCHANGED <<jobS, occ>>
<1>1. CASE Scheduler \/ Resume \/ Crash
  BY <1>1, HolderKeepsJobs, ResumeKeepsJobs DEF Scheduler, jobVars
<1>2. ASSUME NEW t \in tasks, RunTask(t) \/ FinalizeJob(t) PROVE UNCHANGED <<jobS, occ>>
  BY <1>2, TasksKeep DEF RunTask, jobVars
<1>3. ASSUME NEW r, Run(r) \/ Panic(r) PROVE UNCHANGED <<jobS, occ>>
  BY <1>3, RunsKeepJobs DEF jobVars
<1>4. ASSUME NEW j, DeleteRequest(j) \/ TimePasses(j) \/ (\E k \in {"setAsap", "setLater"} : Reschedule(j, k))
                    \/ \E p \in Prios : Reprioritize(j, p)
      PROVE  UNCHANGED <<jobS, occ>>
  BY <1>4, RequestsKeepJobs
<1>5. ASSUME NEW i, \/ CancelItem(i) \/ ReconcileBegin(i) \/ ReconcileGiveUp(i)
                    \/ \E out \in Outcomes : ReconcileAnswer(i, out) \/ ResumeAnswer(i, out)
      PROVE  UNCHANGED <<jobS, occ>>
  BY <1>5, AnswersKeepJobs DEF jobVars
<1>6. CASE UNCHANGED vars
  BY <1>6 DEF vars, persisted
<1> QED
  BY <1>1, <1>2, <1>3, <1>4, <1>5, <1>6 DEF Next

(* Outside the holder's own steps its locals stay. *)
LEMMA OnlyHolderMoves ==
  ASSUME [Next]_vars, ~TickBegin, ~TimerTick, ~Scheduler, ~Crash, \A t \in tasks : ~FinalizeJob(t)
  PROVE  UNCHANGED lockVars
<1>1. CASE Resume
  BY <1>1, ResumeKeepsJobs
<1>2. ASSUME NEW t \in tasks, RunTask(t) PROVE UNCHANGED lockVars
  BY <1>2, TasksKeep
<1>3. ASSUME NEW r, Run(r) \/ Panic(r) PROVE UNCHANGED lockVars
  BY <1>3, RunsKeepJobs
<1>4. ASSUME NEW j, DeleteRequest(j) \/ TimePasses(j) \/ (\E k \in {"setAsap", "setLater"} : Reschedule(j, k))
                    \/ \E p \in Prios : Reprioritize(j, p)
      PROVE  UNCHANGED lockVars
  BY <1>4, RequestsKeepJobs
<1>5. ASSUME NEW j, CancelJob(j) \/ (\E how \in SubmitKinds : CreateJob(j, how)) \/ \E sts \in RetrySets : Retry(j, sts)
      PROVE  UNCHANGED lockVars
  <2>1. CASE CancelJob(j)
    BY <2>1 DEF CancelJob
  <2>2. ASSUME NEW how, CreateJob(j, how) PROVE UNCHANGED lockVars
    BY <2>2 DEF CreateJob
  <2>3. ASSUME NEW sts, Retry(j, sts) PROVE UNCHANGED lockVars
    BY <2>3 DEF Retry
  <2> QED
    BY <1>5, <2>1, <2>2, <2>3
<1>6. ASSUME NEW i, \/ CancelItem(i) \/ ReconcileBegin(i) \/ ReconcileGiveUp(i)
                    \/ \E out \in Outcomes : ReconcileAnswer(i, out) \/ ResumeAnswer(i, out)
      PROVE  UNCHANGED lockVars
  BY <1>6, AnswersKeepJobs
<1>7. CASE UNCHANGED vars
  BY <1>7 DEF vars, memory, lockVars
<1> QED
  BY <1>1, <1>2, <1>3, <1>4, <1>5, <1>6, <1>7 DEF Next

(* The clock, a tick and the write of a start condition move a window. *)
LEMMA OnlyTheseMoveWindows ==
  ASSUME [Next]_vars, ~TickBegin, ~TimerTick, \A t \in tasks, o \in Overruns : ~WriteWindow(t, o),
         \A m \in Jobs : ~TimePasses(m)
  PROVE  UNCHANGED window
<1>1. CASE Scheduler \/ Resume \/ Crash
  <2>1. CASE MarkJobRunning \/ FinishJob
    BY <2>1 DEF MarkJobRunning, FinishJob
  <2> QED
    BY <1>1, <2>1, HolderKeepsJobs, ResumeKeepsJobs DEF Scheduler, jobVars
<1>2. ASSUME NEW t \in tasks, RunTask(t) \/ FinalizeJob(t) PROVE UNCHANGED window
  BY <1>2, TasksKeep DEF RunTask, jobVars
<1>3. ASSUME NEW r, Run(r) \/ Panic(r) PROVE UNCHANGED window
  BY <1>3, RunsKeepJobs DEF jobVars
<1>4. ASSUME NEW j \in Jobs,
             DeleteRequest(j) \/ (\E k \in {"setAsap", "setLater"} : Reschedule(j, k)) \/ \E p \in Prios : Reprioritize(j, p)
      PROVE  UNCHANGED window
  BY <1>4, RequestsKeepJobs
<1>5. ASSUME NEW j, CancelJob(j) \/ (\E how \in SubmitKinds : CreateJob(j, how)) \/ \E sts \in RetrySets : Retry(j, sts)
      PROVE  UNCHANGED window
  <2>1. CASE CancelJob(j)
    BY <2>1 DEF CancelJob
  <2>2. ASSUME NEW how, CreateJob(j, how) PROVE UNCHANGED window
    BY <2>2 DEF CreateJob
  <2>3. ASSUME NEW sts, Retry(j, sts) PROVE UNCHANGED window
    BY <2>3 DEF Retry
  <2> QED
    BY <1>5, <2>1, <2>2, <2>3
<1>6. ASSUME NEW i, \/ CancelItem(i) \/ ReconcileBegin(i) \/ ReconcileGiveUp(i)
                    \/ \E out \in Outcomes : ReconcileAnswer(i, out) \/ ResumeAnswer(i, out)
      PROVE  UNCHANGED window
  BY <1>6, AnswersKeepJobs DEF jobVars
<1>7. CASE UNCHANGED vars
  BY <1>7 DEF vars, persisted
<1> QED
  BY <1>1, <1>2, <1>3, <1>4, <1>5, <1>6, <1>7 DEF Next

-----------------------------------------------------------------------------
(***************************************************************************)
(* Completion evidence.  CompletionRecorded is inductive: both statements  *)
(* that close a job write the evidence in the same transaction, and the    *)
(* two that erase evidence (retry, delete) also leave the closed statuses. *)
(***************************************************************************)
LEMMA RecordedNext ==
  ASSUME TypeOK, CompletionRecorded, [Next]_vars
  PROVE  CompletionRecorded'
<1> USE DEF jobVars, rowVars, ctxVars, lockVars, persisted, memory
<1>1. CASE UNCHANGED <<jobS, occ>>
  BY <1>1 DEF CompletionRecorded
<1>2. CASE TickBegin \/ TimerTick
  <2>1. jobS' = SweptJobS /\ occ' = occ
    BY <1>2 DEF TickBegin, TimerTick, ReadPlan
  <2> QED
    BY <2>1 DEF CompletionRecorded, SweptJobS
<1>3. CASE MarkJobRunning
  BY <1>3 DEF MarkJobRunning, CompletionRecorded, TypeOK
<1>4. CASE FinishJob
  <2>1. fin.job \in Jobs
    BY <1>4 DEF FinishJob, TypeOK
  <2>2. CASE jobS[fin.job] = "gone"
    BY <1>1, <1>4, <2>2 DEF FinishJob
  <2>3. CASE jobS[fin.job] # "gone"
    <3>1. PICK st \in {"finished", "cancelled"} :
            /\ jobS' = [jobS EXCEPT ![fin.job] = st]
            /\ occ' = [occ EXCEPT ![fin.job] = RecordOccurrence(occ[fin.job], st)]
      BY <1>4, <2>3 DEF FinishJob
    <3> QED
      BY <2>1, <3>1 DEF CompletionRecorded, RecordOccurrence, TypeOK
  <2> QED
    BY <2>2, <2>3
<1>5. ASSUME NEW j \in Jobs, CancelJob(j) PROVE CompletionRecorded'
  BY <1>5 DEF CancelJob, RecordOccurrence, CompletionRecorded, TypeOK
<1>6. ASSUME NEW j \in Jobs, NEW how \in SubmitKinds, CreateJob(j, how) PROVE CompletionRecorded'
  BY <1>6 DEF CreateJob, CompletionRecorded, TypeOK
<1>7. ASSUME NEW j \in Jobs, NEW sts \in RetrySets, Retry(j, sts) PROVE CompletionRecorded'
  BY <1>7 DEF Retry, CompletionRecorded, TypeOK
<1>8. ASSUME NEW t \in tasks, DeleteJob(t) PROVE CompletionRecorded'
  BY <1>8 DEF DeleteJob, CompletionRecorded, TypeOK
<1>9. ASSUME ~TickBegin, ~TimerTick, ~MarkJobRunning, ~FinishJob,
             \A j \in Jobs : ~CancelJob(j) /\ (\A how \in SubmitKinds : ~CreateJob(j, how)) /\ \A sts \in RetrySets : ~Retry(j, sts),
             \A t \in tasks : ~DeleteJob(t)
      PROVE  UNCHANGED <<jobS, occ>>
  BY <1>9, OnlyTheseWriteJobs
<1> QED
  BY <1>1, <1>2, <1>3, <1>4, <1>5, <1>6, <1>7, <1>8, <1>9

(* No job is closed without the evidence its notification is captured      *)
(* from, whichever of cancel, finalize, the backstop or a restart closes   *)
(* it, and after any number of retries.                                    *)
THEOREM CompletionEvidence == Spec => []CompletionRecorded
<1>1. Init => CompletionRecorded
  BY DEF Init, CompletionRecorded
<1>2. TypeOK /\ CompletionRecorded /\ [Next]_vars => CompletionRecorded'
  BY RecordedNext
<1> QED
  BY <1>1, <1>2, TypeCorrect, PTL DEF Spec

-----------------------------------------------------------------------------
(***************************************************************************)
(* The window of a job.  As with the budget, the rows a tick has planned   *)
(* count with those that run: a tick plans the first rows of each job that *)
(* fit, and the first n members of a set are at most n.                    *)
(***************************************************************************)
PlannedOf(j) == plan \cap Rows(j)
WindowOf(j)  == IF Concurrency[j] < 1 THEN 1 ELSE Concurrency[j]
WindowInv    == \A j \in Jobs : Cardinality(RowsIn(j, {"running"})) + Cardinality(PlannedOf(j)) <= WindowOf(j)

(* Elements with fewer than n smaller ones in a finite set are at most n. *)
LEMMA FirstsAreFew ==
  ASSUME NEW Q \in SUBSET Nat, IsFiniteSet(Q), NEW P \in SUBSET Q, NEW n \in Int,
         \A i \in P : Cardinality({k \in Q : k < i}) < n
  PROVE  Cardinality(P) = 0 \/ Cardinality(P) <= n
<1> DEFINE Below(i) == {k \in Q : k < i}
<1>1. \A i \in Q : IsFiniteSet(Below(i)) /\ Cardinality(Below(i)) \in Nat
  <2> TAKE i \in Q
  <2>1. Below(i) \in SUBSET Q
    OBVIOUS
  <2>2. IsFiniteSet(Below(i))
    BY <2>1, FS_Subset
  <2> HIDE DEF Below
  <2> QED
    BY <2>2, FS_CardinalityType
<1>2. ASSUME NEW i \in Q, NEW m \in Q, i < m PROVE Cardinality(Below(i)) < Cardinality(Below(m))
  <2>0. i \in Nat /\ m \in Nat /\ Q \subseteq Nat
    OBVIOUS
  <2>1. Below(i) \cup {i} \in SUBSET Below(m) /\ i \notin Below(i)
    <3>1. \A k \in Q : k < i => k < m
      BY <1>2, <2>0
    <3>2. i \in Below(m) /\ ~(i < i)
      BY <1>2, <2>0
    <3> QED
      BY <3>1, <3>2
  <2> HIDE DEF Below
  <2>2. Cardinality(Below(i) \cup {i}) = Cardinality(Below(i)) + 1
    BY <1>1, <2>1, FS_AddElement
  <2>3. Cardinality(Below(i) \cup {i}) <= Cardinality(Below(m))
    BY <1>1, <2>1, FS_Subset
  <2> QED
    BY <1>1, <2>2, <2>3
<1> DEFINE f == [i \in P |-> Cardinality(Below(i))]
<1>3. CASE P = {}
  <2>1. Cardinality({}) = 0
    BY FS_EmptySet
  <2> QED
    BY <1>3, <2>1
<1>4. CASE P # {}
  <2>1. n > 0
    <3>1. PICK i \in P : TRUE
      BY <1>4
    <3>2. Cardinality(Below(i)) \in Nat /\ Cardinality(Below(i)) < n
      BY <1>1
    <3> HIDE DEF Below
    <3> QED
      BY <3>2
  <2>2. IsFiniteSet(0..(n - 1)) /\ Cardinality(0..(n - 1)) = n
    BY <2>1, FS_Interval
  <2>3. f \in Injection(P, 0..(n - 1))
    <3>1. \A i \in P : Cardinality(Below(i)) \in 0..(n - 1)
      <4> TAKE i \in P
      <4>1. Cardinality(Below(i)) \in Nat /\ Cardinality(Below(i)) < n
        BY <1>1
      <4> HIDE DEF Below
      <4> QED
        BY <4>1
    <3>2. \A i, m \in P : Cardinality(Below(i)) = Cardinality(Below(m)) => i = m
      <4> TAKE i, m \in P
      <4>1. i \in Nat /\ m \in Nat
        OBVIOUS
      <4>2. Cardinality(Below(i)) \in Nat /\ Cardinality(Below(m)) \in Nat
        BY <1>1
      <4>3. i < m => Cardinality(Below(i)) < Cardinality(Below(m))
        BY <1>2
      <4>4. m < i => Cardinality(Below(m)) < Cardinality(Below(i))
        BY <1>2
      <4> HIDE DEF Below
      <4> QED
        BY <4>1, <4>2, <4>3, <4>4
    <3> HIDE DEF Below
    <3> QED
      BY <3>1, <3>2 DEF Injection, IsInjective
  <2> HIDE DEF f
  <2>4. Cardinality(P) <= Cardinality(0..(n - 1))
    BY <2>2, <2>3, FS_Injection
  <2> QED
    BY <2>2, <2>4
<1> QED
  BY <1>3, <1>4

(* The rows of a job are finitely many. *)
LEMMA RowsAreFinite ==
  ASSUME TypeOK, NEW j \in Jobs
  PROVE  /\ Rows(j) \subseteq Nat /\ WindowOf(j) \in Nat \ {0}
         /\ \A S \in SUBSET Rows(j) : IsFiniteSet(S) /\ Cardinality(S) \in Nat
         /\ \A sts : RowsIn(j, sts) \subseteq Rows(j)
         /\ PlannedOf(j) \subseteq Rows(j)
<1>1. Rows(j) \in SUBSET Items
  BY DEF Rows
<1>2. \A S \in SUBSET Rows(j) : IsFiniteSet(S) /\ Cardinality(S) \in Nat
  BY <1>1, QueueAssumption, FS_Subset, FS_CardinalityType
<1>3. Rows(j) \subseteq Nat
  BY <1>1, QueueAssumption
<1>4. WindowOf(j) \in Nat \ {0}
  BY QueueAssumption DEF WindowOf
<1> QED
  BY <1>2, <1>3, <1>4 DEF RowsIn, PlannedOf

(* What a tick plans of a job fits what is left of its window. *)
LEMMA TickWindow ==
  ASSUME TypeOK, WindowInv, ReadPlan
  PROVE  WindowInv'
<1>1. plan' \subseteq Candidates(SweptJobS, SweptWindow) /\ itemS' = itemS
  BY DEF ReadPlan, Admit, Admitted, rowVars
<1> SUFFICES ASSUME NEW j \in Jobs
             PROVE  (Cardinality(RowsIn(j, {"running"})) + Cardinality(PlannedOf(j)) <= WindowOf(j))'
  BY DEF WindowInv
<1> DEFINE Q == RowsIn(j, {"queued"})
           R == RowsIn(j, {"running"})
           P == PlannedOf(j)'
<1>2. /\ Q \in SUBSET Nat /\ IsFiniteSet(Q) /\ Cardinality(R) \in Nat /\ WindowOf(j) \in Nat
  BY RowsAreFinite
<1>3. P \in SUBSET Q
  BY <1>1 DEF PlannedOf, Candidates, RowsIn, Rows
<1>4. \A i \in P : Cardinality({k \in Q : k < i}) < WindowOf(j) - Cardinality(R)
  BY <1>1 DEF PlannedOf, Candidates, Rows, Share, WindowOf
<1>5. WindowOf(j) - Cardinality(R) \in Int
  BY <1>2
<1>6. R' = R /\ WindowOf(j)' = WindowOf(j)
  BY <1>1 DEF RowsIn, WindowOf
<1>7. Cardinality(PlannedOf(j)) \in Nat /\ Cardinality(R) + Cardinality(PlannedOf(j)) <= WindowOf(j)
  BY RowsAreFinite DEF WindowInv
<1>p. Cardinality(P) \in Nat
  BY <1>2, <1>3, FS_Subset, FS_CardinalityType
<1> HIDE DEF Q, R, P
<1>8. Cardinality(P) = 0 \/ Cardinality(P) <= WindowOf(j) - Cardinality(R)
  BY <1>2, <1>3, <1>4, <1>5, FirstsAreFew
<1>9. Cardinality(R) + Cardinality(P) <= WindowOf(j)
  BY <1>2, <1>7, <1>8, <1>p
<1>10. Cardinality(R') + Cardinality(P) <= WindowOf(j)'
  BY <1>6, <1>9
<1> QED
  BY <1>10 DEF R, P

(* Marking a row moves it from the plan of its job to its running rows. *)
LEMMA MarkWindow ==
  ASSUME TypeOK, WindowInv, MarkItemRunning
  PROVE  WindowInv'
<1>1. PICK i \in plan :
        /\ plan' = plan \ {i}
        /\ \/ itemS[i] = "queued" /\ itemS' = [itemS EXCEPT ![i] = "running"]
           \/ itemS' = itemS
  BY DEF MarkItemRunning
<1>2. i \in Items
  BY <1>1 DEF TypeOK
<1> SUFFICES ASSUME NEW j \in Jobs
             PROVE  (Cardinality(RowsIn(j, {"running"})) + Cardinality(PlannedOf(j)) <= WindowOf(j))'
  BY DEF WindowInv
<1> DEFINE R == RowsIn(j, {"running"})
           P == PlannedOf(j)
<1>3. IsFiniteSet(R) /\ IsFiniteSet(P) /\ Cardinality(R) \in Nat /\ Cardinality(P) \in Nat
  BY RowsAreFinite
<1>4. Cardinality(R) + Cardinality(P) <= WindowOf(j) /\ WindowOf(j) \in Nat /\ WindowOf(j)' = WindowOf(j)
  BY RowsAreFinite DEF WindowInv, WindowOf
<1>5. CASE JobOf[i] # j
  <2>1. R' = R /\ P' = P
    BY <1>1, <1>2, <1>5 DEF RowsIn, PlannedOf, Rows, TypeOK
  <2> QED
    BY <1>4, <2>1
<1>6. CASE JobOf[i] = j
  <2>1. P' = P \ {i} /\ i \in P
    BY <1>1, <1>2, <1>6 DEF PlannedOf, Rows
  <2>2. R' = R \/ R' = R \cup {i}
    BY <1>1, <1>2, <1>6 DEF RowsIn, Rows, TypeOK
  <2> HIDE DEF R, P
  <2>3. Cardinality(P \ {i}) = Cardinality(P) - 1
    BY <1>3, <2>1, FS_RemoveElement
  <2>4. Cardinality(R \cup {i}) \in {Cardinality(R), Cardinality(R) + 1}
    BY <1>3, FS_AddElement
  <2>5. Cardinality(R') \in {Cardinality(R), Cardinality(R) + 1}
    BY <2>2, <2>4
  <2>6. Cardinality(P') = Cardinality(P) - 1
    BY <2>1, <2>3
  <2>7. Cardinality(R') + Cardinality(P') <= WindowOf(j)'
    BY <1>3, <1>4, <2>5, <2>6
  <2> QED
    BY <2>7 DEF R, P
<1> QED
  BY <1>5, <1>6

(* No other step adds to either. *)
LEMMA WindowNext ==
  ASSUME TypeOK, TypeOK', WindowInv, [Next]_vars
  PROVE  WindowInv'
<1>1. CASE TickBegin \/ TimerTick
  BY <1>1, TickWindow DEF TickBegin, TimerTick
<1>2. CASE MarkItemRunning
  BY <1>2, MarkWindow
<1>3. CASE ~TickBegin /\ ~TimerTick /\ ~MarkItemRunning
  <2>1. RunningItems' \subseteq RunningItems /\ plan' \subseteq plan
    BY <1>3, OnlyTicksAdd
  <2> SUFFICES ASSUME NEW j \in Jobs
               PROVE  (Cardinality(RowsIn(j, {"running"})) + Cardinality(PlannedOf(j)) <= WindowOf(j))'
    BY DEF WindowInv
  <2> DEFINE R == RowsIn(j, {"running"})
             P == PlannedOf(j)
  <2>2. IsFiniteSet(R) /\ IsFiniteSet(P) /\ Cardinality(R) \in Nat /\ Cardinality(P) \in Nat
    BY RowsAreFinite
  <2>3. Cardinality(R) + Cardinality(P) <= WindowOf(j) /\ WindowOf(j) \in Nat /\ WindowOf(j)' = WindowOf(j)
    BY RowsAreFinite DEF WindowInv, WindowOf
  <2>4. R' \in SUBSET R /\ P' \in SUBSET P
    BY <2>1 DEF RowsIn, Rows, PlannedOf, RunningItems
  <2> HIDE DEF R, P
  <2>5. Cardinality(R') <= Cardinality(R) /\ Cardinality(R') \in Nat
    BY <2>2, <2>4, FS_Subset, FS_CardinalityType
  <2>6. Cardinality(P') <= Cardinality(P) /\ Cardinality(P') \in Nat
    BY <2>2, <2>4, FS_Subset, FS_CardinalityType
  <2>7. Cardinality(R') + Cardinality(P') <= WindowOf(j)'
    BY <2>2, <2>3, <2>5, <2>6
  <2> QED
    BY <2>7 DEF R, P
<1> QED
  BY <1>1, <1>2, <1>3

(* A job never has more rows in flight than its concurrency, whatever is   *)
(* retried, cancelled, reconciled or recovered while a tick is under way.  *)
THEOREM WindowSafe == Spec => []WindowRespected
<1>1. Init => WindowInv
  <2> SUFFICES ASSUME Init, NEW j \in Jobs
               PROVE  Cardinality(RowsIn(j, {"running"})) + Cardinality(PlannedOf(j)) <= WindowOf(j)
    BY DEF WindowInv
  <2>1. RowsIn(j, {"running"}) = {} /\ PlannedOf(j) = {}
    BY DEF Init, RowsIn, Rows, PlannedOf
  <2>2. Cardinality(RowsIn(j, {"running"})) = 0 /\ Cardinality(PlannedOf(j)) = 0
    BY <2>1, FS_EmptySet
  <2>3. WindowOf(j) \in Nat
    BY TypeInit, RowsAreFinite
  <2> QED
    BY <2>2, <2>3
<1>2. TypeOK /\ TypeOK' /\ WindowInv /\ [Next]_vars => WindowInv'
  BY WindowNext
<1>3. TypeOK /\ WindowInv => WindowRespected
  <2> SUFFICES ASSUME TypeOK, WindowInv, NEW j \in Jobs
               PROVE  Cardinality(RowsIn(j, {"running"})) <= WindowOf(j)
    BY DEF WindowRespected, WindowOf
  <2>1. /\ Cardinality(RowsIn(j, {"running"})) \in Nat /\ Cardinality(PlannedOf(j)) \in Nat
        /\ WindowOf(j) \in Nat
    BY RowsAreFinite
  <2>2. Cardinality(RowsIn(j, {"running"})) + Cardinality(PlannedOf(j)) <= WindowOf(j)
    BY DEF WindowInv
  <2> QED
    BY <2>1, <2>2
<1> QED
  BY <1>1, <1>2, <1>3, TypeCorrect, PTL DEF Spec

-----------------------------------------------------------------------------
(***************************************************************************)
(* Closed jobs.  A tick starts what it planned earlier, so what matters is *)
(* which writers may close a job while a plan waits: PlanOpen says none    *)
(* but a cancel, because the others need the lock or take the rows too.    *)
(***************************************************************************)
ClosedJob == {"finished", "expired", "gone"}
PlanOpen ==
  \A i \in plan : itemS[i] # "running" /\ (itemS[i] = "queued" => jobS[JobOf[i]] \notin ClosedJob)

(* Only a tick makes a row run, and only a row it planned. *)
LEMMA OnlyPlannedStart ==
  ASSUME TypeOK, [Next]_vars, NEW i \in Items, Starts(i)
  PROVE  i \in plan /\ jobS' = jobS /\ MarkItemRunning
<1>1. i \in RunningItems' /\ i \notin RunningItems
  BY DEF Starts, RunningItems
<1>2. CASE TickBegin \/ TimerTick
  BY <1>2 DEF TickBegin, TimerTick, ReadPlan, rowVars, Starts
<1>3. CASE MarkItemRunning
  BY <1>3 DEF MarkItemRunning, Starts, TypeOK, jobVars
<1> QED
  BY <1>1, <1>2, <1>3, OnlyTicksAdd

(* Which steps queue a row: the submission, a retry and the start-up. *)
LEMMA OnlyTheseQueue ==
  ASSUME TypeOK, [Next]_vars, NEW i \in Items, itemS'[i] = "queued"
  PROVE  \/ itemS[i] = "queued" \/ (ResumeReset /\ itemS[i] = "running")
         \/ jobS[JobOf[i]] = "absent" /\ jobS'[JobOf[i]] = "queued"
         \/ (\E j \in Jobs, sts \in RetrySets : Retry(j, sts)) /\ jobS'[JobOf[i]] = "queued"
<1> USE DEF jobVars, rowVars, ctxVars, lockVars, bounds, persisted, memory
<1>0. JobOf[i] \in Jobs
  BY QueueAssumption
<1>1. CASE UNCHANGED vars
  BY <1>1 DEF vars
<1>2. CASE TickBegin \/ TimerTick \/ Scheduler
  BY <1>2
     DEF TickBegin, TimerTick, ReadPlan, Scheduler, MarkItemRunning, MarkJobRunning, StartItem,
         AdmitDone, SweepFinalize, FinishJob, TypeOK
<1>3. CASE Resume
  BY <1>3 DEF Resume, ResumeReconcile, ResumeStuck, ResumeReset, ResumeFinalize, NoEvidence
<1>4. CASE Crash
  BY <1>4 DEF Crash
<1>5. ASSUME NEW t \in tasks, RunTask(t) \/ FinalizeJob(t) PROVE itemS[i] = "queued"
  BY <1>5 DEF RunTask, WriteWindow, AbortScope, DeleteJob, FinalizeJob
<1>6. ASSUME NEW r \in Runs, PersistOutcome(r) \/ Panic(r) \/ NoProvider(r) PROVE itemS[i] = "queued"
  <2>1. Recorded(wk[r]) # "queued"
    BY DEF TypeOK, Recorded, RunType, Outcomes
  <2>2. PICK out : itemS' = FinishRow(r[1], out) /\ out # "queued"
    BY <1>6, <2>1 DEF PersistOutcome, Panic, NoProvider
  <2> QED
    BY <2>2 DEF FinishRow, TypeOK
<1>7. ASSUME NEW r \in Runs, Run(r), ~PersistOutcome(r), ~NoProvider(r) PROVE itemS[i] = "queued"
  BY <1>7 DEF Run, Accept, StreamOpen, SaveRef, Return, Cleanup
<1>8. ASSUME NEW j \in Jobs,
             \/ CancelJob(j) \/ DeleteRequest(j) \/ TimePasses(j)
             \/ \E k \in {"setAsap", "setLater"} : Reschedule(j, k)
             \/ \E p \in Prios : Reprioritize(j, p)
      PROVE  itemS[i] = "queued"
  BY <1>8 DEF CancelJob, DeleteRequest, TimePasses, Reschedule, Reprioritize
<1>9. ASSUME NEW j \in Jobs, NEW how \in SubmitKinds, CreateJob(j, how)
      PROVE  itemS[i] = "queued" \/ (jobS[JobOf[i]] = "absent" /\ jobS'[JobOf[i]] = "queued")
  BY <1>0, <1>9 DEF CreateJob, TypeOK
<1>10. ASSUME NEW j \in Jobs, NEW sts \in RetrySets, Retry(j, sts)
       PROVE  itemS[i] = "queued" \/ jobS'[JobOf[i]] = "queued"
  BY <1>0, <1>10 DEF Retry, Requeued, RowsIn, Rows, TypeOK
<1>11. ASSUME NEW k \in Items, CancelItem(k) \/ ReconcileBegin(k) \/ ReconcileGiveUp(k)
       PROVE  itemS[i] = "queued"
  BY <1>11 DEF CancelItem, ReconcileBegin, ReconcileGiveUp, TypeOK
<1>12. ASSUME NEW k \in Items, NEW out \in Outcomes, ReconcileAnswer(k, out) \/ ResumeAnswer(k, out)
       PROVE  itemS[i] = "queued"
  <2>1. out # "queued" /\ itemS' = FinishRow(k, out)
    BY <1>12 DEF Outcomes, ReconcileAnswer, ResumeAnswer
  <2> QED
    BY <2>1 DEF FinishRow, TypeOK
<1> QED
  BY <1>1, <1>2, <1>3, <1>4, <1>5, <1>6, <1>7, <1>8, <1>9, <1>10, <1>11, <1>12 DEF Next

(* Who closes a job: the lock holder, the sweep, and a deletion, which     *)
(* takes the rows as well.  A job that exists stays.                       *)
LEMMA OnlyTheseClose ==
  ASSUME TypeOK, [Next]_vars, NEW j \in Jobs
  PROVE  /\ jobS'[j] = "absent" => jobS[j] = "absent"
         /\ jobS'[j] = "queued" =>
              \/ jobS[j] = "queued" \/ (\E how \in SubmitKinds : CreateJob(j, how))
              \/ \E m \in Jobs, sts \in RetrySets : Retry(m, sts)
         /\ jobS'[j] \in ClosedJob =>
              \/ jobS'[j] = jobS[j]
              \/ jobS'[j] = "finished" /\ FinishJob /\ fin.job = j /\ ~fin.cancelled
              \/ jobS'[j] = "expired" /\ jobS[j] = "queued" /\ (TickBegin \/ TimerTick)
              \/ jobS'[j] = "gone" /\ \A i \in Rows(j) : itemS'[i] = "gone"
<1> DEFINE Goal ==
         /\ jobS'[j] = "absent" => jobS[j] = "absent"
         /\ jobS'[j] = "queued" =>
              \/ jobS[j] = "queued" \/ (\E how \in SubmitKinds : CreateJob(j, how))
              \/ \E m \in Jobs, sts \in RetrySets : Retry(m, sts)
         /\ jobS'[j] \in ClosedJob =>
              \/ jobS'[j] = jobS[j]
              \/ jobS'[j] = "finished" /\ FinishJob /\ fin.job = j /\ ~fin.cancelled
              \/ jobS'[j] = "expired" /\ jobS[j] = "queued" /\ (TickBegin \/ TimerTick)
              \/ jobS'[j] = "gone" /\ \A i \in Rows(j) : itemS'[i] = "gone"
<1>1. CASE UNCHANGED jobS
  BY <1>1
<1>2. CASE TickBegin \/ TimerTick
  <2>1. jobS' = SweptJobS
    BY <1>2 DEF TickBegin, TimerTick, ReadPlan
  <2> QED
    BY <1>2, <2>1 DEF SweptJobS, Overran, ClosedJob
<1>3. CASE MarkJobRunning
  BY <1>3 DEF MarkJobRunning, TypeOK, ClosedJob
<1>4. CASE FinishJob
  <2>1. fin.job \in Jobs
    BY <1>4 DEF FinishJob, TypeOK
  <2>2. CASE jobS[fin.job] = "gone"
    BY <1>1, <1>4, <2>2 DEF FinishJob
  <2>3. CASE jobS[fin.job] # "gone"
    <3>1. jobS' = [jobS EXCEPT ![fin.job] = IF fin.cancelled THEN "cancelled" ELSE "finished"]
      BY <1>4, <2>3 DEF FinishJob
    <3> QED
      BY <1>4, <2>1, <3>1 DEF TypeOK, ClosedJob
  <2> QED
    BY <2>2, <2>3
<1>5. ASSUME NEW m \in Jobs, CancelJob(m) PROVE Goal
  BY <1>5 DEF CancelJob, TypeOK, ClosedJob
<1>6. ASSUME NEW m \in Jobs, NEW how \in SubmitKinds, CreateJob(m, how) PROVE Goal
  <2>1. jobS' = [jobS EXCEPT ![m] = "queued"] /\ jobS[m] = "absent"
    BY <1>6 DEF CreateJob
  <2> QED
    BY <1>6, <2>1 DEF TypeOK, ClosedJob
<1>7. ASSUME NEW m \in Jobs, NEW sts \in RetrySets, Retry(m, sts) PROVE Goal
  <2>1. jobS' = [jobS EXCEPT ![m] = "queued"]
    BY <1>7 DEF Retry
  <2> QED
    BY <1>7, <2>1 DEF TypeOK, ClosedJob
<1>8. ASSUME NEW t \in tasks, DeleteJob(t) PROVE Goal
  BY <1>8 DEF DeleteJob, TypeOK, ClosedJob, Rows
<1>9. ASSUME ~TickBegin, ~TimerTick, ~MarkJobRunning, ~FinishJob,
             \A m \in Jobs : ~CancelJob(m) /\ (\A how \in SubmitKinds : ~CreateJob(m, how)) /\ \A sts \in RetrySets : ~Retry(m, sts),
             \A t \in tasks : ~DeleteJob(t)
      PROVE  UNCHANGED jobS
  BY <1>9, OnlyTheseWriteJobs
<1> QED
  BY <1>1, <1>2, <1>3, <1>4, <1>5, <1>6, <1>7, <1>8, <1>9

(* While a plan waits, no job of a planned row is closed. *)
LEMMA PlanOpenNext ==
  ASSUME TypeOK, PlanOpen, [Next]_vars PROVE PlanOpen'
<1> SUFFICES ASSUME NEW i \in plan'
             PROVE  itemS'[i] # "running" /\ (itemS'[i] = "queued" => jobS'[JobOf[i]] \notin ClosedJob)
  BY DEF PlanOpen
<1>1. CASE TickBegin \/ TimerTick
  <2>1. plan' \subseteq Candidates(SweptJobS, SweptWindow) /\ itemS' = itemS /\ jobS' = SweptJobS
    BY <1>1 DEF TickBegin, TimerTick, ReadPlan, Admit, Admitted, rowVars
  <2>2. itemS[i] = "queued" /\ SweptJobS[JobOf[i]] \in {"queued", "running"}
    BY <2>1 DEF Candidates, Schedulable
  <2> QED
    BY <2>1, <2>2 DEF ClosedJob
<1>2. CASE MarkItemRunning
  <2>1. PICK k \in plan : plan' = plan \ {k} /\ (itemS' = itemS \/ itemS' = [itemS EXCEPT ![k] = "running"])
    BY <1>2 DEF MarkItemRunning
  <2>2. jobS' = jobS
    BY <1>2 DEF MarkItemRunning, jobVars
  <2> QED
    BY <2>1, <2>2 DEF PlanOpen, TypeOK
<1>3. CASE ~TickBegin /\ ~TimerTick /\ ~MarkItemRunning
  <2>0. RunningItems' \subseteq RunningItems /\ i \in plan /\ i \in Items /\ JobOf[i] \in Jobs
    BY <1>3, OnlyTicksAdd, QueueAssumption DEF TypeOK
  <2>1. itemS[i] # "running" /\ itemS'[i] # "running"
    BY <2>0 DEF PlanOpen, RunningItems
  <2> SUFFICES ASSUME itemS'[i] = "queued", jobS'[JobOf[i]] \in ClosedJob PROVE FALSE
    BY <2>1
  <2>2. itemS[i] = "queued"
    BY <2>0, <2>1, OnlyTheseQueue DEF ClosedJob
  <2>3. jobS[JobOf[i]] \notin ClosedJob /\ muPc # "finish"
    BY <2>0, <2>2 DEF PlanOpen, TypeOK
  <2>4. FinishJob \/ \A k \in Rows(JobOf[i]) : itemS'[k] = "gone"
    BY <1>3, <2>0, <2>3, OnlyTheseClose
  <2> QED
    BY <2>0, <2>3, <2>4 DEF FinishJob, Rows
<1> QED
  BY <1>1, <1>2, <1>3

(* A row is never started for a job that has finished, expired or is       *)
(* deleted, although a plan may be older than the row's last change.       *)
THEOREM NoStartAfterClose == Spec => ClosedJobsNeverStart
<1> DEFINE Fine == \A i \in Items : Starts(i) => jobS[JobOf[i]] \notin {"finished", "expired", "gone"}
<1>1. Init => PlanOpen
  BY DEF Init, PlanOpen
<1>2. TypeOK /\ PlanOpen /\ [Next]_vars => PlanOpen'
  BY PlanOpenNext
<1>3. TypeOK /\ PlanOpen /\ [Next]_vars => Fine
  <2> SUFFICES ASSUME TypeOK, PlanOpen, [Next]_vars, NEW i \in Items, Starts(i)
               PROVE  jobS[JobOf[i]] \notin {"finished", "expired", "gone"}
    OBVIOUS
  <2>1. i \in plan /\ itemS[i] = "queued"
    BY OnlyPlannedStart DEF Starts
  <2> QED
    BY <2>1 DEF PlanOpen, ClosedJob
<1>4. Spec => [][Fine]_vars
  <2> HIDE DEF Fine
  <2> QED
    BY <1>1, <1>2, <1>3, TypeCorrect, PTL DEF Spec
<1> QED
  BY <1>4 DEF ClosedJobsNeverStart, Fine

(* No retry is ever asked for. *)
NoRetries == \A m \in OpMixes : "retry" \notin m

Drained(j) == RowsIn(j, {"queued", "running"}) = {}
(* The holder of the lock closes what it has found drained. *)
DrainInv ==
  /\ FinishedIsDrained
  /\ muPc = "finish" => jobS[fin.job] # "absent" /\ (~fin.cancelled => Drained(fin.job))

(* Without retries a drained job stays so. *)
LEMMA DrainedStays ==
  ASSUME NoRetries, TypeOK, [Next]_vars, NEW j \in Jobs, jobS[j] # "absent", Drained(j)
  PROVE  Drained(j)'
<1> SUFFICES ASSUME NEW i \in Rows(j), itemS'[i] \in {"queued", "running"} PROVE FALSE
  BY DEF Drained, RowsIn, Rows
<1>1. i \in Items /\ JobOf[i] = j /\ itemS[i] \notin {"queued", "running"}
  BY DEF Drained, RowsIn, Rows
<1>2. \A m \in Jobs, sts \in RetrySets : ~Retry(m, sts)
  BY DEF Retry, NoRetries, TypeOK
<1>3. itemS'[i] = "running"
  BY <1>1, <1>2, OnlyTheseQueue
<1>4. i \in RunningItems' /\ i \notin RunningItems
  BY <1>1, <1>3 DEF RunningItems
<1>5. CASE TickBegin \/ TimerTick
  BY <1>1, <1>3, <1>5 DEF TickBegin, TimerTick, ReadPlan, rowVars
<1>6. CASE MarkItemRunning
  BY <1>1, <1>3, <1>6 DEF MarkItemRunning, TypeOK
<1> QED
  BY <1>4, <1>5, <1>6, OnlyTicksAdd

(* Only a finalize decides to close a job. *)
LEMMA OnlyFinalizeDecides ==
  ASSUME TypeOK, [Next]_vars, muPc' = "finish"
  PROVE  \/ muPc = "finish" /\ fin' = fin
         \/ /\ UNCHANGED <<jobS, itemS>>
            /\ Closable(fin'.job) /\ fin'.cancelled = (jobS[fin'.job] = "cancelling")
<1> USE DEF jobVars, rowVars, ctxVars, lockVars, bounds, persisted, memory
<1> DEFINE Goal ==
         \/ muPc = "finish" /\ fin' = fin
         \/ /\ UNCHANGED <<jobS, itemS>>
            /\ Closable(fin'.job) /\ fin'.cancelled = (jobS[fin'.job] = "cancelling")
<1>1. CASE UNCHANGED <<muPc, fin>>
  BY <1>1
<1>2. CASE TickBegin \/ TimerTick
  BY <1>2 DEF TickBegin, TimerTick, ReadPlan
<1>3. CASE MarkItemRunning \/ MarkJobRunning \/ StartItem \/ AdmitDone
  BY <1>3 DEF MarkItemRunning, MarkJobRunning, StartItem, AdmitDone
<1>4. ASSUME NEW j, NEW back \in {"free", "sweep"}, FinalizeRead(j, back), UNCHANGED <<jobS, itemS>>
      PROVE  Goal
  <2>1. Closable(j) /\ fin' = [job |-> j, cancelled |-> jobS[j] = "cancelling", back |-> back]
    BY <1>4 DEF FinalizeRead
  <2>2. fin'.job = j /\ fin'.cancelled = (jobS[j] = "cancelling")
    BY <2>1
  <2> QED
    BY <1>4, <2>1, <2>2
<1>5. CASE SweepFinalize
  <2>1. PICK j \in todo : FinalizeRead(j, IF todo = {j} THEN "free" ELSE "sweep")
    BY <1>5 DEF SweepFinalize
  <2> QED
    BY <1>4, <1>5, <2>1 DEF SweepFinalize
<1>6. ASSUME NEW t \in tasks, FinalizeJob(t) PROVE Goal
  BY <1>4, <1>6 DEF FinalizeJob
<1>7. CASE FinishJob
  BY <1>7 DEF FinishJob, TypeOK, FinType
<1>8. CASE Crash
  BY <1>8 DEF Crash
<1>9. ASSUME ~TickBegin, ~TimerTick, ~Scheduler, ~Crash, \A t \in tasks : ~FinalizeJob(t)
      PROVE  UNCHANGED <<muPc, fin>>
  BY <1>9, OnlyHolderMoves DEF lockVars
<1> QED
  BY <1>1, <1>2, <1>3, <1>5, <1>6, <1>7, <1>8, <1>9 DEF Scheduler

(* A finished job has nothing left to run: between the count finalizeJob   *)
(* reads and the status it writes, nothing but a retry may queue a row.    *)
THEOREM FinishedHasNothingLeft == ASSUME NoRetries PROVE Spec => []FinishedIsDrained
<1>1. Init => DrainInv
  BY DEF Init, DrainInv, FinishedIsDrained
<1>2. TypeOK /\ TypeOK' /\ DrainInv /\ [Next]_vars => DrainInv'
  <2> SUFFICES ASSUME TypeOK, TypeOK', DrainInv, [Next]_vars PROVE DrainInv'
    OBVIOUS
  <2>1. ASSUME NEW j \in Jobs, jobS'[j] = "finished" PROVE Drained(j)'
    <3>1. jobS[j] # "absent" /\ Drained(j) => Drained(j)'
      BY DrainedStays
    <3>2. CASE jobS[j] = "finished"
      BY <3>1, <3>2 DEF DrainInv, FinishedIsDrained, Drained
    <3>3. CASE FinishJob /\ fin.job = j /\ ~fin.cancelled
      BY <3>1, <3>3 DEF DrainInv, FinishJob
    <3>4. CASE \A i \in Rows(j) : itemS'[i] = "gone"
      BY <3>4 DEF Drained, RowsIn, Rows
    <3> QED
      BY <2>1, <3>2, <3>3, <3>4, OnlyTheseClose DEF ClosedJob
  <2>2. ASSUME muPc' = "finish" PROVE (jobS[fin.job] # "absent" /\ (~fin.cancelled => Drained(fin.job)))'
    <3>0. fin'.job \in Jobs
      BY <2>2 DEF TypeOK
    <3> PICK f \in Jobs : fin'.job = f
      BY <3>0
    <3>1. CASE muPc = "finish" /\ fin' = fin
      <4>1. jobS[f] # "absent" /\ (~fin.cancelled => Drained(f))
        BY <3>1 DEF DrainInv
      <4>2. jobS'[f] # "absent" /\ (~fin.cancelled => Drained(f)')
        BY <4>1, DrainedStays, OnlyTheseClose
      <4> QED
        BY <3>1, <4>2 DEF Drained, RowsIn, Rows
    <3>2. CASE /\ UNCHANGED <<jobS, itemS>>
               /\ Closable(f) /\ fin'.cancelled = (jobS[f] = "cancelling")
      BY <3>2 DEF Closable, Drained, RowsIn, Rows
    <3> QED
      BY <2>2, <3>1, <3>2, OnlyFinalizeDecides
  <2> QED
    BY <2>1, <2>2 DEF DrainInv, FinishedIsDrained, Drained
<1>3. DrainInv => FinishedIsDrained
  BY DEF DrainInv
<1> QED
  BY <1>1, <1>2, <1>3, TypeCorrect, PTL DEF Spec

-----------------------------------------------------------------------------
(***************************************************************************)
(* One run per row.  Nothing the row says is inductive by itself: whether  *)
(* a queued row may be started depends on the goroutines that may still    *)
(* hold it and on the answers about it that are still under way.           *)
(***************************************************************************)

(* The start-up ends before an answer of its polls is used, and a mix that *)
(* retries rows does not reconcile them by hand; the other combinations    *)
(* make the code run a row twice (section 5 of the README).                *)
RequestsApart == \A m \in OpMixes : "fastReconcile" \notin m /\ ("retry" \in m => "reconcile" \notin m)

(* The statements of the start-up are not over. *)
Early == boot \in {"reconcile", "stuck", "reset"}
StartUpAlone ==
  Early => /\ tasks = {} /\ muPc = "free"
           /\ \A i \in Items : ~rc[i] /\ \A s \in Slots : wk[<<i, s>>].pc = "idle"

(* The requests of a mix leave their traces only in that mix. *)
MixKept ==
  /\ recalled # {} => "retry" \in ops
  /\ \A i \in Items : rc[i] => "reconcile" \in ops

Pc(i, s) == wk[<<i, s>>].pc
LivePcs == {"go", "acc", "open", "ret"}
Idle(i) == \A s \in Slots : Pc(i, s) \notin LivePcs
(* Dify is being asked what became of the row. *)
Asked(i) == rs[i].pc = "poll" \/ rc[i]
Waiting(i) == itemS[i] \in {"queued", "absent"} \/ cur = i

(* A row that waits was not sent since it was queued, and nobody holds it. *)
FreshRow(i) ==
  /\ Waiting(i) => posts[i] = 0 /\ ref[i] = "none" /\ Idle(i) /\ ~Asked(i)
  /\ cur = i => itemS[i] \in {"running", "gone"}
  /\ jobS[JobOf[i]] = "absent" => itemS[i] = "absent"

(* A row in flight has one run, and that sends it once. *)
OneRun(i) ==
  /\ posts[i] \in {0, 1}
  /\ \A s \in Slots : Pc(i, s) = "go" => posts[i] = 0
  /\ \A s \in Slots : Pc(i, s) \in LivePcs =>
       itemS[i] \in {"running", "gone"} /\ \A t \in Slots : Pc(i, t) \in LivePcs => t = s

(* What is asked about has been sent and has no run here. *)
Answers(i) ==
  /\ Asked(i) => ref[i] = "run" /\ Idle(i)
  /\ rc[i] => "reconcile" \in ops
  /\ rs[i].pc = "poll" /\ "retry" \in ops => itemS[i] \in {"running", "gone"}

(* The start-up finds every running row without a run, and sorts them. *)
Sorted(i) ==
  /\ Early => (\A s \in Slots : Pc(i, s) = "idle") /\ ~rc[i] /\ (NoEvidence(i) => posts[i] = 0)
  /\ boot = "stuck" /\ Reconcilable(i) => rs[i].pc = "poll"
  /\ boot = "reset" /\ itemS[i] = "running" => rs[i].pc = "poll" \/ NoEvidence(i)
  /\ boot \in {"tick", "up"} /\ itemS[i] = "running" => cur = i \/ rs[i].pc = "poll" \/ ~Idle(i)

(* Without retries a row has one goroutine in the life of the process. *)
OneGoroutine(i) ==
  "retry" \notin ops =>
    \A s \in Slots : Pc(i, s) # "idle" =>
      /\ ~Waiting(i)
      /\ \A t \in Slots : Pc(i, t) # "idle" => t = s
      /\ Pc(i, s) \in LivePcs => itemCancels[i] = s

RowInv(i) == FreshRow(i) /\ OneRun(i) /\ Answers(i) /\ Sorted(i) /\ OneGoroutine(i)
RowsInv == \A i \in Items \ recalled : RowInv(i)

(* A step that concerns other rows. *)
SameRow(i) ==
  /\ itemS'[i] = itemS[i] /\ ref'[i] = ref[i] /\ started'[i] = started[i] /\ posts'[i] = posts[i]
  /\ \A s \in Slots : Pc(i, s)' = Pc(i, s)
  /\ rs'[i].pc = rs[i].pc /\ (rc'[i] => rc[i]) /\ (cur' = i <=> cur = i)
  /\ itemCancels'[i] = itemCancels[i]
  /\ boot' = boot /\ ops' = ops /\ (jobS'[JobOf[i]] = "absent" => jobS[JobOf[i]] = "absent")

(* It leaves the row as it was. *)
LEMMA SameRowKept ==
  ASSUME NEW i \in Items, RowInv(i), SameRow(i) PROVE RowInv(i)'
<1>1. /\ Idle(i)' <=> Idle(i)
      /\ Asked(i)' => Asked(i)
      /\ Waiting(i)' <=> Waiting(i)
      /\ Early' <=> Early
      /\ NoEvidence(i)' <=> NoEvidence(i)
      /\ Reconcilable(i)' <=> Reconcilable(i)
  BY DEF SameRow, Idle, Asked, Waiting, Early, NoEvidence, Reconcilable
<1>2. FreshRow(i)'
  BY <1>1 DEF RowInv, FreshRow, SameRow
<1>3. OneRun(i)'
  BY DEF RowInv, OneRun, SameRow
<1>4. Answers(i)'
  BY <1>1 DEF RowInv, Answers, SameRow, Asked
<1>5. Sorted(i)'
  BY <1>1 DEF RowInv, Sorted, SameRow
<1>6. OneGoroutine(i)'
  BY <1>1 DEF RowInv, OneGoroutine, SameRow
<1> QED
  BY <1>2, <1>3, <1>4, <1>5, <1>6 DEF RowInv

(* Nothing but locks, windows, priorities and the status of jobs changes. *)
LEMMA QuietRows ==
  ASSUME TypeOK, UNCHANGED <<itemS, ref, started, posts, cur, itemCancels, boot, ops>>,
         wk' = wk \/ \E j \in Jobs : wk' = KillRuns(j),
         rs' = rs \/ \E j \in Jobs : rs' = KillRes(j),
         \A i \in Items : rc'[i] => rc[i],
         \A j \in Jobs : jobS'[j] = "absent" => jobS[j] = "absent"
  PROVE  \A i \in Items : SameRow(i)
<1>1. \A i \in Items, s \in Slots : Pc(i, s)' = Pc(i, s)
  <2> SUFFICES ASSUME NEW i \in Items, NEW s \in Slots PROVE wk'[<<i, s>>].pc = wk[<<i, s>>].pc
    BY DEF Pc
  <2>1. <<i, s>> \in Runs /\ wk[<<i, s>>] \in RunType
    BY DEF Runs, TypeOK
  <2> QED
    BY <2>1 DEF KillRuns, RunType
<1>2. \A i \in Items : rs'[i].pc = rs[i].pc
  BY DEF KillRes, TypeOK, ResType
<1>3. \A i \in Items : JobOf[i] \in Jobs
  BY QueueAssumption
<1> QED
  BY <1>1, <1>2, <1>3 DEF SameRow

-----------------------------------------------------------------------------
(* The scheduler. *)

(* A row that is marked waits for its goroutine. *)
LEMMA MarkRows ==
  ASSUME TypeOK, RowsInv, recalled \subseteq recalled', StartUpAlone, MarkItemRunning PROVE RowsInv'
<1>1. PICK k \in plan :
        \/ itemS[k] = "queued" /\ itemS' = [itemS EXCEPT ![k] = "running"] /\ cur' = k
        \/ UNCHANGED <<itemS, cur>>
  BY DEF MarkItemRunning
<1>2. /\ UNCHANGED <<jobS, ref, started, posts, wk, rs, rc, itemCancels, boot, ops>> /\ ~Early /\ cur = None
      /\ k \in Items /\ None \notin Items
  BY QueueAssumption
     DEF MarkItemRunning, StartUpAlone, TypeOK, jobVars, ctxVars, bounds, None
<1> SUFFICES ASSUME NEW i \in Items, RowInv(i) PROVE RowInv(i)'
  BY DEF RowsInv
<1>3. CASE UNCHANGED <<itemS, cur>> \/ i # k
  <2>1. SameRow(i)
    BY <1>1, <1>2, <1>3 DEF SameRow, Pc, TypeOK
  <2> QED
    BY <2>1, SameRowKept DEF RowsInv
<1>4. CASE itemS[k] = "queued" /\ itemS' = [itemS EXCEPT ![k] = "running"] /\ cur' = k /\ i = k
  <2>1. posts[i] = 0 /\ ref[i] = "none" /\ Idle(i) /\ ~Asked(i) /\ itemS'[i] = "running" /\ cur' = i
    BY <1>4 DEF RowsInv, RowInv, FreshRow, Waiting, TypeOK
  <2>2. \A s \in Slots : Pc(i, s)' = Pc(i, s)
    BY <1>2 DEF Pc
  <2>3. Idle(i)' /\ ~Asked(i)' /\ ~Early'
    BY <1>2, <2>1, <2>2 DEF Idle, Asked, Early
  <2>4. FreshRow(i)'
    BY <1>2, <1>4, <2>1, <2>3 DEF RowsInv, RowInv, FreshRow, Waiting
  <2>5. OneRun(i)' /\ Answers(i)' /\ Sorted(i)'
    BY <1>2, <2>1, <2>2, <2>3 DEF OneRun, Answers, Sorted, Early, Idle, Asked, LivePcs
  <2>6. OneGoroutine(i)'
    BY <1>2, <1>4, <2>1, <2>2 DEF RowsInv, RowInv, OneGoroutine, Waiting
  <2> QED
    BY <2>4, <2>5, <2>6 DEF RowInv
<1> QED
  BY <1>1, <1>3, <1>4

(* The goroutine that starts is the only one of its row. *)
LEMMA StartRows ==
  ASSUME TypeOK, RowsInv, recalled \subseteq recalled', StartUpAlone, StartItem PROVE RowsInv'
<1>1. PICK s \in Slots :
        /\ wk[<<cur, s>>].pc = "idle"
        /\ itemCancels' = StoreCancel(cur, s)
        /\ wk' = [wk EXCEPT ![<<cur, s>>] =
             [IdleRun EXCEPT !.pc = "go", !.dead = scope[JobOf[cur]] = "dead"]]
  BY DEF StartItem
<1>2. /\ UNCHANGED <<jobS, itemS, ref, started, posts, rs, rc, boot, ops>> /\ ~Early /\ cur' = None
      /\ cur \in Items /\ None \notin Items
  <2>1. muPc = "start" /\ UNCHANGED <<jobS, itemS, ref, started, posts, rs, rc, boot, ops>> /\ cur' = None
    BY DEF StartItem, persisted, bounds
  <2>2. cur \in Items \cup {None} /\ cur # None
    BY <2>1 DEF TypeOK
  <2>3. ~Early
    BY <2>1 DEF StartUpAlone
  <2>4. None \notin Items
    BY QueueAssumption DEF None
  <2> QED
    BY <2>1, <2>2, <2>3, <2>4
<1> PICK c \in Items : cur = c
  BY <1>2
<1>3. /\ Pc(c, s)' = "go"
      /\ \A i \in Items, t \in Slots : i # c \/ t # s => Pc(i, t)' = Pc(i, t)
  <2>1. <<c, s>> \in Runs /\ wk \in [Runs -> RunType]
    BY <1>2 DEF Runs, TypeOK
  <2>2. \A i \in Items, t \in Slots : <<i, t>> \in Runs /\ (i # c \/ t # s => <<i, t>> # <<c, s>>)
    BY DEF Runs
  <2>3. [IdleRun EXCEPT !.pc = "go", !.dead = scope[JobOf[cur]] = "dead"].pc = "go"
    BY DEF IdleRun
  <2> QED
    BY <1>1, <2>1, <2>2, <2>3 DEF Pc
<1>4. itemCancels'[c] = s /\ \A i \in Items : i # c => itemCancels'[i] = itemCancels[i]
  BY <1>1, <1>2 DEF StoreCancel, TypeOK
<1> SUFFICES ASSUME NEW i \in Items, RowInv(i) PROVE RowInv(i)'
  BY DEF RowsInv
<1>5. CASE i # c
  <2>1. SameRow(i)
    BY <1>2, <1>3, <1>4, <1>5 DEF SameRow
  <2> QED
    BY <2>1, SameRowKept DEF RowsInv
<1>6. CASE i = c
  <2>1. posts[i] = 0 /\ Idle(i) /\ ~Asked(i) /\ itemS[i] \in {"running", "gone"}
        /\ jobS[JobOf[i]] # "absent" /\ (Waiting(i))
    BY <1>6 DEF RowsInv, RowInv, FreshRow, Waiting
  <2>2. ~Asked(i)' /\ ~Early' /\ ~Waiting(i)'
    BY <1>2, <2>1 DEF Asked, Early, Waiting
  <2>3. \A t \in Slots : Pc(i, t)' \in LivePcs => t = s
    BY <1>3, <1>6, <2>1 DEF Idle
  <2>4. FreshRow(i)' /\ Answers(i)'
    BY <1>2, <2>1, <2>2 DEF FreshRow, Answers, Asked
  <2>5. OneRun(i)'
    BY <1>2, <2>1, <2>3 DEF OneRun
  <2>6. ~Idle(i)'
    BY <1>3, <1>6 DEF Idle, LivePcs
  <2>7. Sorted(i)'
    BY <2>2, <2>6 DEF Sorted, Early
  <2>8. OneGoroutine(i)'
    <3> SUFFICES ASSUME "retry" \notin ops PROVE \A t \in Slots : Pc(i, t) = "idle"
      BY <1>2, <1>3, <1>4, <1>6, <2>2 DEF OneGoroutine, LivePcs
    <3> QED
      BY <2>1 DEF RowsInv, RowInv, OneGoroutine
  <2> QED
    BY <2>4, <2>5, <2>7, <2>8 DEF RowInv
<1> QED
  BY <1>5, <1>6

-----------------------------------------------------------------------------
(* The goroutines. *)

(* One goroutine moves. *)
LEMMA PcMoves ==
  ASSUME TypeOK, NEW i \in Items, NEW s \in Slots, NEW w, wk' = [wk EXCEPT ![<<i, s>>] = w]
  PROVE  /\ Pc(i, s)' = w.pc
         /\ \A k \in Items, t \in Slots : k # i \/ t # s => Pc(k, t)' = Pc(k, t)
<1>1. <<i, s>> \in Runs /\ wk \in [Runs -> RunType]
  BY DEF Runs, TypeOK
<1>2. \A k \in Items, t \in Slots : <<k, t>> \in Runs /\ (k # i \/ t # s => <<k, t>> # <<i, s>>)
  BY DEF Runs
<1> QED
  BY <1>1, <1>2 DEF Pc

(* A step of a run changes its own row. *)
OwnRow(i, s) ==
  /\ \A k \in Items, t \in Slots : k # i \/ t # s => Pc(k, t)' = Pc(k, t)
  /\ \A k \in Items \ {i} : /\ itemS'[k] = itemS[k] /\ ref'[k] = ref[k] /\ started'[k] = started[k]
                            /\ posts'[k] = posts[k] /\ itemCancels'[k] = itemCancels[k]
  /\ UNCHANGED <<jobS, rs, rc, cur, boot, ops>>

(* Where a run may go, and what that makes of its row. *)
Steps(i, s) ==
  \/ /\ Pc(i, s) = "go" /\ Pc(i, s)' = "acc" /\ itemS' = itemS /\ posts'[i] = posts[i] + 1
     /\ itemCancels' = itemCancels
  \/ /\ Pc(i, s) \in LivePcs /\ Pc(i, s)' \in {"open", "ret"} /\ UNCHANGED <<itemS, posts, itemCancels>>
  \/ /\ Pc(i, s) \in LivePcs /\ Pc(i, s)' = "clean" /\ UNCHANGED <<posts, itemCancels>>
     /\ itemS'[i] \notin {"queued", "absent", "running"}
  \/ /\ Pc(i, s) = "clean" /\ Pc(i, s)' = "idle" /\ UNCHANGED <<itemS, ref, started, posts>>

(* The steps of a goroutine are of these kinds. *)
LEMMA RunSteps ==
  ASSUME TypeOK, NEW i \in Items, NEW s \in Slots, Run(<<i, s>>) \/ Panic(<<i, s>>)
  PROVE  OwnRow(i, s) /\ Steps(i, s)
<1> DEFINE r == <<i, s>>
<1>0. r \in Runs /\ wk[r] \in RunType /\ wk \in [Runs -> RunType] /\ r[1] = i
  BY DEF Runs, TypeOK
<1>p. \A x : [wk[r] EXCEPT !.pc = x].pc = x
  BY <1>0 DEF RunType
<1> USE DEF jobVars, rowVars, ctxVars, lockVars, bounds, persisted
<1>1. CASE Accept(r)
  <2>1. wk' = [wk EXCEPT ![r] = [wk[r] EXCEPT !.pc = "acc"]] /\ Pc(i, s) = "go"
    BY <1>1 DEF Accept, Pc
  <2>2. /\ Pc(i, s)' = "acc"
        /\ \A k \in Items, t \in Slots : k # i \/ t # s => Pc(k, t)' = Pc(k, t)
    BY <1>p, <2>1, PcMoves
  <2>3. posts'[i] = posts[i] + 1 /\ \A k \in Items \ {i} : posts'[k] = posts[k]
    BY <1>0, <1>1 DEF Accept, TypeOK
  <2> QED
    BY <1>1, <2>1, <2>2, <2>3 DEF Accept, OwnRow, Steps
<1>2. CASE StreamOpen(r)
  <2>1. wk' = [wk EXCEPT ![r] = [wk[r] EXCEPT !.pc = "open"]] /\ Pc(i, s) \in LivePcs
    BY <1>2 DEF StreamOpen, Pc, LivePcs
  <2>2. /\ Pc(i, s)' = "open"
        /\ \A k \in Items, t \in Slots : k # i \/ t # s => Pc(k, t)' = Pc(k, t)
    BY <1>p, <2>1, PcMoves
  <2>3. \A k \in Items \ {i} : started'[k] = started[k]
    BY <1>0, <1>2 DEF StreamOpen, TypeOK
  <2> QED
    BY <1>2, <2>1, <2>2, <2>3 DEF StreamOpen, OwnRow, Steps
<1>3. CASE \E g \in {"task", "run"} : SaveRef(r, g)
  <2> PICK g \in {"task", "run"} : SaveRef(r, g)
    BY <1>3
  <2>1. wk' = [wk EXCEPT ![r] = [wk[r] EXCEPT !.got = g]] /\ Pc(i, s) = "open"
    BY DEF SaveRef, Pc
  <2>2. /\ Pc(i, s)' = "open"
        /\ \A k \in Items, t \in Slots : k # i \/ t # s => Pc(k, t)' = Pc(k, t)
    <3>1. [wk[r] EXCEPT !.got = g].pc = "open"
      BY <1>0, <2>1 DEF Pc, RunType
    <3> QED
      BY <2>1, <3>1, PcMoves
  <2>3. \A k \in Items \ {i} : ref'[k] = ref[k]
    BY <1>0 DEF SaveRef, TypeOK
  <2> QED
    BY <2>1, <2>2, <2>3 DEF SaveRef, OwnRow, Steps, LivePcs
<1>4. CASE \E out \in Outcomes : Return(r, out)
  <2> PICK out \in Outcomes : Return(r, out)
    BY <1>4
  <2>1. wk' = [wk EXCEPT ![r] = [wk[r] EXCEPT !.pc = "ret", !.out = out]] /\ Pc(i, s) \in LivePcs
    BY DEF Return, Pc, LivePcs
  <2>2. /\ Pc(i, s)' = "ret"
        /\ \A k \in Items, t \in Slots : k # i \/ t # s => Pc(k, t)' = Pc(k, t)
    <3>1. [wk[r] EXCEPT !.pc = "ret", !.out = out].pc = "ret"
      BY <1>0 DEF RunType
    <3> QED
      BY <2>1, <3>1, PcMoves
  <2> QED
    BY <2>1, <2>2 DEF Return, OwnRow, Steps
<1>5. CASE PersistOutcome(r) \/ Panic(r) \/ NoProvider(r)
  <2>1. wk' = [wk EXCEPT ![r] = [wk[r] EXCEPT !.pc = "clean"]] /\ Pc(i, s) \in LivePcs
    BY <1>5 DEF PersistOutcome, Panic, NoProvider, Pc, LivePcs
  <2>2. /\ Pc(i, s)' = "clean"
        /\ \A k \in Items, t \in Slots : k # i \/ t # s => Pc(k, t)' = Pc(k, t)
    BY <1>p, <2>1, PcMoves
  <2>3. PICK out \in Outcomes \cup {"cancelled"} : itemS' = FinishRow(i, out)
    <3>1. Recorded(wk[r]) \in Outcomes \cup {"cancelled"}
      BY <1>0 DEF Recorded, RunType
    <3>2. CASE PersistOutcome(r)
      BY <1>0, <3>1, <3>2 DEF PersistOutcome
    <3>3. CASE Panic(r) \/ NoProvider(r)
      BY <1>0, <3>3 DEF Panic, NoProvider, Outcomes
    <3> QED
      BY <1>5, <3>2, <3>3
  <2>4. itemS'[i] \in {"gone", out} /\ \A k \in Items \ {i} : itemS'[k] = itemS[k]
    BY <2>3 DEF FinishRow, TypeOK
  <2>5. itemS'[i] \notin {"queued", "absent", "running"}
    BY <2>3, <2>4 DEF Outcomes
  <2> QED
    BY <1>5, <2>1, <2>2, <2>4, <2>5 DEF PersistOutcome, Panic, NoProvider, OwnRow, Steps
<1>6. CASE Cleanup(r)
  <2>1. wk' = [wk EXCEPT ![r] = IdleRun] /\ Pc(i, s) = "clean"
    BY <1>6 DEF Cleanup, Pc
  <2>2. /\ Pc(i, s)' = "idle"
        /\ \A k \in Items, t \in Slots : k # i \/ t # s => Pc(k, t)' = Pc(k, t)
    <3>1. IdleRun.pc = "idle"
      BY DEF IdleRun
    <3> QED
      BY <2>1, <3>1, PcMoves
  <2>3. \A k \in Items \ {i} : itemCancels'[k] = itemCancels[k]
    BY <1>0, <1>6 DEF Cleanup, TypeOK
  <2> QED
    BY <1>6, <2>1, <2>2, <2>3 DEF Cleanup, OwnRow, Steps
<1> QED
  BY <1>1, <1>2, <1>3, <1>4, <1>5, <1>6 DEF Run

(* They keep every row. *)
LEMMA RunRows ==
  ASSUME TypeOK, RowsInv, recalled \subseteq recalled', NEW i \in Items, NEW s \in Slots, OwnRow(i, s), Steps(i, s)
  PROVE  RowsInv'
<1> SUFFICES ASSUME NEW k \in Items, RowInv(k) PROVE RowInv(k)'
  BY DEF RowsInv
<1>1. CASE k # i
  <2>1. SameRow(k)
    BY <1>1 DEF OwnRow, SameRow
  <2> QED
    BY <2>1, SameRowKept DEF RowsInv
<1>2. ASSUME k = i PROVE RowInv(i)'
  <2>0. RowInv(i) /\ posts[i] \in Nat
    BY <1>2 DEF TypeOK
  <2>1. UNCHANGED <<jobS, rs, rc, cur, boot, ops>> /\ \A t \in Slots : t # s => Pc(i, t)' = Pc(i, t)
    BY DEF OwnRow
  <2>2. Pc(i, s) # "idle"
    BY DEF Steps, LivePcs
  <2>3. ~Early /\ ~Early'
    BY <2>0, <2>1, <2>2 DEF RowInv, Sorted, Early
  <2>4. (Asked(i)' <=> Asked(i))
    BY <2>1 DEF Asked
  <2>5. CASE Pc(i, s) \in LivePcs
    <3>1. /\ ~Idle(i) /\ ~Waiting(i) /\ ~Asked(i) /\ itemS[i] \in {"running", "gone"}
          /\ \A t \in Slots : Pc(i, t) \in LivePcs => t = s
      BY <2>0, <2>5 DEF RowInv, Idle, FreshRow, Answers, OneRun
    <3>2. itemS'[i] \notin {"queued", "absent"} /\ cur' # i
      BY <2>1, <2>5, <3>1 DEF Steps, Waiting, LivePcs
    <3>3. FreshRow(i)'
      <4>1. jobS[JobOf[i]] # "absent"
        BY <2>0, <3>1 DEF RowInv, FreshRow
      <4> QED
        BY <2>1, <3>2, <4>1 DEF FreshRow, Waiting
    <3>4. OneRun(i)'
      <4>1. \A t \in Slots : Pc(i, t)' \in LivePcs => t = s
        BY <2>1, <3>1
      <4>2. Pc(i, s)' \in LivePcs => itemS'[i] \in {"running", "gone"}
        BY <2>5, <3>1 DEF Steps, LivePcs
      <4>3. posts'[i] \in {0, 1} /\ Pc(i, s)' # "go"
        BY <2>0, <2>5 DEF Steps, RowInv, OneRun, LivePcs
      <4> QED
        BY <4>1, <4>2, <4>3 DEF OneRun, LivePcs
    <3>5. Answers(i)'
      BY <2>4, <3>1 DEF Answers, Asked
    <3>6. Sorted(i)'
      <4>1. itemS'[i] = "running" => Pc(i, s)' \in LivePcs
        BY <2>5 DEF Steps, LivePcs
      <4> QED
        BY <2>3, <4>1 DEF Sorted, Early, Idle
    <3>7. OneGoroutine(i)'
      <4> SUFFICES ASSUME "retry" \notin ops
                   PROVE  \A t \in Slots : Pc(i, t)' # "idle" => t = s /\ (Pc(i, t)' \in LivePcs => itemCancels'[i] = s)
        BY <2>1, <3>2 DEF OneGoroutine, Waiting
      <4>1. \A t \in Slots : Pc(i, t) # "idle" => t = s
        BY <2>0, <2>2 DEF RowInv, OneGoroutine
      <4>2. itemCancels[i] = s /\ itemCancels' = itemCancels
        BY <2>0, <2>2, <2>5 DEF RowInv, OneGoroutine, Steps, LivePcs
      <4> QED
        BY <2>1, <4>1, <4>2
    <3> QED
      BY <3>3, <3>4, <3>5, <3>6, <3>7 DEF RowInv
  <2>6. CASE Pc(i, s) = "clean"
    <3>1. Pc(i, s)' = "idle" /\ UNCHANGED <<itemS, ref, started, posts>>
      BY <2>6 DEF Steps, LivePcs
    <3>2. \A t \in Slots : Pc(i, t)' = (IF t = s THEN "idle" ELSE Pc(i, t))
      BY <2>1, <3>1
    <3>3. \A t \in Slots : (Pc(i, t)' \in LivePcs <=> Pc(i, t) \in LivePcs) /\ (Pc(i, t)' = "go" <=> Pc(i, t) = "go")
      BY <2>6, <3>2 DEF LivePcs
    <3>4. Idle(i)' <=> Idle(i)
      BY <3>3 DEF Idle
    <3>5. Waiting(i)' <=> Waiting(i)
      BY <2>1, <3>1 DEF Waiting
    <3>6. FreshRow(i)'
      BY <2>0, <2>1, <2>4, <3>1, <3>4, <3>5 DEF RowInv, FreshRow
    <3>7. OneRun(i)'
      BY <2>0, <3>1, <3>3 DEF RowInv, OneRun
    <3>8. Answers(i)'
      BY <2>0, <2>1, <2>4, <3>1, <3>4 DEF RowInv, Answers, Asked
    <3>9. Sorted(i)'
      BY <2>0, <2>1, <2>3, <3>1, <3>4 DEF RowInv, Sorted, Early
    <3>10. OneGoroutine(i)'
      BY <2>0, <2>1, <2>2, <3>2 DEF RowInv, OneGoroutine
    <3> QED
      BY <3>6, <3>7, <3>8, <3>9, <3>10 DEF RowInv
  <2> QED
    BY <2>5, <2>6 DEF Steps, LivePcs
<1> QED
  BY <1>1, <1>2

-----------------------------------------------------------------------------
(* The requests. *)

(* The rows of a new job are fresh. *)
LEMMA CreateRows ==
  ASSUME TypeOK, RowsInv, recalled \subseteq recalled', NEW j \in Jobs, NEW how, CreateJob(j, how) PROVE RowsInv'
<1>1. /\ UNCHANGED <<ref, started, posts, wk, rs, rc, cur, itemCancels, boot, ops>>
      /\ jobS[j] = "absent" /\ jobS'[j] = "queued" /\ ~Early
      /\ \A m \in Jobs : m # j => jobS'[m] = jobS[m]
      /\ \A i \in Items : itemS'[i] = IF JobOf[i] = j THEN "queued" ELSE itemS[i]
  BY DEF CreateJob, TypeOK, ctxVars, lockVars, bounds, Early
<1>2. \A i \in Items, s \in Slots : Pc(i, s)' = Pc(i, s)
  BY <1>1 DEF Pc
<1> SUFFICES ASSUME NEW i \in Items, RowInv(i) PROVE RowInv(i)'
  BY DEF RowsInv
<1>3. JobOf[i] \in Jobs
  BY QueueAssumption
<1>4. CASE JobOf[i] # j
  <2>1. SameRow(i)
    BY <1>1, <1>2, <1>3, <1>4 DEF SameRow
  <2> QED
    BY <2>1, SameRowKept DEF RowsInv
<1>5. CASE JobOf[i] = j
  <2>1. posts[i] = 0 /\ ref[i] = "none" /\ Idle(i) /\ ~Asked(i) /\ cur # i /\ Waiting(i)
    BY <1>1, <1>5 DEF RowsInv, RowInv, FreshRow, Waiting
  <2>2. itemS'[i] = "queued" /\ jobS'[JobOf[i]] = "queued" /\ Idle(i)' /\ ~Asked(i)' /\ ~Early'
    BY <1>1, <1>2, <1>5, <2>1 DEF Idle, Asked, Early
  <2>3. FreshRow(i)' /\ OneRun(i)' /\ Answers(i)' /\ Sorted(i)'
    BY <1>1, <2>1, <2>2 DEF FreshRow, OneRun, Answers, Sorted, Idle, Asked, Early, LivePcs
  <2>4. OneGoroutine(i)'
    BY <1>1, <1>2, <2>1 DEF RowsInv, RowInv, OneGoroutine
  <2> QED
    BY <2>3, <2>4 DEF RowInv
<1> QED
  BY <1>4, <1>5

(* A row that is queued again has neither a run nor a question open. *)
LEMMA RetryRows ==
  ASSUME RequestsApart, TypeOK, RowsInv, recalled \subseteq recalled', NEW j \in Jobs, NEW sts \in RetrySets, Retry(j, sts)
  PROVE  RowsInv'
<1> DEFINE again == RowsIn(j, sts)
<1>1. /\ UNCHANGED <<started, wk, rs, rc, cur, itemCancels, boot, ops>>
      /\ "retry" \in ops /\ ~Early
      /\ \A i \in Items : /\ itemS'[i] = IF i \in again THEN "queued" ELSE itemS[i]
                          /\ ref'[i] = IF i \in again THEN "none" ELSE ref[i]
                          /\ posts'[i] = IF i \in again THEN 0 ELSE posts[i]
      /\ recalled' = recalled \cup RowsIn(j, sts \cap {"running"})
      /\ jobS' = [jobS EXCEPT ![j] = "queued"]
  BY DEF Retry, Requeued, ctxVars, lockVars, Early
<1>2. "reconcile" \notin ops
  BY <1>1 DEF RequestsApart, TypeOK
<1>3. \A i \in Items, s \in Slots : Pc(i, s)' = Pc(i, s)
  BY <1>1 DEF Pc
<1>4. \A m \in Jobs : jobS'[m] = "absent" => jobS[m] = "absent"
  BY <1>1 DEF TypeOK
<1> SUFFICES ASSUME NEW i \in Items, i \notin recalled', RowInv(i) PROVE RowInv(i)'
  BY DEF RowsInv
<1>5. JobOf[i] \in Jobs
  BY QueueAssumption
<1>6. CASE i \notin again
  <2>1. SameRow(i)
    BY <1>1, <1>3, <1>4, <1>5, <1>6 DEF SameRow
  <2> QED
    BY <2>1, SameRowKept DEF RowsInv
<1>7. CASE i \in again
  <2>1. itemS[i] \in {"queued", "cancelled"} \cup Outcomes /\ JobOf[i] = j
    BY <1>1, <1>7, QueueAssumption DEF RowsIn, Rows
  <2>2. Idle(i) /\ ~Asked(i) /\ cur # i
    BY <1>1, <1>2, <2>1 DEF RowInv, OneRun, Idle, Asked, Answers, FreshRow, Waiting, Outcomes
  <2>3. /\ itemS'[i] = "queued" /\ posts'[i] = 0 /\ ref'[i] = "none" /\ jobS'[JobOf[i]] = "queued"
        /\ Idle(i)' /\ ~Asked(i)' /\ ~Early'
    BY <1>1, <1>3, <1>7, <2>1, <2>2 DEF Idle, Asked, Early, TypeOK
  <2>4. FreshRow(i)' /\ OneRun(i)' /\ Answers(i)' /\ Sorted(i)'
    BY <1>1, <2>2, <2>3 DEF FreshRow, OneRun, Answers, Sorted, Idle, Asked, Early, LivePcs
  <2>5. OneGoroutine(i)'
    BY <1>1 DEF OneGoroutine
  <2> QED
    BY <2>4, <2>5 DEF RowInv
<1> QED
  BY <1>6, <1>7

(* A cancel moves no goroutine. *)
LEMMA CancelPcs ==
  ASSUME TypeOK, NEW i \in Items, CancelItem(i)
  PROVE  \A k \in Items, s \in Slots : Pc(k, s)' = Pc(k, s)
<1>1. CASE UNCHANGED wk
  BY <1>1 DEF Pc
<1>2. CASE wk' # wk
  <2>1. wk' = [wk EXCEPT ![<<i, itemCancels[i]>>].dead = @ \/ Live(<<i, itemCancels[i]>>)]
    BY <1>2 DEF CancelItem
  <2> SUFFICES ASSUME NEW k \in Items, NEW s \in Slots PROVE wk'[<<k, s>>].pc = wk[<<k, s>>].pc
    BY DEF Pc
  <2>2. <<k, s>> \in Runs /\ wk[<<k, s>>] \in RunType /\ wk \in [Runs -> RunType]
    BY DEF Runs, TypeOK
  <2> QED
    BY <2>1, <2>2 DEF RunType
<1> QED
  BY <1>1, <1>2

(* A cancel reaches the flag of a run, or takes a fresh row out. *)
LEMMA CancelItemRows ==
  ASSUME TypeOK, RowsInv, recalled \subseteq recalled', NEW i \in Items, CancelItem(i) PROVE RowsInv'
<1>1. UNCHANGED <<jobS, ref, started, posts, rs, rc, cur, itemCancels, boot, ops>> /\ ~Early
  BY DEF CancelItem, jobVars, lockVars, bounds, Early
<1>2. \A k \in Items, s \in Slots : Pc(k, s)' = Pc(k, s)
  BY CancelPcs
<1> SUFFICES ASSUME NEW k \in Items, RowInv(k) PROVE RowInv(k)'
  BY DEF RowsInv
<1>3. CASE itemS'[k] = itemS[k]
  <2>1. SameRow(k)
    BY <1>1, <1>2, <1>3 DEF SameRow
  <2> QED
    BY <2>1, SameRowKept DEF RowsInv
<1>4. CASE itemS'[k] # itemS[k]
  <2>1. itemS[k] = "queued" /\ itemS'[k] = "cancelled"
    BY <1>4 DEF CancelItem, TypeOK
  <2>2. /\ posts[k] = 0 /\ Idle(k) /\ ~Asked(k) /\ cur # k /\ Waiting(k) /\ jobS[JobOf[k]] # "absent"
    BY <2>1 DEF RowsInv, RowInv, FreshRow, Waiting
  <2>3. Idle(k)' /\ ~Asked(k)' /\ ~Waiting(k)' /\ ~Early'
    BY <1>1, <1>2, <2>1, <2>2 DEF Idle, Asked, Waiting, Early
  <2>4. FreshRow(k)' /\ OneRun(k)' /\ Answers(k)' /\ Sorted(k)'
    BY <1>1, <2>1, <2>2, <2>3 DEF FreshRow, OneRun, Answers, Sorted, Idle, Asked, Early, LivePcs
  <2>5. OneGoroutine(k)'
    BY <1>1, <1>2, <2>2 DEF RowsInv, RowInv, OneGoroutine
  <2> QED
    BY <2>4, <2>5 DEF RowInv
<1> QED
  BY <1>3, <1>4

(* A manual reconcile is refused while the row has a run here. *)
LEMMA ReconcileRows ==
  ASSUME RequestsApart, TypeOK, RowsInv, recalled \subseteq recalled', NEW i \in Items, ReconcileBegin(i) PROVE RowsInv'
<1>1. /\ UNCHANGED <<jobS, itemS, ref, started, posts, wk, rs, cur, itemCancels, boot, ops>>
      /\ "reconcile" \in ops /\ ~Early /\ ref[i] = "run" /\ itemS[i] \notin {"absent", "gone"}
      /\ ~(itemCancels[i] # None /\ itemS[i] = "running")
      /\ rc'[i] /\ \A k \in Items : k # i => rc'[k] = rc[k]
  BY DEF ReconcileBegin, TypeOK, persisted, ctxVars, lockVars, bounds, Early
<1>2. "retry" \notin ops /\ None \notin Slots
  BY <1>1, QueueAssumption DEF RequestsApart, TypeOK, None
<1>3. \A k \in Items, s \in Slots : Pc(k, s)' = Pc(k, s)
  BY <1>1 DEF Pc
<1> SUFFICES ASSUME NEW k \in Items, RowInv(k) PROVE RowInv(k)'
  BY DEF RowsInv
<1>4. CASE k # i
  <2>1. SameRow(k)
    BY <1>1, <1>3, <1>4 DEF SameRow
  <2> QED
    BY <2>1, SameRowKept DEF RowsInv
<1>5. ASSUME k = i PROVE RowInv(i)'
  <2>0. RowInv(i)
    BY <1>5
  <2>1. Idle(i)
    <3> SUFFICES ASSUME NEW s \in Slots, Pc(i, s) \in LivePcs PROVE FALSE
      BY DEF Idle
    <3>1. itemCancels[i] = s /\ itemS[i] \in {"running", "gone"}
      BY <1>2, <2>0 DEF RowInv, OneGoroutine, OneRun, LivePcs
    <3> QED
      BY <1>1, <1>2, <3>1
  <2>2. ~Waiting(i)
    BY <1>1, <2>0 DEF RowInv, FreshRow
  <2>3. Idle(i)' /\ ~Waiting(i)' /\ ~Early'
    BY <1>1, <1>3, <2>1, <2>2 DEF Idle, Waiting, Early
  <2>4. FreshRow(i)'
    BY <1>1, <2>0, <2>3 DEF RowInv, FreshRow, Waiting
  <2>5. OneRun(i)'
    BY <1>1, <2>0, <1>3 DEF RowInv, OneRun
  <2>6. Answers(i)'
    BY <1>1, <1>2, <2>3 DEF Answers
  <2>7. Sorted(i)'
    BY <1>1, <1>3, <2>0, <2>3 DEF RowInv, Sorted, Early, Idle
  <2>8. OneGoroutine(i)'
    BY <1>1, <1>3, <2>0, <2>3 DEF RowInv, OneGoroutine
  <2> QED
    BY <2>4, <2>5, <2>6, <2>7, <2>8 DEF RowInv
<1> QED
  BY <1>4, <1>5

(* What Dify answers ends a row that has no run here. *)
LEMMA AnswerRows ==
  ASSUME TypeOK, RowsInv, recalled \subseteq recalled', NEW i \in Items, NEW out \in Outcomes,
         Asked(i), itemS' = FinishRow(i, out),
         UNCHANGED <<jobS, ref, started, posts, wk, cur, itemCancels, boot, ops>>,
         \A k \in Items : rc'[k] => rc[k],
         \A k \in Items : rs'[k].pc = rs[k].pc \/ (k = i /\ rs'[k].pc = "idle"),
         "retry" \notin ops \/ rs'[i].pc = "idle"
  PROVE  RowsInv'
<1>1. \A k \in Items, s \in Slots : Pc(k, s)' = Pc(k, s)
  BY DEF Pc
<1>2. itemS'[i] \in {"gone", out} /\ \A k \in Items : k # i => itemS'[k] = itemS[k]
  BY DEF FinishRow, TypeOK
<1> SUFFICES ASSUME NEW k \in Items, RowInv(k) PROVE RowInv(k)'
  BY DEF RowsInv
<1>3. CASE k # i
  <2>1. SameRow(k)
    BY <1>1, <1>2, <1>3 DEF SameRow
  <2> QED
    BY <2>1, SameRowKept DEF RowsInv
<1>4. ASSUME k = i PROVE RowInv(i)'
  <2>0. RowInv(i)
    BY <1>4
  <2>1. Idle(i) /\ ~Waiting(i) /\ ref[i] = "run"
    BY <2>0 DEF RowInv, FreshRow, Answers
  <2>2. itemS'[i] \notin {"queued", "absent", "running"} /\ cur # i /\ jobS[JobOf[i]] # "absent"
    BY <1>2, <2>0, <2>1 DEF RowInv, FreshRow, Outcomes, Waiting
  <2>3. Idle(i)' /\ ~Waiting(i)'
    BY <1>1, <2>1, <2>2 DEF Idle, Waiting
  <2>4. FreshRow(i)'
    BY <2>2, <2>3 DEF FreshRow
  <2>5. OneRun(i)'
    BY <1>1, <2>0, <2>3 DEF RowInv, OneRun, Idle
  <2>6. Answers(i)'
    BY <2>0, <2>1, <2>3 DEF RowInv, Answers
  <2>7. Sorted(i)'
    BY <1>1, <2>0, <2>2 DEF RowInv, Sorted, Early, NoEvidence, Reconcilable
  <2>8. OneGoroutine(i)'
    BY <1>1, <2>0, <2>3 DEF RowInv, OneGoroutine
  <2> QED
    BY <2>4, <2>5, <2>6, <2>7, <2>8 DEF RowInv
<1> QED
  BY <1>3, <1>4

(* A deletion takes the rows of its job out of everything. *)
LEMMA DeleteRows ==
  ASSUME TypeOK, RowsInv, recalled \subseteq recalled', NEW t \in tasks, DeleteJob(t) PROVE RowsInv'
<1>1. /\ UNCHANGED <<ref, started, posts, wk, rs, rc, cur, itemCancels, boot, ops>>
      /\ jobS' = [jobS EXCEPT ![t.job] = "gone"]
      /\ \A i \in Items : itemS'[i] = IF JobOf[i] = t.job THEN "gone" ELSE itemS[i]
  BY DEF DeleteJob, ctxVars, lockVars, bounds
<1>2. \A m \in Jobs : jobS'[m] = "absent" => jobS[m] = "absent"
  BY <1>1 DEF TypeOK
<1>3. \A k \in Items, s \in Slots : Pc(k, s)' = Pc(k, s)
  BY <1>1 DEF Pc
<1> SUFFICES ASSUME NEW i \in Items, RowInv(i) PROVE RowInv(i)'
  BY DEF RowsInv
<1>4. JobOf[i] \in Jobs
  BY QueueAssumption
<1>5. CASE JobOf[i] # t.job
  <2>1. SameRow(i)
    BY <1>1, <1>2, <1>3, <1>4, <1>5 DEF SameRow
  <2> QED
    BY <2>1, SameRowKept DEF RowsInv
<1>6. CASE JobOf[i] = t.job
  <2>0. RowInv(i) /\ itemS'[i] = "gone" /\ jobS'[JobOf[i]] = "gone"
    BY <1>1, <1>4, <1>6 DEF RowsInv, TypeOK
  <2>1. (Idle(i)' <=> Idle(i)) /\ (Asked(i)' <=> Asked(i)) /\ (Waiting(i)' => Waiting(i))
    BY <1>1, <1>3, <2>0 DEF Idle, Asked, Waiting
  <2>2. FreshRow(i)'
    BY <1>1, <2>0, <2>1 DEF RowInv, FreshRow
  <2>3. OneRun(i)'
    BY <1>1, <1>3, <2>0 DEF RowInv, OneRun
  <2>4. Answers(i)'
    BY <1>1, <2>0, <2>1 DEF RowInv, Answers
  <2>5. Sorted(i)'
    BY <1>1, <1>3, <2>0 DEF RowInv, Sorted, Early, NoEvidence, Reconcilable
  <2>6. OneGoroutine(i)'
    BY <1>1, <1>3, <2>0, <2>1 DEF RowInv, OneGoroutine
  <2> QED
    BY <2>2, <2>3, <2>4, <2>5, <2>6 DEF RowInv
<1> QED
  BY <1>5, <1>6

-----------------------------------------------------------------------------
(* A crash and the start-up. *)

(* A crash takes every run and every question away. *)
LEMMA CrashRows ==
  ASSUME TypeOK, RowsInv, recalled \subseteq recalled', Crash PROVE RowsInv'
<1>1. IdleRun.pc = "idle" /\ IdleRes.pc = "idle" /\ None \notin Items
  BY QueueAssumption DEF IdleRun, IdleRes, None
<1>2. /\ UNCHANGED <<jobS, itemS, started, ref, ops>> /\ cur' = None /\ boot' = "reconcile"
      /\ \A i \in Items : /\ rs'[i] = IdleRes /\ ~rc'[i]
                          /\ posts'[i] = IF ref[i] = "none" /\ ~started[i] THEN 0 ELSE posts[i]
  BY DEF Crash, persisted
<1>3. \A i \in Items, s \in Slots : Pc(i, s)' = "idle"
  BY <1>1 DEF Crash, Pc, Runs
<1> SUFFICES ASSUME NEW i \in Items, RowInv(i) PROVE RowInv(i)'
  BY DEF RowsInv
<1>4. Idle(i)' /\ ~Asked(i)' /\ cur' # i /\ RowInv(i) /\ (Waiting(i)' => Waiting(i))
  BY <1>1, <1>2, <1>3 DEF Idle, Asked, LivePcs, RowsInv, Waiting
<1>5. FreshRow(i)'
  BY <1>2, <1>4 DEF RowInv, FreshRow
<1>6. OneRun(i)'
  BY <1>2, <1>3, <1>4 DEF RowInv, OneRun, LivePcs
<1>7. Answers(i)'
  BY <1>4 DEF Answers, Asked
<1>8. Sorted(i)'
  BY <1>2, <1>3 DEF Sorted, NoEvidence
<1>9. OneGoroutine(i)'
  BY <1>3 DEF OneGoroutine
<1> QED
  BY <1>5, <1>6, <1>7, <1>8, <1>9 DEF RowInv

(* The start-up asks for the rows that kept an id, ... *)
LEMMA ResumeReconcileRows ==
  ASSUME TypeOK, RowsInv, recalled \subseteq recalled', StartUpAlone, ResumeReconcile PROVE RowsInv'
<1>1. IdleRes.pc = "idle" /\ [IdleRes EXCEPT !.pc = "poll"].pc = "poll"
  BY DEF IdleRes
<1>2. /\ UNCHANGED <<jobS, itemS, started, ref, posts, wk, rc, cur, itemCancels, ops>>
      /\ boot = "reconcile" /\ boot' = "stuck" /\ Early
      /\ \A i \in Items : rs'[i].pc = IF Reconcilable(i) THEN "poll" ELSE rs[i].pc
  BY <1>1 DEF ResumeReconcile, persisted, lockVars, bounds, Early
<1>3. \A k \in Items, s \in Slots : Pc(k, s)' = Pc(k, s)
  BY <1>2 DEF Pc
<1>4. cur = None /\ None \notin Items
  BY <1>2, QueueAssumption DEF StartUpAlone, TypeOK, None
<1> SUFFICES ASSUME NEW i \in Items, RowInv(i) PROVE RowInv(i)'
  BY DEF RowsInv
<1>5. RowInv(i) /\ cur # i /\ (\A s \in Slots : Pc(i, s) = "idle") /\ ~rc[i]
  BY <1>2, <1>4 DEF RowsInv, RowInv, Sorted
<1>6. (\A s \in Slots : Pc(i, s)' = "idle") /\ Idle(i)' /\ (Waiting(i)' <=> Waiting(i)) /\ ~rc'[i]
  BY <1>2, <1>3, <1>5 DEF Idle, LivePcs, Waiting
<1>7. FreshRow(i)'
  <2>1. Waiting(i) => ~Reconcilable(i)
    BY <1>5 DEF Waiting, Reconcilable
  <2>2. Waiting(i)' => ~Asked(i)'
    BY <1>2, <1>5, <1>6, <2>1 DEF RowInv, FreshRow, Asked
  <2> QED
    BY <1>2, <1>5, <1>6, <2>2 DEF RowInv, FreshRow
<1>8. OneRun(i)'
  BY <1>2, <1>5, <1>6 DEF RowInv, OneRun, LivePcs
<1>9. Answers(i)'
  BY <1>2, <1>5, <1>6 DEF RowInv, Answers, Asked, Reconcilable
<1>10. Sorted(i)'
  BY <1>2, <1>5, <1>6 DEF RowInv, Sorted, NoEvidence, Reconcilable
<1>11. OneGoroutine(i)'
  BY <1>6 DEF OneGoroutine
<1> QED
  BY <1>7, <1>8, <1>9, <1>10, <1>11 DEF RowInv

(* ... gives up those with nothing to ask by, ... *)
LEMMA ResumeStuckRows ==
  ASSUME TypeOK, RowsInv, recalled \subseteq recalled', StartUpAlone, ResumeStuck PROVE RowsInv'
<1>1. /\ UNCHANGED <<jobS, started, ref, posts, wk, rs, rc, cur, itemCancels, ops>>
      /\ boot = "stuck" /\ boot' = "reset" /\ Early
      /\ \A i \in Items : itemS'[i] = IF Unreconcilable(i) THEN "untracked" ELSE itemS[i]
  BY DEF ResumeStuck, jobVars, ctxVars, lockVars, bounds, Early
<1>2. \A k \in Items, s \in Slots : Pc(k, s)' = Pc(k, s)
  BY <1>1 DEF Pc
<1>3. cur = None /\ None \notin Items
  BY <1>1, QueueAssumption DEF StartUpAlone, TypeOK, None
<1> SUFFICES ASSUME NEW i \in Items, RowInv(i) PROVE RowInv(i)'
  BY DEF RowsInv
<1>4. /\ RowInv(i) /\ cur # i /\ (\A s \in Slots : Pc(i, s) = "idle") /\ ~rc[i]
      /\ ref[i] \in {"none", "task", "run"}
  BY <1>1, <1>3 DEF RowsInv, RowInv, Sorted, TypeOK
<1>5. /\ \A s \in Slots : Pc(i, s)' = "idle"
      /\ Idle(i) /\ Idle(i)' /\ (Waiting(i)' => Waiting(i)) /\ (Asked(i)' <=> Asked(i))
  BY <1>1, <1>2, <1>4 DEF Idle, LivePcs, Waiting, Asked
<1>6. FreshRow(i)'
  BY <1>1, <1>4, <1>5 DEF RowInv, FreshRow, Unreconcilable
<1>7. OneRun(i)'
  BY <1>1, <1>4, <1>5 DEF RowInv, OneRun, LivePcs
<1>8. Answers(i)'
  BY <1>1, <1>4, <1>5 DEF RowInv, Answers, Asked, Unreconcilable
<1>9. Sorted(i)'
  BY <1>1, <1>4, <1>5 DEF RowInv, Sorted, Early, NoEvidence, Reconcilable, Unreconcilable
<1>10. OneGoroutine(i)'
  BY <1>5 DEF OneGoroutine
<1> QED
  BY <1>6, <1>7, <1>8, <1>9, <1>10 DEF RowInv

(* ... and queues those that were not sent. *)
LEMMA ResumeResetRows ==
  ASSUME TypeOK, RowsInv, recalled \subseteq recalled', StartUpAlone, ResumeReset PROVE RowsInv'
<1>1. /\ UNCHANGED <<jobS, started, ref, posts, wk, rs, rc, cur, itemCancels, ops>>
      /\ boot = "reset" /\ boot' = "tick" /\ Early
      /\ \A i \in Items : itemS'[i] = IF NoEvidence(i) THEN "queued" ELSE itemS[i]
  BY DEF ResumeReset, jobVars, ctxVars, lockVars, bounds, Early
<1>2. \A k \in Items, s \in Slots : Pc(k, s)' = Pc(k, s)
  BY <1>1 DEF Pc
<1>3. cur = None /\ None \notin Items
  BY <1>1, QueueAssumption DEF StartUpAlone, TypeOK, None
<1> SUFFICES ASSUME NEW i \in Items, RowInv(i) PROVE RowInv(i)'
  BY DEF RowsInv
<1>4. RowInv(i) /\ cur # i /\ (\A s \in Slots : Pc(i, s) = "idle") /\ ~rc[i]
  BY <1>1, <1>3 DEF RowsInv, RowInv, Sorted
<1>5. /\ \A s \in Slots : Pc(i, s)' = "idle"
      /\ Idle(i) /\ Idle(i)' /\ (Asked(i)' <=> Asked(i)) /\ (Waiting(i)' => Waiting(i) \/ NoEvidence(i))
  BY <1>1, <1>2, <1>4 DEF Idle, LivePcs, Waiting, Asked
<1>6. NoEvidence(i) => posts[i] = 0 /\ ref[i] = "none" /\ ~Asked(i) /\ jobS[JobOf[i]] # "absent"
  BY <1>1, <1>4 DEF RowInv, FreshRow, Answers, Sorted, NoEvidence
<1>7. FreshRow(i)'
  BY <1>1, <1>4, <1>5, <1>6 DEF RowInv, FreshRow, Waiting
<1>8. OneRun(i)'
  BY <1>1, <1>4, <1>5 DEF RowInv, OneRun, LivePcs
<1>9. Answers(i)'
  BY <1>1, <1>4, <1>5, <1>6 DEF RowInv, Answers, Asked
<1>10. Sorted(i)'
  BY <1>1, <1>4 DEF RowInv, Sorted, Early
<1>11. OneGoroutine(i)'
  BY <1>5 DEF OneGoroutine
<1> QED
  BY <1>7, <1>8, <1>9, <1>10, <1>11 DEF RowInv

(* The end of the start-up changes no row. *)
LEMMA ResumeFinalizeRows ==
  ASSUME TypeOK, RowsInv, recalled \subseteq recalled', ResumeFinalize PROVE RowsInv'
<1>1. /\ UNCHANGED <<jobS, itemS, started, ref, posts, wk, rs, rc, cur, itemCancels, ops>>
      /\ boot = "tick" /\ boot' = "up"
  BY DEF ResumeFinalize, persisted, ctxVars, lockVars, bounds
<1>2. \A k \in Items, s \in Slots : Pc(k, s)' = Pc(k, s)
  BY <1>1 DEF Pc
<1> SUFFICES ASSUME NEW i \in Items, RowInv(i) PROVE RowInv(i)'
  BY DEF RowsInv
<1>3. RowInv(i) /\ (Idle(i)' <=> Idle(i)) /\ (Asked(i)' <=> Asked(i)) /\ (Waiting(i)' <=> Waiting(i))
  BY <1>1, <1>2 DEF RowsInv, Idle, Asked, Waiting
<1>4. FreshRow(i)' /\ OneRun(i)' /\ Answers(i)'
  BY <1>1, <1>2, <1>3 DEF RowInv, FreshRow, OneRun, Answers
<1>5. Sorted(i)'
  BY <1>1, <1>3 DEF RowInv, Sorted, Early
<1>6. OneGoroutine(i)'
  BY <1>1, <1>2, <1>3 DEF RowInv, OneGoroutine
<1> QED
  BY <1>4, <1>5, <1>6 DEF RowInv

-----------------------------------------------------------------------------
(* All steps. *)

(* The steps that touch neither the rows nor their goroutines. *)
LEMMA QuietSteps ==
  ASSUME TypeOK,
         \/ UNCHANGED vars
         \/ TickBegin \/ TimerTick \/ MarkJobRunning \/ AdmitDone \/ SweepFinalize \/ FinishJob
         \/ \E t \in tasks : (\E o \in Overruns : WriteWindow(t, o)) \/ AbortScope(t) \/ FinalizeJob(t)
         \/ \E j \in Jobs : \/ CancelJob(j) \/ DeleteRequest(j) \/ TimePasses(j)
                            \/ \E k \in {"setAsap", "setLater"} : Reschedule(j, k)
                            \/ \E p \in Prios : Reprioritize(j, p)
         \/ \E i \in Items : ReconcileGiveUp(i)
  PROVE  \A i \in Items : SameRow(i)
<1> DEFINE Goal == \A i \in Items : SameRow(i)
<1> USE DEF jobVars, rowVars, ctxVars, lockVars, bounds, persisted, memory
<1>1. CASE UNCHANGED vars
  <2>1. UNCHANGED <<jobS, itemS, ref, started, posts, cur, itemCancels, boot, ops, wk, rs, rc>>
    BY <1>1 DEF vars
  <2> QED
    BY <2>1, QuietRows
<1>2. CASE TickBegin \/ TimerTick
  <2>1. /\ UNCHANGED <<itemS, ref, started, posts, cur, itemCancels, boot, ops, wk, rs, rc>>
        /\ \A j \in Jobs : jobS'[j] = "absent" => jobS[j] = "absent"
    BY <1>2 DEF TickBegin, TimerTick, ReadPlan, SweptJobS
  <2> QED
    BY <2>1, QuietRows
<1>3. CASE MarkJobRunning \/ AdmitDone \/ SweepFinalize
  <2>1. UNCHANGED <<itemS, ref, started, posts, itemCancels, boot, ops, wk, rs, rc>> /\ cur' = cur
    BY <1>3 DEF MarkJobRunning, AdmitDone, SweepFinalize
  <2>2. \A j \in Jobs : jobS'[j] = "absent" => jobS[j] = "absent"
    BY <1>3 DEF MarkJobRunning, AdmitDone, SweepFinalize, TypeOK
  <2> QED
    BY <2>1, <2>2, QuietRows
<1>4. CASE FinishJob
  <2>1. fin.job \in Jobs
    BY <1>4 DEF FinishJob, TypeOK
  <2>2. /\ UNCHANGED <<itemS, ref, started, posts, itemCancels, boot, ops, rc, cur>>
        /\ wk' = wk \/ wk' = KillRuns(fin.job)
        /\ rs' = rs \/ rs' = KillRes(fin.job)
    BY <1>4 DEF FinishJob
  <2>3. \A j \in Jobs : jobS'[j] = "absent" => jobS[j] = "absent"
    <3>1. PICK st \in {"finished", "cancelled"} : jobS' = jobS \/ jobS' = [jobS EXCEPT ![fin.job] = st]
      BY <1>4 DEF FinishJob
    <3> QED
      BY <3>1 DEF TypeOK
  <2> QED
    BY <2>1, <2>2, <2>3, QuietRows
<1>5. ASSUME NEW t \in tasks, NEW o \in Overruns, WriteWindow(t, o) PROVE Goal
  <2>1. UNCHANGED <<jobS, itemS, ref, started, posts, cur, itemCancels, boot, ops, wk, rs, rc>>
    BY <1>5 DEF WriteWindow
  <2> QED
    BY <2>1, QuietRows
<1>6. ASSUME NEW t \in tasks, AbortScope(t) PROVE Goal
  <2>1. t.job \in Jobs
    BY <1>6 DEF AbortScope, TypeOK
  <2>2. /\ UNCHANGED <<jobS, itemS, ref, started, posts, cur, itemCancels, boot, ops, rc>>
        /\ wk' = wk \/ wk' = KillRuns(t.job)
        /\ rs' = rs \/ rs' = KillRes(t.job)
    BY <1>6 DEF AbortScope
  <2> QED
    BY <2>1, <2>2, QuietRows
<1>7. ASSUME NEW t \in tasks, FinalizeJob(t) PROVE Goal
  <2>1. UNCHANGED <<jobS, itemS, ref, started, posts, cur, itemCancels, boot, ops, wk, rs, rc>>
    BY <1>7 DEF FinalizeJob
  <2> QED
    BY <2>1, QuietRows
<1>8. ASSUME NEW j \in Jobs, CancelJob(j) PROVE Goal
  <2>1. UNCHANGED <<itemS, ref, started, posts, cur, itemCancels, boot, ops, wk, rs, rc>>
    BY <1>8 DEF CancelJob
  <2>2. \A m \in Jobs : jobS'[m] = "absent" => jobS[m] = "absent"
    BY <1>8 DEF CancelJob, TypeOK
  <2> QED
    BY <2>1, <2>2, QuietRows
<1>9. ASSUME NEW j \in Jobs,
             \/ DeleteRequest(j) \/ TimePasses(j)
             \/ \E k \in {"setAsap", "setLater"} : Reschedule(j, k)
             \/ \E p \in Prios : Reprioritize(j, p)
      PROVE Goal
  <2>1. UNCHANGED <<jobS, itemS, ref, started, posts, cur, itemCancels, boot, ops, wk, rs, rc>>
    BY <1>9 DEF DeleteRequest, TimePasses, Reschedule, Reprioritize
  <2> QED
    BY <2>1, QuietRows
<1>10. ASSUME NEW i \in Items, ReconcileGiveUp(i) PROVE Goal
  <2>1. UNCHANGED <<jobS, itemS, ref, started, posts, cur, itemCancels, boot, ops, wk, rs>>
    BY <1>10 DEF ReconcileGiveUp
  <2>2. \A k \in Items : rc'[k] => rc[k]
    BY <1>10 DEF ReconcileGiveUp, TypeOK
  <2> QED
    BY <2>1, <2>2, QuietRows
<1> QED
  BY <1>1, <1>2, <1>3, <1>4, <1>5, <1>6, <1>7, <1>8, <1>9, <1>10

(* The answers, of a manual reconcile and of a poll of the start-up. *)
LEMMA AnswerSteps ==
  ASSUME RequestsApart, TypeOK, RowsInv, MixKept, recalled \subseteq recalled',
         NEW i \in Items, NEW out \in Outcomes,
         ReconcileAnswer(i, out) \/ ResumeAnswer(i, out)
  PROVE  RowsInv'
<1> USE DEF jobVars, rowVars, ctxVars, lockVars, bounds
<1>1. CASE ReconcileAnswer(i, out)
  <2>1. /\ Asked(i) /\ itemS' = FinishRow(i, out) /\ rs' = rs
        /\ UNCHANGED <<jobS, ref, started, posts, wk, cur, itemCancels, boot, ops>>
    BY <1>1 DEF ReconcileAnswer, Asked
  <2>2. \A k \in Items : rc'[k] => rc[k]
    BY <1>1 DEF ReconcileAnswer, TypeOK
  <2>3. "retry" \notin ops
    BY <1>1 DEF ReconcileAnswer, MixKept, RequestsApart, TypeOK
  <2> QED
    BY <2>1, <2>2, <2>3, AnswerRows
<1>2. CASE ResumeAnswer(i, out)
  <2>1. /\ Asked(i) /\ itemS' = FinishRow(i, out) /\ rc' = rc
        /\ UNCHANGED <<jobS, ref, started, posts, wk, cur, itemCancels, boot, ops>>
    BY <1>2 DEF ResumeAnswer, Asked
  <2>2. rs'[i].pc = "idle" /\ \A k \in Items : k # i => rs'[k] = rs[k]
    <3>1. IdleRes.pc = "idle"
      BY DEF IdleRes
    <3> QED
      BY <1>2, <3>1 DEF ResumeAnswer, TypeOK
  <2> QED
    BY <2>1, <2>2, AnswerRows
<1> QED
  BY <1>1, <1>2

(* Such steps keep the rows. *)
LEMMA SameRowsKept ==
  ASSUME RowsInv, recalled \subseteq recalled', \A i \in Items : SameRow(i) PROVE RowsInv'
  BY SameRowKept DEF RowsInv

(* Only a crash and the start-up move boot, and the mix stays. *)
LEMMA BootMoves ==
  ASSUME [Next]_vars PROVE ops' = ops /\ (boot' = boot \/ Crash \/ Resume)
<1> USE DEF jobVars, rowVars, ctxVars, lockVars, bounds, persisted, memory
<1>1. CASE UNCHANGED vars
  BY <1>1 DEF vars
<1>2. CASE TickBegin \/ TimerTick
  BY <1>2 DEF TickBegin, TimerTick, ReadPlan
<1>3. CASE Scheduler
  BY <1>3
     DEF Scheduler, MarkItemRunning, MarkJobRunning, StartItem, AdmitDone, SweepFinalize, FinishJob
<1>4. ASSUME NEW t \in tasks, RunTask(t) \/ FinalizeJob(t) PROVE ops' = ops /\ boot' = boot
  BY <1>4 DEF RunTask, WriteWindow, AbortScope, DeleteJob, FinalizeJob
<1>5. ASSUME NEW r \in Runs, Run(r) \/ Panic(r) PROVE ops' = ops /\ boot' = boot
  BY <1>5 DEF Run, Accept, StreamOpen, SaveRef, Return, PersistOutcome, Panic, NoProvider, Cleanup
<1>6. ASSUME NEW j \in Jobs,
             \/ \E how \in SubmitKinds : CreateJob(j, how)
             \/ CancelJob(j) \/ DeleteRequest(j) \/ TimePasses(j)
             \/ \E k \in {"setAsap", "setLater"} : Reschedule(j, k)
             \/ \E p \in Prios : Reprioritize(j, p)
             \/ \E sts \in RetrySets : Retry(j, sts)
      PROVE ops' = ops /\ boot' = boot
  BY <1>6 DEF CreateJob, CancelJob, DeleteRequest, TimePasses, Reschedule, Reprioritize, Retry
<1>7. ASSUME NEW i \in Items,
             \/ CancelItem(i) \/ ReconcileBegin(i) \/ ReconcileGiveUp(i)
             \/ \E out \in Outcomes : ReconcileAnswer(i, out) \/ ResumeAnswer(i, out)
      PROVE ops' = ops /\ boot' = boot
  BY <1>7 DEF CancelItem, ReconcileBegin, ReconcileGiveUp, ReconcileAnswer, ResumeAnswer
<1>8. CASE Crash
  BY <1>8 DEF Crash
<1>9. CASE Resume
  BY <1>9 DEF Resume, ResumeReconcile, ResumeStuck, ResumeReset, ResumeFinalize
<1> QED
  BY <1>1, <1>2, <1>3, <1>4, <1>5, <1>6, <1>7, <1>8, <1>9 DEF Next

(* Only a retry recalls rows, and a question is asked in its own mix. *)
MixStep ==
  /\ recalled \subseteq recalled'
  /\ recalled' # recalled => "retry" \in ops
  /\ \A i \in Items : rc'[i] => rc[i] \/ "reconcile" \in ops

LEMMA MixMoves == ASSUME TypeOK, [Next]_vars PROVE MixStep
<1> USE DEF jobVars, rowVars, ctxVars, lockVars, bounds, persisted, memory
<1>1. CASE UNCHANGED vars
  BY <1>1 DEF MixStep, vars
<1>2. CASE TickBegin \/ TimerTick
  BY <1>2 DEF MixStep, TickBegin, TimerTick, ReadPlan
<1>3. CASE Scheduler
  BY <1>3
     DEF MixStep, Scheduler, MarkItemRunning, MarkJobRunning, StartItem, AdmitDone, SweepFinalize, FinishJob
<1>4. ASSUME NEW t \in tasks, RunTask(t) \/ FinalizeJob(t) PROVE MixStep
  BY <1>4 DEF MixStep, RunTask, WriteWindow, AbortScope, DeleteJob, FinalizeJob
<1>5. ASSUME NEW r \in Runs, Run(r) \/ Panic(r) PROVE MixStep
  BY <1>5 DEF MixStep, Run, Accept, StreamOpen, SaveRef, Return, PersistOutcome, Panic, NoProvider, Cleanup
<1>6. ASSUME NEW j \in Jobs,
             \/ \E how \in SubmitKinds : CreateJob(j, how)
             \/ CancelJob(j) \/ DeleteRequest(j) \/ TimePasses(j)
             \/ \E k \in {"setAsap", "setLater"} : Reschedule(j, k)
             \/ \E p \in Prios : Reprioritize(j, p)
             \/ \E sts \in RetrySets : Retry(j, sts)
      PROVE MixStep
  BY <1>6 DEF MixStep, CreateJob, CancelJob, DeleteRequest, TimePasses, Reschedule, Reprioritize, Retry
<1>7. ASSUME NEW i \in Items,
             \/ CancelItem(i) \/ ReconcileBegin(i) \/ ReconcileGiveUp(i)
             \/ \E out \in Outcomes : ReconcileAnswer(i, out) \/ ResumeAnswer(i, out)
      PROVE MixStep
  BY <1>7 DEF MixStep, CancelItem, ReconcileBegin, ReconcileGiveUp, ReconcileAnswer, ResumeAnswer, TypeOK
<1>8. CASE Crash
  BY <1>8 DEF MixStep, Crash
<1>9. CASE Resume
  BY <1>9 DEF MixStep, Resume, ResumeReconcile, ResumeStuck, ResumeReset, ResumeFinalize
<1> HIDE DEF MixStep, jobVars, rowVars, ctxVars, lockVars, bounds, persisted, memory
<1> QED
  BY <1>1, <1>2, <1>3, <1>4, <1>5, <1>6, <1>7, <1>8, <1>9 DEF Next

(* Every step keeps the rows, ... *)
LEMMA RowsNext ==
  ASSUME RequestsApart, TypeOK, RowsInv, StartUpAlone, MixKept, [Next]_vars
  PROVE  RowsInv'
<1>0. recalled \subseteq recalled'
  BY MixMoves DEF MixStep
<1>1. ASSUME NEW r \in Runs, Run(r) \/ Panic(r) PROVE RowsInv'
  <2>1. PICK i \in Items, s \in Slots : r = <<i, s>>
    BY DEF Runs
  <2>2. OwnRow(i, s) /\ Steps(i, s)
    BY <1>1, <2>1, RunSteps
  <2> QED
    BY <1>0, <2>2, RunRows
<1>2. ASSUME NEW t \in tasks, RunTask(t) \/ FinalizeJob(t) PROVE RowsInv'
  BY <1>0, <1>2, QuietSteps, SameRowsKept, DeleteRows DEF RunTask
<1>3. ASSUME NEW j \in Jobs,
             \/ \E how \in SubmitKinds : CreateJob(j, how)
             \/ CancelJob(j) \/ DeleteRequest(j) \/ TimePasses(j)
             \/ \E k \in {"setAsap", "setLater"} : Reschedule(j, k)
             \/ \E p \in Prios : Reprioritize(j, p)
             \/ \E sts \in RetrySets : Retry(j, sts)
      PROVE  RowsInv'
  BY <1>0, <1>3, QuietSteps, SameRowsKept, CreateRows, RetryRows
<1>4. ASSUME NEW i \in Items, CancelItem(i) \/ ReconcileBegin(i) \/ ReconcileGiveUp(i) PROVE RowsInv'
  BY <1>0, <1>4, QuietSteps, SameRowsKept, CancelItemRows, ReconcileRows
<1>5. ASSUME NEW i \in Items, NEW out \in Outcomes, ReconcileAnswer(i, out) \/ ResumeAnswer(i, out)
      PROVE  RowsInv'
  BY <1>0, <1>5, AnswerSteps
<1>6. CASE UNCHANGED vars \/ TickBegin \/ TimerTick \/ Scheduler
  BY <1>0, <1>6, QuietSteps, SameRowsKept, MarkRows, StartRows DEF Scheduler
<1>7. CASE Resume \/ Crash
  BY <1>0, <1>7, CrashRows, ResumeReconcileRows, ResumeStuckRows, ResumeResetRows, ResumeFinalizeRows DEF Resume
<1> QED
  BY <1>1, <1>2, <1>3, <1>4, <1>5, <1>6, <1>7 DEF Next

(* So the traces stay in their mix, ... *)
LEMMA MixNext ==
  ASSUME TypeOK, MixKept, [Next]_vars PROVE MixKept'
  BY BootMoves, MixMoves DEF MixKept, MixStep

(* ... and nothing else happens before the start-up is over. *)
LEMMA AloneNext ==
  ASSUME RequestsApart, TypeOK, StartUpAlone, [Next]_vars
  PROVE  StartUpAlone'
<1> USE DEF jobVars, rowVars, ctxVars, lockVars, bounds, persisted, memory
<1>0. CASE Crash
  <2>1. IdleRun.pc = "idle"
    BY DEF IdleRun
  <2> QED
    BY <1>0, <2>1 DEF Crash, StartUpAlone, Runs
<1>1. CASE ~Early /\ ~Crash
  <2>1. CASE Resume
    BY <1>1, <2>1 DEF Resume, ResumeReconcile, ResumeStuck, ResumeReset, ResumeFinalize, Early, StartUpAlone
  <2>2. CASE ~Resume
    BY <1>1, <2>2, BootMoves DEF Early, StartUpAlone
  <2> QED
    BY <2>1, <2>2
<1>2. CASE Early /\ ~Crash
  <2>0. /\ boot \in {"reconcile", "stuck", "reset"} /\ tasks = {} /\ muPc = "free"
        /\ \A i \in Items : ~rc[i] /\ \A s \in Slots : Pc(i, s) = "idle"
    BY <1>2 DEF StartUpAlone, Early, Pc
  <2>1. \A r \in Runs : ~Run(r) /\ ~Panic(r)
    <3> SUFFICES ASSUME NEW r \in Runs, Run(r) \/ Panic(r) PROVE FALSE
      OBVIOUS
    <3>1. PICK i \in Items, s \in Slots : r = <<i, s>>
      BY DEF Runs
    <3>2. Pc(i, s) # "idle"
      BY <3>1, RunSteps DEF Steps, LivePcs
    <3> QED
      BY <2>0, <3>2
  <2>3. \A i \in Items, out \in Outcomes : ~ReconcileAnswer(i, out) /\ ~ResumeAnswer(i, out)
    BY <2>0 DEF ReconcileAnswer, ResumeAnswer, RequestsApart, TypeOK
  <2>4. \A i \in Items : ~CancelItem(i) /\ ~ReconcileBegin(i) /\ ~ReconcileGiveUp(i)
    BY <2>0 DEF CancelItem, ReconcileBegin, ReconcileGiveUp
  <2>5. ~TickBegin /\ ~TimerTick /\ ~Scheduler
    BY <2>0
       DEF TickBegin, TimerTick, Scheduler, MarkItemRunning, MarkJobRunning, StartItem,
           AdmitDone, SweepFinalize, FinishJob
  <2>5a. \A j \in Jobs : /\ \A how \in SubmitKinds : ~CreateJob(j, how)
                         /\ ~CancelJob(j) /\ ~DeleteRequest(j)
                         /\ \A k \in {"setAsap", "setLater"} : ~Reschedule(j, k)
                         /\ \A p \in Prios : ~Reprioritize(j, p)
                         /\ \A sts \in RetrySets : ~Retry(j, sts)
    BY <2>0 DEF CreateJob, CancelJob, DeleteRequest, Reschedule, Reprioritize, Retry
  <2>6. UNCHANGED vars \/ Resume \/ \E j \in Jobs : TimePasses(j)
    BY <1>2, <2>0, <2>1, <2>3, <2>4, <2>5, <2>5a DEF Next
  <2>7. (tasks' = {} /\ muPc' = "free" /\ UNCHANGED <<rc, wk>>) \/ ~Early'
    BY <2>0, <2>6
       DEF vars, Resume, ResumeReconcile, ResumeStuck, ResumeReset, ResumeFinalize,
           TimePasses, Early
  <2> QED
    BY <2>0, <2>7 DEF StartUpAlone, Pc
<1> QED
  BY <1>0, <1>1, <1>2

(* The first state has no rows yet. *)
LEMMA RowsInit == Init => RowsInv /\ StartUpAlone /\ MixKept
<1> SUFFICES ASSUME Init PROVE RowsInv /\ StartUpAlone /\ MixKept
  OBVIOUS
<1>1. IdleRun.pc = "idle" /\ IdleRes.pc = "idle" /\ None \notin Items
  BY QueueAssumption DEF IdleRun, IdleRes, None
<1>2. ~Early
  BY DEF Init, Early
<1>3. ASSUME NEW i \in Items PROVE RowInv(i)
  <2>1. \A s \in Slots : Pc(i, s) = "idle"
    BY <1>1 DEF Init, Pc, Runs
  <2>2. Idle(i) /\ ~Asked(i) /\ cur # i
    BY <1>1, <2>1 DEF Init, Idle, LivePcs, Asked
  <2>3. JobOf[i] \in Jobs
    BY QueueAssumption
  <2>4. itemS[i] = "absent" /\ posts[i] = 0 /\ ref[i] = "none"
    BY DEF Init
  <2>5. FreshRow(i)
    BY <2>2, <2>4 DEF FreshRow
  <2>6. OneRun(i) /\ Answers(i)
    BY <2>1, <2>2, <2>4 DEF OneRun, Answers, Asked, LivePcs
  <2>7. Sorted(i) /\ OneGoroutine(i)
    BY <1>2, <2>1, <2>4 DEF Sorted, OneGoroutine, Early
  <2> QED
    BY <2>5, <2>6, <2>7 DEF RowInv
<1>4. MixKept
  BY DEF Init, MixKept
<1> QED
  BY <1>2, <1>3, <1>4 DEF RowsInv, StartUpAlone

(* What the rows say of the properties. *)
LEMMA RowsImply ==
  ASSUME TypeOK, RowsInv, MixKept
  PROVE  /\ NeverRunTwice /\ OneRunnerPerRow
         /\ "retry" \notin ops => SlotForLifetime /\ RunningHasOwner /\ ItemCancelReachesRun
<1>0. \A i \in Items \ recalled : RowInv(i)
  BY DEF RowsInv
<1>1. \A i \in Items, s \in Slots : Live(<<i, s>>) <=> Pc(i, s) \in LivePcs
  BY DEF Live, Pc, LivePcs
<1>2. \A r \in Runs : r[1] \in Items /\ r[2] \in Slots /\ r = <<r[1], r[2]>>
  BY DEF Runs
<1>3. NeverRunTwice
  BY <1>0 DEF RowInv, OneRun, NeverRunTwice
<1>4. ASSUME "retry" \notin ops PROVE SlotForLifetime
  BY <1>0, <1>1, <1>2, <1>4 DEF MixKept, RowInv, OneRun, SlotForLifetime
<1>5. OneRunnerPerRow
  <2> SUFFICES ASSUME NEW i \in Items \ recalled PROVE Cardinality({s \in Slots : Live(<<i, s>>)}) <= 1
    BY DEF OneRunnerPerRow
  <2>1. CASE Idle(i)
    <3>1. {s \in Slots : Live(<<i, s>>)} = {}
      BY <1>1, <2>1 DEF Idle
    <3>2. Cardinality({}) = 0
      BY FS_EmptySet
    <3>3. Cardinality({s \in Slots : Live(<<i, s>>)}) = 0
      BY <3>1, <3>2, Zenon
    <3> QED
      BY <3>3
  <2>2. CASE ~Idle(i)
    <3>1. PICK t \in Slots : Pc(i, t) \in LivePcs
      BY <2>2 DEF Idle
    <3>2. {s \in Slots : Live(<<i, s>>)} = {t}
      BY <1>0, <1>1, <3>1 DEF RowInv, OneRun
    <3>3. Cardinality({t}) = 1
      BY FS_Singleton
    <3>4. Cardinality({s \in Slots : Live(<<i, s>>)}) = 1
      BY <3>2, <3>3, Zenon
    <3> QED
      BY <3>4
  <2> QED
    BY <2>1, <2>2
<1>6. ASSUME "retry" \notin ops PROVE RunningHasOwner
  BY <1>0, <1>1, <1>6 DEF MixKept, RowInv, Sorted, RunningHasOwner, RunningItems, Idle
<1>7. ASSUME "retry" \notin ops PROVE ItemCancelReachesRun
  BY <1>0, <1>1, <1>2, <1>7 DEF MixKept, RowInv, OneGoroutine, ItemCancelReachesRun, LivePcs
<1> QED
  BY <1>3, <1>4, <1>5, <1>6, <1>7

(* Together they are inductive. *)
LEMMA RowsAlways == ASSUME RequestsApart PROVE Spec => [](RowsInv /\ StartUpAlone /\ MixKept)
<1>1. Init => RowsInv /\ StartUpAlone /\ MixKept
  BY RowsInit
<1>2. TypeOK /\ (RowsInv /\ StartUpAlone /\ MixKept) /\ [Next]_vars => (RowsInv /\ StartUpAlone /\ MixKept)'
  BY RowsNext, AloneNext, MixNext
<1> QED
  BY <1>1, <1>2, TypeCorrect, PTL DEF Spec

(* The money guard: Dify never accepts two runs of a row between two       *)
(* retries, whatever ticks, cancels, panics, deletions and restarts do.    *)
(* A run left in the crash window is not counted, and a row that a retry   *)
(* recalled by naming 'running' is on its own: the code runs it twice.     *)
THEOREM MoneyGuard == ASSUME RequestsApart PROVE Spec => []NeverRunTwice
<1>1. TypeOK /\ RowsInv /\ MixKept => NeverRunTwice
  BY RowsImply
<1> QED
  BY <1>1, RowsAlways, TypeCorrect, PTL

(* A row in flight is held from both ends for its whole life, through      *)
(* crashes, deletions and reconciles: whoever settles it exists, and its   *)
(* run keeps its slot of the budget and its cancel function.               *)
THEOREM HeldFromBothEnds == ASSUME RequestsApart, NoRetries PROVE Spec => []RunsAreHeld
<1>1. TypeOK /\ RowsInv /\ MixKept => RunsAreHeld
  BY RowsImply DEF RunsAreHeld, NoRetries, TypeOK
<1> QED
  BY <1>1, RowsAlways, TypeCorrect, PTL

-----------------------------------------------------------------------------
(***************************************************************************)
(* Expired jobs.  A job expires while it is queued, so its rows must not   *)
(* have begun while it is; without retries they have not.                  *)
(***************************************************************************)

(* Rows are not retried in jobs with a preset window, whose sweep takes a  *)
(* retried job for one that never began (section 5 of the README).         *)
NoRetriedWindows == \A m \in OpMixes : ~("retry" \in m /\ "before" \in m)

Young == {"absent", "queued", "expired"}
Untouched(i) ==
  /\ posts[i] = 0 /\ ref[i] = "none" /\ ~started[i] /\ ~Asked(i)
  /\ \A s \in Slots : Pc(i, s) = "idle"
  /\ itemS[i] \in {"absent", "queued", "cancelled", "running"}
  /\ itemS[i] = "absent" => jobS[JobOf[i]] = "absent"
  /\ itemS[i] = "running" => jobS[JobOf[i]] = "queued" /\ (cur = i \/ Early)
  /\ cur = i => muPc = "markJob"
Unbegun(i) == "retry" \notin ops /\ jobS[JobOf[i]] \in Young => Untouched(i)

NoWindow ==
  "before" \notin ops =>
    /\ \A j \in Jobs : window[j] \in {"asap", "later"} /\ jobS[j] # "expired"
    /\ \A t \in tasks : t.kind # "setBefore"

ExpiryInv == NoWindow /\ \A i \in Items : Unbegun(i)

(* Between the two marks the lock holder does nothing else. *)
LEMMA MarkHolds ==
  ASSUME TypeOK, [Next]_vars, muPc = "markJob", ~MarkJobRunning, ~Crash
  PROVE  muPc' = muPc
<1> USE DEF jobVars, rowVars, ctxVars, lockVars, bounds, persisted, memory
<1>1. ~TickBegin /\ ~TimerTick /\ ~Scheduler /\ \A t \in tasks : ~FinalizeJob(t)
  BY DEF TickBegin, TimerTick, ReadPlan, Scheduler, MarkItemRunning, StartItem, AdmitDone,
         SweepFinalize, FinishJob, FinalizeJob
<1>2. CASE UNCHANGED vars \/ Resume
  BY <1>2 DEF vars, Resume, ResumeReconcile, ResumeStuck, ResumeReset, ResumeFinalize
<1>3. ASSUME NEW t \in tasks, RunTask(t) PROVE muPc' = muPc
  BY <1>3 DEF RunTask, WriteWindow, AbortScope, DeleteJob
<1>4. ASSUME NEW r \in Runs, Run(r) \/ Panic(r) PROVE muPc' = muPc
  BY <1>4 DEF Run, Accept, StreamOpen, SaveRef, Return, PersistOutcome, Panic, NoProvider, Cleanup
<1>5. ASSUME NEW j \in Jobs,
             \/ \E how \in SubmitKinds : CreateJob(j, how)
             \/ CancelJob(j) \/ DeleteRequest(j) \/ TimePasses(j)
             \/ \E k \in {"setAsap", "setLater"} : Reschedule(j, k)
             \/ \E p \in Prios : Reprioritize(j, p)
             \/ \E sts \in RetrySets : Retry(j, sts)
      PROVE muPc' = muPc
  BY <1>5 DEF CreateJob, CancelJob, DeleteRequest, TimePasses, Reschedule, Reprioritize, Retry
<1>6. ASSUME NEW i \in Items,
             \/ CancelItem(i) \/ ReconcileBegin(i) \/ ReconcileGiveUp(i)
             \/ \E out \in Outcomes : ReconcileAnswer(i, out) \/ ResumeAnswer(i, out)
      PROVE muPc' = muPc
  BY <1>6 DEF CancelItem, ReconcileBegin, ReconcileGiveUp, ReconcileAnswer, ResumeAnswer
<1> QED
  BY <1>1, <1>2, <1>3, <1>4, <1>5, <1>6 DEF Next

(* A step that leaves an untouched row and its job alone. *)
LEMMA UntouchedKept ==
  ASSUME NEW i \in Items, Untouched(i), SameRow(i),
         jobS'[JobOf[i]] = jobS[JobOf[i]] \/ itemS[i] \notin {"absent", "running"},
         cur = i => muPc' = muPc
  PROVE  Untouched(i)'
<1>1. ~Asked(i)' /\ (Early' <=> Early)
  BY DEF Untouched, SameRow, Asked, Early
<1>2. \A s \in Slots : Pc(i, s)' = "idle"
  BY DEF Untouched, SameRow
<1> QED
  BY <1>1, <1>2 DEF Untouched, SameRow

(* A row that has not begun is left alone by the runs, the answers and the *)
(* requests about other rows.                                              *)
LEMMA OtherRowsSame ==
  ASSUME RequestsApart, TypeOK, RowsInv, NEW i \in Items, Untouched(i),
         \/ \E r \in Runs : Run(r) \/ Panic(r)
         \/ \E k \in Items : \/ ReconcileBegin(k)
                             \/ \E out \in Outcomes : ReconcileAnswer(k, out) \/ ResumeAnswer(k, out)
  PROVE  SameRow(i)
<1> USE DEF jobVars, rowVars, ctxVars, lockVars, bounds, persisted
<1>1. ASSUME NEW r \in Runs, Run(r) \/ Panic(r) PROVE SameRow(i)
  <2>1. PICK k \in Items, s \in Slots : r = <<k, s>>
    BY DEF Runs
  <2>2. OwnRow(k, s) /\ Steps(k, s)
    BY <1>1, <2>1, RunSteps
  <2>3. k # i
    BY <2>2 DEF Steps, Untouched, LivePcs
  <2> QED
    BY <2>2, <2>3 DEF OwnRow, SameRow
<1>2. ASSUME NEW k \in Items, ReconcileBegin(k) PROVE SameRow(i)
  <2>1. k # i
    BY <1>2 DEF ReconcileBegin, Untouched
  <2>2. UNCHANGED <<jobS, itemS, ref, started, posts, wk, rs, cur, itemCancels, boot, ops>> /\ rc'[i] = rc[i]
    BY <1>2, <2>1 DEF ReconcileBegin, TypeOK
  <2> QED
    BY <2>2 DEF SameRow, Pc
<1>3. ASSUME NEW k \in Items, NEW out \in Outcomes, ReconcileAnswer(k, out) \/ ResumeAnswer(k, out)
      PROVE  SameRow(i)
  <2>1. k # i /\ itemS' = FinishRow(k, out)
    BY <1>3 DEF ReconcileAnswer, ResumeAnswer, Untouched, Asked
  <2>2. UNCHANGED <<jobS, ref, started, posts, wk, cur, itemCancels, boot, ops>>
    BY <1>3 DEF ReconcileAnswer, ResumeAnswer
  <2>3. itemS'[i] = itemS[i] /\ rs'[i] = rs[i] /\ (rc'[i] => rc[i])
    BY <1>3, <2>1 DEF ReconcileAnswer, ResumeAnswer, FinishRow, TypeOK
  <2> QED
    BY <2>2, <2>3 DEF SameRow, Pc
<1> QED
  BY <1>1, <1>2, <1>3

(* Without retries no step makes a row of a young job begin: the cases are *)
(* the tick that marks and starts it, its own requests and the start-up.   *)
LEMMA UnbegunNext ==
  ASSUME RequestsApart, TypeOK, RowsInv, StartUpAlone, MixKept, PlanOpen, [Next]_vars,
         NEW i \in Items, Unbegun(i)
  PROVE  Unbegun(i)'
<1> USE DEF jobVars, rowVars, ctxVars, lockVars, bounds, persisted, memory
<1> DEFINE j == JobOf[i]
<1> SUFFICES ASSUME "retry" \notin ops', jobS'[j] \in Young PROVE Untouched(i)'
  BY DEF Unbegun
<1>0. j \in Jobs /\ None \notin Items
  BY QueueAssumption DEF None
<1>1. "retry" \notin ops /\ \A m \in Jobs, sts \in RetrySets : ~Retry(m, sts)
  BY BootMoves DEF Retry
<1> HIDE DEF j
<1>2. /\ jobS'[j] = jobS[j] \/ (\E how \in SubmitKinds : CreateJob(j, how))
         \/ (jobS[j] = "queued" /\ (TickBegin \/ TimerTick))
      /\ jobS[j] \in Young
  <2>1. CASE \E how \in SubmitKinds : CreateJob(j, how)
    BY <2>1 DEF CreateJob, Young
  <2>2. CASE \A how \in SubmitKinds : ~CreateJob(j, how)
    BY <1>0, <1>1, <2>2, OnlyTheseClose DEF Young, ClosedJob
  <2> QED
    BY <2>1, <2>2
<1>3. Untouched(i) /\ RowInv(i)
  BY <1>1, <1>2 DEF Unbegun, RowsInv, MixKept, j
<1>4. cur = i => itemS[i] = "running" /\ jobS[j] = "queued" /\ muPc = "markJob"
  BY <1>3 DEF Untouched, RowInv, FreshRow, j
<1>5. ASSUME SameRow(i), jobS'[j] = jobS[j] \/ itemS[i] \notin {"absent", "running"}, ~MarkJobRunning, ~Crash
      PROVE  Untouched(i)'
  <2>1. cur = i => muPc' = muPc
    BY <1>4, <1>5, MarkHolds
  <2> QED
    BY <1>3, <1>5, <2>1, UntouchedKept DEF j
<1>6. CASE TickBegin \/ TimerTick
  <2>1. SameRow(i)
    BY <1>6, QuietSteps
  <2>2. ~Early /\ cur # i /\ ~MarkJobRunning /\ ~Crash
    <3>1. muPc = "free" /\ (boot = "up" \/ TickTask \in tasks)
      BY <1>6 DEF TickBegin, TimerTick, ReadPlan
    <3>2. ~Early
      BY <3>1 DEF StartUpAlone, Early
    <3>3. boot' = boot
      BY <1>6 DEF TickBegin, TimerTick, ReadPlan
    <3>4. ~Crash
      BY <3>2, <3>3 DEF Crash, Early
    <3> QED
      BY <1>4, <3>1, <3>2, <3>4 DEF MarkJobRunning
  <2>3. itemS[i] # "running"
    BY <1>3, <2>2 DEF Untouched
  <2>4. jobS[j] = "absent" => jobS'[j] = jobS[j]
    BY <1>0, <1>6 DEF TickBegin, TimerTick, ReadPlan, SweptJobS, Overran
  <2>5. itemS[i] = "absent" => jobS[j] = "absent"
    BY <1>3 DEF Untouched, j
  <2> QED
    BY <1>5, <2>1, <2>2, <2>3, <2>4, <2>5
<1>7. CASE MarkJobRunning
  <2>1. SameRow(i)
    BY <1>7, QuietSteps
  <2>2. cur \in Items /\ JobOf[cur] \in Jobs /\ muPc = "markJob"
        /\ jobS' = [jobS EXCEPT ![JobOf[cur]] = IF jobS[JobOf[cur]] = "queued" THEN "running" ELSE jobS[JobOf[cur]]]
    BY <1>7, QueueAssumption DEF MarkJobRunning, TypeOK
  <2>3. cur # i
    BY <1>0, <1>4, <2>2 DEF Young, TypeOK, j
  <2>4. jobS'[j] = jobS[j]
    BY <1>0, <2>2 DEF Young, TypeOK
  <2> QED
    BY <1>3, <2>1, <2>3, <2>4, UntouchedKept DEF j
<1>8. CASE MarkItemRunning
  <2>1. PICK k \in plan :
          \/ itemS[k] = "queued" /\ itemS' = [itemS EXCEPT ![k] = "running"] /\ cur' = k /\ muPc' = "markJob"
          \/ UNCHANGED <<itemS, cur, muPc>>
    BY <1>8 DEF MarkItemRunning
  <2>2. /\ UNCHANGED <<jobS, ref, started, posts, wk, rs, rc, itemCancels, boot, ops>>
        /\ muPc = "admit" /\ cur = None /\ k \in Items /\ ~Early
    BY <1>8 DEF MarkItemRunning, StartUpAlone, TypeOK
  <2>3. ~MarkJobRunning /\ ~Crash
    BY <2>2 DEF MarkJobRunning, Crash, Early
  <2>4. CASE UNCHANGED <<itemS, cur, muPc>> \/ i # k
    <3>1. SameRow(i)
      BY <1>0, <2>1, <2>2, <2>4 DEF SameRow, Pc, TypeOK
    <3> QED
      BY <1>5, <2>2, <2>3, <3>1
  <2>5. CASE itemS[k] = "queued" /\ itemS' = [itemS EXCEPT ![k] = "running"] /\ cur' = k /\ muPc' = "markJob" /\ i = k
    <3>1. jobS[j] = "queued"
      BY <1>2, <1>3, <2>2, <2>5, <1>0 DEF PlanOpen, ClosedJob, Young, RowInv, FreshRow, j
    <3>2. \A s \in Slots : Pc(i, s)' = "idle"
      BY <1>3, <2>2 DEF Untouched, Pc
    <3>3. itemS'[i] = "running" /\ ~Asked(i)'
      BY <1>3, <2>2, <2>5 DEF Untouched, Asked, TypeOK
    <3> QED
      BY <1>3, <2>2, <2>5, <3>1, <3>2, <3>3 DEF Untouched, j
  <2> QED
    BY <2>1, <2>4, <2>5
<1>9. CASE StartItem
  <2>1. PICK s \in Slots :
          /\ itemCancels' = StoreCancel(cur, s)
          /\ wk' = [wk EXCEPT ![<<cur, s>>] =
               [IdleRun EXCEPT !.pc = "go", !.dead = scope[JobOf[cur]] = "dead"]]
    BY <1>9 DEF StartItem
  <2>2. /\ UNCHANGED <<jobS, itemS, ref, started, posts, rs, rc, boot, ops>>
        /\ muPc = "start" /\ cur' = None /\ cur \in Items /\ ~Early
    BY <1>9 DEF StartItem, StartUpAlone, TypeOK
  <2>3. ~MarkJobRunning /\ ~Crash /\ cur # i
    BY <1>4, <2>2 DEF MarkJobRunning, Crash, Early
  <2> PICK c \in Items : cur = c
    BY <2>2
  <2>4. \A t \in Slots : Pc(i, t)' = Pc(i, t)
    <3> DEFINE w == [IdleRun EXCEPT !.pc = "go", !.dead = scope[JobOf[cur]] = "dead"]
    <3>1. wk' = [wk EXCEPT ![<<c, s>>] = w] /\ c # i
      BY <2>1, <2>3
    <3> HIDE DEF w
    <3> QED
      BY <3>1, PcMoves
  <2>5. itemCancels'[i] = itemCancels[i]
    BY <2>1, <2>3 DEF StoreCancel, TypeOK
  <2>6. SameRow(i)
    BY <1>0, <2>2, <2>3, <2>4, <2>5 DEF SameRow
  <2> QED
    BY <1>5, <2>2, <2>3, <2>6
<1>10. CASE \E how \in SubmitKinds : CreateJob(j, how)
  <2>1. /\ UNCHANGED <<ref, started, posts, wk, rs, rc, cur, boot, ops, muPc>>
        /\ jobS[j] = "absent" /\ jobS'[j] = "queued" /\ itemS'[i] = "queued"
    BY <1>0, <1>10 DEF CreateJob, TypeOK, j
  <2>2. \A s \in Slots : Pc(i, s)' = "idle"
    BY <1>3, <2>1 DEF Untouched, Pc
  <2> QED
    BY <1>3, <1>4, <2>1, <2>2 DEF Untouched, Asked, j
<1>11. ASSUME NEW m \in Jobs, m # j, NEW how \in SubmitKinds, CreateJob(m, how) PROVE Untouched(i)'
  <2>1. /\ UNCHANGED <<ref, started, posts, wk, rs, rc, cur, boot, ops, muPc, itemCancels>>
        /\ jobS'[j] = jobS[j] /\ itemS'[i] = itemS[i]
    BY <1>0, <1>11 DEF CreateJob, TypeOK, j
  <2>2. SameRow(i)
    BY <2>1 DEF SameRow, Pc, j
  <2> QED
    BY <1>3, <2>1, <2>2, UntouchedKept DEF j
<1>12. ASSUME NEW k \in Items, CancelItem(k) PROVE Untouched(i)'
  <2>1. UNCHANGED <<jobS, ref, started, posts, rs, rc, cur, itemCancels, boot, ops, muPc>>
    BY <1>12 DEF CancelItem
  <2>2. \A s \in Slots : Pc(i, s)' = Pc(i, s)
    BY <1>12, CancelPcs
  <2>3. itemS'[i] = itemS[i] \/ (itemS[i] = "queued" /\ itemS'[i] = "cancelled")
    BY <1>12 DEF CancelItem, TypeOK
  <2> QED
    BY <1>3, <1>4, <2>1, <2>2, <2>3 DEF Untouched, Asked, Early
<1>13. ASSUME NEW t \in tasks, DeleteJob(t) PROVE Untouched(i)'
  <2>1. UNCHANGED <<ref, started, posts, wk, rs, rc, cur, itemCancels, boot, ops, muPc>>
    BY <1>13 DEF DeleteJob
  <2>2. t.job # j /\ jobS'[j] = jobS[j] /\ itemS'[i] = itemS[i]
    BY <1>0, <1>13 DEF DeleteJob, TypeOK, Young, j
  <2>3. SameRow(i)
    BY <2>1, <2>2 DEF SameRow, Pc, j
  <2> QED
    BY <1>3, <2>1, <2>2, <2>3, UntouchedKept DEF j
<1>14. CASE Crash
  <2>1. IdleRun.pc = "idle" /\ IdleRes.pc = "idle"
    BY DEF IdleRun, IdleRes
  <2>2. /\ UNCHANGED <<jobS, itemS, started, ref, ops>> /\ cur' = None /\ boot' = "reconcile"
        /\ rs'[i].pc = "idle" /\ ~rc'[i] /\ posts'[i] = 0
    BY <1>3, <1>14, <2>1 DEF Crash, Untouched
  <2>3. \A s \in Slots : Pc(i, s)' = "idle"
    BY <1>14, <2>1 DEF Crash, Pc, Runs
  <2>4. ~Asked(i)' /\ Early' /\ cur' # i
    BY <1>0, <2>2 DEF Asked, Early
  <2> QED
    BY <1>3, <2>2, <2>3, <2>4 DEF Untouched
<1>15. CASE Resume
  <2>0. ~Reconcilable(i) /\ ~Unreconcilable(i) /\ (itemS[i] = "running" => NoEvidence(i))
    BY <1>3 DEF Untouched, Reconcilable, Unreconcilable, NoEvidence
  <2>1. /\ UNCHANGED <<jobS, ref, started, posts, wk, rc, cur, ops, muPc>>
        /\ rs'[i] = rs[i]
        /\ boot' = "up" => boot = "tick" /\ itemS' = itemS
        /\ boot' = "tick" => itemS'[i] = (IF NoEvidence(i) THEN "queued" ELSE itemS[i])
        /\ Early' => itemS'[i] = itemS[i]
        /\ Early' \/ boot' \in {"up", "tick"}
    BY <1>15, <2>0 DEF Resume, ResumeReconcile, ResumeStuck, ResumeReset, ResumeFinalize, Early, TypeOK
  <2>2. \A s \in Slots : Pc(i, s)' = "idle"
    BY <1>3, <2>1 DEF Untouched, Pc
  <2>3. ~Asked(i)'
    BY <1>3, <2>1 DEF Untouched, Asked
  <2>4. boot' = "up" => (itemS'[i] = "running" => cur = i)
    BY <1>3, <2>1 DEF Untouched, Early
  <2> QED
    BY <1>3, <1>4, <2>0, <2>1, <2>2, <2>3, <2>4 DEF Untouched, j, NoEvidence
<1>16. ASSUME \/ \E r \in Runs : Run(r) \/ Panic(r)
              \/ \E k \in Items : \/ ReconcileBegin(k)
                                  \/ \E out \in Outcomes : ReconcileAnswer(k, out) \/ ResumeAnswer(k, out)
       PROVE  Untouched(i)'
  <2>1. SameRow(i)
    BY <1>3, <1>16, OtherRowsSame
  <2>2. UNCHANGED <<jobS, muPc>>
    <3>1. ASSUME NEW r \in Runs, Run(r) \/ Panic(r) PROVE UNCHANGED <<jobS, muPc>>
      BY <3>1, RunsKeepJobs
    <3>2. ASSUME NEW k \in Items, ReconcileBegin(k) \/ \E out \in Outcomes : ReconcileAnswer(k, out) \/ ResumeAnswer(k, out)
          PROVE  UNCHANGED <<jobS, muPc>>
      BY <3>2 DEF ReconcileBegin, ReconcileAnswer, ResumeAnswer
    <3> QED
      BY <1>16, <3>1, <3>2
  <2> QED
    BY <1>3, <2>1, <2>2, UntouchedKept
<1>17. ASSUME \/ UNCHANGED vars \/ AdmitDone \/ SweepFinalize \/ FinishJob
              \/ \E t \in tasks : (\E o \in Overruns : WriteWindow(t, o)) \/ AbortScope(t) \/ FinalizeJob(t)
              \/ \E m \in Jobs : \/ CancelJob(m) \/ DeleteRequest(m) \/ TimePasses(m)
                                 \/ \E k \in {"setAsap", "setLater"} : Reschedule(m, k)
                                 \/ \E p \in Prios : Reprioritize(m, p)
              \/ \E k \in Items : ReconcileGiveUp(k),
              ~TickBegin, ~TimerTick, ~MarkJobRunning, ~Crash,
              \A how \in SubmitKinds : ~CreateJob(j, how)
       PROVE  Untouched(i)'
  <2>1. SameRow(i)
    BY <1>17, QuietSteps
  <2> QED
    BY <1>2, <1>5, <1>17, <2>1
<1> QED
  BY <1>1, <1>6, <1>7, <1>8, <1>9, <1>10, <1>11, <1>12, <1>13, <1>14, <1>15, <1>16, <1>17
     DEF Next, Scheduler, RunTask

(* Without a preset window no job has one, so none expires. *)
LEMMA NoWindowNext ==
  ASSUME TypeOK, NoWindow, [Next]_vars PROVE NoWindow'
<1> USE DEF jobVars, rowVars, ctxVars, lockVars, bounds, persisted, memory
<1>1. ops' = ops
  BY BootMoves
<1> SUFFICES ASSUME "before" \notin ops
             PROVE  /\ \A j \in Jobs : window'[j] \in {"asap", "later"} /\ jobS'[j] # "expired"
                    /\ \A t \in tasks' : t.kind # "setBefore"
  BY <1>1 DEF NoWindow
<1>2. /\ \A j \in Jobs : window[j] \in {"asap", "later"} /\ jobS[j] # "expired"
      /\ \A t \in tasks : t.kind # "setBefore"
  BY DEF NoWindow
<1>3. \A j \in Jobs : jobS'[j] # "expired"
  <2> SUFFICES ASSUME NEW j \in Jobs, jobS'[j] = "expired" PROVE FALSE
    OBVIOUS
  <2>1. jobS[j] = "queued" /\ (TickBegin \/ TimerTick)
    BY <1>2, OnlyTheseClose DEF ClosedJob
  <2> QED
    BY <1>2, <2>1 DEF TickBegin, TimerTick, ReadPlan, SweptJobS, Overran
<1>4. \A j \in Jobs : window'[j] \in {"asap", "later"}
  <2>1. CASE UNCHANGED window
    BY <1>2, <2>1
  <2>2. CASE TickBegin \/ TimerTick
    BY <1>2, <2>2 DEF TickBegin, TimerTick, ReadPlan, SweptWindow, Overran
  <2>3. ASSUME NEW t \in tasks, NEW o \in Overruns, WriteWindow(t, o)
        PROVE  \A j \in Jobs : window'[j] \in {"asap", "later"}
    BY <1>2, <2>3 DEF WriteWindow, TypeOK
  <2>4. ASSUME NEW m \in Jobs, TimePasses(m) PROVE \A j \in Jobs : window'[j] \in {"asap", "later"}
    BY <1>2, <2>4 DEF TimePasses, TypeOK
  <2>5. ASSUME ~TickBegin, ~TimerTick, \A t \in tasks, o \in Overruns : ~WriteWindow(t, o),
               \A m \in Jobs : ~TimePasses(m)
        PROVE  UNCHANGED window
    BY <2>5, OnlyTheseMoveWindows
  <2> QED
    BY <2>1, <2>2, <2>3, <2>4, <2>5
<1>5. \A t \in tasks' : t.kind # "setBefore"
  <2> DEFINE Fine == \A t \in tasks' : t.kind # "setBefore"
  <2>0. \A j : Task("abort", j).kind = "abort" /\ Task("finalize", j).kind = "finalize"
               /\ Task("afterItem", j).kind = "afterItem" /\ Task("delete", j).kind = "delete"
               /\ Task("setAsap", j).kind = "setAsap" /\ Task("setLater", j).kind = "setLater"
               /\ TickTask.kind = "tick"
    BY DEF Task, TickTask
  <2>1. CASE tasks' \subseteq tasks
    BY <1>2, <2>1
  <2>2. ASSUME NEW j \in Jobs, NEW how \in SubmitKinds, CreateJob(j, how) PROVE Fine
    <3>1. how \in {"asap", "later"}
      BY <2>2 DEF CreateJob, SubmitKinds
    <3> QED
      BY <1>2, <2>0, <2>2, <3>1 DEF CreateJob
  <2>3. ASSUME NEW t \in tasks, RunTask(t) \/ FinalizeJob(t) PROVE Fine
    BY <1>2, <2>0, <2>3 DEF RunTask, WriteWindow, AbortScope, DeleteJob, FinalizeJob
  <2>4. ASSUME NEW j \in Jobs,
               \/ CancelJob(j) \/ DeleteRequest(j) \/ TimePasses(j)
               \/ \E k \in {"setAsap", "setLater"} : Reschedule(j, k)
               \/ \E p \in Prios : Reprioritize(j, p)
               \/ \E sts \in RetrySets : Retry(j, sts)
        PROVE Fine
    <3>1. CASE \E sts \in RetrySets : Retry(j, sts)
      BY <1>2, <2>0, <3>1 DEF Retry
    <3>2. CASE CancelJob(j) \/ DeleteRequest(j) \/ TimePasses(j)
      BY <1>2, <2>0, <3>2 DEF CancelJob, DeleteRequest, TimePasses
    <3>3. CASE (\E k \in {"setAsap", "setLater"} : Reschedule(j, k)) \/ \E p \in Prios : Reprioritize(j, p)
      BY <1>2, <2>0, <3>3 DEF Reschedule, Reprioritize
    <3> QED
      BY <2>4, <3>1, <3>2, <3>3
  <2>5. ASSUME NEW i \in Items,
               \/ CancelItem(i) \/ ReconcileBegin(i) \/ ReconcileGiveUp(i)
               \/ \E out \in Outcomes : ReconcileAnswer(i, out) \/ ResumeAnswer(i, out)
        PROVE Fine
    <3>1. tasks' \subseteq tasks \cup {Task("finalize", JobOf[i]), Task("afterItem", JobOf[i])}
      <4>1. CASE CancelItem(i)
        BY <4>1 DEF CancelItem
      <4>2. CASE ReconcileBegin(i) \/ ReconcileGiveUp(i)
        BY <4>2 DEF ReconcileBegin, ReconcileGiveUp
      <4>3. CASE \E out \in Outcomes : ReconcileAnswer(i, out) \/ ResumeAnswer(i, out)
        BY <4>3 DEF ReconcileAnswer, ResumeAnswer
      <4> QED
        BY <2>5, <4>1, <4>2, <4>3
    <3> QED
      BY <1>2, <2>0, <3>1
  <2>6. ASSUME NEW r \in Runs, Run(r) \/ Panic(r) PROVE Fine
    <3>1. tasks' \subseteq tasks \cup {Task("afterItem", JobOf[r[1]])}
      <4>1. CASE Cleanup(r)
        BY <4>1 DEF Cleanup
      <4>2. CASE ~Cleanup(r)
        BY <2>6, <4>2 DEF Run, Accept, StreamOpen, SaveRef, Return, PersistOutcome, Panic, NoProvider
      <4> QED
        BY <4>1, <4>2
    <3> QED
      BY <1>2, <2>0, <3>1
  <2>7. CASE UNCHANGED vars \/ TickBegin \/ TimerTick \/ Scheduler \/ Crash
    BY <2>1, <2>7
       DEF vars, TickBegin, TimerTick, Scheduler, MarkItemRunning, MarkJobRunning, StartItem,
           AdmitDone, SweepFinalize, FinishJob, Crash
  <2>8. CASE Resume
    BY <1>2, <2>0, <2>8 DEF Resume, ResumeReconcile, ResumeStuck, ResumeReset, ResumeFinalize
  <2> QED
    BY <2>2, <2>3, <2>4, <2>5, <2>6, <2>7, <2>8 DEF Next
<1> QED
  BY <1>3, <1>4, <1>5

(* One goroutine at a time runs a row that no retry recalled in flight,    *)
(* and none does if its job expired:                                       *)
(* the sweep takes a job only while not one of its rows has begun.         *)
THEOREM OnceOrNever == ASSUME RequestsApart, NoRetriedWindows PROVE Spec => []RunOnceOrNever
<1>1. Init => ExpiryInv /\ PlanOpen
  <2> SUFFICES ASSUME Init PROVE ExpiryInv /\ PlanOpen
    OBVIOUS
  <2>1. IdleRun.pc = "idle" /\ IdleRes.pc = "idle" /\ None \notin Items
    BY QueueAssumption DEF IdleRun, IdleRes, None
  <2>2. ASSUME NEW i \in Items PROVE Untouched(i)
    <3>1. \A s \in Slots : Pc(i, s) = "idle"
      BY <2>1 DEF Init, Pc, Runs
    <3>2. JobOf[i] \in Jobs
      BY QueueAssumption
    <3> QED
      BY <2>1, <3>1, <3>2 DEF Init, Untouched, Asked
  <2>3. NoWindow /\ PlanOpen
    BY DEF Init, NoWindow, PlanOpen
  <2> QED
    BY <2>2, <2>3 DEF ExpiryInv, Unbegun
<1>2. TypeOK /\ (RowsInv /\ StartUpAlone /\ MixKept) /\ (ExpiryInv /\ PlanOpen) /\ [Next]_vars => (ExpiryInv /\ PlanOpen)'
  BY UnbegunNext, NoWindowNext, PlanOpenNext DEF ExpiryInv
<1>3. TypeOK /\ (RowsInv /\ StartUpAlone /\ MixKept) /\ (ExpiryInv /\ PlanOpen) => RunOnceOrNever
  <2> SUFFICES ASSUME TypeOK, RowsInv, StartUpAlone, MixKept, ExpiryInv, NEW j \in Jobs, jobS[j] = "expired", NEW i \in Rows(j)
               PROVE  posts[i] = 0 /\ itemS[i] \in {"queued", "cancelled"}
    BY RowsImply DEF RunOnceOrNever, ExpiredNeverRan
  <2>1. "before" \in ops /\ i \in Items /\ JobOf[i] = j
    BY DEF ExpiryInv, NoWindow, Rows
  <2>2. "retry" \notin ops
    BY <2>1 DEF NoRetriedWindows, TypeOK
  <2> QED
    BY <2>1, <2>2 DEF ExpiryInv, Unbegun, Untouched, Young
<1> QED
  BY <1>1, <1>2, <1>3, RowsAlways, TypeCorrect, PTL DEF Spec

-----------------------------------------------------------------------------
(* The decision of queue.Admit. *)

(* What queue.Admit is given: waiting runs by id, a score and a flag each. *)
Ranked(waiting, score, urgent) ==
  /\ waiting \subseteq Int /\ IsFiniteSet(waiting)
  /\ \A x \in waiting : score[x] \in Int /\ urgent[x] \in BOOLEAN

(* The runs that are dequeued before x. *)
Before(x, waiting, score) == {y \in waiting : y # x /\ Outranks(y, x, score)}

(* Outranking is a strict total order. *)
LEMMA RankOrder ==
  ASSUME NEW W, NEW s, NEW u, Ranked(W, s, u)
  PROVE  /\ \A x \in W : ~Outranks(x, x, s)
         /\ \A x, y \in W : x # y => Outranks(x, y, s) \/ Outranks(y, x, s)
         /\ \A x, y \in W : ~(Outranks(x, y, s) /\ Outranks(y, x, s))
         /\ \A x, y, z \in W : Outranks(x, y, s) /\ Outranks(y, z, s) => Outranks(x, z, s)
<1>1. \A x \in W : x \in Int /\ s[x] \in Int
  BY DEF Ranked
<1> QED
  BY <1>1 DEF Outranks

(* The position of a run in the queue. *)
LEMMA AheadIs ==
  ASSUME NEW W, NEW s, NEW u, Ranked(W, s, u)
  PROVE  /\ Cardinality(W) \in Nat
         /\ \A x \in W : Ahead(x, W, s) \in Nat /\ Ahead(x, W, s) < Cardinality(W)
         /\ \A x, y \in W : Outranks(x, y, s) <=> Ahead(x, W, s) < Ahead(y, W, s)
         /\ \A x, y \in W : Ahead(x, W, s) = Ahead(y, W, s) => x = y
<1> DEFINE B(x) == Before(x, W, s)
<1>1. IsFiniteSet(W) /\ Cardinality(W) \in Nat
  BY FS_CardinalityType DEF Ranked
<1>2. \A x \in W : IsFiniteSet(B(x)) /\ Cardinality(B(x)) \in Nat
  <2> TAKE x \in W
  <2>1. B(x) \in SUBSET W
    BY DEF Before
  <2> HIDE DEF B
  <2>2. IsFiniteSet(B(x))
    BY <1>1, <2>1, FS_Subset
  <2> QED
    BY <2>2, FS_CardinalityType
<1>3. \A x \in W : Ahead(x, W, s) = Cardinality(B(x))
  BY DEF Ahead, Before
<1>4. ASSUME NEW x \in W PROVE Cardinality(B(x)) < Cardinality(W)
  <2>1. B(x) \in SUBSET (W \ {x})
    BY DEF Before
  <2>2. IsFiniteSet(W \ {x}) /\ Cardinality(W \ {x}) = Cardinality(W) - 1
    BY <1>1, OneLess
  <2> HIDE DEF B
  <2>3. Cardinality(B(x)) <= Cardinality(W \ {x})
    BY <2>1, <2>2, FS_Subset
  <2> QED
    BY <1>1, <1>2, <2>2, <2>3
<1>5. ASSUME NEW x \in W, NEW y \in W, Outranks(x, y, s) PROVE Cardinality(B(x)) < Cardinality(B(y))
  <2>1. B(x) \cup {x} \in SUBSET B(y) /\ x \notin B(x)
    <3>1. x # y
      BY <1>5, RankOrder
    <3>2. \A z \in B(x) : z \in W /\ z # y /\ Outranks(z, y, s)
      BY <1>5, RankOrder DEF Before
    <3> QED
      BY <1>5, <3>1, <3>2 DEF Before
  <2> HIDE DEF B
  <2>2. Cardinality(B(x) \cup {x}) = Cardinality(B(x)) + 1
    BY <1>2, <2>1, FS_AddElement
  <2>3. Cardinality(B(x) \cup {x}) <= Cardinality(B(y))
    BY <1>2, <2>1, FS_Subset
  <2> QED
    BY <1>2, <2>2, <2>3
<1> HIDE DEF B
<1>6. ASSUME NEW x \in W, NEW y \in W
      PROVE  /\ Outranks(x, y, s) <=> Ahead(x, W, s) < Ahead(y, W, s)
             /\ Ahead(x, W, s) = Ahead(y, W, s) => x = y
  <2>1. Ahead(x, W, s) \in Nat /\ Ahead(y, W, s) \in Nat
    BY <1>2, <1>3
  <2>2. Outranks(x, y, s) => Ahead(x, W, s) < Ahead(y, W, s)
    BY <1>3, <1>5
  <2>3. Outranks(y, x, s) => Ahead(y, W, s) < Ahead(x, W, s)
    BY <1>3, <1>5
  <2>4. x = y \/ Outranks(x, y, s) \/ Outranks(y, x, s)
    BY RankOrder
  <2> QED
    BY <2>1, <2>2, <2>3, <2>4
<1> QED
  BY <1>1, <1>2, <1>3, <1>4, <1>6

(* byScore puts every run at one position. *)
LEMMA EveryPosition ==
  ASSUME NEW W, NEW s, NEW u, Ranked(W, s, u), NEW k \in 1..Cardinality(W)
  PROVE  \E x \in W : Ahead(x, W, s) = k - 1
<1> DEFINE n == Cardinality(W)
           P == 0..n - 1
           f == [x \in W |-> Ahead(x, W, s)]
<1>1. IsFiniteSet(W) /\ n \in Nat /\ n > 0
  <2>1. IsFiniteSet(W)
    BY DEF Ranked
  <2>2. n \in Nat
    BY AheadIs
  <2> QED
    BY <2>1, <2>2
<1>2. IsFiniteSet(P) /\ Cardinality(P) = n
  <2>1. 0 \in Int /\ n - 1 \in Int /\ ~(0 > n - 1)
    BY <1>1
  <2> QED
    BY <1>1, <2>1, FS_Interval
<1>3. \A x \in W : Ahead(x, W, s) \in P
  BY <1>1, AheadIs
<1>4. f \in Injection(W, P)
  BY <1>3, AheadIs DEF Injection, IsInjective
<1>5. k - 1 \in P
  BY <1>1
<1> HIDE DEF f, P
<1>6. f \in Surjection(W, P)
  BY <1>1, <1>2, <1>4, FS_Injection
<1>7. \E x \in W : f[x] = k - 1
  BY <1>5, <1>6 DEF Surjection
<1> QED
  BY <1>7 DEF f

ByScore(W, s) == [k \in 1..Cardinality(W) |-> CHOOSE x \in W : Ahead(x, W, s) = k - 1]

LEMMA SortedIs ==
  ASSUME NEW W, NEW s, NEW u, Ranked(W, s, u), NEW k \in 1..Cardinality(W)
  PROVE  ByScore(W, s)[k] \in W /\ Ahead(ByScore(W, s)[k], W, s) = k - 1
BY EveryPosition DEF ByScore

(* At most one set is Admitted: two sets would differ in a best-ranked run *)
(* on which the runs before it decide.                                     *)
LEMMA OneDecision ==
  ASSUME NEW W, NEW s, NEW u, Ranked(W, s, u), NEW f \in Int, NEW b \in Int, NEW r \in Int,
         NEW S, NEW T, Admitted(S, W, s, u, f, b, r), Admitted(T, W, s, u, f, b, r)
  PROVE  S = T
<1> DEFINE D == {x \in W : ~(x \in S <=> x \in T)}
           A == {Ahead(x, W, s) : x \in D}
<1>1. S \subseteq W /\ T \subseteq W
  BY DEF Admitted
<1>2. SUFFICES ASSUME D # {} PROVE FALSE
  BY <1>1
<1>3. A \subseteq Nat /\ A # {}
  BY <1>2, AheadIs
<1>4. PICK a \in A : \A c \in A : a <= c
  BY <1>3, LeastNat
<1>5. PICK x \in D : a = Ahead(x, W, s)
  OBVIOUS
<1>6. \A y \in W : Outranks(y, x, s) => (y \in S <=> y \in T)
  <2> SUFFICES ASSUME NEW y \in D, Outranks(y, x, s) PROVE FALSE
    OBVIOUS
  <2>1. Ahead(y, W, s) < a /\ Ahead(y, W, s) \in A /\ Ahead(y, W, s) \in Nat /\ a \in Nat
    BY <1>3, <1>5, AheadIs
  <2> QED
    BY <1>4, <2>1
<1>7. {y \in S : Outranks(y, x, s)} = {y \in T : Outranks(y, x, s)}
  BY <1>1, <1>6
<1>8. x \in S <=> x \in T
  BY <1>7 DEF Admitted
<1> QED
  BY <1>5, <1>8
-----------------------------------------------------------------------------
(* The loop. *)
Start(W, u, free) == [out |-> {}, free |-> free, uw |-> Cardinality({x \in W : u[x]})]
Turn(a, x, u, reserve) ==
  IF Takes(u[x], a.free, a.uw, reserve)
  THEN [out  |-> a.out \cup {x},
        free |-> a.free - 1,
        uw   |-> IF u[x] THEN a.uw - 1 ELSE a.uw]
  ELSE a
IsLoop(g, W, s, u, free, reserve) ==
  g = [k \in 0..Cardinality(W) |->
         IF k = 0 THEN Start(W, u, free) ELSE Turn(g[k-1], ByScore(W, s)[k], u, reserve)]

LEMMA LoopIs ==
  ASSUME NEW W, NEW s, NEW u, NEW f, NEW b, NEW r
  PROVE  AdmitLoop(W, s, u, f, b, r)
           = IF b - f <= 0 THEN {}
             ELSE (CHOOSE g : IsLoop(g, W, s, u, b - f, Reserve(b, r)))[Cardinality(W)].out
BY DEF AdmitLoop, IsLoop, Start, Turn, ByScore

LEMMA LoopRuns ==
  ASSUME NEW W, NEW s, NEW u, NEW free, NEW reserve, Cardinality(W) \in Nat
  PROVE  \E g : IsLoop(g, W, s, u, free, reserve)
<1> DEFINE Body(g, k) == IF k = 0 THEN Start(W, u, free) ELSE Turn(g[k-1], ByScore(W, s)[k], u, reserve)
           UpTo(g, n) == g = [k \in 0..n |-> Body(g, k)]
           A == {n \in Nat : \E g : UpTo(g, n)}
<1>1. 0 \in A
  <2> DEFINE g == [k \in 0..0 |-> Start(W, u, free)]
  <2>1. \A k \in 0..0 : k = 0
    OBVIOUS
  <2>2. UpTo(g, 0)
    BY <2>1
  <2> HIDE DEF g, UpTo
  <2>3. 0 \in Nat /\ \E h : UpTo(h, 0)
    BY <2>2
  <2> QED
    BY <2>3
<1>2. ASSUME NEW n \in Nat, n \in A PROVE n + 1 \in A
  <2>1. PICK g : UpTo(g, n)
    BY <1>2
  <2> DEFINE h == [k \in 0..n + 1 |-> IF k = n + 1 THEN Body(g, n + 1) ELSE g[k]]
  <2>2. \A k \in 0..n : g[k] = Body(g, k)
    BY <2>1
  <2>3. \A k \in 0..n : k \in 0..n + 1 /\ k # n + 1 /\ h[k] = g[k]
    OBVIOUS
  <2>4. \A k \in 1..n + 1 : k - 1 \in 0..n /\ k # 0
    OBVIOUS
  <2>5. h[n + 1] = Body(g, n + 1)
    OBVIOUS
  <2>6. DOMAIN h = 0..n + 1 /\ h = [k \in 0..n + 1 |-> h[k]]
    OBVIOUS
  <2> HIDE DEF h
  <2>7. \A k \in 0..n + 1 : Body(h, k) = Body(g, k)
    <3> TAKE k \in 0..n + 1
    <3>1. k = 0 \/ k \in 1..n + 1
      OBVIOUS
    <3>2. CASE k = 0
      BY <3>2
    <3>3. CASE k \in 1..n + 1
      <4>1. h[k - 1] = g[k - 1]
        BY <2>3, <2>4, <3>3
      <4> QED
        BY <2>4, <3>3, <4>1
    <3> QED
      BY <3>1, <3>2, <3>3
  <2> HIDE DEF Body
  <2>8. \A k \in 0..n + 1 : h[k] = Body(h, k)
    <3> TAKE k \in 0..n + 1
    <3>1. k = n + 1 \/ k \in 0..n
      OBVIOUS
    <3> QED
      BY <2>2, <2>3, <2>5, <2>7, <3>1
  <2>9. UpTo(h, n + 1)
    BY <2>6, <2>8
  <2> HIDE DEF UpTo
  <2>10. n + 1 \in Nat /\ \E k : UpTo(k, n + 1)
    BY <2>9
  <2> QED
    BY <2>10
<1> HIDE DEF A
<1>3. Cardinality(W) \in A
  BY <1>1, <1>2, NatInduct
<1> QED
  BY <1>3 DEF A, IsLoop

(* What the loop holds when it has seen the first k runs: it has decided   *)
(* them as Admitted does, and while slots are left it has taken every      *)
(* urgent one of them.                                                     *)
First(k, W, s) == {x \in W : Ahead(x, W, s) < k}
UrgentFrom(k, W, s, u) == {x \in W : u[x] /\ Ahead(x, W, s) >= k}
Above(x, S, W, s) == {y \in S : Ahead(y, W, s) < Ahead(x, W, s)}
Verdict(x, S, W, s, u, free, reserve) ==
  Takes(u[x], free - Cardinality(Above(x, S, W, s)),
        Cardinality(UrgentFrom(Ahead(x, W, s) + 1, W, s, u)), reserve)
LoopState(a, k, W, s, u, free, reserve) ==
  /\ a.out \subseteq First(k, W, s)
  /\ a.free \in Nat /\ a.free = free - Cardinality(a.out)
  /\ a.free > 0 => a.uw = Cardinality(UrgentFrom(k, W, s, u))
  /\ \A x \in First(k, W, s) : x \in a.out <=> Verdict(x, a.out, W, s, u, free, reserve)

LEMMA LoopSets ==
  ASSUME NEW W, NEW s, NEW u, Ranked(W, s, u), NEW k
  PROVE  /\ First(k, W, s) \subseteq W /\ IsFiniteSet(First(k, W, s))
         /\ IsFiniteSet(UrgentFrom(k, W, s, u)) /\ Cardinality(UrgentFrom(k, W, s, u)) \in Nat
         /\ \A S \in SUBSET W : IsFiniteSet(S) /\ Cardinality(S) \in Nat
<1>1. IsFiniteSet(W)
  BY DEF Ranked
<1>2. \A S \in SUBSET W : IsFiniteSet(S) /\ Cardinality(S) \in Nat
  BY <1>1, FS_Subset, FS_CardinalityType
<1>3. First(k, W, s) \in SUBSET W /\ UrgentFrom(k, W, s, u) \in SUBSET W
  BY DEF First, UrgentFrom
<1> QED
  BY <1>2, <1>3

LEMMA TurnKeeps ==
  ASSUME NEW W, NEW s, NEW u, Ranked(W, s, u), NEW free \in Nat, NEW reserve \in Nat,
         NEW k \in 0..Cardinality(W) - 1, NEW a, LoopState(a, k, W, s, u, free, reserve),
         NEW x \in W, Ahead(x, W, s) = k
  PROVE  LoopState(Turn(a, x, u, reserve), k + 1, W, s, u, free, reserve)
<1> DEFINE ord(y) == Ahead(y, W, s)
           here == UrgentFrom(k, W, s, u)
           next == UrgentFrom(k + 1, W, s, u)
<1>1. k \in Nat /\ u[x] \in BOOLEAN
  BY AheadIs DEF Ranked
<1>2. \A y \in W : ord(y) \in Nat /\ (ord(y) < k + 1 <=> ord(y) < k \/ y = x)
  <2> TAKE y \in W
  <2>1. ord(y) \in Nat /\ (ord(y) = k => y = x)
    BY AheadIs
  <2> QED
    BY <1>1, <2>1
<1>3. First(k + 1, W, s) = First(k, W, s) \cup {x} /\ x \notin First(k, W, s)
  BY <1>1, <1>2 DEF First
<1>4. here = IF u[x] THEN next \cup {x} ELSE next
  BY <1>1, <1>2 DEF UrgentFrom
<1>5. x \notin next
  BY <1>1, <1>2 DEF UrgentFrom
<1>6. IsFiniteSet(next) /\ Cardinality(next) \in Nat /\ Cardinality(here) \in Nat
  BY LoopSets
<1> HIDE DEF here, next
<1>7. Cardinality(here) = IF u[x] THEN Cardinality(next) + 1 ELSE Cardinality(next)
  BY <1>1, <1>4, <1>5, <1>6, FS_AddElement
<1>8. /\ a.out \subseteq First(k, W, s)
      /\ a.free \in Nat /\ a.free = free - Cardinality(a.out)
      /\ a.free > 0 => a.uw = Cardinality(here)
      /\ \A y \in First(k, W, s) : y \in a.out <=> Verdict(y, a.out, W, s, u, free, reserve)
  BY DEF LoopState, here
<1>9. a.out \subseteq W /\ IsFiniteSet(a.out) /\ Cardinality(a.out) \in Nat /\ x \notin a.out
  BY <1>3, <1>8, LoopSets
<1>10. Above(x, a.out, W, s) = a.out /\ Above(x, a.out \cup {x}, W, s) = a.out
  BY <1>2, <1>8, <1>9 DEF Above, First
<1>11. \A y \in First(k, W, s) : Above(y, a.out \cup {x}, W, s) = Above(y, a.out, W, s)
  <2> TAKE y \in First(k, W, s)
  <2>1. ord(y) \in Nat /\ ord(y) < k /\ ord(x) = k
    BY <1>2 DEF First
  <2>2. ~(ord(x) < ord(y))
    BY <1>1, <2>1
  <2> QED
    BY <2>2 DEF Above
<1>12. \A S : Above(x, S, W, s) = a.out =>
         (Verdict(x, S, W, s, u, free, reserve) <=> Takes(u[x], a.free, Cardinality(next), reserve))
  BY <1>8 DEF Verdict, next
<1>13. Takes(u[x], a.free, a.uw, reserve) <=> Takes(u[x], a.free, Cardinality(next), reserve)
  BY <1>1, <1>7, <1>8 DEF Takes
<1>14. CASE Takes(u[x], a.free, a.uw, reserve)
  <2> DEFINE t == Turn(a, x, u, reserve)
  <2>1. /\ t.out = a.out \cup {x} /\ t.free = a.free - 1
        /\ t.uw = IF u[x] THEN a.uw - 1 ELSE a.uw
    BY <1>14 DEF Turn
  <2> HIDE DEF t
  <2>2. a.free > 0
    BY <1>14 DEF Takes
  <2>3. Cardinality(t.out) = Cardinality(a.out) + 1
    BY <1>9, <2>1, FS_AddElement
  <2>4. t.free \in Nat /\ t.free = free - Cardinality(t.out)
    BY <1>8, <1>9, <2>1, <2>2, <2>3
  <2>5. t.uw = Cardinality(next)
    BY <1>1, <1>6, <1>7, <1>8, <2>1, <2>2
  <2>6. t.out \subseteq First(k + 1, W, s)
    BY <1>3, <1>8, <2>1
  <2>7. ASSUME NEW y \in First(k + 1, W, s)
        PROVE  y \in t.out <=> Verdict(y, t.out, W, s, u, free, reserve)
    <3>1. CASE y = x
      BY <1>10, <1>12, <1>13, <1>14, <2>1, <3>1
    <3>2. CASE y \in First(k, W, s)
      <4>1. Verdict(y, t.out, W, s, u, free, reserve) <=> Verdict(y, a.out, W, s, u, free, reserve)
        BY <1>11, <2>1, <3>2 DEF Verdict
      <4>2. y # x
        BY <1>3, <3>2
      <4> QED
        BY <1>8, <2>1, <3>2, <4>1, <4>2
    <3> QED
      BY <1>3, <2>7, <3>1, <3>2
  <2> QED
    BY <2>4, <2>5, <2>6, <2>7 DEF LoopState, t, next
<1>15. CASE ~Takes(u[x], a.free, a.uw, reserve)
  <2>1. Turn(a, x, u, reserve) = a
    BY <1>15 DEF Turn
  <2>2. a.free > 0 => a.uw = Cardinality(next)
    BY <1>1, <1>7, <1>8, <1>15 DEF Takes
  <2>3. a.out \subseteq First(k + 1, W, s)
    BY <1>3, <1>8
  <2>4. ~Verdict(x, a.out, W, s, u, free, reserve)
    BY <1>10, <1>12, <1>13, <1>15
  <2>5. \A y \in First(k + 1, W, s) : y \in a.out <=> Verdict(y, a.out, W, s, u, free, reserve)
    BY <1>3, <1>8, <1>9, <2>4
  <2> QED
    BY <1>8, <2>1, <2>2, <2>3, <2>5 DEF LoopState, next
<1> QED
  BY <1>14, <1>15

(* Verdict is the condition of Admitted. *)
LEMMA VerdictIs ==
  ASSUME NEW W, NEW s, NEW u, Ranked(W, s, u), NEW S \in SUBSET W, NEW f, NEW b, NEW r
  PROVE  Admitted(S, W, s, u, f, b, r) <=>
           /\ S # {} => Cardinality(S) <= b - f
           /\ \A x \in W : x \in S <=> Verdict(x, S, W, s, u, b - f, Reserve(b, r))
<1>1. ASSUME NEW x \in W
      PROVE  /\ {y \in S : Outranks(y, x, s)} = Above(x, S, W, s)
             /\ {y \in W : u[y] /\ y # x /\ ~Outranks(y, x, s)} = UrgentFrom(Ahead(x, W, s) + 1, W, s, u)
  <2>1. \A y \in W : Outranks(y, x, s) <=> Ahead(y, W, s) < Ahead(x, W, s)
    BY AheadIs
  <2>2. \A y \in W : y # x /\ ~Outranks(y, x, s) <=> Ahead(y, W, s) >= Ahead(x, W, s) + 1
    <3> TAKE y \in W
    <3>1. Ahead(y, W, s) \in Nat /\ Ahead(x, W, s) \in Nat /\ (Ahead(y, W, s) = Ahead(x, W, s) => y = x)
      BY AheadIs
    <3> QED
      BY <2>1, <3>1
  <2> QED
    BY <2>1, <2>2 DEF Above, UrgentFrom
<1>2. \A x \in W : Verdict(x, S, W, s, u, b - f, Reserve(b, r)) <=>
        Takes(u[x], (b - f) - Cardinality({y \in S : Outranks(y, x, s)}),
              Cardinality({y \in W : u[y] /\ y # x /\ ~Outranks(y, x, s)}), Reserve(b, r))
  BY <1>1 DEF Verdict
<1> QED
  BY <1>2 DEF Admitted

LEMMA LoopAdmits ==
  ASSUME NEW W, NEW s, NEW u, Ranked(W, s, u), NEW f \in Int, NEW b \in Int, NEW r \in Int
  PROVE  /\ AdmitLoop(W, s, u, f, b, r) \subseteq W
         /\ Admitted(AdmitLoop(W, s, u, f, b, r), W, s, u, f, b, r)
<1> DEFINE n == Cardinality(W)
           free == b - f
           reserve == Reserve(b, r)
<1>1. n \in Nat /\ IsFiniteSet(W) /\ free \in Int /\ reserve \in Nat
  <2>1. n \in Nat
    BY AheadIs
  <2>2. IsFiniteSet(W)
    BY DEF Ranked
  <2>3. reserve \in Nat
    BY DEF Reserve
  <2> QED
    BY <2>1, <2>2, <2>3
<1>2. CASE free <= 0
  <2>1. AdmitLoop(W, s, u, f, b, r) = {}
    BY <1>2, LoopIs
  <2>2. \A x \in W : ~Verdict(x, {}, W, s, u, free, reserve)
    <3> TAKE x \in W
    <3>1. Cardinality(Above(x, {}, W, s)) = 0
      BY FS_EmptySet DEF Above
    <3> QED
      BY <1>1, <1>2, <3>1 DEF Verdict, Takes
  <2> QED
    BY <2>1, <2>2, VerdictIs
<1>3. CASE free > 0
  <2> DEFINE g == CHOOSE h : IsLoop(h, W, s, u, free, reserve)
  <2>1. IsLoop(g, W, s, u, free, reserve)
    BY <1>1, LoopRuns
  <2>2. AdmitLoop(W, s, u, f, b, r) = g[n].out
    <3>1. ~(b - f <= 0)
      BY <1>3
    <3>2. AdmitLoop(W, s, u, f, b, r) = IF b - f <= 0 THEN {} ELSE g[n].out
      BY LoopIs
    <3> QED
      BY <3>1, <3>2
  <2> HIDE DEF g, n, free, reserve
  <2>3. g[0] = Start(W, u, free) /\ \A k \in 1..n : g[k] = Turn(g[k-1], ByScore(W, s)[k], u, reserve)
    BY <1>1, <2>1 DEF IsLoop, n
  <2> DEFINE A == {k \in Nat : k <= n => LoopState(g[k], k, W, s, u, free, reserve)}
  <2>4. 0 \in A
    <3>1. First(0, W, s) = {}
      BY AheadIs DEF First
    <3>2. UrgentFrom(0, W, s, u) = {x \in W : u[x]}
      BY AheadIs DEF UrgentFrom
    <3>3. Start(W, u, free).out = {} /\ Start(W, u, free).free = free
          /\ Start(W, u, free).uw = Cardinality({x \in W : u[x]})
      BY DEF Start
    <3>4. free - Cardinality({}) = free /\ free \in Nat
      BY <1>1, <1>3, FS_EmptySet
    <3> QED
      BY <2>3, <3>1, <3>2, <3>3, <3>4 DEF LoopState
  <2>5. ASSUME NEW k \in Nat, k \in A PROVE k + 1 \in A
    <3> SUFFICES ASSUME k + 1 <= n PROVE LoopState(g[k + 1], k + 1, W, s, u, free, reserve)
      OBVIOUS
    <3>1. k <= n /\ k \in 0..n - 1 /\ k + 1 \in 1..n /\ (k + 1) - 1 = k
      BY <1>1
    <3>2. LoopState(g[k], k, W, s, u, free, reserve)
      BY <2>5, <3>1
    <3> DEFINE x == ByScore(W, s)[k + 1]
    <3>3. x \in W /\ Ahead(x, W, s) = k
      BY <3>1, SortedIs DEF n
    <3>4. g[k + 1] = Turn(g[k], x, u, reserve)
      BY <2>3, <3>1
    <3>5. free \in Nat
      BY <1>1, <1>3
    <3> HIDE DEF x
    <3> QED
      BY <1>1, <3>1, <3>2, <3>3, <3>4, <3>5, TurnKeeps DEF n
  <2>6. LoopState(g[n], n, W, s, u, free, reserve)
    <3> HIDE DEF A
    <3>1. n \in A
      BY <1>1, <2>4, <2>5, NatInduct
    <3> QED
      BY <1>1, <3>1 DEF A
  <2>7. First(n, W, s) = W
    BY AheadIs DEF First, n
  <2>8. g[n].out \subseteq W /\ \A x \in W : x \in g[n].out <=> Verdict(x, g[n].out, W, s, u, free, reserve)
    BY <2>6, <2>7 DEF LoopState
  <2>9. Cardinality(g[n].out) \in Nat
    BY <2>8, LoopSets
  <2>10. Cardinality(g[n].out) <= free
    BY <1>1, <2>6, <2>9 DEF LoopState
  <2> QED
    BY <2>2, <2>8, <2>10, VerdictIs DEF free, reserve
<1> QED
  BY <1>1, <1>2, <1>3

(* The loop of queue.Admit takes the one set that Admitted describes, for  *)
(* any waiting runs, scores, flags, budget, reserve and runs in flight:    *)
(* the decision every action of RunQueue is built on is the code's.        *)
THEOREM LoopDecides ==
  ASSUME NEW waiting, NEW score, NEW urgent, Ranked(waiting, score, urgent),
         NEW inFlight \in Int, NEW budget \in Int, NEW reserved \in Int
  PROVE  {S \in SUBSET waiting : Admitted(S, waiting, score, urgent, inFlight, budget, reserved)}
           = {AdmitLoop(waiting, score, urgent, inFlight, budget, reserved)}
BY LoopAdmits, OneDecision

(* Urgent runs lead the queue as long as the boost outweighs every other   *)
(* factor.  Then a tick starts the best-ranked runs and no others, and     *)
(* leaves no slot unused while a run waits.                                *)
THEOREM BestAreAdmitted ==
  ASSUME NEW waiting, NEW score, NEW urgent, Ranked(waiting, score, urgent),
         NEW inFlight \in Int, NEW budget \in Int, NEW reserved \in Int,
         \A x, y \in waiting : urgent[x] /\ ~urgent[y] => score[x] > score[y],
         NEW S, Admitted(S, waiting, score, urgent, inFlight, budget, reserved)
  PROVE  /\ \A x \in S, y \in waiting \ S : Outranks(x, y, score)
         /\ S # waiting => inFlight + Cardinality(S) >= budget
<1> DEFINE free == budget - inFlight
           reserve == Reserve(budget, reserved)
           above(x) == Above(x, S, waiting, score)
<1>1. /\ S \in SUBSET waiting /\ IsFiniteSet(S) /\ Cardinality(S) \in Nat
      /\ free \in Int /\ reserve \in Nat
  BY LoopSets DEF Admitted, Reserve
<1>2. \A x \in waiting : x \in S <=> Verdict(x, S, waiting, score, urgent, free, reserve)
  BY <1>1, VerdictIs
<1>3. \A x \in waiting : /\ above(x) \in SUBSET S /\ IsFiniteSet(above(x))
                         /\ Cardinality(above(x)) \in Nat /\ Cardinality(above(x)) <= Cardinality(S)
  <2> TAKE x \in waiting
  <2>1. above(x) \in SUBSET S
    BY DEF Above
  <2> HIDE DEF above
  <2>2. IsFiniteSet(above(x)) /\ Cardinality(above(x)) <= Cardinality(S)
    BY <1>1, <2>1, FS_Subset
  <2> QED
    BY <2>1, <2>2, FS_CardinalityType
<1>4. ASSUME NEW y \in waiting \ S PROVE free <= Cardinality(above(y))
  <2>1. ~Takes(urgent[y], free - Cardinality(above(y)),
               Cardinality(UrgentFrom(Ahead(y, waiting, score) + 1, waiting, score, urgent)), reserve)
    BY <1>2 DEF Verdict
  <2>2. CASE urgent[y]
    BY <1>1, <1>3, <2>1, <2>2 DEF Takes
  <2>3. CASE ~urgent[y]
    <3>1. UrgentFrom(Ahead(y, waiting, score) + 1, waiting, score, urgent) = {}
      <4> SUFFICES ASSUME NEW z \in waiting, urgent[z], Ahead(z, waiting, score) >= Ahead(y, waiting, score) + 1
                   PROVE  FALSE
        BY DEF UrgentFrom
      <4>1. Outranks(z, y, score)
        BY <2>3 DEF Outranks
      <4>2. /\ Ahead(z, waiting, score) \in Nat /\ Ahead(y, waiting, score) \in Nat
            /\ Ahead(z, waiting, score) < Ahead(y, waiting, score)
        BY <4>1, AheadIs
      <4> QED
        BY <4>2
    <3>2. Cardinality(UrgentFrom(Ahead(y, waiting, score) + 1, waiting, score, urgent)) = 0
      BY <3>1, FS_EmptySet
    <3>3. Keep(reserve, 0) = 0
      BY <1>1 DEF Keep
    <3>4. ~Takes(urgent[y], free - Cardinality(above(y)), 0, reserve)
      BY <2>1, <3>2
    <3> QED
      BY <1>1, <1>3, <3>3, <3>4 DEF Takes
  <2> QED
    BY <2>2, <2>3
<1>5. ASSUME NEW x \in S, NEW y \in waiting \ S PROVE Outranks(x, y, score)
  <2>1. Takes(urgent[x], free - Cardinality(above(x)),
              Cardinality(UrgentFrom(Ahead(x, waiting, score) + 1, waiting, score, urgent)), reserve)
    BY <1>1, <1>2 DEF Verdict
  <2>2. Cardinality(above(x)) < free
    BY <1>1, <1>3, <2>1 DEF Takes
  <2>3. Cardinality(above(x)) < Cardinality(above(y))
    BY <1>1, <1>3, <1>4, <2>2
  <2>4. ASSUME Outranks(y, x, score) PROVE FALSE
    <3>1. Ahead(y, waiting, score) < Ahead(x, waiting, score)
      BY <1>1, <2>4, AheadIs
    <3>2. above(y) \in SUBSET above(x)
      <4>1. \A z \in S : Ahead(z, waiting, score) \in Nat /\ Ahead(y, waiting, score) \in Nat
                         /\ Ahead(x, waiting, score) \in Nat
        BY <1>1, AheadIs
      <4>2. \A z \in S : Ahead(z, waiting, score) < Ahead(y, waiting, score)
                           => Ahead(z, waiting, score) < Ahead(x, waiting, score)
        BY <3>1, <4>1
      <4> QED
        BY <4>2 DEF Above
    <3> HIDE DEF above
    <3>3. Cardinality(above(y)) <= Cardinality(above(x))
      BY <1>1, <1>3, <3>2, FS_Subset
    <3> QED
      BY <1>1, <1>3, <2>3, <3>3
  <2> QED
    BY <1>1, <2>4, RankOrder
<1>6. ASSUME S # waiting PROVE inFlight + Cardinality(S) >= budget
  <2>1. PICK y \in waiting \ S : TRUE
    BY <1>1, <1>6
  <2>2. free <= Cardinality(S)
    BY <1>1, <1>3, <1>4, <2>1
  <2> QED
    BY <1>1, <2>2
<1> QED
  BY <1>5, <1>6

(* The rows a tick may start, their scores and the urgent ones among them. *)
Due         == Candidates(SweptJobS, SweptWindow)
RowScores   == [i \in Items |-> prio[JobOf[i]]]
UrgentRows  == [i \in Items |-> prio[JobOf[i]] >= Urgent]
LoopsChoice == AdmitLoop(Due, RowScores, UrgentRows, Cardinality(RunningItems), Budget, Reserved)

LEMMA PlanIs ==
  ASSUME TypeOK, ReadPlan
  PROVE  /\ plan' = LoopsChoice
         /\ \A i \in plan', k \in Due \ plan' : Outranks(i, k, RowScores)
         /\ plan' # Due => Cardinality(RunningItems) + Cardinality(plan') >= Budget
<1>1. PICK S \in SUBSET Due : Admit(S, SweptJobS, SweptWindow) /\ plan' = S
  BY DEF ReadPlan, Due
<1>2. Admitted(plan', Due, RowScores, UrgentRows, Cardinality(RunningItems), Budget, Reserved)
  BY <1>1 DEF Admit, Due, RowScores, UrgentRows
<1>3. Due \subseteq Items /\ IsFiniteSet(Items) /\ Items \subseteq Int
  BY QueueAssumption DEF Due, Candidates
<1>4. \A i \in Items : RowScores[i] \in Int /\ UrgentRows[i] \in BOOLEAN
                       /\ (UrgentRows[i] <=> RowScores[i] >= Urgent)
  <2> TAKE i \in Items
  <2>1. prio[JobOf[i]] \in Int
    BY QueueAssumption DEF TypeOK
  <2>2. RowScores[i] = prio[JobOf[i]] /\ UrgentRows[i] = (prio[JobOf[i]] >= Urgent)
    BY DEF RowScores, UrgentRows
  <2>3. (prio[JobOf[i]] >= Urgent) \in BOOLEAN
    OBVIOUS
  <2> QED
    BY <2>1, <2>2, <2>3
<1>5. Ranked(Due, RowScores, UrgentRows)
  BY <1>3, <1>4, FS_Subset DEF Ranked
<1>6. Cardinality(RunningItems) \in Int /\ Budget \in Int /\ Reserved \in Int /\ Urgent \in Int
  <2>1. RunningItems \in SUBSET Items
    BY DEF RunningItems
  <2>2. Cardinality(RunningItems) \in Nat
    BY <1>3, <2>1, FS_Subset, FS_CardinalityType
  <2> QED
    BY <2>2, QueueAssumption
<1>7. \A i, k \in Due : UrgentRows[i] /\ ~UrgentRows[k] => RowScores[i] > RowScores[k]
  BY <1>3, <1>4, <1>6
<1> HIDE DEF Due, RowScores, UrgentRows
<1>8. plan' = LoopsChoice
  <2>1. LoopsChoice \in SUBSET Due
        /\ Admitted(LoopsChoice, Due, RowScores, UrgentRows, Cardinality(RunningItems), Budget, Reserved)
    BY <1>5, <1>6, LoopAdmits DEF LoopsChoice
  <2> QED
    BY <1>2, <1>5, <1>6, <2>1, OneDecision
<1>9. \A i \in plan', k \in Due \ plan' : Outranks(i, k, RowScores)
  BY <1>2, <1>5, <1>6, <1>7, BestAreAdmitted
<1>10. plan' # Due => Cardinality(RunningItems) + Cardinality(plan') >= Budget
  BY <1>2, <1>5, <1>6, <1>7, BestAreAdmitted
<1> QED
  BY <1>8, <1>9, <1>10

(* scheduleTick plans what the loop of queue.Admit chooses from the due    *)
(* rows; it passes no row over for one of lower rank, reserved slots or    *)
(* not, and leaves no slot unused while a due row waits.                   *)
THEOREM TicksPlanTheBest ==
  Spec => [][ReadPlan => /\ plan' = LoopsChoice
                         /\ \A i \in plan', k \in Due \ plan' : Outranks(i, k, RowScores)
                         /\ plan' # Due => Cardinality(RunningItems) + Cardinality(plan') >= Budget]_vars
<1>1. TypeOK /\ [Next]_vars =>
        [ReadPlan => /\ plan' = LoopsChoice
                     /\ \A i \in plan', k \in Due \ plan' : Outranks(i, k, RowScores)
                     /\ plan' # Due => Cardinality(RunningItems) + Cardinality(plan') >= Budget]_vars
  BY PlanIs
<1> QED
  BY <1>1, TypeCorrect, PTL DEF Spec
=============================================================================
