---------------------------- MODULE ExportProofs ----------------------------
(***************************************************************************)
(* Theorems of data exports, for every number of jobs and users, every     *)
(* mix of requests and faults, and any number of days and crashes.         *)
(***************************************************************************)
EXTENDS Export, SumLemmas, TLAPS

(* Where the worker is between the claim of a job and its outcome. *)
Held     == {"claimed", "recheck", "start", "scan", "close", "ended", "canceled", "failed", "done"}
(* Where it is before a file is in place. *)
Unnamed  == {"picked", "claimed", "recheck", "start", "scan", "close"}
Finished == {"done", "expired", "gone"}
Stale(j) == st[j] = "done" => age[j] \in {3, 4}

(* The job the worker is on is in a status that fits. *)
OnItsJob ==
  /\ pc = "picked"  => st[wj] \in {"queued", "canceled", "gone"}
  /\ pc \in Held    => st[wj] \in {"running", "canceled", "gone"}
  /\ pc = "discard" => st[wj] \in {"canceled", "gone"}
  /\ pc = "leave"   => st[wj] \notin {"absent", "queued", "running"}
  /\ pc = "mark"    => st[wj] \in Finished
  /\ cancels # {}   => pc \in (Held \ {"claimed"}) \cup {"discard", "leave"}

(* A running job is the one the worker holds, and so is a partial file. *)
Holding ==
  boot = "up" => \A j \in Jobs :
    /\ st[j] = "running" => wj = j /\ pc \in Held
    /\ part[j] => wj = j /\ (pc \in {"scan", "close"} \/ (pc = "ended" /\ err))

(* After a crash nothing runs before the recovery. *)
Recovering ==
  boot = "recover" =>
    /\ pc = "idle" /\ todo = {} /\ purge = {} /\ crashes > 0
    /\ \A j \in Jobs : reader[j] = "none" /\ canceler[j] = "none"

(* What requests, the sweep and a deletion have read still holds. *)
Requested ==
  /\ todo # {} => pc \in {"sweep", "mark"}
  /\ \A j \in Jobs :
       /\ submit[j] # None => st[j] = "absent"
       /\ j \in todo => st[j] \in Finished /\ Stale(j)
       /\ j \in purge => st[j] = "gone"
       /\ reader[j] # "none" => st[j] \in Finished /\ (wj = j => pc \in {"leave", "mark"})
       /\ reader[j] = "expire" => Stale(j)
       /\ reader[j] = "mark" => ~final[j]

(* A file is in place when its job is about to be done. *)
Placed ==
  /\ pc = "ended" /\ ~err /\ st[wj] = "running" => final[wj]
  /\ pc = "done" /\ st[wj] = "running" => final[wj]
  /\ DoneHasFile

(* Without a crash, no other job has a file. *)
Clean ==
  /\ pc = "mark" => ~final[wj]
  /\ crashes = 0 =>
       /\ pc \in Unnamed \cup {"canceled", "failed"} => ~final[wj]
       /\ \A j \in Jobs :
            /\ st[j] \in {"absent", "queued"} => ~final[j]
            /\ st[j] \in {"canceled", "failed", "expired", "gone"} /\ j \notin purge
                 /\ (wj = j => pc \in {"leave", "mark"}) => ~final[j]

ExportInv == TypeOK /\ OnItsJob /\ Holding /\ Recovering /\ Requested /\ Placed /\ Clean

(* Before the first submission there is nothing to agree. *)
LEMMA ExportInit == Init => ExportInv
<1> SUFFICES ASSUME Init PROVE ExportInv
  OBVIOUS
<1>1. TypeOK
  <2>1. (CHOOSE u \in Users : TRUE) \in Users
    BY ExportAssumption
  <2>2. None \notin Jobs /\ 1 \in 1..MaxDay /\ 0 \in 0..MaxRows /\ 0 \in 0..MaxDay /\ 0 \in 0..MaxCrashes
    BY ExportAssumption DEF None
  <2>3. st \in [Jobs -> Status] /\ owner \in [Jobs -> Users]
    BY <2>1 DEF Init, Status
  <2>4. /\ created \in [Jobs -> 1..MaxDay] /\ estimate \in [Jobs -> 0..MaxRows]
        /\ rowsDone \in [Jobs -> 0..MaxRows] /\ age \in [Jobs -> 1..Len(Ages)]
    BY <2>2 DEF Init, Ages
  <2>5. /\ part \in [Jobs -> BOOLEAN] /\ final \in [Jobs -> BOOLEAN]
        /\ canceler \in [Jobs -> {"none", "queued", "running", "close"}]
        /\ reader \in [Jobs -> {"none", "open", "expire", "mark"}] /\ submit \in [Jobs -> 0..MaxDay]
    BY <2>2 DEF Init, None
  <2> QED
    BY <2>2, <2>3, <2>4, <2>5 DEF Init, TypeOK
<1>2. OnItsJob /\ Holding /\ Recovering /\ Requested
  BY DEF Init, OnItsJob, Holding, Recovering, Requested, Held, Finished, None
<1>3. Placed /\ Clean
  BY DEF Init, Placed, DoneHasFile, Clean, Unnamed
<1> QED
  BY <1>1, <1>2, <1>3 DEF ExportInv

(* Flags per job of which one is written. *)
LEMMA OneFlag ==
  ASSUME NEW f \in [Jobs -> BOOLEAN], NEW w \in Jobs, NEW b \in BOOLEAN, NEW g, g = [f EXCEPT ![w] = b]
  PROVE  g \in [Jobs -> BOOLEAN] /\ (g[w] <=> b) /\ \A j \in Jobs \ {w} : g[j] = f[j]
OBVIOUS

(* A partial file appears on the worker's job only. *)
LEMMA StartPart ==
  ASSUME NEW w \in Jobs, part \in [Jobs -> BOOLEAN], boot = "up" => \A j \in Jobs : part[j] => w = j,
         part' = part \/ part' = [part EXCEPT ![w] = TRUE]
  PROVE  part' \in [Jobs -> BOOLEAN] /\ (boot = "up" => \A j \in Jobs : part'[j] => w = j)
<1>1. CASE part' = part
  BY <1>1
<1>2. CASE part' = [part EXCEPT ![w] = TRUE]
  <2>1. part' \in [Jobs -> BOOLEAN] /\ \A j \in Jobs \ {w} : part'[j] = part[j]
    BY <1>2, OneFlag
  <2> QED
    BY <2>1
<1> QED
  BY <1>1, <1>2

(* The rename puts the file of the worker's job in place, or says that it failed. *)
LEMMA RenamePlaces == ASSUME TypeOK, OnItsJob, Placed, Rename PROVE Placed'
<1>1. /\ wj \in Jobs /\ part \in [Jobs -> BOOLEAN] /\ final \in [Jobs -> BOOLEAN]
      /\ age \in [Jobs -> 1..Len(Ages)] /\ pc = "close"
  BY DEF TypeOK, Rename
<1>2. /\ st' = st /\ wj' = wj /\ pc' = "ended" /\ (err' <=> ~part[wj])
      /\ final' = [final EXCEPT ![wj] = final[wj] \/ part[wj]]
      /\ age' = [age EXCEPT ![wj] = IF part[wj] THEN 1 ELSE age[wj]]
  BY DEF Rename
<1>3. (final'[wj] <=> final[wj] \/ part[wj]) /\ \A j \in Jobs \ {wj} : final'[j] = final[j]
  <2>1. (final[wj] \/ part[wj]) \in BOOLEAN
    OBVIOUS
  <2> QED
    BY <1>1, <1>2, <2>1, OneFlag
<1>4. \A j \in Jobs \ {wj} : age'[j] = age[j]
  BY <1>1, <1>2
<1>5. st[wj] # "done"
  BY <1>1 DEF OnItsJob, Held
<1>6. ASSUME NEW j \in Jobs, st'[j] = "done", Ages[age'[j]] \in {"new", "hour"} PROVE final'[j]
  <2>1. j # wj
    BY <1>2, <1>5, <1>6
  <2>2. age'[j] = age[j] /\ final'[j] = final[j] /\ st[j] = "done"
    BY <1>2, <1>3, <1>4, <1>6, <2>1
  <2>3. Ages[age[j]] \in {"new", "hour"}
    BY <1>6, <2>2
  <2> QED
    BY <2>2, <2>3 DEF Placed, DoneHasFile
<1>7. DoneHasFile'
  <2>1. Ages' = Ages
    BY DEF Ages
  <2> QED
    BY <1>6, <2>1 DEF DoneHasFile
<1> QED
  BY <1>2, <1>3, <1>7 DEF Placed

(* The outcome decides what is left of the files of the worker's job. *)
LEMMA DecideFiles ==
  ASSUME TypeOK, Decide
  PROVE  /\ wj' = wj /\ wj \in Jobs /\ pc = "ended" /\ pc' \in {"canceled", "failed", "done"}
         /\ part' \in [Jobs -> BOOLEAN] /\ final' \in [Jobs -> BOOLEAN]
         /\ part'[wj] <=> part[wj] /\ pc' = "done"
         /\ final'[wj] <=> final[wj] /\ pc' = "done"
         /\ \A j \in Jobs \ {wj} : part'[j] = part[j] /\ final'[j] = final[j]
<1>1. wj \in Jobs /\ part \in [Jobs -> BOOLEAN] /\ final \in [Jobs -> BOOLEAN] /\ pc = "ended"
  BY DEF TypeOK, Decide
<1>2. /\ wj' = wj /\ pc' \in {"canceled", "failed", "done"}
      /\ part' = [part EXCEPT ![wj] = part[wj] /\ pc' = "done"]
      /\ final' = [final EXCEPT ![wj] = final[wj] /\ pc' = "done"]
  BY DEF Decide
<1> DEFINE p == part[wj] /\ pc' = "done"
           q == final[wj] /\ pc' = "done"
<1>3. p \in BOOLEAN /\ q \in BOOLEAN /\ part' = [part EXCEPT ![wj] = p] /\ final' = [final EXCEPT ![wj] = q]
  BY <1>2
<1> HIDE DEF p, q
<1>4. part' \in [Jobs -> BOOLEAN] /\ (part'[wj] <=> p) /\ \A j \in Jobs \ {wj} : part'[j] = part[j]
  BY <1>1, <1>3, OneFlag
<1>5. final' \in [Jobs -> BOOLEAN] /\ (final'[wj] <=> q) /\ \A j \in Jobs \ {wj} : final'[j] = final[j]
  BY <1>1, <1>3, OneFlag
<1> QED
  BY <1>1, <1>2, <1>4, <1>5 DEF p, q

LEMMA DecideHolds ==
  ASSUME TypeOK, OnItsJob, Holding, Recovering, Decide PROVE OnItsJob' /\ Holding' /\ Recovering'
<1>1. UNCHANGED <<st, boot, crashes, cancels, todo, purge, reader, canceler>> /\ (pc' = "done" => ~err)
  BY DEF Decide, table, request, bounds
<1>2. OnItsJob'
  BY <1>1, DecideFiles DEF OnItsJob, Held
<1>3. ASSUME boot = "up", NEW j \in Jobs, part'[j] PROVE FALSE
  <2>1. part[j] /\ (j = wj => pc' = "done")
    BY <1>3, DecideFiles
  <2>2. wj = j /\ err
    BY <1>3, <2>1, DecideFiles DEF Holding
  <2> QED
    BY <1>1, <2>1, <2>2
<1>4. ASSUME boot = "up", NEW j \in Jobs, st[j] = "running" PROVE wj = j
  BY <1>4 DEF Holding
<1>5. Holding'
  BY <1>1, <1>3, <1>4, DecideFiles DEF Holding, Held
<1>6. Recovering'
  BY <1>1, DecideFiles DEF Recovering
<1> QED
  BY <1>2, <1>5, <1>6

LEMMA DecideCleans == ASSUME TypeOK, OnItsJob, Clean, Decide PROVE Clean'
<1>1. UNCHANGED <<st, crashes, purge>>
  BY DEF Decide, table, request, bounds
<1>2. \A j \in Jobs : final'[j] => final[j] /\ (j = wj => pc' = "done")
  BY DecideFiles
<1>3. pc' \notin Unnamed \cup {"mark"} /\ pc' \notin {"leave", "mark"} /\ pc \notin {"leave", "mark"}
  BY DecideFiles DEF Unnamed
<1>4. pc' \in {"canceled", "failed"} => ~final'[wj']
  BY <1>2, DecideFiles
<1>5. ASSUME crashes = 0, NEW j \in Jobs
      PROVE  /\ st[j] \in {"absent", "queued"} => ~final'[j]
             /\ st[j] \in {"canceled", "failed", "expired", "gone"} /\ j \notin purge
                  /\ (wj' = j => pc' \in {"leave", "mark"}) => ~final'[j]
  <2>1. /\ st[j] \in {"absent", "queued"} => ~final[j]
        /\ st[j] \in {"canceled", "failed", "expired", "gone"} /\ j \notin purge /\ wj # j => ~final[j]
    BY <1>5 DEF Clean
  <2>2. wj' = j => ~(pc' \in {"leave", "mark"})
    BY <1>3
  <2>3. wj' = wj
    BY DecideFiles
  <2> QED
    BY <1>2, <2>1, <2>2, <2>3
<1> QED
  BY <1>1, <1>3, <1>4, <1>5 DEF Clean

(* Every step keeps the invariant: one case per action. *)
LEMMA ExportNext == ExportInv /\ [Next]_vars => ExportInv'
<1> SUFFICES ASSUME ExportInv, [Next]_vars PROVE ExportInv'
  OBVIOUS
<1> USE ExportAssumption
    DEF ExportInv, TypeOK, OnItsJob, Holding, Recovering, Requested, Placed, Clean, DoneHasFile, Held, Unnamed,
        Finished, Stale, Status, Ended, Ages, None, table, files, world, worker, request, bounds
<1>1. CASE Claim
  <2>1. TypeOK'
    BY <1>1 DEF Claim, Move
  <2>2. OnItsJob' /\ Holding' /\ Recovering'
    BY <1>1 DEF Claim, Move
  <2>3. Requested'
    BY <1>1 DEF Claim, Move
  <2>4. Placed'
    BY <1>1 DEF Claim, Move
  <2>5. Clean'
    BY <1>1 DEF Claim, Move
  <2> QED
    BY <2>1, <2>2, <2>3, <2>4, <2>5 DEF ExportInv
<1>2. CASE Register
  <2>1. TypeOK'
    BY <1>2 DEF Register
  <2>2. OnItsJob' /\ Holding' /\ Recovering'
    BY <1>2 DEF Register
  <2>3. Requested'
    BY <1>2 DEF Register
  <2>4. Placed'
    BY <1>2 DEF Register
  <2>5. Clean'
    BY <1>2 DEF Register
  <2> QED
    BY <2>1, <2>2, <2>3, <2>4, <2>5 DEF ExportInv
<1>3. CASE Recheck
  <2>1. TypeOK'
    BY <1>3 DEF Recheck
  <2>2. OnItsJob' /\ Holding' /\ Recovering'
    BY <1>3 DEF Recheck
  <2>3. Requested'
    BY <1>3 DEF Recheck
  <2>4. Placed'
    BY <1>3 DEF Recheck
  <2>5. Clean'
    BY <1>3 DEF Recheck
  <2> QED
    BY <2>1, <2>2, <2>3, <2>4, <2>5 DEF ExportInv
<1>4. CASE Start
  <2>1. TypeOK'
    <3>1. wj \in Jobs /\ pc' \in {"ended", "scan"} /\ err' \in BOOLEAN
      BY <1>4 DEF Start
    <3>2. part' \in [Jobs -> BOOLEAN] /\ (boot = "up" => \A j \in Jobs : part'[j] => wj = j)
      <4>1. part' = part \/ part' = [part EXCEPT ![wj] = TRUE]
        BY <1>4 DEF Start
      <4>2. part \in [Jobs -> BOOLEAN] /\ (boot = "up" => \A j \in Jobs : part[j] => wj = j)
        OBVIOUS
      <4> QED
        BY <3>1, <4>1, <4>2, StartPart
    <3> QED
      BY <1>4, <3>1, <3>2 DEF Start
  <2>2. OnItsJob' /\ Holding' /\ Recovering'
    BY <1>4 DEF Start
  <2>3. Requested'
    BY <1>4 DEF Start
  <2>4. Placed'
    BY <1>4 DEF Start
  <2>5. Clean'
    BY <1>4 DEF Start
  <2> QED
    BY <2>1, <2>2, <2>3, <2>4, <2>5 DEF ExportInv
<1>5. CASE Batch
  <2>1. TypeOK'
    BY <1>5 DEF Batch, MayWrite
  <2>2. OnItsJob' /\ Holding' /\ Recovering'
    BY <1>5 DEF Batch, MayWrite
  <2>3. Requested'
    BY <1>5 DEF Batch, MayWrite
  <2>4. Placed'
    BY <1>5 DEF Batch, MayWrite
  <2>5. Clean'
    BY <1>5 DEF Batch, MayWrite
  <2> QED
    BY <2>1, <2>2, <2>3, <2>4, <2>5 DEF ExportInv
<1>6. CASE Stop
  <2>1. TypeOK'
    BY <1>6 DEF Stop
  <2>2. OnItsJob' /\ Holding' /\ Recovering'
    BY <1>6 DEF Stop
  <2>3. Requested'
    BY <1>6 DEF Stop
  <2>4. Placed'
    BY <1>6 DEF Stop
  <2>5. Clean'
    BY <1>6 DEF Stop
  <2> QED
    BY <2>1, <2>2, <2>3, <2>4, <2>5 DEF ExportInv
<1>7. CASE Panic
  <2>1. TypeOK'
    BY <1>7 DEF Panic
  <2>2. OnItsJob' /\ Holding' /\ Recovering'
    BY <1>7 DEF Panic
  <2>3. Requested'
    BY <1>7 DEF Panic
  <2>4. Placed'
    BY <1>7 DEF Panic
  <2>5. Clean'
    BY <1>7 DEF Panic
  <2> QED
    BY <2>1, <2>2, <2>3, <2>4, <2>5 DEF ExportInv
<1>8. CASE Close
  <2>1. TypeOK'
    BY <1>8 DEF Close
  <2>2. OnItsJob' /\ Holding' /\ Recovering'
    BY <1>8 DEF Close
  <2>3. Requested'
    BY <1>8 DEF Close
  <2>4. Placed'
    BY <1>8 DEF Close
  <2>5. Clean'
    BY <1>8 DEF Close
  <2> QED
    BY <2>1, <2>2, <2>3, <2>4, <2>5 DEF ExportInv
<1>9. CASE Rename
  <2>1. TypeOK'
    BY <1>9 DEF Rename
  <2>2. OnItsJob' /\ Holding' /\ Recovering'
    BY <1>9 DEF Rename
  <2>3. Requested'
    BY <1>9 DEF Rename
  <2>4. Placed'
    <3> HIDE DEF ExportInv, TypeOK, OnItsJob, Placed
    <3> QED
      BY <1>9, RenamePlaces DEF ExportInv
  <2>5. Clean'
    BY <1>9 DEF Rename
  <2> QED
    BY <2>1, <2>2, <2>3, <2>4, <2>5 DEF ExportInv
<1>10. CASE Decide
  <2>1. TypeOK'
    BY <1>10 DEF Decide
  <2>2. OnItsJob' /\ Holding' /\ Recovering'
    <3> HIDE DEF ExportInv, TypeOK, OnItsJob, Holding, Recovering
    <3> QED
      BY <1>10, DecideHolds DEF ExportInv
  <2>3. Requested'
    BY <1>10 DEF Decide
  <2>4. Placed'
    BY <1>10 DEF Decide
  <2>5. Clean'
    <3> HIDE DEF ExportInv, TypeOK, OnItsJob, Clean
    <3> QED
      BY <1>10, DecideCleans DEF ExportInv
  <2> QED
    BY <2>1, <2>2, <2>3, <2>4, <2>5 DEF ExportInv
<1>11. CASE Record
  <2>1. TypeOK'
    BY <1>11 DEF Record, Move
  <2>2. OnItsJob' /\ Holding' /\ Recovering'
    BY <1>11 DEF Record, Move
  <2>3. Requested'
    BY <1>11 DEF Record, Move
  <2>4. Placed'
    BY <1>11 DEF Record, Move
  <2>5. Clean'
    BY <1>11 DEF Record, Move
  <2> QED
    BY <2>1, <2>2, <2>3, <2>4, <2>5 DEF ExportInv
<1>12. CASE Discard
  <2>1. TypeOK'
    BY <1>12 DEF Discard
  <2>2. OnItsJob' /\ Holding' /\ Recovering'
    BY <1>12 DEF Discard
  <2>3. Requested'
    BY <1>12 DEF Discard
  <2>4. Placed'
    BY <1>12 DEF Discard
  <2>5. Clean'
    BY <1>12 DEF Discard
  <2> QED
    BY <2>1, <2>2, <2>3, <2>4, <2>5 DEF ExportInv
<1>13. CASE Leave
  <2>1. TypeOK'
    <3>1. cancels' = {} /\ wj' = None /\ None \notin Jobs
      BY <1>13 DEF Leave
    <3>2. boot = "up" => \A j \in Jobs : ~part[j]
      BY <1>13 DEF Leave
    <3>3. rows' = 0 /\ rows' \in 0..MaxRows /\ err' = FALSE /\ dead' = FALSE
      BY <1>13 DEF Leave
    <3> QED
      BY <1>13, <3>1, <3>2, <3>3 DEF Leave
  <2>2. OnItsJob' /\ Holding' /\ Recovering'
    BY <1>13 DEF Leave
  <2>3. Requested'
    BY <1>13 DEF Leave
  <2>4. Placed'
    BY <1>13 DEF Leave
  <2>5. Clean'
    BY <1>13 DEF Leave
  <2> QED
    BY <2>1, <2>2, <2>3, <2>4, <2>5 DEF ExportInv
<1>14. CASE SweepRead
  <2>1. TypeOK'
    BY <1>14 DEF SweepRead
  <2>2. OnItsJob' /\ Holding' /\ Recovering'
    BY <1>14 DEF SweepRead
  <2>3. Requested'
    BY <1>14 DEF SweepRead
  <2>4. Placed'
    BY <1>14 DEF SweepRead
  <2>5. Clean'
    BY <1>14 DEF SweepRead
  <2> QED
    BY <2>1, <2>2, <2>3, <2>4, <2>5 DEF ExportInv
<1>15. CASE SweepMark
  <2>1. TypeOK'
    BY <1>15 DEF SweepMark, Move
  <2>2. OnItsJob' /\ Holding' /\ Recovering'
    BY <1>15 DEF SweepMark, Move
  <2>3. Requested'
    BY <1>15 DEF SweepMark, Move
  <2>4. Placed'
    BY <1>15 DEF SweepMark, Move
  <2>5. Clean'
    BY <1>15 DEF SweepMark, Move
  <2> QED
    BY <2>1, <2>2, <2>3, <2>4, <2>5 DEF ExportInv
<1>16. CASE SweepOld
  <2>1. TypeOK'
    BY <1>16 DEF SweepOld
  <2>2. OnItsJob' /\ Holding' /\ Recovering'
    BY <1>16 DEF SweepOld
  <2>3. Requested'
    BY <1>16 DEF SweepOld
  <2>4. Placed'
    BY <1>16 DEF SweepOld
  <2>5. Clean'
    BY <1>16 DEF SweepOld
  <2> QED
    BY <2>1, <2>2, <2>3, <2>4, <2>5 DEF ExportInv
<1>17. CASE SweepOrphans
  <2>1. TypeOK'
    BY <1>17 DEF SweepOrphans
  <2>2. OnItsJob' /\ Holding' /\ Recovering'
    BY <1>17 DEF SweepOrphans
  <2>3. Requested'
    BY <1>17 DEF SweepOrphans
  <2>4. Placed'
    BY <1>17 DEF SweepOrphans
  <2>5. Clean'
    BY <1>17 DEF SweepOrphans
  <2> QED
    BY <2>1, <2>2, <2>3, <2>4, <2>5 DEF ExportInv
<1>18. CASE PurgeFiles
  <2>1. TypeOK'
    BY <1>18 DEF PurgeFiles
  <2>2. OnItsJob' /\ Holding' /\ Recovering'
    BY <1>18 DEF PurgeFiles
  <2>3. Requested'
    BY <1>18 DEF PurgeFiles
  <2>4. Placed'
    BY <1>18 DEF PurgeFiles
  <2>5. Clean'
    BY <1>18 DEF PurgeFiles
  <2> QED
    BY <2>1, <2>2, <2>3, <2>4, <2>5 DEF ExportInv
<1>19. CASE SetPolicy
  <2>1. TypeOK'
    BY <1>19 DEF SetPolicy
  <2>2. OnItsJob' /\ Holding' /\ Recovering'
    BY <1>19 DEF SetPolicy
  <2>3. Requested'
    BY <1>19 DEF SetPolicy
  <2>4. Placed'
    BY <1>19 DEF SetPolicy
  <2>5. Clean'
    BY <1>19 DEF SetPolicy
  <2> QED
    BY <2>1, <2>2, <2>3, <2>4, <2>5 DEF ExportInv
<1>20. CASE Midnight
  <2>1. TypeOK'
    BY <1>20 DEF Midnight
  <2>2. OnItsJob' /\ Holding' /\ Recovering'
    BY <1>20 DEF Midnight
  <2>3. Requested'
    BY <1>20 DEF Midnight
  <2>4. Placed'
    BY <1>20 DEF Midnight
  <2>5. Clean'
    BY <1>20 DEF Midnight
  <2> QED
    BY <2>1, <2>2, <2>3, <2>4, <2>5 DEF ExportInv
<1>21. CASE Crash
  <2>1. TypeOK'
    <3>1. crashes' \in 0..MaxCrashes
      BY <1>21 DEF Crash
    <3>2. boot' = "recover" /\ pc' = "idle" /\ wj' = None /\ cancels' = {} /\ todo' = {} /\ purge' = {}
      BY <1>21 DEF Crash
    <3>3. /\ canceler' \in [Jobs -> {"none", "queued", "running", "close"}]
          /\ reader' \in [Jobs -> {"none", "open", "expire", "mark"}] /\ submit' \in [Jobs -> 0..MaxDay]
      BY <1>21 DEF Crash
    <3>4. rows' = 0 /\ rows' \in 0..MaxRows /\ err' = FALSE /\ dead' = FALSE
      BY <1>21 DEF Crash
    <3> QED
      BY <1>21, <3>1, <3>2, <3>3, <3>4 DEF Crash
  <2>2. OnItsJob' /\ Holding' /\ Recovering'
    BY <1>21 DEF Crash
  <2>3. Requested'
    BY <1>21 DEF Crash
  <2>4. Placed'
    BY <1>21 DEF Crash
  <2>5. Clean'
    BY <1>21 DEF Crash
  <2> QED
    BY <2>1, <2>2, <2>3, <2>4, <2>5 DEF ExportInv
<1>22. CASE Recover
  <2>1. TypeOK'
    BY <1>22 DEF Recover
  <2>2. OnItsJob' /\ Holding' /\ Recovering'
    BY <1>22 DEF Recover
  <2>3. Requested'
    BY <1>22 DEF Recover
  <2>4. Placed'
    BY <1>22 DEF Recover
  <2>5. Clean'
    BY <1>22 DEF Recover
  <2> QED
    BY <2>1, <2>2, <2>3, <2>4, <2>5 DEF ExportInv
<1>23. ASSUME NEW j \in Jobs, Pick(j) PROVE ExportInv'
  <2>1. TypeOK'
    BY <1>23 DEF Pick
  <2>2. OnItsJob' /\ Holding' /\ Recovering'
    BY <1>23 DEF Pick
  <2>3. Requested'
    BY <1>23 DEF Pick
  <2>4. Placed'
    BY <1>23 DEF Pick
  <2>5. Clean'
    BY <1>23 DEF Pick
  <2> QED
    BY <2>1, <2>2, <2>3, <2>4, <2>5 DEF ExportInv
<1>24. ASSUME NEW j \in Jobs, SweepRemove(j) PROVE ExportInv'
  <2>1. TypeOK'
    BY <1>24 DEF SweepRemove
  <2>2. OnItsJob' /\ Holding' /\ Recovering'
    BY <1>24 DEF SweepRemove
  <2>3. Requested'
    BY <1>24 DEF SweepRemove
  <2>4. Placed'
    BY <1>24 DEF SweepRemove
  <2>5. Clean'
    BY <1>24 DEF SweepRemove
  <2> QED
    BY <2>1, <2>2, <2>3, <2>4, <2>5 DEF ExportInv
<1>25. ASSUME NEW j \in Jobs, CancelQueued(j) PROVE ExportInv'
  <2>1. TypeOK'
    BY <1>25 DEF CancelQueued, Move
  <2>2. OnItsJob' /\ Holding' /\ Recovering'
    BY <1>25 DEF CancelQueued, Move
  <2>3. Requested'
    BY <1>25 DEF CancelQueued, Move
  <2>4. Placed'
    BY <1>25 DEF CancelQueued, Move
  <2>5. Clean'
    BY <1>25 DEF CancelQueued, Move
  <2> QED
    BY <2>1, <2>2, <2>3, <2>4, <2>5 DEF ExportInv
<1>26. ASSUME NEW j \in Jobs, CancelRunning(j) PROVE ExportInv'
  <2>1. TypeOK'
    BY <1>26 DEF CancelRunning
  <2>2. OnItsJob' /\ Holding' /\ Recovering'
    BY <1>26 DEF CancelRunning
  <2>3. Requested'
    BY <1>26 DEF CancelRunning
  <2>4. Placed'
    BY <1>26 DEF CancelRunning
  <2>5. Clean'
    BY <1>26 DEF CancelRunning
  <2> QED
    BY <2>1, <2>2, <2>3, <2>4, <2>5 DEF ExportInv
<1>27. ASSUME NEW j \in Jobs, CancelClose(j) PROVE ExportInv'
  <2>1. TypeOK'
    BY <1>27 DEF CancelClose, Move
  <2>2. OnItsJob' /\ Holding' /\ Recovering'
    BY <1>27 DEF CancelClose, Move
  <2>3. Requested'
    BY <1>27 DEF CancelClose, Move
  <2>4. Placed'
    BY <1>27 DEF CancelClose, Move
  <2>5. Clean'
    BY <1>27 DEF CancelClose, Move
  <2> QED
    BY <2>1, <2>2, <2>3, <2>4, <2>5 DEF ExportInv
<1>28. ASSUME NEW j \in Jobs, ReaderSubmit(j) PROVE ExportInv'
  <2>1. TypeOK'
    BY <1>28 DEF ReaderSubmit
  <2>2. OnItsJob' /\ Holding' /\ Recovering'
    BY <1>28 DEF ReaderSubmit
  <2>3. Requested'
    BY <1>28 DEF ReaderSubmit
  <2>4. Placed'
    BY <1>28 DEF ReaderSubmit
  <2>5. Clean'
    BY <1>28 DEF ReaderSubmit
  <2> QED
    BY <2>1, <2>2, <2>3, <2>4, <2>5 DEF ExportInv
<1>29. ASSUME NEW j \in Jobs, DownloadOpen(j) PROVE ExportInv'
  <2>1. TypeOK'
    BY <1>29 DEF DownloadOpen
  <2>2. OnItsJob' /\ Holding' /\ Recovering'
    BY <1>29 DEF DownloadOpen
  <2>3. Requested'
    BY <1>29 DEF DownloadOpen
  <2>4. Placed'
    BY <1>29 DEF DownloadOpen
  <2>5. Clean'
    BY <1>29 DEF DownloadOpen
  <2> QED
    BY <2>1, <2>2, <2>3, <2>4, <2>5 DEF ExportInv
<1>30. ASSUME NEW j \in Jobs, DownloadExpire(j) PROVE ExportInv'
  <2>1. TypeOK'
    BY <1>30 DEF DownloadExpire
  <2>2. OnItsJob' /\ Holding' /\ Recovering'
    BY <1>30 DEF DownloadExpire
  <2>3. Requested'
    BY <1>30 DEF DownloadExpire
  <2>4. Placed'
    BY <1>30 DEF DownloadExpire
  <2>5. Clean'
    BY <1>30 DEF DownloadExpire
  <2> QED
    BY <2>1, <2>2, <2>3, <2>4, <2>5 DEF ExportInv
<1>31. ASSUME NEW j \in Jobs, DownloadMark(j) PROVE ExportInv'
  <2>1. TypeOK'
    BY <1>31 DEF DownloadMark, Move
  <2>2. OnItsJob' /\ Holding' /\ Recovering'
    BY <1>31 DEF DownloadMark, Move
  <2>3. Requested'
    BY <1>31 DEF DownloadMark, Move
  <2>4. Placed'
    BY <1>31 DEF DownloadMark, Move
  <2>5. Clean'
    BY <1>31 DEF DownloadMark, Move
  <2> QED
    BY <2>1, <2>2, <2>3, <2>4, <2>5 DEF ExportInv
<1>32. ASSUME NEW j \in Jobs, CancelRead(j) PROVE ExportInv'
  <2>1. TypeOK'
    BY <1>32 DEF CancelRead
  <2>2. OnItsJob' /\ Holding' /\ Recovering'
    BY <1>32 DEF CancelRead
  <2>3. Requested'
    BY <1>32 DEF CancelRead
  <2>4. Placed'
    BY <1>32 DEF CancelRead
  <2>5. Clean'
    BY <1>32 DEF CancelRead
  <2> QED
    BY <2>1, <2>2, <2>3, <2>4, <2>5 DEF ExportInv
<1>33. ASSUME NEW j \in Jobs, DownloadRead(j) PROVE ExportInv'
  <2>1. TypeOK'
    BY <1>33 DEF DownloadRead
  <2>2. OnItsJob' /\ Holding' /\ Recovering'
    BY <1>33 DEF DownloadRead
  <2>3. Requested'
    BY <1>33 DEF DownloadRead
  <2>4. Placed'
    BY <1>33 DEF DownloadRead
  <2>5. Clean'
    BY <1>33 DEF DownloadRead
  <2> QED
    BY <2>1, <2>2, <2>3, <2>4, <2>5 DEF ExportInv
<1>34. ASSUME NEW j \in Jobs, GrowOlder(j) PROVE ExportInv'
  <2>1. TypeOK'
    BY <1>34 DEF GrowOlder
  <2>2. OnItsJob' /\ Holding' /\ Recovering'
    BY <1>34 DEF GrowOlder
  <2>3. Requested'
    BY <1>34 DEF GrowOlder
  <2>4. Placed'
    BY <1>34 DEF GrowOlder
  <2>5. Clean'
    BY <1>34 DEF GrowOlder
  <2> QED
    BY <2>1, <2>2, <2>3, <2>4, <2>5 DEF ExportInv
<1>35. ASSUME NEW u \in Users, DeleteUser(u) PROVE ExportInv'
  <2>1. TypeOK'
    BY <1>35 DEF DeleteUser, Exists
  <2>2. OnItsJob' /\ Holding' /\ Recovering'
    BY <1>35 DEF DeleteUser, Exists
  <2>3. Requested'
    BY <1>35 DEF DeleteUser, Exists
  <2>4. Placed'
    BY <1>35 DEF DeleteUser, Exists
  <2>5. Clean'
    BY <1>35 DEF DeleteUser, Exists
  <2> QED
    BY <2>1, <2>2, <2>3, <2>4, <2>5 DEF ExportInv
<1>36. ASSUME NEW j \in Jobs, NEW u \in Users, NEW n \in 0..MaxRows, Create(j, u, n) PROVE ExportInv'
  <2>1. TypeOK'
    BY <1>36 DEF Create
  <2>2. OnItsJob' /\ Holding' /\ Recovering'
    BY <1>36 DEF Create
  <2>3. Requested'
    BY <1>36 DEF Create
  <2>4. Placed'
    BY <1>36 DEF Create
  <2>5. Clean'
    BY <1>36 DEF Create
  <2> QED
    BY <2>1, <2>2, <2>3, <2>4, <2>5 DEF ExportInv
<1>37. ASSUME NEW j \in Jobs, NEW u \in Users, NEW n \in 0..MaxRows, ReaderStamp(j, u, n) PROVE ExportInv'
  <2>1. TypeOK'
    BY <1>37 DEF ReaderStamp
  <2>2. OnItsJob' /\ Holding' /\ Recovering'
    BY <1>37 DEF ReaderStamp
  <2>3. Requested'
    BY <1>37 DEF ReaderStamp
  <2>4. Placed'
    BY <1>37 DEF ReaderStamp
  <2>5. Clean'
    BY <1>37 DEF ReaderStamp
  <2> QED
    BY <2>1, <2>2, <2>3, <2>4, <2>5 DEF ExportInv
<1>38. CASE UNCHANGED vars
  <2>1. TypeOK'
    BY <1>38 DEF vars
  <2>2. OnItsJob' /\ Holding' /\ Recovering'
    BY <1>38 DEF vars
  <2>3. Requested'
    BY <1>38 DEF vars
  <2>4. Placed'
    BY <1>38 DEF vars
  <2>5. Clean'
    BY <1>38 DEF vars
  <2> QED
    BY <2>1, <2>2, <2>3, <2>4, <2>5 DEF ExportInv
<1> QED
  BY <1>1, <1>2, <1>3, <1>4, <1>5, <1>6, <1>7, <1>8, <1>9, <1>10, <1>11, <1>12, <1>13, <1>14, <1>15, <1>16, <1>17, <1>18, <1>19, <1>20, <1>21, <1>22, <1>23, <1>24, <1>25, <1>26, <1>27, <1>28, <1>29, <1>30, <1>31, <1>32, <1>33, <1>34, <1>35, <1>36, <1>37, <1>38 DEF Next, Worker, Sweep, Handler

(* What may become of an ended job. *)
After(status) == {status, "gone"} \cup (IF status = "done" THEN {"expired"} ELSE {})

(* Every status is written by a statement that names the one it expects, or *)
(* the job has never been inserted.                                         *)
LEMMA EndKept ==
  ASSUME ExportInv, [Next]_vars, NEW j \in Jobs, st[j] \in Ended PROVE st'[j] \in After(st[j])
<1> USE DEF After, Ended
<1>0. /\ st \in [Jobs -> Status] /\ (submit[j] # None => st[j] = "absent")
  BY DEF ExportInv, TypeOK, Requested
<1>1. CASE Claim \/ Record \/ SweepMark
  BY <1>0, <1>1 DEF Claim, Record, SweepMark, Move
<1>2. CASE SweepOld \/ Recover
  BY <1>0, <1>2 DEF SweepOld, Recover
<1>3. ASSUME NEW k \in Jobs, CancelQueued(k) \/ CancelClose(k) \/ DownloadMark(k)
      PROVE  st'[j] \in After(st[j])
  BY <1>0, <1>3 DEF CancelQueued, CancelClose, DownloadMark, Move
<1>4. ASSUME NEW k \in Jobs, ReaderSubmit(k) PROVE st'[j] \in After(st[j])
  <2>1. submit[k] # None => st[k] = "absent"
    BY DEF ExportInv, Requested
  <2> QED
    BY <1>0, <1>4, <2>1 DEF ReaderSubmit
<1>5. ASSUME NEW k \in Jobs, NEW u \in Users, NEW n \in 0..MaxRows, Create(k, u, n)
      PROVE  st'[j] \in After(st[j])
  BY <1>0, <1>5 DEF Create
<1>6. ASSUME NEW u \in Users, DeleteUser(u) PROVE st'[j] \in After(st[j])
  BY <1>0, <1>6 DEF DeleteUser
<1>7. CASE st' = st
  BY <1>7
<1>8. ASSUME NEW k \in Jobs, Pick(k) \/ SweepRemove(k) \/ CancelRunning(k) \/ DownloadOpen(k) \/ DownloadExpire(k)
                             \/ CancelRead(k) \/ DownloadRead(k) \/ GrowOlder(k)
      PROVE  st' = st
  BY <1>8 DEF Pick, SweepRemove, CancelRunning, DownloadOpen, DownloadExpire, CancelRead, DownloadRead,
              GrowOlder, table
<1>9. CASE Register \/ Recheck \/ Start \/ Batch \/ Stop \/ Panic \/ Close \/ Rename \/ Decide \/ Discard \/ Leave
  BY <1>7, <1>9 DEF Register, Recheck, Start, Batch, Stop, Panic, Close, Rename, Decide, Discard, Leave, table
<1>10. CASE SweepRead \/ SweepOrphans \/ PurgeFiles \/ SetPolicy \/ Midnight \/ Crash \/ UNCHANGED vars
  BY <1>7, <1>10 DEF SweepRead, SweepOrphans, PurgeFiles, SetPolicy, Midnight, Crash, table, vars
<1>11. ASSUME NEW k \in Jobs, NEW u \in Users, NEW n \in 0..MaxRows, ReaderStamp(k, u, n) PROVE st' = st
  BY <1>11 DEF ReaderStamp
<1> QED
  BY <1>1, <1>2, <1>3, <1>4, <1>5, <1>6, <1>7, <1>8, <1>9, <1>10, <1>11 DEF Next, Worker, Sweep, Handler

(* Rows, files and the worker agree, with any cancels, deletions, policy   *)
(* changes, failed writes, panics, downloads, sweeps and crashes between.  *)
THEOREM RowsAndFilesAgree == Spec => []FilesMatchRows
<1>1. Init => ExportInv
  BY ExportInit
<1>2. ExportInv /\ [Next]_vars => ExportInv'
  BY ExportNext
<1>3. ExportInv => FilesMatchRows
  <2> SUFFICES ASSUME ExportInv PROVE FilesMatchRows
    OBVIOUS
  <2>1. TypeOK /\ DoneHasFile
    BY DEF ExportInv, Placed
  <2>2. NoStrayFiles
    <3>1. crashes = 0 => boot = "up"
      BY DEF ExportInv, TypeOK, Recovering
    <3> QED
      BY <3>1 DEF ExportInv, Holding, Clean, NoStrayFiles
  <2>3. RunningHasWorker
    BY DEF ExportInv, Holding, Held, RunningHasWorker
  <2> QED
    BY <2>1, <2>2, <2>3 DEF FilesMatchRows
<1> QED
  BY <1>1, <1>2, <1>3, PTL DEF Spec

(* No worker, sweep, recovery, download or late submission reopens a job   *)
(* that has ended: a cancel is final.                                      *)
THEOREM EndsAreFinal == Spec => EndIsFinal
<1>1. Init => ExportInv
  BY ExportInit
<1>2. ExportInv /\ [Next]_vars =>
        ExportInv' /\ \A j \in Jobs : st[j] \in Ended =>
          st'[j] \in {st[j], "gone"} \cup (IF st[j] = "done" THEN {"expired"} ELSE {})
  BY ExportNext, EndKept DEF After
<1> QED
  BY <1>1, <1>2, PTL DEF Spec, EndIsFinal

-----------------------------------------------------------------------------
(* The quota.  No midnight falls between the stamp of a request and its    *)
(* transaction: ExportMidnight shows what happens when one does.           *)
NoLateMidnight == \A mix \in OpMixes : "midnight" \notin mix

(* A reader's export writes no more rows than it was charged for, and a    *)
(* stamp is of the day it is checked on.                                   *)
WithinEstimate ==
  /\ \A j \in Jobs : /\ st[j] = "absent" => rowsDone[j] = 0
                     /\ IsReader(j) => rowsDone[j] <= estimate[j]
                     /\ submit[j] # None => submit[j] = today
  /\ pc \in {"scan", "close", "ended", "canceled", "failed", "done"} /\ IsReader(wj) =>
       rows <= estimate[wj]

LEMMA WithinEstimateNext ==
  ASSUME NoLateMidnight, ExportInv, WithinEstimate, [Next]_vars
  PROVE  WithinEstimate'
<1> USE ExportAssumption
    DEF WithinEstimate, IsReader, None, table, files, world, worker, request, bounds
<1>0. /\ st \in [Jobs -> Status] /\ owner \in [Jobs -> Users] /\ estimate \in [Jobs -> 0..MaxRows]
      /\ rowsDone \in [Jobs -> 0..MaxRows] /\ submit \in [Jobs -> 0..MaxDay] /\ rows \in 0..MaxRows
      /\ wj \in Jobs \cup {0} /\ (wj = 0 <=> pc \in {"idle", "sweep", "orphans"})
      /\ pc \in Held => st[wj] \in {"running", "canceled", "gone"}
      /\ \A j \in Jobs : submit[j] # None => st[j] = "absent"
      /\ "midnight" \notin ops
  BY DEF ExportInv, TypeOK, OnItsJob, Requested, NoLateMidnight
<1> USE DEF Held
<1>1. CASE Claim \/ Register \/ Recheck \/ Close \/ Leave
  BY <1>0, <1>1 DEF Claim, Register, Recheck, Close, Leave, Move
<1>2. CASE Start \/ Batch
  BY <1>0, <1>2 DEF Start, Batch, MayWrite
<1>3. CASE Stop \/ Panic \/ Rename \/ Decide
  BY <1>0, <1>3 DEF Stop, Panic, Rename, Decide
<1>4. CASE Record \/ Discard
  BY <1>0, <1>4 DEF Record, Discard, Move
<1>5. CASE SweepRead \/ SweepMark \/ SweepOld \/ SweepOrphans
  BY <1>0, <1>5 DEF SweepRead, SweepMark, SweepOld, SweepOrphans, Move
<1>6. CASE PurgeFiles \/ SetPolicy \/ Midnight \/ UNCHANGED vars
  BY <1>0, <1>6 DEF PurgeFiles, SetPolicy, Midnight, vars
<1>7. CASE Crash \/ Recover
  BY <1>0, <1>7 DEF Crash, Recover
<1>8. ASSUME NEW u \in Users, DeleteUser(u) PROVE WithinEstimate'
  BY <1>0, <1>8 DEF DeleteUser, Exists
<1>9. ASSUME NEW k \in Jobs, Pick(k) \/ SweepRemove(k) \/ CancelRunning(k) \/ DownloadOpen(k) \/ DownloadExpire(k)
                             \/ CancelRead(k) \/ DownloadRead(k) \/ GrowOlder(k)
      PROVE  WithinEstimate'
  BY <1>0, <1>9 DEF Pick, SweepRemove, CancelRunning, DownloadOpen, DownloadExpire, CancelRead, DownloadRead,
                    GrowOlder
<1>10. ASSUME NEW k \in Jobs, CancelQueued(k) \/ CancelClose(k) \/ DownloadMark(k)
       PROVE  WithinEstimate'
  BY <1>0, <1>10 DEF CancelQueued, CancelClose, DownloadMark, Move
<1>11. ASSUME NEW k \in Jobs, ReaderSubmit(k) PROVE WithinEstimate'
  BY <1>0, <1>11 DEF ReaderSubmit
<1>12. ASSUME NEW k \in Jobs, NEW u \in Users, NEW n \in 0..MaxRows, Create(k, u, n) \/ ReaderStamp(k, u, n)
       PROVE  WithinEstimate'
  BY <1>0, <1>12 DEF Create, ReaderStamp
<1> QED
  BY <1>1, <1>2, <1>3, <1>4, <1>5, <1>6, <1>7, <1>8, <1>9, <1>10, <1>11, <1>12 DEF Next, Worker, Sweep, Handler

(* The exports that count on a day, what each counts, and their sum. *)
Counted(u, day) == {j \in Jobs : owner[j] = u /\ Exists(j) /\ created[j] = day}
Charges == [j \in Jobs |-> Charge(j)]

LEMMA UsageIsTotal == \A u, day : Usage(u, day) = Total(Charges, Counted(u, day))
<1> SUFFICES ASSUME NEW u, NEW day PROVE Usage(u, day) = Total(Charges, Counted(u, day))
  OBVIOUS
<1> DEFINE S == Counted(u, day)
           Body(g, s) == IF s = {} THEN 0 ELSE Charge(AnyOf(s)) + g[s \ {AnyOf(s)}]
<1>1. Usage(u, day) = (CHOOSE g : g = [s \in SUBSET S |-> Body(g, s)])[S]
  BY DEF Usage, MapThenSumSet, MapThenFoldSet, AnyOf, Counted
<1>2. IsFiniteSet(S) /\ S \subseteq Jobs
  BY ExportAssumption, FS_Subset DEF Counted
<1> HIDE DEF S
<1>3. \A s \in SUBSET S : s # {} => AnyOf(s) \in Jobs
  BY <1>2 DEF AnyOf
<1>4. ASSUME NEW g PROVE (g = [s \in SUBSET S |-> Body(g, s)]) <=> IsTotals(g, Charges, S)
  <2>1. \A s \in SUBSET S :
          Body(g, s) = IF s = {} THEN 0 ELSE Charges[AnyOf(s)] + g[s \ {AnyOf(s)}]
    BY <1>3 DEF Charges
  <2> HIDE DEF Body
  <2>2. [s \in SUBSET S |-> Body(g, s)]
          = [s \in SUBSET S |-> IF s = {} THEN 0 ELSE Charges[AnyOf(s)] + g[s \ {AnyOf(s)}]]
    BY <2>1
  <2> QED
    BY <2>2 DEF IsTotals
<1> DEFINE Good(g) == g = [s \in SUBSET S |-> Body(g, s)]
           h == CHOOSE g : Good(g)
<1>5. Usage(u, day) = h[S]
  BY <1>1
<1>6. \A g : Good(g) <=> IsTotals(g, Charges, S)
  BY <1>4
<1> HIDE DEF Good
<1>7. IsTotals(h, Charges, S)
  BY <1>2, <1>6, TotalsExist
<1>8. h[S] = Total(Charges, S)
  <2> HIDE DEF h, Charges
  <2>1. \A U \in SUBSET S : h[U] = Total(Charges, U)
    BY <1>2, <1>7, TotalsGive
  <2> QED
    BY <2>1
<1> QED
  BY <1>5, <1>8 DEF S
LEMMA UsageIsTotalNext == (\A u, day : Usage(u, day) = Total(Charges, Counted(u, day)))'
  BY UsageIsTotal, PTL
(* A step that adds no reader's export and lets none count for more. *)
NoDearer ==
  \A j \in Jobs : owner'[j] \in Readers /\ Exists(j)' =>
    Exists(j) /\ owner'[j] = owner[j] /\ created'[j] = created[j] /\ Charge(j)' <= Charge(j)

LEMMA ChargesAreNat ==
  ASSUME TypeOK
  PROVE  \A j \in Jobs : Charges[j] = Charge(j) /\ Charge(j) \in Nat
BY ExportAssumption DEF TypeOK, Charges, Charge

LEMMA ChargesAreNatNext ==
  TypeOK' => \A j \in Jobs : Charges'[j] = Charge(j)' /\ Charge(j)' \in Nat
<1>1. (TypeOK => \A j \in Jobs : Charges[j] = Charge(j) /\ Charge(j) \in Nat)'
  BY ChargesAreNat, PTL
<1> QED
  BY <1>1

LEMMA UsageIsNat ==
  ASSUME TypeOK, NEW u, NEW d
  PROVE  Usage(u, d) \in Nat /\ IsFiniteSet(Counted(u, d)) /\ Counted(u, d) \subseteq Jobs
<1>1. IsFiniteSet(Counted(u, d)) /\ Counted(u, d) \subseteq Jobs
  BY ExportAssumption, FS_Subset DEF Counted
<1>2. Total(Charges, Counted(u, d)) \in Nat
  BY <1>1, ChargesAreNat, TotalIsNat
<1> QED
  BY <1>1, <1>2, UsageIsTotal

(* Every step is one, but the submission of a reader. *)
LEMMA OnlySubmitCharges ==
  ASSUME NoLateMidnight, ExportInv, WithinEstimate, [Next]_vars, \A j \in Jobs : ~ReaderSubmit(j)
  PROVE  NoDearer
<1> USE ExportAssumption
    DEF NoDearer, WithinEstimate, IsReader, Exists, Charge, None, table, files, world, worker, request, bounds
<1>0. /\ st \in [Jobs -> Status] /\ owner \in [Jobs -> Users] /\ estimate \in [Jobs -> 0..MaxRows]
      /\ rowsDone \in [Jobs -> 0..MaxRows] /\ rows \in 0..MaxRows /\ created \in [Jobs -> 1..MaxDay]
      /\ wj \in Jobs \cup {0} /\ (wj = 0 <=> pc \in {"idle", "sweep", "orphans"})
      /\ pc \in Held => st[wj] \in {"running", "canceled", "gone"}
      /\ \A j \in Jobs : submit[j] # None => st[j] = "absent"
  BY DEF ExportInv, TypeOK, OnItsJob, Requested
<1> USE DEF Held
<1>1. CASE Claim \/ Register \/ Recheck \/ Close \/ Leave
  BY <1>0, <1>1 DEF Claim, Register, Recheck, Close, Leave, Move
<1>2. CASE Start \/ Batch
  BY <1>0, <1>2 DEF Start, Batch
<1>3. CASE Stop \/ Panic \/ Rename \/ Decide
  BY <1>0, <1>3 DEF Stop, Panic, Rename, Decide
<1>4. CASE Record \/ Discard
  BY <1>0, <1>4 DEF Record, Discard, Move
<1>5. CASE SweepRead \/ SweepMark \/ SweepOld \/ SweepOrphans
  BY <1>0, <1>5 DEF SweepRead, SweepMark, SweepOld, SweepOrphans, Move
<1>6. CASE PurgeFiles \/ SetPolicy \/ Midnight \/ UNCHANGED vars
  BY <1>0, <1>6 DEF PurgeFiles, SetPolicy, Midnight, vars
<1>7. CASE Crash \/ Recover
  BY <1>0, <1>7 DEF Crash, Recover
<1>8. ASSUME NEW u \in Users, DeleteUser(u) PROVE NoDearer
  BY <1>0, <1>8 DEF DeleteUser
<1>9. ASSUME NEW k \in Jobs, Pick(k) \/ SweepRemove(k) \/ CancelRunning(k) \/ DownloadOpen(k) \/ DownloadExpire(k)
                             \/ CancelRead(k) \/ DownloadRead(k) \/ GrowOlder(k)
      PROVE  NoDearer
  BY <1>0, <1>9 DEF Pick, SweepRemove, CancelRunning, DownloadOpen, DownloadExpire, CancelRead, DownloadRead,
                    GrowOlder
<1>10. ASSUME NEW k \in Jobs, CancelQueued(k) \/ CancelClose(k) \/ DownloadMark(k)
       PROVE  NoDearer
  BY <1>0, <1>10 DEF CancelQueued, CancelClose, DownloadMark, Move
<1>11. ASSUME NEW k \in Jobs, NEW u \in Users, NEW n \in 0..MaxRows, Create(k, u, n) \/ ReaderStamp(k, u, n)
       PROVE  NoDearer
  BY <1>0, <1>11 DEF Create, ReaderStamp
<1> QED
  BY <1>1, <1>2, <1>3, <1>4, <1>5, <1>6, <1>7, <1>8, <1>9, <1>10, <1>11 DEF Next, Worker, Sweep, Handler

(* Such a step raises no reader's usage. *)
LEMMA NoDearerKeeps ==
  ASSUME TypeOK, TypeOK', NoDearer, NEW u \in Readers, NEW d
  PROVE  Usage(u, d)' <= Usage(u, d) /\ Usage(u, d) \in Nat /\ Usage(u, d)' \in Nat
<1> DEFINE S == Counted(u, d)
           T == Counted(u, d)'
           c == Charges
           e == Charges'
<1>1. Usage(u, d) = Total(c, S) /\ Usage(u, d)' = Total(e, T)
  BY UsageIsTotal, UsageIsTotalNext
<1>2. \A j \in Jobs : c[j] = Charge(j) /\ Charge(j) \in Nat
  BY ChargesAreNat
<1>4. \A j \in Jobs : e[j] = Charge(j)' /\ Charge(j)' \in Nat
  BY ChargesAreNatNext
<1>5. S \subseteq Jobs /\ T \subseteq S /\ IsFiniteSet(S) /\ IsFiniteSet(T)
  BY ExportAssumption, FS_Subset DEF Counted, NoDearer
<1>6. \A j \in T : e[j] <= c[j]
  BY <1>2, <1>4 DEF Counted, NoDearer
<1> HIDE DEF S, T, c, e
<1>7. Total(e, T) <= Total(c, T)
  BY <1>2, <1>4, <1>5, <1>6, TotalLeq
<1>8. Total(c, T) <= Total(c, S)
  BY <1>2, <1>5, TotalMono
<1>9. Total(e, T) \in Nat /\ Total(c, T) \in Nat /\ Total(c, S) \in Nat
  BY <1>2, <1>4, <1>5, TotalIsNat
<1> QED
  BY <1>1, <1>7, <1>8, <1>9

(* A submission that is admitted adds what it was found to fit with. *)
LEMMA SubmitFits ==
  ASSUME TypeOK, TypeOK', WithinEstimate, Requested, QuotaRespected,
         NEW j \in Jobs, ReaderSubmit(j), NEW u \in Readers, NEW d \in 1..MaxDay
  PROVE  Usage(u, d)' <= DailyQuota
<1>0. st[j] = "absent" /\ submit[j] = today /\ today \in 1..MaxDay
  BY DEF Requested, ReaderSubmit, WithinEstimate, TypeOK
<1>1. /\ st \in [Jobs -> Status] /\ created \in [Jobs -> 1..MaxDay]
      /\ UNCHANGED <<owner, estimate, rowsDone>>
  BY DEF TypeOK, ReaderSubmit
<1> DEFINE InFull == owner[j] = u /\ d = today /\ st'[j] = "queued"
<1>2. CASE ~InFull
  <2>1. CASE st' = st /\ created' = created
    <3>1. NoDearer
      <4>1. \A k \in Jobs : Charge(k)' = Charge(k) /\ Charge(k) \in Nat
        BY <1>1, <2>1, ChargesAreNat DEF Charge
      <4> QED
        BY <1>1, <2>1, <4>1 DEF NoDearer, Exists
    <3>2. Usage(u, d)' <= Usage(u, d) /\ Usage(u, d) \in Nat /\ Usage(u, d)' \in Nat
      BY <3>1, NoDearerKeeps
    <3>3. Usage(u, d) <= DailyQuota
      BY DEF QuotaRespected
    <3> QED
      BY <3>2, <3>3, ExportAssumption
  <2>2. CASE st' = [st EXCEPT ![j] = "queued"] /\ created' = [created EXCEPT ![j] = submit[j]]
    <3>1. j \notin Counted(u, d)'
      BY <1>0, <1>1, <1>2, <2>2 DEF Counted
    <3>2. Counted(u, d)' = Counted(u, d)
      BY <1>0, <1>1, <2>2, <3>1 DEF Counted, Exists
    <3>3. IsFiniteSet(Counted(u, d))
      BY ExportAssumption, FS_Subset DEF Counted
    <3>4. \A k \in Counted(u, d) : Charges'[k] = Charges[k]
      BY <1>0, <1>1, <2>2 DEF Counted, Charges, Charge, Exists
    <3>5. Total(Charges', Counted(u, d)) = Total(Charges, Counted(u, d))
      BY <3>3, <3>4, TotalCong
    <3>6. Usage(u, d)' = Total(Charges', Counted(u, d)') /\ Usage(u, d) = Total(Charges, Counted(u, d))
      BY UsageIsTotal, UsageIsTotalNext
    <3>7. Usage(u, d)' = Usage(u, d)
      BY <3>2, <3>5, <3>6
    <3> QED
      BY <3>7 DEF QuotaRespected
  <2> QED
    BY <2>1, <2>2 DEF ReaderSubmit
<1>3. CASE InFull
  <2>1. /\ st' = [st EXCEPT ![j] = "queued"] /\ created' = [created EXCEPT ![j] = submit[j]]
        /\ Fits(j, today)
    BY <1>0, <1>3 DEF ReaderSubmit
  <2>2. Counted(u, d)' = Counted(u, d) \cup {j} /\ j \notin Counted(u, d)
    BY <1>0, <1>1, <1>3, <2>1 DEF Counted, Exists
  <2>3. IsFiniteSet(Counted(u, d)) /\ Counted(u, d) \subseteq Jobs
    BY ExportAssumption, FS_Subset DEF Counted
  <2>4. \A k \in Counted(u, d) : Charges'[k] = Charges[k]
    BY <1>0, <1>1, <2>1 DEF Counted, Charges, Charge, Exists
  <2>5. Charges'[j] = estimate[j]
    BY <1>1, <2>1 DEF Charges, Charge
  <2>7. \A k \in Jobs : Charges'[k] \in Nat
    BY ChargesAreNatNext
  <2>8. Total(Charges', Counted(u, d) \cup {j}) = Charges'[j] + Total(Charges', Counted(u, d))
    BY <2>2, <2>3, <2>7, TotalAdd
  <2>9. Total(Charges', Counted(u, d)) = Total(Charges, Counted(u, d))
    BY <2>3, <2>4, TotalCong
  <2>10. Usage(u, d)' = Total(Charges', Counted(u, d)') /\ Usage(u, d) = Total(Charges, Counted(u, d))
    BY UsageIsTotal, UsageIsTotalNext
  <2>11. Usage(u, d)' = estimate[j] + Usage(u, d)
    BY <2>2, <2>5, <2>8, <2>9, <2>10
  <2>12. Usage(u, d) + estimate[j] <= DailyQuota
    BY <1>3, <2>1 DEF Fits
  <2>13. estimate[j] \in 0..MaxRows /\ MaxRows \in Nat
    BY ExportAssumption DEF TypeOK
  <2>14. Usage(u, d) \in Nat
    BY UsageIsNat
  <2> QED
    BY <2>11, <2>12, <2>13, <2>14, ExportAssumption
<1> QED
  BY <1>2, <1>3

(* What the exports of a reader are charged on a day never exceeds the     *)
(* quota: racing submissions, refunds when an export ends or is canceled,  *)
(* restarts after a crash and deletions included.                          *)
THEOREM ChargedWithinQuota ==
  ASSUME NoLateMidnight PROVE Spec => []QuotaRespected
<1> DEFINE QInv == ExportInv /\ WithinEstimate /\ QuotaRespected
<1>1. Init => QInv
  <2> SUFFICES ASSUME Init PROVE QInv
    OBVIOUS
  <2>1. ExportInv
    BY ExportInit
  <2>2. WithinEstimate
    BY DEF Init, WithinEstimate, IsReader, None
  <2>3. ASSUME NEW u \in Readers, NEW d \in 1..MaxDay PROVE Usage(u, d) <= DailyQuota
    <3>1. Counted(u, d) = {}
      BY DEF Init, Counted, Exists
    <3>2. Usage(u, d) = 0
      BY <3>1, UsageIsTotal, TotalEmpty
    <3> QED
      BY <3>2, ExportAssumption
  <2> QED
    BY <2>1, <2>2, <2>3 DEF QuotaRespected
<1>2. QInv /\ [Next]_vars => QInv'
  <2> SUFFICES ASSUME QInv, [Next]_vars PROVE QInv'
    OBVIOUS
  <2>1. ExportInv' /\ WithinEstimate'
    BY ExportNext, WithinEstimateNext
  <2>2. TypeOK /\ TypeOK' /\ Requested
    BY <2>1 DEF ExportInv
  <2>3. ASSUME NEW u \in Readers, NEW d \in 1..MaxDay PROVE Usage(u, d)' <= DailyQuota
    <3>1. CASE \E j \in Jobs : ReaderSubmit(j)
      BY <2>2, <3>1, SubmitFits
    <3>2. CASE \A j \in Jobs : ~ReaderSubmit(j)
      <4>1. NoDearer
        BY <3>2, OnlySubmitCharges
      <4>2. Usage(u, d)' <= Usage(u, d) /\ Usage(u, d) \in Nat /\ Usage(u, d)' \in Nat
        BY <2>2, <4>1, NoDearerKeeps
      <4>3. Usage(u, d) <= DailyQuota
        BY DEF QuotaRespected
      <4> QED
        BY <4>2, <4>3, ExportAssumption
    <3> QED
      BY <3>1, <3>2
  <2>4. QuotaRespected'
    BY <2>3 DEF QuotaRespected
  <2> QED
    BY <2>1, <2>4
<1> QED
  BY <1>1, <1>2, PTL DEF Spec
=============================================================================
