------------------------- MODULE ProofServerProofs -------------------------
(***************************************************************************)
(* Proofs about ProofServer, for any number of requests, rows and faults:  *)
(* one job at a time, one proof at a time, results that are there when a   *)
(* row says so, and no file that nothing accounts for.                     *)
(*                                                                         *)
(* The invariant relates the four places where a job is known: its         *)
(* request, its task, its row and its file.                                *)
(***************************************************************************)
EXTENDS ProofServer, TLAPS

\* A task is spawned by its request, and a row is inserted by it.
RequestsFit ==
  \A j \in Jobs :
    /\ task[j] # "none" => request[j] = "spawned"
    /\ row[j].status # "none" => request[j] \in {"inserted", "spawned"}

\* A row has a path exactly when it has succeeded, and is finished only when nobody
\* works on the job any more.  So nothing makes a finished row active again.
RowsFit ==
  \A j \in Jobs :
    /\ row[j].path <=> row[j].status = "succeeded"
    /\ Finished(row[j]) => task[j] = "done"

\* One job holds the permit, and keeps it while its proof runs, timed out or not.
PermitFits ==
  /\ \A j, k \in inUse : j = k
  /\ \A j \in Jobs : task[j] \in {"acquired", "proving"} => j \in inUse
  /\ \A j \in detached : j \in inUse /\ task[j] \in {"failing", "done"}

\* Files are there before rows.
FilesFit ==
  \A j \in Jobs : task[j] = "written" \/ (row[j].path /\ ~row[j].old) => j \in file

\* What is about to be removed belongs to jobs that are over, whose rows are gone or
\* behind the cutoff for good.
RemovalsFit ==
  /\ \A j \in doomed : row[j].status = "none" /\ task[j] = "done"
  /\ \A j \in sweeper.files : task[j] = "done" /\ (row[j].status = "none" \/ row[j].old)
  /\ \A j \in deleter : task[j] = "done"
  /\ sweeper.at = "idle" => sweeper = Idle

\* As long as no call fails: a job that is worked on has its row, if it was not swept,
\* and the sweep has removed the file of a row before it deletes the row.
AccountsFit ==
  errors = 0 =>
    /\ \A j \in Jobs : request[j] = "inserted" \/ task[j] \notin {"none", "done"}
                         => Active(row[j]) \/ j \in swept
    /\ sweeper.at = "removed" => sweeper.files \cap file = {}
    /\ \A j \in sweeper.jobs : row[j].old /\ row[j].path => j \in sweeper.files

ServerInv ==
  /\ TypeOK /\ OneActiveRow /\ RequestsFit /\ RowsFit /\ PermitFits /\ FilesFit
  /\ RemovalsFit /\ AccountsFit /\ FileIsAccountedFor
-----------------------------------------------------------------------------
\* A call that fails is counted, within the bound.
LEMMA FailsCounts ==
  ASSUME TypeOK, Fails
  PROVE  errors' \in 1 .. MaxFaults
BY ServerAssumption DEF TypeOK, Fails

\* The row of job j, if there is one, gets these fields, and no other row changes.
RowIsWritten(j, status, path, old) ==
  /\ row' \in [Jobs -> RowRecord]
  /\ \A k \in Jobs : k # j \/ row[j].status = "none" => row'[k] = row[k]
  /\ row[j].status # "none" =>
       row'[j].status = status /\ row'[j].path = path /\ row'[j].old = old

\* The rows of these jobs are gone, and no other row changes.
RowsAreGone(gone) ==
  /\ row' \in [Jobs -> RowRecord]
  /\ \A k \in Jobs : IF k \in gone THEN row'[k].status = "none" /\ ~row'[k].path
                                   ELSE row'[k] = row[k]

\* What updating a row does.
LEMMA UpdatedRows ==
  ASSUME row \in [Jobs -> RowRecord], NEW j \in Jobs,
         NEW status \in Statuses, NEW path \in BOOLEAN, row' = Updated(j, status, path)
  PROVE  RowIsWritten(j, status, path, FALSE)
BY DEF RowRecord, Updated, RowIsWritten

\* What deleting rows does.
LEMMA RemainingRows ==
  ASSUME row \in [Jobs -> RowRecord], NEW gone, row' = Without(gone)
  PROVE  RowsAreGone(gone)
BY DEF RowRecord, Without, NoRow, Statuses, RowsAreGone

\* There is no row and no file yet.
LEMMA ServerInit == Init => ServerInv
BY ServerAssumption
   DEF Init, ServerInv, TypeOK, RowRecord, Statuses, NoRow, Idle, Active, Finished,
       OneActiveRow, RequestsFit, RowsFit, PermitFits, FilesFit, RemovalsFit,
       AccountsFit, FileIsAccountedFor
-----------------------------------------------------------------------------
(* The lemmas that follow say that each action keeps the invariant.        *)

\* The handler only looks: the permit is free when it does, and may be taken after it.
LEMMA PostStep == ASSUME ServerInv, NEW j \in Jobs, Post(j) PROVE ServerInv'
<1>1. TypeOK'
  BY DEF ServerInv, TypeOK, Post
<1>2. RequestsFit'
  BY DEF ServerInv, Post, RequestsFit
<1>3. AccountsFit'
  BY DEF ServerInv, Post, AccountsFit
<1>4. OneActiveRow' /\ RowsFit' /\ PermitFits' /\ FilesFit'
      /\ RemovalsFit' /\ FileIsAccountedFor'
  BY DEF ServerInv, Post, OneActiveRow, RowsFit, PermitFits, FilesFit, RemovalsFit,
         FileIsAccountedFor
<1>5. QED
  BY <1>1, <1>2, <1>3, <1>4 DEF ServerInv

\* What is evicted is finished, so its task has ended; and a request that has been
\* checked has no row and no task yet.
LEMMA TryEnqueueStep == ASSUME ServerInv, NEW j \in Jobs, TryEnqueue(j) PROVE ServerInv'
<1>1. ASSUME NEW gone \in Evicted
      PROVE  \A k \in gone : k \in Jobs /\ Finished(row[k]) /\ task[k] = "done" /\ k # j
  BY DEF Evicted, Rows, ServerInv, TryEnqueue, RowsFit, RequestsFit
<1>2. /\ request[j] = "checked" /\ task[j] = "none" /\ row[j].status = "none"
      /\ UNCHANGED <<file, task, inUse, detached, sweeper, deleter, swept, restarts>>
  BY DEF TryEnqueue, ServerInv, RequestsFit
<1>3. ASSUME NEW gone \in Evicted, MayEnqueue,
             row' = [Without(gone) EXCEPT ![j] = Queued],
             doomed' = doomed \cup {e \in gone : row[e].path},
             request' = [request EXCEPT ![j] = "inserted"],
             UNCHANGED errors
      PROVE  ServerInv'
  <2>1. /\ row' \in [Jobs -> RowRecord]
        /\ row'[j].status = "queued" /\ ~row'[j].path /\ ~row'[j].old
        /\ \A k \in Jobs \ {j} : IF k \in gone THEN row'[k].status = "none" /\ ~row'[k].path
                                              ELSE row'[k] = row[k]
    BY <1>3 DEF ServerInv, TypeOK, Without, Queued, NoRow, RowRecord, Statuses
  <2>2. TypeOK'
    BY <1>1, <1>2, <1>3, <2>1 DEF ServerInv, TypeOK
  <2>3. OneActiveRow'
    BY <1>3, <2>1 DEF MayEnqueue, OneActiveRow, Active
  <2>4. RequestsFit'
    BY <1>2, <1>3, <2>1 DEF ServerInv, TypeOK, RequestsFit
  <2>5. RowsFit'
    BY <1>2, <2>1 DEF ServerInv, RowsFit, Finished
  <2>6. PermitFits' /\ FilesFit'
    BY <1>2, <2>1 DEF ServerInv, PermitFits, FilesFit
  <2>7. RemovalsFit'
    BY <1>1, <1>2, <1>3, <2>1 DEF ServerInv, TypeOK, RemovalsFit
  <2>8. AccountsFit'
    BY <1>1, <1>2, <1>3, <2>1 DEF ServerInv, TypeOK, AccountsFit, Active, Finished
  <2>9. FileIsAccountedFor'
    BY <1>1, <1>2, <1>3, <2>1 DEF ServerInv, TypeOK, FileIsAccountedFor, RowsFit
  <2>10. QED
    BY <2>2, <2>3, <2>4, <2>5, <2>6, <2>7, <2>8, <2>9 DEF ServerInv
<1>4. ASSUME request' = [request EXCEPT ![j] = "refused"],
             UNCHANGED doomed,
             \/ UNCHANGED <<row, errors>>
             \/ /\ \E gone \in Evicted : row' = Without(gone)
                /\ errors' \in 1 .. MaxFaults
      PROVE  ServerInv'
  <2>1. PICK gone : /\ RowsAreGone(gone)
                    /\ \A k \in gone : k \in Jobs /\ Finished(row[k]) /\ task[k] = "done"
                    /\ UNCHANGED <<row, errors>> \/ errors' \in 1 .. MaxFaults
    <3>1. CASE UNCHANGED <<row, errors>>
      <4>1. RowsAreGone({})
        BY <3>1 DEF ServerInv, TypeOK, RowsAreGone
      <4>2. QED
        BY <3>1, <4>1
    <3>2. CASE /\ \E gone \in Evicted : row' = Without(gone)
               /\ errors' \in 1 .. MaxFaults
      BY <1>1, <3>2, RemainingRows DEF ServerInv, TypeOK
    <3>3. QED
      BY <1>4, <3>1, <3>2
  <2>2. TypeOK'
    <3>1. row' \in [Jobs -> RowRecord] /\ errors' \in 0 .. MaxFaults
      BY <2>1 DEF ServerInv, TypeOK, RowsAreGone
    <3>2. QED
      BY <1>2, <1>4, <3>1 DEF ServerInv, TypeOK
  <2>3. OneActiveRow' /\ RowsFit'
    BY <1>2, <2>1 DEF ServerInv, OneActiveRow, RowsFit, Active, RowsAreGone
  <2>4. RequestsFit'
    BY <1>2, <1>4, <2>1 DEF ServerInv, RequestsFit, RowsAreGone
  <2>5. PermitFits' /\ FilesFit'
    BY <1>2, <2>1 DEF ServerInv, PermitFits, FilesFit, RowsAreGone
  <2>6. RemovalsFit'
    BY <1>2, <1>4, <2>1 DEF ServerInv, TypeOK, RemovalsFit, RowsAreGone
  <2>7. AccountsFit'
    BY <1>2, <1>4, <2>1 DEF ServerInv, AccountsFit
  <2>8. FileIsAccountedFor'
    BY <1>2, <1>4, <2>1 DEF ServerInv, FileIsAccountedFor
  <2>9. QED
    BY <2>2, <2>3, <2>4, <2>5, <2>6, <2>7, <2>8 DEF ServerInv
<1>5. QED
  BY <1>3, <1>4, FailsCounts DEF TryEnqueue, ServerInv

\* The job has its row, or the sweep took it; its task starts without the permit.
LEMMA SpawnStep == ASSUME ServerInv, NEW j \in Jobs, Spawn(j) PROVE ServerInv'
<1>1. TypeOK'
  BY DEF ServerInv, TypeOK, Spawn
<1>2. RequestsFit'
  BY DEF ServerInv, TypeOK, Spawn, RequestsFit
<1>3. RowsFit'
  BY DEF ServerInv, Spawn, RowsFit, RequestsFit
<1>4. PermitFits'
  BY DEF ServerInv, Spawn, PermitFits, RequestsFit
<1>5. FilesFit'
  BY DEF ServerInv, Spawn, FilesFit
<1>6. RemovalsFit'
  BY DEF ServerInv, Spawn, RemovalsFit, RequestsFit
<1>7. AccountsFit'
  BY DEF ServerInv, Spawn, AccountsFit
<1>8. FileIsAccountedFor'
  BY DEF ServerInv, Spawn, FileIsAccountedFor, RequestsFit
<1>9. OneActiveRow'
  BY DEF ServerInv, Spawn, OneActiveRow
<1>10. QED
  BY <1>1, <1>2, <1>3, <1>4, <1>5, <1>6, <1>7, <1>8, <1>9 DEF ServerInv

\* A job whose file is removed is over and has no row, so nobody misses the file.
LEMMA RemoveFileStep == ASSUME ServerInv, NEW j \in Jobs, RemoveFile(j) PROVE ServerInv'
<1>1. TypeOK'
  BY FailsCounts DEF ServerInv, TypeOK, RemoveFile
<1>2. FilesFit'
  BY DEF ServerInv, RemoveFile, FilesFit, RowsFit, RemovalsFit
<1>3. RemovalsFit'
  BY DEF ServerInv, RemoveFile, RemovalsFit
<1>4. AccountsFit'
  BY FailsCounts DEF ServerInv, RemoveFile, AccountsFit
<1>5. FileIsAccountedFor'
  BY FailsCounts DEF ServerInv, RemoveFile, FileIsAccountedFor
<1>6. OneActiveRow' /\ RequestsFit' /\ RowsFit' /\ PermitFits'
  BY DEF ServerInv, RemoveFile, OneActiveRow, RequestsFit, RowsFit, PermitFits
<1>7. QED
  BY <1>1, <1>2, <1>3, <1>4, <1>5, <1>6 DEF ServerInv

\* The permit is free: no proof runs, and none that has timed out.
LEMMA AcquireStep == ASSUME ServerInv, NEW j \in Jobs, Acquire(j) PROVE ServerInv'
<1>1. TypeOK'
  BY DEF ServerInv, TypeOK, Acquire, TaskGoesTo
<1>2. RequestsFit'
  BY DEF ServerInv, Acquire, TaskGoesTo, RequestsFit
<1>3. RowsFit'
  BY DEF ServerInv, Acquire, TaskGoesTo, RowsFit
<1>4. PermitFits'
  BY DEF ServerInv, Acquire, TaskGoesTo, PermitFits
<1>5. FilesFit'
  BY DEF ServerInv, Acquire, TaskGoesTo, FilesFit
<1>6. RemovalsFit'
  BY DEF ServerInv, Acquire, TaskGoesTo, RemovalsFit
<1>7. AccountsFit'
  BY DEF ServerInv, Acquire, TaskGoesTo, AccountsFit
<1>8. FileIsAccountedFor'
  BY DEF ServerInv, Acquire, TaskGoesTo, FileIsAccountedFor
<1>9. OneActiveRow'
  BY DEF ServerInv, Acquire, OneActiveRow
<1>10. QED
  BY <1>1, <1>2, <1>3, <1>4, <1>5, <1>6, <1>7, <1>8, <1>9 DEF ServerInv

\* The row of a task that holds the permit was queued or running, or the sweep took it.
\* When the call fails the row stays behind, which only a failed call may cause.
LEMMA MarkRunningStep == ASSUME ServerInv, NEW j \in Jobs, MarkRunning(j) PROVE ServerInv'
<1>1. \/ /\ RowIsWritten(j, "running", row[j].path, FALSE)
         /\ TaskGoesTo(j, "proving") /\ UNCHANGED errors
      \/ UNCHANGED row /\ TaskGoesTo(j, "done") /\ errors' \in 1 .. MaxFaults
  <2>1. row \in [Jobs -> RowRecord] /\ "running" \in Statuses
    BY DEF ServerInv, TypeOK, Statuses
  <2>2. row[j].path \in BOOLEAN
    BY <2>1 DEF RowRecord
  <2>3. \/ /\ row' = Updated(j, "running", row[j].path)
           /\ TaskGoesTo(j, "proving") /\ UNCHANGED errors
        \/ UNCHANGED row /\ TaskGoesTo(j, "done") /\ errors' \in 1 .. MaxFaults
    BY FailsCounts DEF ServerInv, MarkRunning
  <2>4. QED
    BY <2>1, <2>2, <2>3, UpdatedRows
<1>2. TypeOK'
  BY FailsCounts, <1>1 DEF ServerInv, TypeOK, MarkRunning, TaskGoesTo, RowIsWritten
<1>3. OneActiveRow'
  BY <1>1
     DEF ServerInv, TypeOK, MarkRunning, OneActiveRow, Active, RowsFit, Finished,
         RowIsWritten, RowRecord, Statuses
<1>4. RequestsFit'
  BY <1>1 DEF ServerInv, TypeOK, MarkRunning, TaskGoesTo, RequestsFit, RowIsWritten
<1>5. RowsFit'
  BY <1>1
     DEF ServerInv, TypeOK, MarkRunning, TaskGoesTo, RowsFit, Finished, RowIsWritten
<1>6. PermitFits'
  BY DEF ServerInv, TypeOK, MarkRunning, TaskGoesTo, PermitFits
<1>7. FilesFit'
  BY <1>1
     DEF ServerInv, TypeOK, MarkRunning, TaskGoesTo, FilesFit, RowsFit, Finished,
         RowIsWritten
<1>8. RemovalsFit'
  BY <1>1 DEF ServerInv, TypeOK, MarkRunning, TaskGoesTo, RemovalsFit, RowIsWritten
<1>9. AccountsFit'
  BY FailsCounts, <1>1
     DEF ServerInv, TypeOK, MarkRunning, TaskGoesTo, AccountsFit, Active, RowIsWritten
<1>10. FileIsAccountedFor'
  BY FailsCounts, <1>1
     DEF ServerInv, TypeOK, MarkRunning, TaskGoesTo, FileIsAccountedFor, RowIsWritten
<1>11. QED
  BY <1>2, <1>3, <1>4, <1>5, <1>6, <1>7, <1>8, <1>9, <1>10 DEF ServerInv

\* The proof ends and gives the permit back before the row is written.
LEMMA ProofEndsStep == ASSUME ServerInv, NEW j \in Jobs, ProofEnds(j) PROVE ServerInv'
<1>1. TypeOK'
  BY DEF ServerInv, TypeOK, ProofEnds, TaskGoesTo
<1>2. RequestsFit'
  BY DEF ServerInv, TypeOK, ProofEnds, TaskGoesTo, RequestsFit
<1>3. RowsFit'
  BY DEF ServerInv, TypeOK, ProofEnds, TaskGoesTo, RowsFit
<1>4. PermitFits'
  BY DEF ServerInv, TypeOK, ProofEnds, TaskGoesTo, PermitFits
<1>5. FilesFit'
  BY DEF ServerInv, TypeOK, ProofEnds, TaskGoesTo, FilesFit
<1>6. RemovalsFit'
  BY DEF ServerInv, TypeOK, ProofEnds, TaskGoesTo, RemovalsFit
<1>7. AccountsFit'
  BY DEF ServerInv, TypeOK, ProofEnds, TaskGoesTo, AccountsFit
<1>8. FileIsAccountedFor'
  BY DEF ServerInv, TypeOK, ProofEnds, TaskGoesTo, FileIsAccountedFor
<1>9. OneActiveRow'
  BY DEF ServerInv, ProofEnds, OneActiveRow
<1>10. QED
  BY <1>1, <1>2, <1>3, <1>4, <1>5, <1>6, <1>7, <1>8, <1>9 DEF ServerInv

\* The permit stays with the proof that cannot be stopped.
LEMMA TimesOutStep == ASSUME ServerInv, NEW j \in Jobs, TimesOut(j) PROVE ServerInv'
<1>1. TypeOK'
  BY DEF ServerInv, TypeOK, TimesOut, TaskGoesTo
<1>2. RequestsFit'
  BY DEF ServerInv, TimesOut, TaskGoesTo, RequestsFit
<1>3. RowsFit'
  BY DEF ServerInv, TimesOut, TaskGoesTo, RowsFit
<1>4. PermitFits'
  BY DEF ServerInv, TypeOK, TimesOut, TaskGoesTo, PermitFits
<1>5. FilesFit'
  BY DEF ServerInv, TimesOut, TaskGoesTo, FilesFit
<1>6. RemovalsFit'
  BY DEF ServerInv, TimesOut, TaskGoesTo, RemovalsFit
<1>7. AccountsFit'
  BY DEF ServerInv, TimesOut, TaskGoesTo, AccountsFit
<1>8. FileIsAccountedFor'
  BY DEF ServerInv, TimesOut, TaskGoesTo, FileIsAccountedFor
<1>9. OneActiveRow'
  BY DEF ServerInv, TimesOut, OneActiveRow
<1>10. QED
  BY <1>1, <1>2, <1>3, <1>4, <1>5, <1>6, <1>7, <1>8, <1>9 DEF ServerInv

\* Only the detached proof held the permit.
LEMMA DetachedEndsStep == ASSUME ServerInv, NEW j \in Jobs, DetachedEnds(j) PROVE ServerInv'
<1>1. TypeOK'
  BY DEF ServerInv, TypeOK, DetachedEnds
<1>2. PermitFits'
  BY DEF ServerInv, DetachedEnds, PermitFits
<1>3. OneActiveRow' /\ RequestsFit' /\ RowsFit' /\ FilesFit'
      /\ RemovalsFit' /\ AccountsFit' /\ FileIsAccountedFor'
  BY DEF ServerInv, DetachedEnds, OneActiveRow, RequestsFit, RowsFit, FilesFit,
         RemovalsFit, AccountsFit, FileIsAccountedFor
<1>4. QED
  BY <1>1, <1>2, <1>3 DEF ServerInv

\* The file is there before the row is written.
LEMMA WriteFileStep == ASSUME ServerInv, NEW j \in Jobs, WriteFile(j) PROVE ServerInv'
<1>1. TypeOK'
  BY FailsCounts DEF ServerInv, TypeOK, WriteFile, TaskGoesTo
<1>2. RequestsFit'
  BY DEF ServerInv, TypeOK, WriteFile, TaskGoesTo, RequestsFit
<1>3. RowsFit'
  BY DEF ServerInv, TypeOK, WriteFile, TaskGoesTo, RowsFit
<1>4. PermitFits'
  BY DEF ServerInv, TypeOK, WriteFile, TaskGoesTo, PermitFits
<1>5. FilesFit'
  BY DEF ServerInv, TypeOK, WriteFile, TaskGoesTo, FilesFit
<1>6. RemovalsFit'
  BY DEF ServerInv, TypeOK, WriteFile, TaskGoesTo, RemovalsFit
<1>7. AccountsFit'
  BY FailsCounts DEF ServerInv, TypeOK, WriteFile, TaskGoesTo, AccountsFit, RemovalsFit
<1>8. FileIsAccountedFor'
  BY FailsCounts DEF ServerInv, TypeOK, WriteFile, TaskGoesTo, FileIsAccountedFor
<1>9. OneActiveRow'
  BY DEF ServerInv, WriteFile, OneActiveRow
<1>10. QED
  BY <1>1, <1>2, <1>3, <1>4, <1>5, <1>6, <1>7, <1>8, <1>9 DEF ServerInv

\* The row gets its path only here, when its file is there; a row that the sweep took
\* leaves a file that nothing accounts for but the sweep.
LEMMA WriteRowStep == ASSUME ServerInv, NEW j \in Jobs, WriteRow(j) PROVE ServerInv'
<1>1. \/ /\ RowIsWritten(j, "succeeded", TRUE, FALSE)
         /\ TaskGoesTo(j, "done") /\ UNCHANGED errors
      \/ UNCHANGED row /\ TaskGoesTo(j, "failing") /\ errors' \in 1 .. MaxFaults
  <2>1. row \in [Jobs -> RowRecord] /\ "succeeded" \in Statuses
    BY DEF ServerInv, TypeOK, Statuses
  <2>2. TRUE \in BOOLEAN
    BY <2>1 DEF RowRecord
  <2>3. \/ /\ row' = Updated(j, "succeeded", TRUE)
           /\ TaskGoesTo(j, "done") /\ UNCHANGED errors
        \/ UNCHANGED row /\ TaskGoesTo(j, "failing") /\ errors' \in 1 .. MaxFaults
    BY FailsCounts DEF ServerInv, WriteRow
  <2>4. QED
    BY <2>1, <2>2, <2>3, UpdatedRows
<1>2. /\ task[j] = "written"
      /\ UNCHANGED <<file, request, inUse, detached, doomed, sweeper, deleter, swept, restarts>>
  BY DEF WriteRow
<1>3. TypeOK'
  BY <1>1, <1>2 DEF ServerInv, TypeOK, TaskGoesTo, RowIsWritten
<1>4. OneActiveRow'
  BY <1>1, <1>2 DEF ServerInv, OneActiveRow, Active, RowIsWritten
<1>5. RequestsFit'
  BY <1>1, <1>2 DEF ServerInv, TypeOK, TaskGoesTo, RequestsFit, RowIsWritten
<1>6. RowsFit'
  BY <1>1, <1>2 DEF ServerInv, TypeOK, TaskGoesTo, RowsFit, RowIsWritten
<1>7. PermitFits'
  BY <1>1, <1>2 DEF ServerInv, TypeOK, TaskGoesTo, PermitFits
<1>8. FilesFit'
  BY <1>1, <1>2 DEF ServerInv, FilesFit, RowIsWritten, TaskGoesTo, TypeOK
<1>9. RemovalsFit'
  BY <1>1, <1>2 DEF ServerInv, TypeOK, TaskGoesTo, RemovalsFit, RowIsWritten
<1>10. AccountsFit'
  BY <1>1, <1>2
     DEF ServerInv, TypeOK, TaskGoesTo, AccountsFit, RequestsFit, RowIsWritten
<1>11. FileIsAccountedFor'
  BY <1>1, <1>2
     DEF ServerInv, TypeOK, TaskGoesTo, FileIsAccountedFor, AccountsFit, Active,
         RowIsWritten
<1>12. QED
  BY <1>3, <1>4, <1>5, <1>6, <1>7, <1>8, <1>9, <1>10, <1>11 DEF ServerInv

\* A task that fails has no path in its row: the file it may have written is left
\* over only when a call has failed.
LEMMA FailJobStep == ASSUME ServerInv, NEW j \in Jobs, FailJob(j) PROVE ServerInv'
<1>1. \/ /\ RowIsWritten(j, "failed", row[j].path, FALSE)
         /\ TaskGoesTo(j, "done") /\ UNCHANGED errors
      \/ UNCHANGED row /\ TaskGoesTo(j, "done") /\ errors' \in 1 .. MaxFaults
  <2>1. row \in [Jobs -> RowRecord] /\ "failed" \in Statuses
    BY DEF ServerInv, TypeOK, Statuses
  <2>2. row[j].path \in BOOLEAN
    BY <2>1 DEF RowRecord
  <2>3. \/ /\ row' = Updated(j, "failed", row[j].path)
           /\ TaskGoesTo(j, "done") /\ UNCHANGED errors
        \/ UNCHANGED row /\ TaskGoesTo(j, "done") /\ errors' \in 1 .. MaxFaults
    BY FailsCounts DEF ServerInv, FailJob
  <2>4. QED
    BY <2>1, <2>2, <2>3, UpdatedRows
<1>2. /\ task[j] = "failing"
      /\ UNCHANGED <<file, request, inUse, detached, doomed, sweeper, deleter, swept, restarts>>
  BY DEF FailJob
<1>3. TypeOK'
  BY <1>1, <1>2 DEF ServerInv, TypeOK, TaskGoesTo, RowIsWritten
<1>4. OneActiveRow'
  BY <1>1, <1>2 DEF ServerInv, OneActiveRow, Active, RowIsWritten
<1>5. RequestsFit'
  BY <1>1, <1>2 DEF ServerInv, TypeOK, TaskGoesTo, RequestsFit, RowIsWritten
<1>6. RowsFit'
  BY <1>1, <1>2 DEF ServerInv, TypeOK, TaskGoesTo, RowsFit, Finished, RowIsWritten
<1>7. PermitFits'
  BY <1>1, <1>2 DEF ServerInv, TypeOK, TaskGoesTo, PermitFits
<1>8. FilesFit'
  BY <1>1, <1>2
     DEF ServerInv, TypeOK, TaskGoesTo, FilesFit, RowsFit, Finished, RowIsWritten
<1>9. RemovalsFit'
  BY <1>1, <1>2 DEF ServerInv, TypeOK, TaskGoesTo, RemovalsFit, RowIsWritten
<1>10. AccountsFit'
  BY <1>1, <1>2
     DEF ServerInv, TypeOK, TaskGoesTo, AccountsFit, RequestsFit, RowIsWritten
<1>11. FileIsAccountedFor'
  BY <1>1, <1>2 DEF ServerInv, TypeOK, TaskGoesTo, FileIsAccountedFor, RowIsWritten
<1>12. QED
  BY <1>3, <1>4, <1>5, <1>6, <1>7, <1>8, <1>9, <1>10, <1>11 DEF ServerInv

\* Behind the cutoff a row promises nothing.
LEMMA RowAgesStep == ASSUME ServerInv, NEW j \in Jobs, RowAges(j) PROVE ServerInv'
<1>1. RowIsWritten(j, row[j].status, row[j].path, TRUE)
  BY DEF ServerInv, TypeOK, RowAges, RowRecord, RowIsWritten
<1>2. TypeOK'
  BY <1>1 DEF ServerInv, TypeOK, RowAges, RowIsWritten
<1>3. OneActiveRow'
  BY <1>1 DEF ServerInv, RowAges, OneActiveRow, Active
<1>4. RequestsFit'
  BY <1>1 DEF ServerInv, RowAges, RequestsFit
<1>5. RowsFit'
  BY <1>1 DEF ServerInv, RowAges, RowsFit, Finished
<1>6. FilesFit'
  BY <1>1 DEF ServerInv, RowAges, FilesFit
<1>7. RemovalsFit'
  BY <1>1 DEF ServerInv, RowAges, RemovalsFit
<1>8. AccountsFit'
  BY <1>1 DEF ServerInv, RowAges, AccountsFit, Active, RemovalsFit, Idle
<1>9. FileIsAccountedFor'
  BY <1>1 DEF ServerInv, RowAges, FileIsAccountedFor
<1>10. PermitFits'
  BY DEF ServerInv, RowAges, PermitFits
<1>11. QED
  BY <1>2, <1>3, <1>4, <1>5, <1>6, <1>7, <1>8, <1>9, <1>10 DEF ServerInv

\* A row that is finished belongs to a task that has ended.
LEMMA DeleteChecksStep == ASSUME ServerInv, NEW j \in Jobs, DeleteChecks(j) PROVE ServerInv'
<1>1. TypeOK'
  BY DEF ServerInv, TypeOK, DeleteChecks
<1>2. RemovalsFit'
  BY DEF ServerInv, DeleteChecks, RemovalsFit, RowsFit
<1>3. OneActiveRow' /\ RequestsFit' /\ RowsFit' /\ PermitFits'
      /\ FilesFit' /\ AccountsFit' /\ FileIsAccountedFor'
  BY DEF ServerInv, DeleteChecks, OneActiveRow, RequestsFit, RowsFit, PermitFits,
         FilesFit, AccountsFit, FileIsAccountedFor
<1>4. QED
  BY <1>1, <1>2, <1>3 DEF ServerInv

\* The file of the row that goes is to be removed.
LEMMA DeleteRowStep == ASSUME ServerInv, NEW j \in Jobs, DeleteRow(j) PROVE ServerInv'
<1>1. RowsAreGone({j})
  BY RemainingRows DEF ServerInv, TypeOK, DeleteRow
<1>2. TypeOK'
  <2>1. row' \in [Jobs -> RowRecord]
    BY <1>1 DEF RowsAreGone
  <2>2. doomed' \in SUBSET Jobs /\ deleter' \in SUBSET Jobs
    BY DEF ServerInv, TypeOK, DeleteRow
  <2>3. QED
    BY <2>1, <2>2 DEF ServerInv, TypeOK, DeleteRow
<1>3. OneActiveRow'
  BY <1>1 DEF ServerInv, OneActiveRow, Active, RowsAreGone
<1>4. RequestsFit'
  BY <1>1 DEF ServerInv, DeleteRow, RequestsFit, RowsAreGone
<1>5. RowsFit'
  BY <1>1 DEF ServerInv, DeleteRow, RowsFit, Finished, RowsAreGone
<1>6. FilesFit'
  BY <1>1 DEF ServerInv, DeleteRow, FilesFit, RowsAreGone
<1>7. RemovalsFit'
  BY <1>1 DEF ServerInv, TypeOK, DeleteRow, RemovalsFit, RowsAreGone
<1>8. AccountsFit'
  BY <1>1
     DEF ServerInv, TypeOK, DeleteRow, AccountsFit, RequestsFit, RemovalsFit,
         RowsAreGone
<1>9. FileIsAccountedFor'
  BY <1>1 DEF ServerInv, TypeOK, DeleteRow, FileIsAccountedFor, RowsAreGone
<1>10. PermitFits'
  BY DEF ServerInv, DeleteRow, PermitFits
<1>11. QED
  BY <1>2, <1>3, <1>4, <1>5, <1>6, <1>7, <1>8, <1>9, <1>10 DEF ServerInv

\* What the sweep selects is behind the cutoff.
LEMMA SweepSelectStep == ASSUME ServerInv, SweepSelect PROVE ServerInv'
<1>1. TypeOK'
  BY DEF ServerInv, TypeOK, SweepSelect, Expired
<1>2. RemovalsFit'
  BY DEF ServerInv, SweepSelect, Expired, RemovalsFit, RowsFit, Finished
<1>3. AccountsFit'
  BY DEF ServerInv, SweepSelect, AccountsFit
<1>4. OneActiveRow' /\ RequestsFit' /\ RowsFit' /\ PermitFits'
      /\ FilesFit' /\ FileIsAccountedFor'
  BY DEF ServerInv, SweepSelect, OneActiveRow, RequestsFit, RowsFit, PermitFits,
         FilesFit, FileIsAccountedFor
<1>5. QED
  BY <1>1, <1>2, <1>3, <1>4 DEF ServerInv

\* The files it removes belong to rows behind the cutoff, or to none.
LEMMA SweepFilesStep == ASSUME ServerInv, SweepFiles PROVE ServerInv'
<1>1. TypeOK'
  BY FailsCounts DEF ServerInv, TypeOK, SweepFiles
<1>2. FilesFit'
  BY DEF ServerInv, SweepFiles, FilesFit, RowsFit, RemovalsFit
<1>3. RemovalsFit'
  BY DEF ServerInv, SweepFiles, RemovalsFit
<1>4. AccountsFit'
  BY FailsCounts DEF ServerInv, SweepFiles, AccountsFit
<1>5. FileIsAccountedFor'
  BY FailsCounts DEF ServerInv, SweepFiles, FileIsAccountedFor
<1>6. OneActiveRow' /\ RequestsFit' /\ RowsFit' /\ PermitFits'
  BY DEF ServerInv, SweepFiles, OneActiveRow, RequestsFit, RowsFit, PermitFits
<1>7. QED
  BY <1>1, <1>2, <1>3, <1>4, <1>5, <1>6 DEF ServerInv

\* The rows that go have no file any more, unless a call failed.
LEMMA SweepRowsStep == ASSUME ServerInv, SweepRows PROVE ServerInv'
<1> DEFINE gone == {j \in sweeper.jobs : row[j].old}
<1>1. \/ UNCHANGED <<row, swept>> /\ errors' \in 1 .. MaxFaults
      \/ /\ RowsAreGone(gone)
         /\ swept' = swept \cup {j \in gone : Active(row[j])} /\ UNCHANGED errors
         /\ \A k \in gone : k \in sweeper.jobs /\ row[k].old
  BY FailsCounts, RemainingRows DEF ServerInv, TypeOK, SweepRows
<1> HIDE DEF gone
<1>2. /\ sweeper.at = "removed" /\ sweeper' = Idle
      /\ UNCHANGED <<file, request, task, inUse, detached, doomed, deleter, restarts>>
  BY DEF SweepRows
<1>3. TypeOK'
  BY <1>1, <1>2 DEF ServerInv, TypeOK, Idle, RowsAreGone
<1>4. OneActiveRow'
  BY <1>1, <1>2 DEF ServerInv, OneActiveRow, Active, RowsAreGone
<1>5. RequestsFit'
  BY <1>1, <1>2 DEF ServerInv, RequestsFit, RowsAreGone
<1>6. RowsFit'
  BY <1>1, <1>2 DEF ServerInv, RowsFit, Finished, RowsAreGone
<1>7. FilesFit'
  BY <1>1, <1>2 DEF ServerInv, FilesFit, RowsAreGone
<1>8. RemovalsFit'
  BY <1>1, <1>2 DEF ServerInv, TypeOK, Idle, RemovalsFit, RowsAreGone
<1>9. AccountsFit'
  BY <1>1, <1>2 DEF ServerInv, Idle, AccountsFit, RowsAreGone
<1>10. FileIsAccountedFor'
  BY <1>1, <1>2 DEF ServerInv, TypeOK, FileIsAccountedFor, AccountsFit, RowsAreGone
<1>11. PermitFits'
  BY DEF ServerInv, SweepRows, PermitFits
<1>12. QED
  BY <1>3, <1>4, <1>5, <1>6, <1>7, <1>8, <1>9, <1>10, <1>11 DEF ServerInv

\* A new process has no tasks; rows that were active have failed, and files that no row
\* refers to are gone.
LEMMA ReopenStep == ASSUME ServerInv, Reopen, restarts' \in 0 .. MaxFaults PROVE ServerInv'
<1>1. /\ row' \in [Jobs -> RowRecord]
      /\ \A k \in Jobs : /\ row'[k].path = row[k].path
                         /\ IF Active(row[k])
                              THEN row'[k].status = "failed" /\ ~row'[k].old
                              ELSE row'[k] = row[k]
  BY DEF ServerInv, TypeOK, Reopen, Recovered, RowRecord, Statuses
<1>2. TypeOK'
  BY <1>1 DEF ServerInv, TypeOK, Reopen, Idle
<1>3. OneActiveRow'
  BY <1>1 DEF ServerInv, OneActiveRow
<1>4. RequestsFit'
  BY <1>1 DEF ServerInv, Reopen, RequestsFit, Active
<1>5. RowsFit'
  BY <1>1 DEF ServerInv, Reopen, RowsFit, RequestsFit, Active
<1>6. PermitFits'
  BY DEF Reopen, PermitFits
<1>7. FilesFit'
  BY <1>1 DEF ServerInv, Reopen, FilesFit, RowsFit, Active
<1>8. RemovalsFit'
  BY <1>1 DEF Reopen, Idle, RemovalsFit
<1>9. AccountsFit'
  BY <1>1 DEF Reopen, Idle, AccountsFit
<1>10. FileIsAccountedFor'
  BY <1>1 DEF ServerInv, TypeOK, Reopen, FileIsAccountedFor
<1>11. QED
  BY <1>2, <1>3, <1>4, <1>5, <1>6, <1>7, <1>8, <1>9, <1>10 DEF ServerInv
-----------------------------------------------------------------------------
\* A restart and an abort both reopen the store.
LEMMA RestartsStep == ASSUME ServerInv, Restart \/ Abort PROVE ServerInv'
<1>1. Reopen /\ restarts' \in 0 .. MaxFaults
  BY ServerAssumption DEF ServerInv, TypeOK, Restart, Abort
<1>2. QED
  BY <1>1, ReopenStep

\* A step that changes nothing the server keeps.
LEMMA ServerStutters == ASSUME ServerInv, UNCHANGED vars PROVE ServerInv'
BY DEF ServerInv, vars, TypeOK, OneActiveRow, RequestsFit, RowsFit, PermitFits,
       FilesFit, RemovalsFit, AccountsFit, FileIsAccountedFor

\* Every step keeps the invariant.
LEMMA ServerStep == ServerInv /\ [Next]_vars => ServerInv'
<1> SUFFICES ASSUME ServerInv, [Next]_vars PROVE ServerInv'
  OBVIOUS
<1>1. CASE \E j \in Jobs : Task(j)
  <2>1. PICK j \in Jobs : Task(j)
    BY <1>1
  <2>2. QED
    BY <2>1, TryEnqueueStep, SpawnStep, AcquireStep, MarkRunningStep, ProofEndsStep,
       TimesOutStep, WriteFileStep, WriteRowStep, FailJobStep
       DEF Task
<1>2. CASE \E j \in Jobs : Post(j) \/ DetachedEnds(j) \/ RemoveFile(j) \/ RowAges(j)
                             \/ DeleteChecks(j) \/ DeleteRow(j)
  BY <1>2, PostStep, DetachedEndsStep, RemoveFileStep, RowAgesStep, DeleteChecksStep,
     DeleteRowStep
<1>3. CASE Sweep
  BY <1>3, SweepSelectStep, SweepFilesStep, SweepRowsStep DEF Sweep
<1>4. CASE Restart \/ Abort
  BY <1>4, RestartsStep
<1>5. CASE UNCHANGED vars
  BY <1>5, ServerStutters
<1>6. QED
  BY <1>1, <1>2, <1>3, <1>4, <1>5 DEF Next

\* The invariant holds in every state.
LEMMA ServerInvariant == Spec => []ServerInv
<1>1. Init => ServerInv
  BY ServerInit
<1>2. ServerInv /\ [Next]_vars => ServerInv'
  BY ServerStep
<1>3. QED
  BY <1>1, <1>2, PTL DEF Spec
-----------------------------------------------------------------------------
\* The server's variables have their types.
THEOREM ServerTypeCorrect == Spec => []TypeOK
<1>1. ServerInv => TypeOK
  BY DEF ServerInv
<1>2. QED
  BY <1>1, ServerInvariant, PTL

\* Single flight: whatever handlers, tasks and the sweep do between the check of
\* enqueue_proof_job() and the insertion of try_enqueue(), and however often calls fail
\* and the process dies, no two rows are queued or running.
THEOREM SingleFlight == Spec => []OneActiveRow
<1>1. ServerInv => OneActiveRow
  BY DEF ServerInv
<1>2. QED
  BY <1>1, ServerInvariant, PTL

\* The prover works on one proof at a time, those that have timed out included: the
\* permit of prover_semaphore goes with the proof, not with the row of the job.
THEOREM OneProver == Spec => []OneProofAtATime
<1>1. ServerInv => OneProofAtATime
  BY DEF ServerInv, PermitFits, OneProofAtATime
<1>2. QED
  BY <1>1, ServerInvariant, PTL

\* A row that says succeeded, and that no sweep may take, has its file: complete()
\* writes it first, and whoever removes files works on jobs whose rows are gone or old.
THEOREM ResultsAreKept == Spec => []SucceededHasResult
<1>1. ServerInv => SucceededHasResult
  BY DEF ServerInv, RowsFit, FilesFit, SucceededHasResult, HasResult
<1>2. QED
  BY <1>1, ServerInvariant, PTL

\* As long as no call fails, a file that no row refers to is about to get its row or to
\* be removed, or the sweep took the row while its task was running.
THEOREM FilesAreAccountedFor == Spec => []FileIsAccountedFor
<1>1. ServerInv => FileIsAccountedFor
  BY DEF ServerInv
<1>2. QED
  BY <1>1, ServerInvariant, PTL
=============================================================================
