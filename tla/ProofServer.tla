---------------------------- MODULE ProofServer ----------------------------
(***************************************************************************)
(* The verifier's API server (kalien-verifier/api-server): one prover      *)
(* slot, a SQLite table of jobs, a directory of result files, and the      *)
(* tasks that run beside each other in one process: request handlers, the  *)
(* proof tasks, the sweep.                                                 *)
(*                                                                         *)
(* The table is behind a mutex; what a method does while it holds it is    *)
(* one action, and so is each access to the result directory.              *)
(***************************************************************************)
EXTENDS Naturals, FiniteSets

CONSTANTS
  MaxPosts,       \* bound: calls of POST
  MaxJobs,        \* MAX_JOBS: rows in the table
  KillsTimedOut,  \* is TIMED_OUT_PROOF_KILL_SECS positive?
  MaxFaults       \* bound: calls of SQLite or the file system that fail, and crashes

ASSUME ServerAssumption ==
  {MaxPosts, MaxJobs, MaxFaults} \subseteq Nat /\ KillsTimedOut \in BOOLEAN

VARIABLES
  row,      \* the jobs table
  file,     \* jobs with a file in results/
  request,  \* the POST of each job
  task,     \* the proof task of each job
  inUse,    \* jobs whose task holds the permit of prover_semaphore
  detached, \* jobs whose proof still runs although it has timed out
  doomed,   \* files of deleted rows that somebody is about to remove
  sweeper,  \* the sweep: its step, and the rows and files it has selected
  deleter,  \* the jobs that a DELETE has found finished
  swept,    \* jobs that the sweep deleted while they were active
  errors, restarts

vars == <<row, file, request, task, inUse, detached, doomed, sweeper, deleter,
          swept, errors, restarts>>

Jobs == 1 .. MaxPosts  \* named by the order of their POSTs

Statuses == {"none", "queued", "running", "succeeded", "failed"}
RowRecord ==
  [status : Statuses,   \* none: there is no such row
   path : BOOLEAN,      \* is result_path set?
   old : BOOLEAN]       \* is it behind the cutoff of a sweep?
NoRow == [status |-> "none", path |-> FALSE, old |-> FALSE]
Idle == [at |-> "idle", jobs |-> {}, files |-> {}]

TypeOK ==
  /\ row \in [Jobs -> RowRecord]
  /\ request \in [Jobs -> {"none", "checked", "inserted", "refused", "spawned"}]
  /\ task \in [Jobs -> {"none", "waiting", "acquired", "proving", "proved", "written",
                        "failing", "done"}]
  /\ {file, inUse, detached, doomed, deleter, swept} \subseteq SUBSET Jobs
  /\ sweeper \in [at : {"idle", "selected", "removed"}, jobs : SUBSET Jobs, files : SUBSET Jobs]
  /\ errors \in 0 .. MaxFaults /\ restarts \in 0 .. MaxFaults

Init ==
  /\ row = [j \in Jobs |-> NoRow]
  /\ request = [j \in Jobs |-> "none"] /\ task = [j \in Jobs |-> "none"]
  /\ file = {} /\ inUse = {} /\ detached = {} /\ doomed = {} /\ deleter = {} /\ swept = {}
  /\ sweeper = Idle
  /\ errors = 0 /\ restarts = 0

Active(r) == r.status \in {"queued", "running"}
Finished(r) == r.status \in {"succeeded", "failed"}
Rows == {j \in Jobs : row[j].status # "none"}

\* A call fails: it changes nothing, and the caller goes on with an error.
Fails == errors + restarts < MaxFaults /\ errors' = errors + 1
-----------------------------------------------------------------------------
(* POST /api/jobs/prove-tape/raw. *)

\* enqueue_proof_job(): is there a permit?  Nothing keeps it until it is taken.
Post(j) ==
  /\ request[j] = "none" /\ \A i \in 1 .. (j - 1) : request[i] # "none"
  /\ inUse = {}
  /\ request' = [request EXCEPT ![j] = "checked"]
  /\ UNCHANGED <<row, file, task, inUse, detached, doomed, sweeper, deleter, swept, errors,
                 restarts>>

\* The row that try_enqueue() deletes to make room: a finished one, the oldest.
Evicted ==
  IF Cardinality(Rows) < MaxJobs THEN {{}}
  ELSE {{e} : e \in {k \in Rows : /\ Finished(row[k])
                                  /\ \/ row[k].old
                                     \/ \A i \in Rows : Finished(row[i]) => ~row[i].old}}

Without(gone) == [k \in Jobs |-> IF k \in gone THEN NoRow ELSE row[k]]

Queued == [status |-> "queued", path |-> FALSE, old |-> FALSE]

\* Mutant: the single-flight guard is missing.
MayEnqueueAlways == TRUE

MayEnqueue == \A k \in Jobs : ~Active(row[k])

\* try_enqueue().  The deletion is not undone when the insertion fails.
TryEnqueue(j) ==
  /\ request[j] = "checked"
  /\ \/ /\ ~MayEnqueue \/ Evicted = {}
        /\ request' = [request EXCEPT ![j] = "refused"]
        /\ UNCHANGED <<row, doomed, errors>>
     \/ \E gone \in Evicted :
          /\ MayEnqueue
          /\ \/ /\ row' = [Without(gone) EXCEPT ![j] = Queued]
                /\ doomed' = doomed \cup {e \in gone : row[e].path}
                /\ request' = [request EXCEPT ![j] = "inserted"]
                /\ UNCHANGED errors
             \/ /\ Fails
                /\ row' = Without(gone)
                /\ request' = [request EXCEPT ![j] = "refused"]
                /\ UNCHANGED doomed
  /\ UNCHANGED <<file, task, inUse, detached, sweeper, deleter, swept, restarts>>

Spawn(j) ==
  /\ request[j] = "inserted"
  /\ request' = [request EXCEPT ![j] = "spawned"]
  /\ task' = [task EXCEPT ![j] = "waiting"]
  /\ UNCHANGED <<row, file, inUse, detached, doomed, sweeper, deleter, swept, errors,
                 restarts>>

\* remove_result_file_best_effort() for a row that was evicted or deleted.
RemoveFile(j) ==
  /\ j \in doomed
  /\ doomed' = doomed \ {j}
  /\ \/ file' = file \ {j} /\ UNCHANGED errors
     \/ Fails /\ UNCHANGED file
  /\ UNCHANGED <<row, request, task, inUse, detached, sweeper, deleter, swept, restarts>>
-----------------------------------------------------------------------------
(* run_proof_job(). *)

TaskGoesTo(j, step) == task' = [task EXCEPT ![j] = step]

Acquire(j) ==
  /\ task[j] = "waiting" /\ inUse = {}
  /\ inUse' = {j}
  /\ TaskGoesTo(j, "acquired")
  /\ UNCHANGED <<row, file, request, detached, doomed, sweeper, deleter, swept, errors,
                 restarts>>

\* The row of j is updated, if the sweep has left it there.
Updated(j, status, path) ==
  IF row[j].status = "none" THEN row
  ELSE [row EXCEPT ![j] = [status |-> status, path |-> path, old |-> FALSE]]

\* update_status(Running).  On an error the task ends, and its row stays queued.
MarkRunning(j) ==
  /\ task[j] = "acquired"
  /\ \/ /\ row' = Updated(j, "running", row[j].path)
        /\ TaskGoesTo(j, "proving")
        /\ UNCHANGED <<inUse, errors>>
     \/ /\ Fails
        /\ TaskGoesTo(j, "done")
        /\ inUse' = inUse \ {j}
        /\ UNCHANGED row
  /\ UNCHANGED <<file, request, detached, doomed, sweeper, deleter, swept, restarts>>

\* The permit is dropped before the row says how the proof ended.  A proof with a
\* score of zero counts as an error.
ProofEnds(j) ==
  /\ task[j] = "proving"
  /\ inUse' = inUse \ {j}
  /\ TaskGoesTo(j, "proved") \/ TaskGoesTo(j, "failing")
  /\ UNCHANGED <<row, file, request, detached, doomed, sweeper, deleter, swept, errors,
                 restarts>>

\* Mutant: a proof that has timed out gives the permit back.
TimesOutForgotten(j) ==
  /\ task[j] = "proving"
  /\ TaskGoesTo(j, "failing")
  /\ detached' = detached \cup {j}
  /\ inUse' = inUse \ {j}
  /\ UNCHANGED <<row, file, request, doomed, sweeper, deleter, swept, errors,
                 restarts>>

\* The proof cannot be stopped: it runs on, with the permit.
TimesOut(j) ==
  /\ task[j] = "proving"
  /\ TaskGoesTo(j, "failing")
  /\ detached' = detached \cup {j}
  /\ UNCHANGED <<row, file, request, inUse, doomed, sweeper, deleter, swept, errors,
                 restarts>>

\* Its result is discarded.
DetachedEnds(j) ==
  /\ j \in detached
  /\ detached' = detached \ {j} /\ inUse' = inUse \ {j}
  /\ UNCHANGED <<row, file, request, task, doomed, sweeper, deleter, swept, errors,
                 restarts>>

\* Mutant: the row is written first.
WriteRowFirst(j) ==
  /\ task[j] = "proved"
  /\ row' = Updated(j, "succeeded", TRUE)
  /\ TaskGoesTo(j, "written")
  /\ UNCHANGED <<file, request, inUse, detached, doomed, sweeper, deleter, swept, errors,
                 restarts>>

\* complete(): the file first ...
WriteFile(j) ==
  /\ task[j] = "proved"
  /\ \/ file' = file \cup {j} /\ TaskGoesTo(j, "written") /\ UNCHANGED errors
     \/ Fails /\ TaskGoesTo(j, "failing") /\ UNCHANGED file
  /\ UNCHANGED <<row, request, inUse, detached, doomed, sweeper, deleter, swept, restarts>>

\* ... then the row.
WriteRow(j) ==
  /\ task[j] = "written"
  /\ \/ row' = Updated(j, "succeeded", TRUE) /\ TaskGoesTo(j, "done") /\ UNCHANGED errors
     \/ Fails /\ TaskGoesTo(j, "failing") /\ UNCHANGED row
  /\ UNCHANGED <<file, request, inUse, detached, doomed, sweeper, deleter, swept, restarts>>

\* fail(); when that fails too, the row stays as it is until the sweep.
FailJob(j) ==
  /\ task[j] = "failing"
  /\ TaskGoesTo(j, "done")
  /\ \/ row' = Updated(j, "failed", row[j].path) /\ UNCHANGED errors
     \/ Fails /\ UNCHANGED row
  /\ UNCHANGED <<file, request, inUse, detached, doomed, sweeper, deleter, swept, restarts>>
-----------------------------------------------------------------------------
(* The sweep, and deleting jobs. *)

\* started_at or created_at of an active row, finished_at of a finished one, is
\* further back than the cutoff, which a sweep computes when it starts.  This clock is
\* not the one that times proofs out.
RowAges(j) ==
  /\ row[j].status # "none" /\ ~row[j].old /\ sweeper.at = "idle"
  /\ row' = [row EXCEPT ![j].old = TRUE]
  /\ UNCHANGED <<file, request, task, inUse, detached, doomed, sweeper, deleter, swept, errors,
                 restarts>>

\* Mutant: only finished rows are swept.
ExpiredFinished == {j \in Jobs : Finished(row[j]) /\ row[j].old}

Expired == {j \in Jobs : row[j].status # "none" /\ row[j].old}

SweepSelect ==
  /\ sweeper.at = "idle" /\ Expired # {}
  /\ sweeper' = [at |-> "selected", jobs |-> Expired, files |-> {j \in Expired : row[j].path}]
  /\ UNCHANGED <<row, file, request, task, inUse, detached, doomed, deleter, swept, errors, restarts>>

SweepFiles ==
  /\ sweeper.at = "selected"
  /\ sweeper' = [sweeper EXCEPT !.at = "removed"]
  /\ \/ file' = file \ sweeper.files /\ UNCHANGED errors
     \/ Fails /\ UNCHANGED file
  /\ UNCHANGED <<row, request, task, inUse, detached, doomed, deleter, swept, restarts>>

\* The condition is evaluated again: a row that was updated in between stays.
SweepRows ==
  LET gone == {j \in sweeper.jobs : row[j].old}
  IN /\ sweeper.at = "removed"
     /\ sweeper' = Idle
     /\ \/ /\ row' = Without(gone)
           /\ swept' = swept \cup {j \in gone : Active(row[j])}
           /\ UNCHANGED errors
        \/ Fails /\ UNCHANGED <<row, swept>>
     /\ UNCHANGED <<file, request, task, inUse, detached, doomed, deleter, restarts>>

\* DELETE /api/jobs/:id looks at the status ...
DeleteChecks(j) ==
  /\ j \notin deleter /\ Finished(row[j])
  /\ deleter' = deleter \cup {j}
  /\ UNCHANGED <<row, file, request, task, inUse, detached, doomed, sweeper, swept,
                 errors, restarts>>

\* Mutant: the file is left behind.
DeleteRowOnly(j) ==
  /\ j \in deleter
  /\ deleter' = deleter \ {j}
  /\ row' = Without({j})
  /\ UNCHANGED <<file, request, task, inUse, detached, doomed, sweeper, swept,
                 errors, restarts>>

\* ... and deletes the row in a second call.
DeleteRow(j) ==
  /\ j \in deleter
  /\ deleter' = deleter \ {j}
  /\ row' = Without({j})
  /\ doomed' = IF row[j].path THEN doomed \cup {j} ELSE doomed
  /\ UNCHANGED <<file, request, task, inUse, detached, sweeper, swept, errors, restarts>>
\* What GET /api/jobs/:id finds: it reads the file after the row, without the mutex.
HasResult(j) == row[j].path /\ j \in file
-----------------------------------------------------------------------------
(* The process dies, and JobStore::open() runs in the next one. *)

\* recover_on_startup()
Recovered == [j \in Jobs |-> IF Active(row[j]) THEN [row[j] EXCEPT !.status = "failed", !.old = FALSE]
                                               ELSE row[j]]

\* With it goes all but table and files; cleanup_orphan_results() runs.
Reopen ==
  /\ row' = Recovered
  /\ file' = {j \in file : row[j].path}
  /\ request' = [j \in Jobs |-> IF request[j] = "none" THEN "none" ELSE "spawned"]
  /\ task' = [j \in Jobs |-> IF request[j] = "none" THEN "none" ELSE "done"]
  /\ inUse' = {} /\ detached' = {} /\ doomed' = {} /\ deleter' = {}
  /\ sweeper' = Idle
  /\ UNCHANGED <<swept, errors>>

Restart == errors + restarts < MaxFaults /\ restarts' = restarts + 1 /\ Reopen

\* std::process::abort(): a proof that has timed out does not end.
Abort == KillsTimedOut /\ detached # {} /\ Reopen /\ UNCHANGED restarts
-----------------------------------------------------------------------------
Task(j) ==
  \/ TryEnqueue(j) \/ Spawn(j) \/ Acquire(j) \/ MarkRunning(j)
  \/ ProofEnds(j) \/ TimesOut(j) \/ WriteFile(j) \/ WriteRow(j) \/ FailJob(j)

Sweep == SweepSelect \/ SweepFiles \/ SweepRows

Next ==
  \/ \E j \in Jobs : Post(j) \/ Task(j) \/ DetachedEnds(j) \/ RemoveFile(j) \/ RowAges(j)
                       \/ DeleteChecks(j) \/ DeleteRow(j)
  \/ Sweep \/ Restart \/ Abort

Spec == Init /\ [][Next]_vars

\* Handlers and tasks go on, a proof ends or times out (in the end the process is
\* aborted), clocks advance and the sweep runs; nobody has to call.
Fairness ==
  /\ \A j \in Jobs : WF_vars(Task(j)) /\ WF_vars(RowAges(j)) /\ WF_vars(RemoveFile(j))
  /\ WF_vars(Sweep) /\ WF_vars(Abort)

FairSpec == Spec /\ Fairness
-----------------------------------------------------------------------------
\* Single flight: no two rows are queued or running, whatever handlers, tasks and
\* the sweep do between the check and the insertion.
OneActiveRow == \A j, k \in Jobs : Active(row[j]) /\ Active(row[k]) => j = k

\* The prover works on one proof at a time, those that have timed out included.
OneProofAtATime ==
  \A j, k \in Jobs :
    /\ j \in detached \/ task[j] = "proving"
    /\ k \in detached \/ task[k] = "proving"
    => j = k

\* A job that has succeeded has its result until its time to live is over: the file
\* is there before the row says so, across crashes and failed writes.
SucceededHasResult ==
  \A j \in Jobs : row[j].status = "succeeded" /\ ~row[j].old => HasResult(j)

\* A file that no row refers to is about to get its row or to be removed, unless a
\* call failed or the sweep deleted the row under the task.
FileIsAccountedFor ==
  errors = 0 =>
    \A j \in file : row[j].path \/ task[j] = "written" \/ j \in doomed \/ j \in swept

\* However proofs hang, calls fail and rows are left over: the server comes back to
\* where it accepts a job.
SlotIsFreed == []<>(inUse = {} /\ \A j \in Jobs : ~Active(row[j]))
=============================================================================
