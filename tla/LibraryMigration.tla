--------------------------- MODULE LibraryMigration ---------------------------
(***************************************************************************)
(* A library's media move to another library, and its unfinished task      *)
(* moves with them: the task is paused, its staging files are copied, its  *)
(* record is installed in the target queue and removed from the source     *)
(* queue, both sides acknowledge that, and only then is the source cleaned.*)
(*                                                                         *)
(* src/src/queue.rs                  the handover of the record            *)
(* src/src/library_migration.rs      MigrationEngine: the durable job      *)
(* src/src/library_migration_bot.rs  run, finish_task_transfers: the       *)
(*                                   coordinator, one at a time            *)
(*                                                                         *)
(* One migration with "include unfinished tasks", one task.  Each step of  *)
(* the coordinator is one operation of the queue or one save of the job;   *)
(* the process may stop between any two.  The media are one group.         *)
(***************************************************************************)
EXTENDS TaskQueue

CONSTANT MaxBudget   \* bound: pauses, failures of the engine, stops of the process

ASSUME MigrationAssumption == MaxBudget \in Nat

VARIABLES
  job,        \* JobDocument
  at,         \* where the coordinator is
  budget

vars == <<store, reg, permits, calls, jobs, job, at, budget>>

Held     == {"Paused", "Stopped", "Completed", "Partial", "Failed"}
Runnable == {"Queued", "Running"}
Ended    == {"Stopped", "Completed"}
Media    == {"copying", "cleaning", "complete", "skipped", "failed"}

NoJob == [status |-> "none", impact |-> 0, media |-> "copying", plan |-> FALSE,
          awaiting |-> FALSE, committed |-> FALSE, final |-> FALSE, payload |-> TRUE,
          controls |-> TRUE, latched |-> FALSE]

Places == {"off", "wait", "attach", "attaching", "step", "commit", "installed",
           "committed"}

TypeOK ==
  /\ QueueTypeOK
  /\ job \in [status : Held \cup Runnable \cup {"none"}, impact : 0 .. MaxGen, media : Media,
              plan : BOOLEAN, awaiting : BOOLEAN, committed : BOOLEAN, final : BOOLEAN,
              payload : BOOLEAN, controls : BOOLEAN, latched : BOOLEAN]
  /\ at \in Places
  /\ budget \in 0 .. MaxBudget

Init == QueueInit /\ job = NoJob /\ at = "off" /\ budget = MaxBudget

Spend == budget > 0 /\ budget' = budget - 1
queueSame == UNCHANGED queueVars

------------------------------------------------------------------------------
(* The user's side of the job.                                              *)

\* a confirmed preview names the task by its generation
Confirm ==
  /\ job.status = "none" /\ Has("source") /\ ~Pending
  /\ Rec.status \notin {"Completed", "Cancelled"} /\ Rec.gen < MaxGen
  /\ job' = [NoJob EXCEPT !.status = "Queued", !.impact = Rec.gen]
  /\ queueSame /\ UNCHANGED <<at, budget>>

Pause   == job.status \in Runnable /\ job' = [job EXCEPT !.status = "Paused"] /\ Spend
Resumed == job.status = "Paused" /\ job' = [job EXCEPT !.status = "Queued"] /\ UNCHANGED budget

\* media that are not finished stay where they are
StopRemaining ==
  /\ job.status \in Runnable \cup {"Paused", "Partial", "Failed"}
  /\ job' = [job EXCEPT !.status = "Stopped", !.latched = TRUE,
                        !.media = IF @ \in {"copying", "cleaning"} THEN "skipped" ELSE @]
  /\ UNCHANGED budget

RetryFailed ==
  /\ job.status \in {"Partial", "Failed"}
  /\ job' = IF job.latched THEN [job EXCEPT !.status = "Stopped"]
            ELSE [job EXCEPT !.status = "Queued",
                    !.media = IF @ # "failed" THEN @
                              ELSE IF job.committed THEN "cleaning" ELSE "copying"]
  /\ UNCHANGED budget

Control == (Pause \/ Resumed \/ StopRemaining \/ RetryFailed) /\ queueSame /\ UNCHANGED at

------------------------------------------------------------------------------
(* The coordinator pauses the task and waits for its writer.                *)

\* an error ends the run: pause_for_source
Abandoned ==
  /\ job' = IF job.status \in Runnable THEN [job EXCEPT !.status = "Paused"] ELSE job
  /\ at' = "off"

\* a wrong Writing: the record tells
WritingIfRunning(t) == Rec.status = "Running"

\* cancellation_is_registered
Writing(t) == reg.gen = t.pause /\ t.pause # 0

\* begin_task_destination_transfer
Handed ==
  LET g     == Rec.gen
      pause == Rec.status \in {"Preparing", "Running", "Verifying"} \/ reg.gen = g
      t     == [pause |-> IF pause THEN g ELSE 0, status |-> Rec.status, cancel |-> Rec.cancel,
                planned |-> FALSE]
  IN  IF pause
      THEN [Rec EXCEPT !.gen = g + 1, !.status = "Interrupted", !.cancel = FALSE,
                       !.handover = "copying", !.transfer = t]
      ELSE [Rec EXCEPT !.handover = "copying", !.transfer = t]

Begun ==
  /\ Rec.handover = "none" /\ Rec.gen = job.impact
  /\ Rec.status \notin {"Completed", "Cancelled"}
  /\ Save(Handed)
  /\ calls' = IF reg.gen = Rec.gen THEN Captured ELSE calls
  /\ at' = "wait" /\ UNCHANGED <<job, reg, permits, jobs>>

\* run, started by the watcher, and prepare_task_transfers: the listing of the
\* tasks and the operation are one step; the operation refuses a record that
\* has changed, since the preview or since the listing
PrepareTransfer ==
  /\ at = "off" /\ job.status \in Runnable
  /\ \/ /\ job.plan /\ Home = "target" /\ Pending
        /\ at' = "attach" /\ queueSame /\ UNCHANGED job
     \/ /\ Home = "source" /\ Rec.handover = "copying"
        /\ at' = "wait" /\ queueSame /\ UNCHANGED job
     \/ Begun
     \/ ~Pending /\ Abandoned /\ queueSame
  /\ UNCHANGED budget

\* wait_for_task_destination_transfer: no writer of the paused generation
WaitForWriter ==
  /\ at = "wait"
  /\ \/ ~Writing(Rec.transfer) /\ at' = "attach"
     \/ job.status \notin Runnable /\ at' = "off"
  /\ queueSame /\ UNCHANGED <<job, budget>>

\* hold_video_outputs_for_migration, which a job that is held gives up, and
\* task_transfer_plan: the exact staging files are named in the record
AttachPlan ==
  /\ at = "attach"
  /\ \/ job.status \notin Runnable /\ at' = "off" /\ queueSame
     \/ job.plan /\ at' = "step" /\ queueSame
     \/ /\ ~job.plan /\ ~Writing(Rec.transfer)
        /\ Save([Rec EXCEPT !.transfer.planned = TRUE])
        /\ at' = "attaching" /\ UNCHANGED <<reg, permits, calls, jobs>>
  /\ UNCHANGED <<job, budget>>

\* attach_task_transfer, whatever the user did to the job meanwhile
Attach ==
  /\ at = "attaching"
  /\ job' = [job EXCEPT !.plan = TRUE] /\ at' = "step"
  /\ queueSame /\ UNCHANGED budget

------------------------------------------------------------------------------
(* The engine's steps, and the commit in between.                           *)

Ready == job.media \in {"cleaning", "complete", "skipped"}

\* a wrong Acked: a copy that is complete counts
AckedOnceCopied == job.committed \/ job.awaiting

\* all_task_transfers_acked
Acked == job.committed

Copies ==
  /\ job.media = "copying"
  /\ \/ job' = [job EXCEPT !.status = "Running", !.media = "cleaning"] /\ UNCHANGED budget
     \/ job' = [job EXCEPT !.status = "Running", !.media = "failed"] /\ Spend

CopiesTask ==
  /\ Ready /\ ~Acked
  /\ \/ job.awaiting /\ UNCHANGED <<job, budget>>
     \/ /\ ~job.awaiting /\ job' = [job EXCEPT !.status = "Running", !.awaiting = TRUE]
        /\ UNCHANGED budget
     \/ ~job.awaiting /\ job' = [job EXCEPT !.status = "Failed"] /\ Spend

\* the staging files at the source go once their task is at the target
RemovesPayload ==
  /\ Ready /\ Acked /\ job.payload
  /\ \/ job' = [job EXCEPT !.status = "Running", !.payload = FALSE] /\ UNCHANGED budget
     \/ job' = [job EXCEPT !.status = "Partial"] /\ Spend

CleansMedia ==
  /\ Ready /\ Acked /\ ~job.payload
  /\ \/ /\ job' = [job EXCEPT !.status = "Completed",
                              !.media = IF @ = "cleaning" THEN "complete" ELSE @]
        /\ UNCHANGED budget
     \/ /\ job.media = "cleaning" /\ Spend
        /\ job' = [job EXCEPT !.status = "Failed", !.media = "failed"]

\* step_with_output_lease; a job that awaits its commit gets it, even one that
\* the user has just stopped
Step ==
  /\ at = "step"
  /\ \/ job.status \in Held /\ UNCHANGED <<job, budget>>
     \/ /\ job.status \in Runnable
        /\ \/ Copies \/ CopiesTask \/ RemovesPayload \/ CleansMedia
           \/ job.media = "failed" /\ job' = [job EXCEPT !.status = "Failed"] /\ UNCHANGED budget
  /\ at' = IF job'.awaiting THEN "commit" ELSE IF job'.status \in Runnable THEN "step"
           ELSE "off"
  /\ queueSame

\* commit_task_destination_transfer: the record is written to the target, ...
Install ==
  /\ at = "commit"
  /\ store' = IF Has("target") THEN store
              ELSE [store EXCEPT !["target"] = [store["source"] EXCEPT !.handover = "installed"]]
  /\ at' = "installed"
  /\ UNCHANGED <<reg, permits, calls, jobs, job, budget>>

\* a wrong Removed: the record keeps its token
Retained == store["source"]

\* what the commit leaves at the source
Removed == NoRecord

\* ... and removed from the source
Remove ==
  /\ at = "installed"
  /\ store' = [store EXCEPT !["source"] = Removed]
  /\ at' = "committed"
  /\ UNCHANGED <<reg, permits, calls, jobs, job, budget>>

\* ack_task_transfer; the loop goes by the status of the step before
AckCommit ==
  /\ at = "committed"
  /\ job' = [job EXCEPT !.committed = TRUE, !.awaiting = FALSE]
  /\ at' = IF job.status \in Runnable THEN "step" ELSE "off"
  /\ queueSame /\ UNCHANGED budget

------------------------------------------------------------------------------
(* finish_task_transfers: the handover of a job that has ended is undone or *)
(* concluded, and run again by the watcher for as long as the job is kept.  *)

\* restore_after_task_transfer: a task that was at work is queued again
Restored ==
  LET t == Rec.transfer
  IN  IF t.pause # 0 /\ t.status \in {"Preparing", "Running", "Verifying"}
      THEN [Rec EXCEPT !.status = "Queued", !.cancel = FALSE, !.transfer = NoTransfer]
      ELSE [Rec EXCEPT !.status = t.status, !.cancel = t.cancel, !.transfer = NoTransfer]

\* destination_transfer_ack keeps the task closed
Receipt == "receipt"

\* restore_task
Requeue(r) == IF r.status = "Queued" THEN Spawn("queued", r.gen) ELSE UNCHANGED jobs

\* abort_task_destination_transfer
Aborts ==
  /\ Home = "source" /\ Rec.handover = "copying" /\ job.status = "Stopped"
  /\ LET r == [Restored EXCEPT !.handover = "none"] IN Save(r) /\ Requeue(r)
  /\ UNCHANGED <<reg, permits, calls, job>>

\* a handover that is not concluded
Settle ==
  \/ ~job.committed /\ Aborts
  \* the commit had not been acknowledged when the job was stopped
  \/ /\ Rec.handover = "installed" /\ ~job.committed /\ queueSame
     /\ job' = [job EXCEPT !.committed = TRUE, !.awaiting = FALSE]
  \* ack_task_destination_transfer
  \/ /\ Rec.handover = "installed" /\ job.committed
     /\ Save([Restored EXCEPT !.handover = Receipt])
     /\ UNCHANGED <<reg, permits, calls, jobs, job>>
  \* ack_task_handoff_final
  \/ Rec.handover = "receipt" /\ job' = [job EXCEPT !.final = TRUE] /\ queueSame
  \* a task that an earlier pass has given back is queued once more
  \/ /\ job.plan /\ ~Pending /\ Rec.status = "Queued" /\ Requeue(Rec)
     /\ UNCHANGED <<store, reg, permits, calls, job>>

\* step_task_source_cleanup: the staging files, then their controls
Cleanup ==
  \/ /\ job' = IF job.payload THEN [job EXCEPT !.payload = FALSE] ELSE [job EXCEPT !.controls = FALSE]
     /\ UNCHANGED budget
  \/ /\ job' = [job EXCEPT !.status = "Partial", !.latched = @ \/ job.status = "Stopped"]
     /\ Spend

\* clear_task_destination_transfer_ack, and restore_task
Clear ==
  /\ Rec.handover = "receipt" /\ Save([Rec EXCEPT !.handover = "none"]) /\ Requeue(Rec)
  /\ UNCHANGED <<reg, permits, calls, job, budget>>

Cleaned == ~job.payload /\ ~job.controls

\* at the end of a run, and again whenever the watcher starts one
Finish ==
  /\ at = "off" /\ job.status \in Ended
  /\ \/ ~job.final /\ Settle /\ UNCHANGED budget
     \/ job.final /\ ~Cleaned /\ Cleanup /\ queueSame
     \/ job.final /\ Cleaned /\ Clear
  /\ UNCHANGED at

Coordinate ==
  \/ PrepareTransfer \/ WaitForWriter \/ AttachPlan \/ Attach \/ Step
  \/ Install \/ Remove \/ AckCommit \/ Finish

------------------------------------------------------------------------------
(* The process stops and starts again.                                      *)

\* reconcile_task_transfers: a record installed at the target is the task
Reconciled(l) ==
  IF l = "source" /\ Has("source") /\ Has("target") THEN NoRecord ELSE store[l]

Crash ==
  /\ Spend
  /\ store' = [l \in Libraries |-> Recovered(Reconciled(l))]
  /\ Gone /\ at' = "off" /\ UNCHANGED job

Next ==
  \/ QueueNext /\ UNCHANGED <<job, at, budget>>
  \/ Confirm \/ Control \/ Coordinate \/ Crash

Spec == Init /\ [][Next]_vars

\* The runtime polls every job and delivers every captured notification, and
\* the watcher starts the coordinator again every fifteen seconds.  Nothing
\* says that a slot becomes free, that an inspection or a download ends, or
\* that the user does anything.
FairSpec ==
  /\ Spec
  /\ \A j \in Jobs : WF_vars(Polled(j) /\ UNCHANGED <<job, at, budget>>)
  /\ \A t \in Tokens : WF_vars(Deliver(t) /\ UNCHANGED <<job, at, budget>>)
  /\ WF_vars(Coordinate)

------------------------------------------------------------------------------
(* What the handover promises.                                              *)

\* The task is in exactly one queue, but for the moment between the two steps
\* of the commit, when neither record may be used.
\* (queue.rs: commit, remove_task_for_transfer, reconcile)
OneRecord ==
  /\ Has("source") \/ Has("target")
  /\ Has("source") /\ Has("target") =>
       /\ at = "installed" /\ store["target"].handover = "installed"
       /\ store["source"].handover = "copying" /\ store["source"].transfer.planned

\* No job writes into the staging files that the exact plan names.
\* (begin, wait_for_task_destination_transfer, task_transfer_plan)
NoWriterOncePlanned ==
  Has("source") /\ store["source"].handover = "copying" /\ store["source"].transfer.planned =>
    \A j \in Jobs : jobs[j].pc \notin {"inspecting", "working"}

\* The task's staging files, and the media, leave the source only when the
\* task's record has left it and both sides know; and the task can be used at
\* the target only once nothing of it is left at the source.
\* (step_inner, step_task_source_cleanup, clear_task_destination_transfer_ack)
SourceStagingKept ==
  /\ ~job.payload \/ job.media = "complete" => job.committed /\ ~Has("source") /\ Has("target")
  /\ Home = "target" /\ ~Pending => Cleaned

\* A migration that has ended gives its task back by queueing a job for a
\* generation that may have one.
GivenBack == job.status \in Ended

\* No two jobs of the task's generation are at work (the one that has asked
\* about its plan may still be leaving), and only the status Running or
\* Verifying has one behind it, which it never lacks: but for two jobs that
\* share a token, one of which may consume a cancellation of the other.  A job
\* whose generation is over has been told, or is about to be.
\* (begin_run, claim_resume, accept_plan, recover_interrupted_tasks)
AtWork  == (Inside \ {"changed"}) \cup {"stopping"}
Working == {j \in Jobs : jobs[j].gen = Rec.gen /\ jobs[j].pc \in AtWork}
OneRunner ==
  /\ Cardinality(Working) <= 1
  /\ Working # {} => ~Pending /\ Rec.status \in {"Running", "Verifying", "Cancelled"}
  /\ ~Pending /\ Rec.status = "Verifying" => Cardinality(Working) = 1
  /\ ~Pending /\ Rec.status = "Running" /\ ~GivenBack => Cardinality(Working) = 1
  /\ \A j \in Jobs : jobs[j].pc \in {"inspecting", "working"} /\ jobs[j].gen # Rec.gen =>
       jobs[j].token \in permits \cup calls

\* A job that waits for its slot or runs gives up only when nobody needs it
\* any more, or when it may share the token of another.
\* (request_cancellation_if_matches: the token is captured with the lock held)
Wanted(j) == /\ ~Pending /\ Rec.gen = jobs[j].gen
             /\ Rec.status \in {"Queued", "Running"} /\ ~Rec.cancel
StopIsForThisRun ==
  [][\A j \in Jobs :
       jobs[j].pc \in {"waiting", "inspecting", "working"} /\ jobs'[j].pc \in {"stopping", "off"}
       /\ store' = store => ~Wanted(j) \/ GivenBack]_vars

\* A cancellation that was accepted ends the run.
\* (cancel_matching, run_queued_job)
Cancelling       == Rec.status = "Running" /\ Rec.cancel
CancelReachesRun == Cancelling ~> ~Cancelling

\* It does, unless a migration has ended and given the task back, time and
\* again for a stopped one.
CancelEnds == Cancelling /\ ~GivenBack ~> ~Cancelling \/ GivenBack

\* A task that is handed over is free again in the end, unless the migration
\* is held or asks for attention, or a writer left without withdrawing its
\* token, which the coordinator then waits for.
\* (wait_for_task_destination_transfer, finish_task_transfers, the watcher)
Leaked       == reg.token # NoToken /\ \A j \in Jobs : jobs[j].token # reg.token
HandoverEnds == Pending ~> ~Pending \/ job.status \in {"Paused", "Partial", "Failed"} \/ Leaked
=============================================================================
