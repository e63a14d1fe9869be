------------------------------ MODULE TaskQueue ------------------------------
(***************************************************************************)
(* One download task: its record, the jobs that prepare and run it, the    *)
(* buttons under its messages and the tokens that cancellations travel by. *)
(*                                                                         *)
(* src/src/queue.rs   QueueManager: every operation holds operation_lock   *)
(* src/src/main.rs    queue_or_prompt_job, queue_queued_task,              *)
(*                    run_queued_job, handle_queue_callback                *)
(*                                                                         *)
(* A record lives in the store of a library.  While it is handed over to   *)
(* another library (LibraryMigration) or awaits the end of that handover,  *)
(* every operation of this module refuses it.  A job is one pass from      *)
(* preparation to an end; what it awaits between two operations of the     *)
(* queue is the gap between two of its steps here.  Generations count from *)
(* 1, so that 0 is none; AwaitingChoice stands for AwaitingSelection and   *)
(* AwaitingDuplicateChoice.  PartiallyCompleted, which only tasks of many  *)
(* entries reach, is left out: it is Failed with a Cancel of its own.      *)
(***************************************************************************)
EXTENDS Integers, FiniteSets

CONSTANTS
  Jobs,       \* slots for the jobs in progress
  Tokens,     \* Arc<Notify>
  NoToken,
  First,      \* the library the registry lists first
  MaxGen      \* bound: generations of the task

Libraries == {"source", "target"}
Other(l)  == IF l = "source" THEN "target" ELSE "source"

ASSUME QueueAssumption ==
  /\ NoToken \notin Tokens /\ First \in Libraries
  /\ MaxGen \in Nat \ {0} /\ Jobs # {}

VARIABLES
  store,      \* the task's record in the queue of each library
  reg,        \* QueueManager.cancellations: generation and token
  permits,    \* tokens notified and not yet observed
  calls,      \* captured tokens whose notification is still to be delivered
  jobs

queueVars == <<store, reg, permits, calls, jobs>>

Generations == 1 .. MaxGen
Unfinished  == {"Received", "Preparing", "AwaitingChoice", "AwaitingConfirmation", "Queued",
                "Running", "Verifying", "Interrupted"}
Statuses    == Unfinished \cup {"Failed", "Completed", "Cancelled"}
Handovers   == {"none", "copying", "installed", "receipt"}

\* TaskDestinationTransfer
Transfers == [pause : 0 .. MaxGen, status : Statuses, cancel : BOOLEAN, planned : BOOLEAN]
NoTransfer == [pause |-> 0, status |-> "Received", cancel |-> FALSE, planned |-> FALSE]
Records  == [status : Statuses, gen : Generations, cancel : BOOLEAN, handover : Handovers,
             transfer : Transfers]
NoRecord == [status |-> "none"]

Idle == [pc |-> "off", gen |-> 0, token |-> NoToken]
Unregistered == [gen |-> 0, token |-> NoToken]

Before == {"prepare", "probing", "choice", "queued", "waiting"}
Inside == {"inspecting", "planned", "changed", "working", "verifying"}
After  == {"stopping", "asking", "leaving"}

QueueTypeOK ==
  /\ store \in [Libraries -> Records \cup {NoRecord}]
  /\ reg \in [gen : 0 .. MaxGen, token : Tokens \cup {NoToken}]
  /\ permits \subseteq Tokens /\ calls \subseteq Tokens
  /\ jobs \in [Jobs -> [pc : {"off"} \cup Before \cup Inside \cup After, gen : 0 .. MaxGen,
                        token : Tokens \cup {NoToken}]]

\* a task just received and its job
QueueInit ==
  /\ store = [l \in Libraries |->
       IF l = "source" THEN [status |-> "Received", gen |-> 1, cancel |-> FALSE,
                             handover |-> "none", transfer |-> NoTransfer]
       ELSE NoRecord]
  /\ reg = Unregistered /\ permits = {} /\ calls = {}
  /\ jobs = [j \in Jobs |-> IF j = CHOOSE k \in Jobs : TRUE
                            THEN [pc |-> "prepare", gen |-> 1, token |-> NoToken] ELSE Idle]

------------------------------------------------------------------------------
(* The record that an operation finds, and what it may do with it.          *)

Has(l)   == store[l] # NoRecord
Present  == \E l \in Libraries : Has(l)
Home     == IF Has(First) THEN First ELSE Other(First)
Rec      == store[Home]
Pending  == Rec.handover # "none"

Save(r)  == store' = [store EXCEPT ![Home] = r]
Current(g) == Present /\ ~Pending /\ Rec.gen = g
Is(g, statuses) == Current(g) /\ Rec.status \in statuses

Go(j, pc) == jobs' = [jobs EXCEPT ![j].pc = pc]
End(j)    == jobs' = [jobs EXCEPT ![j] = Idle]

\* queue_or_prompt_job, or restore_task: a job of generation g in a free slot
Room == \E j \in Jobs : jobs[j].pc = "off"
Spawn(pc, g) ==
  LET j == CHOOSE k \in Jobs : jobs[k].pc = "off"
  IN  /\ Room
      /\ jobs' = [jobs EXCEPT ![j] = [pc |-> pc, gen |-> g, token |-> NoToken]]

\* a wrong Captured: the registration is left to whoever looks later
NotCaptured == calls

\* the token of the registration, to be notified once the lock is released
Captured == calls \cup ({reg.token} \ {NoToken})

------------------------------------------------------------------------------
(* Buttons: each carries the generation its message was sent for.           *)

\* no job may still own the generation that is resumed
Resumable == {"Received", "AwaitingChoice", "AwaitingConfirmation", "Interrupted", "Failed"}

\* claim_resume: Resume, or Retry for a failed task
Resume(g) ==
  /\ Is(g, Resumable) /\ g < MaxGen
  /\ Save([Rec EXCEPT !.gen = g + 1, !.status = "Preparing", !.cancel = FALSE])
  /\ Spawn("prepare", g + 1)
  /\ UNCHANGED <<reg, permits, calls>>

\* a changed plan is accepted within its generation; the job that asked is
\* not the one that will run
Accept(g) ==
  /\ Is(g, {"AwaitingConfirmation"})
  /\ Save([Rec EXCEPT !.status = "Preparing", !.cancel = FALSE])
  /\ reg' = IF reg.gen = g THEN Unregistered ELSE reg
  /\ Spawn("prepare", g)
  /\ UNCHANGED <<permits, calls>>

Cancel(g) ==
  /\ Is(g, Unfinished \ {"Verifying"})
  /\ Save(IF Rec.status = "Running" THEN [Rec EXCEPT !.cancel = TRUE]
          ELSE [Rec EXCEPT !.status = "Cancelled", !.cancel = FALSE])
  /\ calls' = Captured
  /\ UNCHANGED <<reg, permits, jobs>>

\* the tokens that a job or the registration still refers to; a permit in any
\* other is gone with its token
Referenced(S, r) == {r.token} \cup {jobs[j].token : j \in S}

\* wrong forms of Woken: the registration is looked up when the notification
\* is sent, and in the second one there always is one
Registered(t)    == {reg.token} \ {NoToken}
AnyRegistered(t) == {reg.token}

\* notify_one stores one permit in the token that was captured
Woken(t) == {t}
Deliver(t) ==
  /\ t \in calls
  /\ calls' = calls \ {t}
  /\ permits' = permits \cup (Woken(t) \cap Referenced(Jobs, reg))
  /\ UNCHANGED <<store, reg, jobs>>

------------------------------------------------------------------------------
(* A job before it runs.                                                    *)

\* prepare_persisted_task_for_job
Prepare(j) ==
  /\ jobs[j].pc = "prepare"
  /\ \/ /\ Is(jobs[j].gen, {"Received", "Preparing"})
        /\ Save([Rec EXCEPT !.status = "Preparing", !.cancel = FALSE]) /\ Go(j, "probing")
     \/ ~Is(jobs[j].gen, {"Received", "Preparing"}) /\ End(j) /\ UNCHANGED store
  /\ UNCHANGED <<reg, permits, calls>>

\* what is asked for is looked up, and whether it is there already
Probe(j) ==
  /\ jobs[j].pc = "probing"
  /\ \/ /\ Is(jobs[j].gen, {"Preparing"})
        /\ \/ Save([Rec EXCEPT !.status = "AwaitingChoice", !.cancel = FALSE]) /\ Go(j, "choice")
           \/ Save([Rec EXCEPT !.status = "Queued", !.cancel = FALSE]) /\ Go(j, "queued")
           \/ Save([Rec EXCEPT !.status = "Failed", !.cancel = FALSE]) /\ End(j)
     \/ ~Is(jobs[j].gen, {"Preparing"}) /\ End(j) /\ UNCHANGED store
  /\ UNCHANGED <<reg, permits, calls>>

\* the user's choice, or a prompt that expires or could not be sent
Choose(j) ==
  /\ jobs[j].pc = "choice"
  /\ \/ /\ Is(jobs[j].gen, {"AwaitingChoice"})
        /\ \/ Save([Rec EXCEPT !.status = "Queued"]) /\ Go(j, "queued") /\ UNCHANGED calls
           \/ Save([Rec EXCEPT !.status = "Cancelled"]) /\ End(j) /\ calls' = Captured
     \/ End(j) /\ UNCHANGED <<store, calls>>
  /\ UNCHANGED <<reg, permits>>

Fresh == Tokens \ ({reg.token} \cup calls \cup {jobs[j].token : j \in Jobs})

\* register_cancellation_if_queued_generation
Register(j) ==
  LET g == jobs[j].gen
      t == IF reg.gen = g THEN reg.token ELSE CHOOSE x \in Fresh : TRUE
  IN  /\ jobs[j].pc = "queued"
      /\ \/ /\ Is(g, {"Queued"}) /\ (reg.gen = g \/ Fresh # {})
            /\ reg' = [gen |-> g, token |-> t]
            /\ permits' = IF reg.gen = g THEN permits ELSE permits \ {t}
            /\ jobs' = [jobs EXCEPT ![j] = [pc |-> "waiting", gen |-> g, token |-> t]]
         \/ ~Is(g, {"Queued"}) /\ End(j) /\ UNCHANGED <<reg, permits>>
      /\ UNCHANGED <<store, calls>>

\* a wrong Withdrawn: whatever is registered goes
AllWithdrawn(t) == Unregistered

\* unregister_cancellation_if_current
Withdrawn(t) == IF reg.token = t THEN Unregistered ELSE reg

\* the wait for a download slot is cancelled
GiveUp(j) ==
  /\ jobs[j].pc = "waiting" /\ jobs[j].token \in permits
  /\ permits' = permits \ {jobs[j].token}
  /\ reg' = Withdrawn(jobs[j].token)
  /\ End(j)
  /\ UNCHANGED <<store, calls>>

\* a wrong Startable
StartableTwice == {"Queued", "Running"}

Startable == {"Queued"}

\* a slot is free: begin_run
Begin(j) ==
  /\ jobs[j].pc = "waiting"
  /\ \/ /\ Is(jobs[j].gen, Startable)
        /\ Save([Rec EXCEPT !.status = "Running", !.cancel = FALSE]) /\ Go(j, "inspecting")
     \/ ~Is(jobs[j].gen, Startable) /\ Go(j, "leaving") /\ UNCHANGED store
  /\ UNCHANGED <<reg, permits, calls>>

------------------------------------------------------------------------------
(* A job that runs.                                                         *)

\* the select of the inspection, or of the download, sees the cancellation
Observe(j) ==
  /\ jobs[j].pc \in {"inspecting", "working"} /\ jobs[j].token \in permits
  /\ permits' = permits \ {jobs[j].token}
  /\ Go(j, "stopping")
  /\ UNCHANGED <<store, reg, calls>>

Cancellable(g) == Is(g, {"Running", "AwaitingConfirmation"}) /\ Rec.cancel
Cancelled      == [Rec EXCEPT !.status = "Cancelled", !.cancel = FALSE]

\* finish_cancellation
Stop(j) ==
  /\ jobs[j].pc = "stopping"
  /\ IF Cancellable(jobs[j].gen) THEN Save(Cancelled) ELSE UNCHANGED store
  /\ Go(j, "leaving")
  /\ UNCHANGED <<reg, permits, calls>>

\* the plan is inspected and saved (set_plan): one that differs from the plan
\* accepted before has to be confirmed
SetPlan(j) ==
  /\ jobs[j].pc = "inspecting"
  /\ \/ /\ Is(jobs[j].gen, {"Running"})
        /\ \/ Go(j, "planned") /\ UNCHANGED store
           \/ Save([Rec EXCEPT !.status = "AwaitingConfirmation"]) /\ Go(j, "changed")
     \/ ~Is(jobs[j].gen, {"Running"}) /\ Go(j, "leaving") /\ UNCHANGED store
  /\ UNCHANGED <<reg, permits, calls>>

\* the inspection fails, or has to pause
InspectFails(j) ==
  /\ jobs[j].pc = "inspecting"
  /\ IF Is(jobs[j].gen, Statuses \ {"Cancelled", "Completed"})
     THEN \E s \in {"Failed", "Interrupted"} : Save([Rec EXCEPT !.status = s, !.cancel = FALSE])
     ELSE UNCHANGED store
  /\ Go(j, "leaving")
  /\ UNCHANGED <<reg, permits, calls>>

\* the cancellation is looked at once more before the job goes on
Recheck(j) ==
  LET g == jobs[j].gen
  IN  /\ jobs[j].pc \in {"planned", "changed"}
      /\ \/ Cancellable(g) /\ Save(Cancelled) /\ Go(j, "leaving")
         \/ /\ ~Cancellable(g) /\ UNCHANGED store
            /\ Go(j, IF Present /\ Rec.gen = g /\ Rec.status = "Cancelled" THEN "leaving"
                     ELSE IF jobs[j].pc = "planned" THEN "working" ELSE "asking")
      /\ UNCHANGED <<reg, permits, calls>>

\* the question is sent; a job that is no longer current returns at once,
\* and leaves its token registered
Ask(j) ==
  /\ jobs[j].pc = "asking"
  /\ \/ Present /\ Rec.gen = jobs[j].gen /\ Go(j, "leaving")
     \/ ~(Present /\ Rec.gen = jobs[j].gen) /\ End(j)
  /\ UNCHANGED <<store, reg, permits, calls>>

\* a pending cancellation takes the place of the failure
Failing(g) ==
  IF Cancellable(g) THEN Save(Cancelled)
  ELSE IF Is(g, Unfinished \ {"Interrupted"})
  THEN \E s \in {"Failed", "Interrupted"} : Save([Rec EXCEPT !.status = s, !.cancel = FALSE])
  ELSE UNCHANGED store

\* the download, or its verification, fails
Fail(j) ==
  /\ jobs[j].pc \in {"working", "verifying"}
  /\ Failing(jobs[j].gen) /\ Go(j, "leaving")
  /\ UNCHANGED <<reg, permits, calls>>

\* the download is done; a result that is ready takes precedence over a
\* cancellation (select_worker_result_or_cancel, begin_verification)
Verify(j) ==
  /\ jobs[j].pc = "working"
  /\ \/ /\ Is(jobs[j].gen, {"Running"})
        /\ Save([Rec EXCEPT !.status = "Verifying", !.cancel = FALSE]) /\ Go(j, "verifying")
     \/ ~Is(jobs[j].gen, {"Running"}) /\ Go(j, "leaving") /\ UNCHANGED store
  /\ UNCHANGED <<reg, permits, calls>>

Complete(j) ==
  /\ jobs[j].pc = "verifying"
  /\ \/ Is(jobs[j].gen, {"Verifying"}) /\ Save([Rec EXCEPT !.status = "Completed"])
     \/ ~Is(jobs[j].gen, {"Verifying"}) /\ UNCHANGED store
  /\ Go(j, "leaving")
  /\ UNCHANGED <<reg, permits, calls>>

Leave(j) ==
  /\ jobs[j].pc = "leaving"
  /\ reg' = Withdrawn(jobs[j].token)
  /\ permits' = permits \cap Referenced(Jobs \ {j}, reg')
  /\ End(j)
  /\ UNCHANGED <<store, calls>>

\* what a job that is polled does at once, and what takes its time
Polled(j) ==
  \/ Prepare(j) \/ Probe(j) \/ Choose(j) \/ Register(j) \/ GiveUp(j) \/ Observe(j) \/ Stop(j) \/ Recheck(j)
  \/ Ask(j) \/ Complete(j) \/ Leave(j)
Works(j) == Begin(j) \/ SetPlan(j) \/ InspectFails(j) \/ Verify(j) \/ Fail(j)

QueueNext ==
  \/ \E g \in Generations : Resume(g) \/ Accept(g) \/ Cancel(g)
  \/ \E t \in Tokens : Deliver(t)
  \/ \E j \in Jobs : Polled(j) \/ Works(j)

\* recover_interrupted_tasks
Recovered(r) ==
  IF r = NoRecord \/ r.handover # "none" \/ r.status \notin Unfinished \ {"Interrupted"} THEN r
  ELSE [r EXCEPT !.status = IF r.cancel THEN "Cancelled" ELSE "Interrupted", !.cancel = FALSE]

\* nothing of a process survives but the records
Gone == reg' = Unregistered /\ permits' = {} /\ calls' = {} /\ jobs' = [j \in Jobs |-> Idle]
=============================================================================
