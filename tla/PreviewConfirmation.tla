------------------------- MODULE PreviewConfirmation -------------------------
(***************************************************************************)
(* One preview of a file batch between the moment it is offered and the    *)
(* moment it is closed: confirmations and cancellations that arrive for it *)
(* at any time, the seven-day clocks that let go of what each store keeps, *)
(* and a process that stops anywhere.                                      *)
(*                                                                         *)
(*   inbox      the preview's record, and a record for each confirmation   *)
(*              and each cancellation.  All of them, once settled, and an  *)
(*              abandoned preview expire.                                  *)
(*   library    the private preview file and the manifest of its batch,    *)
(*              which FileBatch describes from inside and which are only   *)
(*              five states here.                                          *)
(*   worker     the holder of the one management permit: it claims a       *)
(*              request, acts on it, makes its receipt durable and then,   *)
(*              with a second write, the state of the preview.             *)
(*                                                                         *)
(* Time is a number of ticks.  A record has a timestamp: when it was last  *)
(* written, or, for a request that is not settled, when it was received.   *)
(* It is kept for `Retention' ticks.                                       *)
(***************************************************************************)
EXTENDS Naturals

CONSTANTS
  Confirms,    \* confirmations of the preview
  Cancels,     \* cancellations of the preview
  Retention,   \* CLOUD_INBOX_ABANDONED_PREVIEW_RETENTION and its equals
  MaxTime,     \* bound: ticks
  MaxCrashes,  \* bound: process stops
  MaxFaults    \* bound: refusals, inaccessible files and failed writes

ASSUME KindAssumption == Confirms \cap Cancels = {}
ASSUME LimitAssumption == /\ Retention \in Nat \ {0}
                          /\ {MaxTime, MaxCrashes, MaxFaults} \subseteq Nat

Requests == Confirms \cup Cancels
Times    == 0..MaxTime

Active   == {"Pending", "Processing", "Retryable"}
NotQueued == {"Completed", "Failed", "Processing"}
Terminal == {"Completed", "Failed"}
Closed   == {"Completed", "Stale", "Cancelled"}

VARIABLES
  now,       \* the clock
  alive,     \* the process runs
  preview,   \* the preview's record in the inbox
  requests,  \* the record of each confirmation and cancellation
  file,      \* whether the library still has the preview's private file
  batch,     \* the manifest of the batch
  worker,    \* where the holder of the management permit is
  notified,  \* telegram_status_delivery is set: the message was begun
  crashes, faults,
  executed,  \* history: an attempt at the batch began
  done,      \* history: an attempt at the batch completed it
  inTime     \* history: the confirmations accepted while it was offered

history == <<executed, done, inTime>>
limits  == <<crashes, faults>>
inbox   == <<preview, requests>>
library == <<file, batch>>
vars == <<now, alive, inbox, library, worker, notified, limits, history>>

Unsent == [status |-> "none", time |-> 0]
Idle   == [at |-> "idle"]

Init ==
  /\ now = 0 /\ alive = TRUE
  /\ preview = [status |-> "Awaiting", time |-> 0]
  /\ requests = [q \in Requests |-> Unsent]
  /\ file = TRUE /\ batch = [status |-> "none", time |-> 0]
  /\ worker = Idle /\ notified = FALSE
  /\ crashes = 0 /\ faults = 0
  /\ executed = FALSE /\ done = FALSE /\ inTime = {}
-----------------------------------------------------------------------------
Expired(record) == record.time + Retention <= now

\* An awaiting preview that no longer may be confirmed or cancelled.
Abandoned == preview.status = "Awaiting" /\ Expired(preview)

ActiveConfirms == {c \in Confirms : requests[c].status \in Active}

\* A confirmation counts by when the desktop received it, whatever the delay
\* until it is dispatched.
ReceivedInTime(c) == requests[c].time < preview.time + Retention
DispatchedInTime(c) == now < preview.time + Retention
Unprotected == FALSE
Protected == \E c \in ActiveConfirms : ReceivedInTime(c)

SetPreview(st)   == preview' = [status |-> st, time |-> now]
SetActive(q, st) == requests' = [requests EXCEPT ![q].status = st]
SetSettled(q, st) == requests' = [requests EXCEPT ![q] = [status |-> st, time |-> now]]

\* What a dispatch leaves for persist_cloud_dispatch_outcome: the request's
\* status, and the preview's ("none" leaves it as it is).
Outcome(st, related) ==
  worker' = [worker EXCEPT !.at = "save", !.status = st, !.related = related]
Go(step)   == worker' = [worker EXCEPT !.at = step]
At(step)   == alive /\ worker.at = step
Fault      == faults < MaxFaults /\ faults' = faults + 1 /\ UNCHANGED crashes
-----------------------------------------------------------------------------
(* Requests arrive, and the worker takes one.                              *)

\* CloudInbox::persist of a new request.
Receive(q) ==
  /\ alive /\ requests[q] = Unsent
  /\ requests' = [requests EXCEPT ![q] = [status |-> "Pending", time |-> now]]
  /\ inTime' = IF /\ q \in Confirms /\ file
                  /\ preview.status = "Awaiting" /\ ~Expired(preview)
               THEN inTime \cup {q} ELSE inTime
  /\ UNCHANGED <<now, alive, preview, library, worker, notified, limits,
                 executed, done>>

Claim(q) ==
  /\ At("idle")
  /\ requests[q].status \in {"Pending", "Retryable"}
  /\ SetActive(q, "Processing")
  /\ worker' = [at |-> IF q \in Confirms THEN "lookup" ELSE "cancel",
                req |-> q, status |-> "Failed", related |-> "none"]
  /\ UNCHANGED <<now, alive, preview, library, notified, limits, history>>
-----------------------------------------------------------------------------
(* A cancellation: cancel_awaiting_preview, under the inbox's lock.        *)

AnyConfirm(st)     == \E c \in Confirms : requests[c].status = st
CompletedOnly      == IF AnyConfirm("Completed") THEN "Completed" ELSE "Cancelled"
\* A confirmation that ended closes the preview it left open; only one that
\* was never confirmed is cancelled.
Disposition ==
  IF AnyConfirm("Completed") THEN "Completed"
  ELSE IF AnyConfirm("Failed") THEN "Stale" ELSE "Cancelled"

CancelPreview ==
  /\ At("cancel")
  /\ \/ preview.status = "Cancelled"
        /\ Outcome("Completed", "none") /\ UNCHANGED preview
     \/ /\ preview.status \notin {"Awaiting", "Cancelled"} \/ Abandoned
           \/ (preview.status = "Awaiting" /\ ActiveConfirms # {})
        /\ Outcome("Failed", "none") /\ UNCHANGED preview
     \/ /\ preview.status = "Awaiting" /\ ~Abandoned /\ ActiveConfirms = {}
        /\ SetPreview(Disposition)
        /\ Outcome(IF Disposition = "Cancelled" THEN "Completed" ELSE "Failed",
                   "none")
  /\ UNCHANGED <<now, alive, requests, library, notified, limits, history>>
-----------------------------------------------------------------------------
(* A confirmation: the dispatch of file_confirm.                           *)

AnyStatus(c)  == preview.status # "gone" /\ ReceivedInTime(c)
LateLookup(c) == preview.status = "Awaiting" /\ DispatchedInTime(c)
\* awaiting_confirmation_record.
Confirmable(c) == preview.status = "Awaiting" /\ ReceivedInTime(c)

Lookup ==
  /\ At("lookup")
  /\ IF Confirmable(worker.req) THEN Go("check") ELSE Outcome("Failed", "none")
  /\ UNCHANGED <<now, alive, inbox, library, notified, limits, history>>

\* unconfirmable_preview_ids: the file is gone, or the descriptors it needs.
CheckFile ==
  /\ At("check")
  /\ IF file THEN Go("begin") ELSE Outcome("Failed", "Stale")
  /\ UNCHANGED <<now, alive, inbox, library, notified, limits, history>>

LoseAnchors ==
  /\ At("check")
  /\ Fault /\ Outcome("Failed", "Stale")
  /\ UNCHANGED <<now, alive, inbox, library, notified, history>>

\* begin_cloud_batch_message: the first attempt writes a "sending" receipt
\* into the preview's record and, when the message is out, a "sent" one.  Both
\* writes refresh the record; without a private chat there is neither.
Announce ==
  /\ At("begin")
  /\ \/ preview.status = "gone" /\ Outcome("Failed", "none")
        /\ UNCHANGED <<preview, notified>>
     \/ /\ preview.status # "gone" /\ ~notified
        /\ notified' = TRUE /\ SetPreview(preview.status) /\ Go("sending")
     \/ preview.status # "gone" /\ Go("execute")
        /\ UNCHANGED <<preview, notified>>
  /\ UNCHANGED <<now, alive, requests, library, limits, history>>

Announced ==
  /\ At("sending")
  /\ \/ preview.status = "gone" /\ Outcome("Failed", "none")
        /\ UNCHANGED preview
     \/ preview.status # "gone" /\ SetPreview(preview.status) /\ Go("execute")
     \/ Go("execute") /\ UNCHANGED preview       \* Telegram did not answer
  /\ UNCHANGED <<now, alive, requests, library, notified, limits, history>>

\* execute_preview: a complete batch answers from its manifest, any other one
\* begins or resumes.
Execute ==
  /\ At("execute")
  /\ \/ ~file /\ Outcome("Failed", "Stale") /\ UNCHANGED <<batch, executed>>
     \/ /\ file /\ batch.status = "complete"
        /\ Outcome("Completed", "Completed") /\ UNCHANGED <<batch, executed>>
     \/ /\ file /\ batch.status # "complete"
        /\ batch' = [status |-> "running", time |-> now]
        /\ executed' = TRUE /\ Go("run")
  /\ UNCHANGED <<now, alive, inbox, file, notified, limits, done, inTime>>

\* The attempt ends: with everything done, with errors that a new preview has
\* to take up, or with a file that was inaccessible.
Complete ==
  /\ At("run")
  /\ batch' = [status |-> "complete", time |-> now]
  /\ done' = TRUE /\ Outcome("Completed", "Completed")
  /\ UNCHANGED <<now, alive, inbox, file, notified, limits, executed, inTime>>

EndPartial ==
  /\ At("run")
  /\ batch' = [status |-> "partial", time |-> now]
  /\ Outcome("Failed", "Stale")
  /\ UNCHANGED <<now, alive, inbox, file, notified, limits, history>>

EndInaccessible ==
  /\ At("run") /\ Fault
  /\ batch' = [status |-> "retryable", time |-> now]
  /\ Outcome("Failed", "Awaiting")
  /\ UNCHANGED <<now, alive, inbox, file, notified, history>>

\* An error on the way: the library's root is another one, its I/O lease is
\* taken, a check of its files fails.  The preview stays as it is.
Refuse ==
  /\ \E step \in {"cancel", "lookup", "check", "begin", "sending"} : At(step)
  /\ Fault /\ Outcome("Failed", "none")
  /\ UNCHANGED <<now, alive, inbox, library, notified, history>>

\* File Provider gives no access: the request stays queued.
Defer ==
  /\ alive /\ worker.at \notin {"idle", "save", "relate"}
  /\ Fault /\ Outcome("Retryable", "none")
  /\ UNCHANGED <<now, alive, inbox, library, notified, history>>

\* Any other error closes the preview; the manifest is left unfinished.
Break ==
  /\ At("execute") \/ At("run")
  /\ Fault /\ Outcome("Failed", "Stale")
  /\ UNCHANGED <<now, alive, inbox, library, notified, history>>
-----------------------------------------------------------------------------
(* persist_cloud_dispatch_outcome.                                         *)

SaveOutcome ==
  /\ At("save")
  /\ IF worker.status = "Retryable" THEN SetActive(worker.req, "Retryable")
                                    ELSE SetSettled(worker.req, worker.status)
  /\ worker' = IF worker.related = "none" THEN Idle
                                          ELSE [worker EXCEPT !.at = "relate"]
  /\ UNCHANGED <<now, alive, preview, library, notified, limits, history>>

\* A record that expired since is not written again.
SaveRelated ==
  /\ At("relate")
  /\ IF preview.status = "gone" THEN UNCHANGED preview
                                ELSE SetPreview(worker.related)
  /\ worker' = Idle
  /\ UNCHANGED <<now, alive, requests, library, notified, limits, history>>
-----------------------------------------------------------------------------
(* Retention.  Both passes are bounded and go round: they may or may not    *)
(* reach a record at any time.                                             *)

PruneRequest(q) ==
  /\ alive
  /\ requests[q].status \in Terminal /\ Expired(requests[q])
  /\ requests' = [requests EXCEPT ![q] = [Unsent EXCEPT !.status = "gone"]]
  /\ UNCHANGED <<now, alive, preview, library, worker, notified, limits,
                 history>>

PrunePreview ==
  /\ alive
  /\ \/ preview.status \in Closed /\ Expired(preview)
     \/ Abandoned /\ ~Protected
  /\ preview' = [status |-> "gone", time |-> 0]
  /\ UNCHANGED <<now, alive, requests, library, worker, notified, limits,
                 history>>

\* The library's lock is held while an attempt runs.
PruneBatch ==
  /\ alive /\ worker.at # "run"
  /\ batch.status \in {"complete", "partial"} /\ Expired(batch)
  /\ batch' = [status |-> "none", time |-> 0]
  /\ UNCHANGED <<now, alive, inbox, file, worker, notified, limits, history>>

\* remove_preview_if_unconfirmed: whether the inbox lets the file go.
AlwaysOpen == TRUE
GateOpen ==
  IF preview.status = "Awaiting" THEN ~Protected ELSE ActiveConfirms = {}

\* The file is as old as the preview, and a manifest keeps it.
PruneFile ==
  /\ alive /\ worker.at # "run"
  /\ file /\ Retention <= now /\ batch.status = "none"
  /\ GateOpen
  /\ file' = FALSE
  /\ UNCHANGED <<now, alive, inbox, batch, worker, notified, limits, history>>
-----------------------------------------------------------------------------
(* Time, stops and starts.                                                 *)

\* The two writes of one outcome are made within a tick.
Tick ==
  /\ now < MaxTime /\ worker.at # "relate"
  /\ now' = now + 1
  /\ UNCHANGED <<alive, inbox, library, worker, notified, limits, history>>

Crash ==
  /\ alive /\ crashes < MaxCrashes
  /\ alive' = FALSE /\ worker' = Idle /\ crashes' = crashes + 1
  /\ UNCHANGED <<now, inbox, library, notified, faults, history>>

\* Nothing is dispatched or pruned before an interrupted request is queued
\* again (CloudIngress has the steps of this recovery).
Start ==
  /\ ~alive /\ alive' = TRUE
  /\ requests' = [q \in Requests |->
       IF requests[q].status = "Processing"
       THEN [requests[q] EXCEPT !.status = "Pending"] ELSE requests[q]]
  /\ UNCHANGED <<now, preview, library, worker, notified, limits, history>>
-----------------------------------------------------------------------------
Dispatch == \/ CancelPreview \/ Lookup \/ CheckFile \/ Announce \/ Announced
            \/ Execute \/ Complete \/ EndPartial \/ SaveOutcome \/ SaveRelated
Failure  == LoseAnchors \/ EndInaccessible \/ Refuse \/ Defer \/ Break
Prune    == \/ \E q \in Requests : PruneRequest(q)
            \/ PrunePreview \/ PruneBatch \/ PruneFile

Next == \/ \E q \in Requests : Receive(q) \/ Claim(q)
        \/ Dispatch \/ Failure \/ Prune \/ Tick \/ Crash \/ Start
Spec == Init /\ [][Next]_vars
-----------------------------------------------------------------------------
Statuses == {"none", "gone"} \cup Active \cup Terminal
Related  == {"none", "Awaiting", "Completed", "Stale"}
Steps    == {"lookup", "cancel", "check", "begin", "sending", "execute", "run",
             "save", "relate"}

PreviewRecord == [status : Closed \cup {"Awaiting", "gone"}, time : Times]
RequestRecord == [status : Statuses, time : Times]
BatchRecord   == [status : {"none", "running", "complete", "partial", "retryable"},
                  time : Times]
Job           == [at : Steps, req : Requests,
                  status : Terminal \cup {"Retryable"}, related : Related]

InboxTypeOK ==
  /\ preview \in PreviewRecord /\ preview.time <= now
  /\ requests \in [Requests -> RequestRecord]
  /\ \A q \in Requests : requests[q].time <= now

LibraryTypeOK == file \in BOOLEAN /\ batch \in BatchRecord /\ batch.time <= now

WorkerTypeOK ==
  /\ now \in Times /\ alive \in BOOLEAN
  /\ worker \in {Idle} \cup Job
  /\ worker # Idle =>
       alive /\ (worker.at # "relate" => requests[worker.req].status = "Processing")

HistoryTypeOK ==
  /\ notified \in BOOLEAN /\ executed \in BOOLEAN /\ done \in BOOLEAN
  /\ crashes \in 0..MaxCrashes /\ faults \in 0..MaxFaults
  /\ inTime \subseteq Confirms

\* Every variable stays in its domain, no timestamp is ahead of the clock, and
\* the permit's holder works for a running process on a record that says so.
TypeOK == InboxTypeOK /\ LibraryTypeOK /\ WorkerTypeOK /\ HistoryTypeOK

\* A preview that is reported as cancelled changed no media, although a
\* confirmation of it may have been accepted, run, failed, been interrupted
\* and forgotten before the cancellation (README.md:20).
CancelledIsUnexecuted == preview.status = "Cancelled" => ~executed

\* A closed preview stays what it was closed as until its record expires, and
\* no attempt begins on it: neither a second confirmation nor the receipt of
\* an earlier one opens it again.
ClosedIsFinal ==
  [][preview.status \in Closed =>
       /\ preview'.status \in {preview.status, "gone"}
       /\ worker'.at = "run" => worker.at = "run"]_vars

\* While a confirmation that was accepted in time waits for its dispatch, for
\* however long, neither store lets go of the preview it needs.
ConfirmedIsKept ==
  \A c \in inTime \cap ActiveConfirms :
    /\ preview.status # "gone" \/ AnyConfirm("Completed") \/ AnyConfirm("Failed")
       \/ AnyConfirm("gone")
    /\ preview.status = "Awaiting" => file

\* A confirmation accepted in time is carried out however late it is
\* dispatched: it is refused only if another request closed the preview or if
\* something failed.
ConfirmedInTimeRuns ==
  \A c \in inTime :
    requests[c].status = "Failed" /\ preview.status = "Awaiting" =>
      executed \/ faults > 0
=============================================================================
