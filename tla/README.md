# Telegram Video Downloader: specifications, model checking and proofs

TLA+ models of the parts of Telegram Video Downloader whose correctness depends
on the order of events: requests that cross from a Cloudflare Worker to a
desktop process, snapshots of the desktop's state that cross back, confirmed
batches of file operations and publications of downloads that must survive a stop
at any point, previews that may be confirmed, cancelled and forgotten at the same
time, and a task that is run, cancelled and handed to another library at once. The
models are translated from the source; `PROJECT.json` gives, for every definition,
the lines it stands for.

    tlc -workers 2 -config CloudIngress_restore.cfg MCCloudIngress
    tlapm StagedPublication_proofs.tla

| module | what it is |
|---|---|
| `RequestDelivery` | abstract: what the Worker and the desktop promise about a request |
| `CloudIngress` | D1 inbox, reconciliation pass, durable inbox, dispatcher, recovery |
| `CloudIngress_proofs` | theorems about `CloudIngress` |
| `FileBatch` | one confirmed batch executed against a shared directory, with its journal |
| `FileBatch_proofs` | theorems about `FileBatch` |
| `PreviewConfirmation` | the life of a preview: confirmations, cancellations, retention |
| `PreviewConfirmation_proofs` | theorems about `PreviewConfirmation` |
| `SnapshotPublication` | reporter, Worker and D1: versions, chunks, manifests, viewers |
| `TaskQueue` | one download task: record, jobs, buttons, cancellation tokens |
| `LibraryMigration` | a library's move, which hands that task over; EXTENDS `TaskQueue` |
| `LibraryMigration_proofs` | theorems about both |
| `StagedPublication` | a download moved into the library, overwriting or not; both recoveries |
| `SnapshotPublication_proofs` | theorems about `SnapshotPublication` |
| `StagedPublication_proofs` | theorems about `StagedPublication` |
| `MC*` | the instances TLC checks |

## 1. The system

A user sends Telegram messages or works in a Mini App. A **Worker** (TypeScript,
`cloud/`) authenticates both, writes a *request* into its database D1 and tells
the desktop about it over a WebSocket. The **desktop process** (Rust, `src/`)
fetches requests, makes them durable in its own inbox, dispatches them one by one
per class, and publishes its state back to the Worker for the Mini App to show.
Dispatching a request downloads media, moves files, edits NFO metadata or changes
the configuration; whatever could destroy something is first offered as a
*preview* and executed only after a confirmation.

### 1.1 Inventory

Each component with the state it keeps, its operations, what makes it hard, and
what makes it correct. The status is that of `PROJECT.json`.

**Worker request inbox (D1)**: `cloud/src/store.ts`. *Partly modelled.*
State: rows of `inbox` (sequence number, deduplication key, envelope,
`acked_at`), the sequence counter, the database epoch. Operations: `enqueue`
(insert, or answer from the existing row), pages of pending rows,
`acknowledge`, `rotateDatabaseEpochOnSequenceConflict`, pruning of acknowledged
rows. Hard: replies are lost, an operator may restore an older database
(counter included), so a sequence number may come to name another request.
Correct: a row is acknowledged only when the desktop has *that* request.

**Worker notification hub and HTTP surface**: `notification_hub.ts`,
`updates.ts`, `index.ts`. *Partly modelled* (announcements only). A Durable
Object holds the desktop's socket, the viewers' sockets and the refresh requests
in flight. Hard: frames are lost, late or repeated; sockets are replaced.
Correct: losing every frame delays a request and never loses it.

**Desktop cloud client and reconciliation**: `src/cloud.rs`, `src/main.rs`.
*Partly modelled.* A pass fetches pages, persists, acknowledges; it runs before
every WebSocket connection, on every announcement and periodically, under
`backlog_sync_gate`. State: the epoch the process was started for, `epoch_fatal`,
`reconciliation_complete`. Correct: persist before ACK, no dispatch until a pass
has reached the end of the backlog, another epoch ends the process's runtime.

**Durable cloud inbox and dispatcher**: `src/cloud.rs`, `src/main.rs`. *Partly
modelled.* One file per request under a namespace per epoch; statuses `pending`,
`processing`, `retryable`, `awaiting`, `completed`, `failed`, `uncertain`,
`stale`, `cancelled`. Operations: `persist`, `claim`, recovery of interrupted
records at startup, bounded retention passes, `cancel_awaiting_preview`,
`persist_cloud_dispatch_outcome`. Three semaphores of one permit: Telegram,
metadata recovery and management. Hard: a stop between claim, effect and receipt;
retention beside dispatch. Correct: receipts are final, an uncertain effect is not
repeated.

**File manager: confirmed batches**: `src/file_manager.rs`. *Partly modelled.* A
private preview file, a batch manifest that is rewritten after every step, an
undo-free journal of NFO replacements. Operations: plan, preview, confirm,
execute, resume, prune. Hard: a stop between any two system calls and other
programs in the same directory. Correct: nothing foreign is destroyed, what is
recorded is done, resuming does only the rest.

**Bound file system operations**: `src/safe_fs.rs`. *Partly modelled* (as steps of
`FileBatch`). Rename without replacement, exchange with a checkpoint callback,
creation, and removal through a private quarantine (the object is examined, set aside,
examined again, and only then unlinked; another one is put back or kept), all relative
to opened directories.

**State snapshot publication**: `src/cloud.rs`, `src/main.rs`, `store.ts`,
`cloud_snapshot_budget.rs`. *Partly modelled.* The desktop publishes a manifest
of content-addressed chunks under a growing durable version; it caches which
chunks D1 acknowledged; D1 prunes orphans. Operations: build, upload, post,
heartbeat, conflict, trimming, retry. Hard: a reply is lost and its request still
under way, the cache is stale, D1 or the version counter is set back. Correct: a
version names one content, the stored manifest is complete and only advances.

**Viewer refresh requests**: `main.rs`, `notification_hub.ts`. *Partly modelled*
(with the publication). A bounded queue of refresh requests that publications take
up. Hard: a viewer leaves, lapses or reconnects while its publication is under way.
Correct: who is answered "published" can read a state no older than the question,
and who stays is answered.

**Persistent task queue**: `src/queue.rs`, `src/main.rs`. *Partly modelled.* Download
tasks on disk with a status, a generation and a registered cancellation token;
resume, accept, cancel, begin, plan changes, verification, recovery at startup.
Hard: a token is captured with the lock held and notified later, a job outlives its
generation. Correct: one job is at work for a running generation, a cancellation
reaches the run it was meant for.

**Downloader, overwrite and staged publication**: `src/downloader.rs`,
`src/safe_fs.rs`. *Partly modelled.* Staged outputs are published by several moves;
an overwrite transaction takes the old files first, and its phase decides whether
recovery rolls forward or back. Hard: a stop between any two moves, a rollback that
fails halfway, other programs in the library. Correct: old files or new files,
never some of both, and the old ones go only after the commit.

**Library migration**: `src/library_migration.rs`, `src/library_migration_bot.rs`.
*Partly modelled.* A job that moves media and unfinished tasks to another library in
steps, with pause, stop, retry and a watcher. Hard: the task's record is in two
queues between two writes, the task may be at work, the user may stop the job at any
step. Correct: the task exists once, its files are copied with no writer and removed
only when the target owns it.

**Media library registry**: `src/media_libraries.rs`. *Not modelled.* A settings
document with a revision, saved whole; a history of migrations that changed the
default library.

**Bilibili credentials**: `src/bilibili_auth.rs`. *Not modelled.* Two slots that hold
the credential epoch, written in turn under one lock.

**Bilibili planning and episode attempts, metadata recovery and backfill**: *not
modelled.* Classification and scanning; what they decide reaches the disk through
the queue and through file batches.

**Telegram bot, routing and configuration; service installation; Mini App, PDF
helper and build files**: *not modelled.* Parsing, presentation, remote calls and
scripts an operator runs by hand.

### 1.2 How they interact

    Telegram / Mini App
          |
        Worker --enqueue--> D1 inbox <--pages, ACK, rotate-- reconciliation pass
          |                                                     | persist
          +---------- announcement (WebSocket, may be lost) ----+
                                                                v
                                      durable inbox --claim--> dispatcher
                                          ^   ^                  | one per class
                      retention passes ---+   +--- receipt, -----+
                                                   preview       v
                                                   state     file batches, settings,
                                                             migrations --hand over--+
                                                                                     v
    Mini App <-- viewers' hub <-- D1 manifest <-- reporter    staged         task queue
                                  and chunks  --refresh-->    publications <-- jobs

Shared state and its locks: `backlog_sync_gate` orders passes and claims; the
inbox has its own lock; one management permit is held from the claim of a
management request to its receipt; each library has a lock that an attempt and
the pruning of operation files hold; every operation of a queue holds that queue's
`operation_lock`; publications of one library take turns. `CloudIngress` has the
first two, `PreviewConfirmation` the management permit and the library lock,
`TaskQueue` has each operation of the queue as one step, and `StagedPublication` one
publication at a time.

## 2. Plan

The order followed what is lost when it goes wrong: requests, then media, then what
users are told.

1. `RequestDelivery`, `CloudIngress`: no request is lost or repeated.
2. `FileBatch`: no media are lost, a batch can be resumed.
3. `PreviewConfirmation`: what was confirmed is done, what was cancelled is not.
4. `SnapshotPublication`: what viewers see is complete, true and current. The refresh
   requests are part of it, as they are answered by the publication they share.
5. `TaskQueue`, and `LibraryMigration` on top of it: a task is in one library, runs
   at most once at a time, and is neither lost nor doubled by a handover.
6. `StagedPublication`: old outputs or new ones, nothing between.

Every component that decides something by the order of events now has a module. What
the components still leave out, and why, is in section 6. The theorems were proved
in the order in which they say something of their own: what the dispatcher owns and
acknowledges, what a cancellation may conclude, what a published snapshot is worth,
what an interrupted publication leaves behind, then the batch, the handover, and the
refinement of `RequestDelivery`. Every safety property that a passing run checks is
now a theorem, and so is the refinement; the liveness properties are not (section 5).

## 3. The models

### 3.1 CloudIngress

State. `d1` is the three tables; `savepoint` the database an operator may restore;
`announced` the requests whose frame may still arrive (any time, any number of
times, or never). `file[e][s]` is the record of sequence number `s` in the
desktop's namespace of epoch `e`: the only durable state of the desktop. `alive`,
`bound`, `recovered`, `fatal` and `reconciled` are the process; `pass` is the one
reconciliation pass; `job` the dispatch of each of the three classes, which have a
permit each.

| actions | code |
|---|---|
| `Enqueue`, `ExpireRow`, `Rotate`, `Ack` | `store.ts`: `enqueue`, `pruneAcknowledgedInbox`, `rotateDatabaseEpochOnSequenceConflict`, `acknowledge` |
| `Start`, `RecoverRecord`, `RecoverDone`, `ExpireRecord` | `cloud.rs`: bootstrap of the epoch, paged recovery, retention |
| `StartPass`, `Fetch`, `Persist`, `Conclude`, `PassFails`, `PassStopped` | `main.rs`: `sync_cloud_backlog_while_locked`; `cloud.rs`: `CloudInbox::persist` |
| `Claim`, `Unclaim`, `Begin`, `Return`, `SaveOutcome` | `main.rs`: `cloud_request_dispatcher`, `dispatch_cloud_record`, persisted outcomes |
| `SavePoint`, `Restore` | external: a Time Travel restore of D1, as the code provides for it |

A request is its sequence number, its key and the number of restores before its
insertion (`era`, for `created_at`), which is what lets two requests share a
number. Lost replies split the two remote writes: `Ack(TRUE)` and `Rotate(TRUE)`
commit and fail the pass. `Persist` takes the requests of a page in order and has
the four outcomes of the code: the expected request contradicted, a duplicate, a
new record, a conflict that asks for a rotation.

Properties: `AckedIsReceived` (D1 forgets only what the desktop has, restores
included), `SettledIsNotPending` (no receipt can expire before D1 stops sending
the request), `InFlightIsProcessing` (nobody touches the record of a running
dispatch), `TelegramNotReplayed` (an update whose effect is unknown does not run
again, unless its receipt had expired before a restore of D1 brought its row back:
`Remembered`), `ReceiptsAreFinal`, liveness `PendingDrains` and `AcceptedSettles`
(again and again nothing waits in D1, and every accepted request has run to an end;
arrivals end with the bound; what a restore undid is exempt: `Undone` is a row that
the restored database does not have, or one that was acknowledged to a namespace
of an epoch that is over), and `DeliverySpec`: `CloudIngress` implements
`RequestDelivery` under the mapping at the end of the module, where `accepted` is
what was announced, `owed` what D1 would still send, `received` what the desktop
holds or held to the end.

### 3.2 FileBatch

State. `dir` is the object at each path; `quarantine` what removals have set aside,
each object with the one that the removal was of; `disk` the manifest that was last
written, `mem` the one of the attempt; `run` where the attempt is, and within a removal
what it removes and how the patch goes on after it; `request` and `preview` what the
inbox holds; `touched` remembers the user's interventions.
Objects have an identity (`Approved(f)`, `Before(p)`, `Staged(p, k)`, ...), which
is what the code's identity tokens compare; bytes are abstracted.

| actions | code |
|---|---|
| `CreateManifest`, `Begin`, `BeginSettled`, `Finish`, `Report` | `file_manager.rs`: `execute_preview`, `execute_persisted` |
| `ValidateMoved`, `ExamineFile`, `Rename`, `Verify`, `RenameUndone`, `Undo` | `execute_file_move`, `safe_fs.rs`: rename without replacement and its rollback |
| `ExaminePatch` ... `Reverify` | `execute_nfo_patch_with_checkpoint`; `safe_fs.rs`: exchange and creation |
| `Remove` (in `Unstage`, `GiveUp`, `Discard`, `Recover`, `FillFails`), `Quarantine`, `Unlink`, `Reinstate` | `safe_fs.rs`: `remove_bound_entry_if_identity_with_hooks` |
| `Reconcile` | `reconcile_remove_quarantines`, which completes or retains an interrupted removal |
| `AccessFails`, `Abort`, `JournalFails`, `ForgetFails`, `FillFails`, `RemovalFails`, `Crash` | the error paths and a stop |
| `Touch` | any other program |

Between two actions the user may replace or remove any object that has a name in the
library and the process may stop, so every check-then-act of the code is at least two
actions. A removal is four: its caller finds the expected object at the name, the
name's object (whatever it is by now) goes into the quarantine, it is examined there,
and it is unlinked, or put back, or kept where it is when its name was taken meanwhile.
The check in the quarantine and the act on it are one action, as the quarantine is a
directory that only this program names.

Properties: `OnlySupersededIsDestroyed` (a step of the batch, or the completion of an
interrupted removal, never destroys an object of anybody else; an object in a
quarantine is not destroyed), `ReplacementIsJournaled` (a replaced NFO is the one the
durable journal names), `PatchedGroupIsMoved`, `RecordedIsDone`, and the liveness
property `ConfirmedCompletes`, which names the two files that a stop can tear: the first
manifest, under which nothing was done, and an NFO that was being created, which later
attempts take for somebody else's.

### 3.3 PreviewConfirmation

What `FileBatch` does inside is five states of a manifest here; what is added is
time. `preview` and `requests` are records of the inbox with a timestamp, `file`
the private preview file, `batch` the manifest's state, `worker` the holder of the
management permit, `now` a clock. `inTime`, `executed` and `done` are history.

| actions | code |
|---|---|
| `Receive`, `Claim`, `Start` | `cloud.rs`: `persist`, `claim`, recovery |
| `CancelPreview` | `cancel_awaiting_preview` |
| `Lookup`, `CheckFile`, `LoseAnchors` | `awaiting_confirmation_record`, `unconfirmable_preview_ids` |
| `Announce`, `Announced` | `begin_cloud_batch_message` and its receipt |
| `Execute`, `Complete`, `EndPartial`, `EndInaccessible`, `Refuse`, `Defer`, `Break` | `execute_preview` and its results and errors |
| `SaveOutcome`, `SaveRelated` | `persist_cloud_dispatch_outcome`: the request, then the preview |
| `PruneRequest`, `PrunePreview`, `PruneBatch`, `PruneFile` | the bounded retention passes, `remove_preview_if_unconfirmed` |

Retention passes may or may not reach a record at any time: they are bounded and
go round. Properties: `CancelledIsUnexecuted`, `ClosedIsFinal`,
`ConfirmedIsKept`, `ConfirmedInTimeRuns`.

### 3.4 SnapshotPublication

State. `source` counts the changes of everything a snapshot would show, and a content
is one such state, whole or trimmed. `rep` is the reporter with its pending version
and content, `counter` and `watched` its durable file, `cache` the chunks it believes
D1 has, `calls` a manifest at the Worker that is awaited and one nobody awaits any
more, `d1` the epoch, the manifest and the chunks with their age, `queue`, `interest`
and `result` the viewers' requests. `saved` and `lost` serve the restores.

| actions | code |
|---|---|
| `Show`, `Hide`, `Lapse`, `Ask` | `main.rs`: `apply_viewer_interest`, `suspend_cloud_viewers`, `enqueue_snapshot_refresh` |
| `Bootstrap`, `Woken`, `Hourly`, `Assemble`, `AssembleFails`, `Attempt` | `cloud_state_reporter` and its triggers, `prune_publication_trigger` |
| `Upload`, `UploadFails`, `Post`, `Timeout` | `cloud.rs`: `upload_state_chunk`, `post_state` |
| `WorkerRead`, `WorkerProbe`, `WorkerBeat`, `WorkerCommit`, `WorkerReread` | `store.ts`: `storeChunkedSnapshot`, each read and each D1 batch a step, pruning included |
| `Published`, `Conflict`, `Missing`, `Superseded`, `Reduce`, `Rejected`, `EpochFatal` | the reporter's treatment of each reply |
| `Crash`, `Restart`, `LoseCounter`, `Age`, `Forget`, `Restore`, `Rotate` | stops, lost files, time, an operator's restore, another epoch |

The Worker's requests interleave with those of an earlier attempt that the desktop has
given up on, which is how publications overtake one another. Contents are told apart
by their chunks. Either D1 or the counter is set back in one history: with both there
is nothing left to compare with, and the code does not claim it. A restore goes back
to before the last commit of its epoch; one abandoned request exists at a time. A
viewer may close or lose its connection and be there again (`Show`), when what it had
asked is taken up again or not. Left out: serialisation errors, the separate failure of
the write that records a success, and a request asked a second time under the same
name, which is answered from its retained record and changes nothing.

Properties: `StoredIsComplete` (a viewer can read what is stored, whatever was pruned),
`VersionNamesOneContent`, `StoredNeverRegresses`, `PublishedIsFresh` (an answer
"published" stands for a committed state no older than the question, and the desktop's
belief of its last publication is true), `RefreshAnswered`, `WatchedIsPublished` (which
exempts an exhausted version counter, for which the code has no way out either).

### 3.5 TaskQueue and LibraryMigration

State. `store` is the task's record in the queue of each library, `reg` the registered
generation and token, `jobs` the jobs in progress with the generation and token each
holds, `calls` tokens captured by a cancellation and not yet notified, `permits` what
`Arc<Notify>` stores. `LibraryMigration` adds `job`, the durable document of the
migration, and `at`, the place of its coordinator.

| actions | code |
|---|---|
| `Resume`, `Accept`, `Cancel`, `Deliver` | `queue.rs`: `claim_resume`, `accept_plan`, `request_cancellation_if_matches`; `main.rs`: the notification after the lock is released |
| `Prepare` ... `Leave` | `main.rs`: `queue_or_prompt_job`, `queue_queued_task`, `run_queued_job`, each await a gap between two steps |
| `Confirm`, `Pause`, `Resumed`, `StopRemaining`, `RetryFailed` | the user's buttons on the migration |
| `PrepareTransfer`, `WaitForWriter`, `AttachPlan`, `Attach` | `library_migration_bot.rs`: pausing the task, waiting for its writer, naming its files |
| `Step`, `Install`, `Remove`, `AckCommit` | `library_migration.rs`: `step_inner`; `queue.rs`: the two writes of the commit; the acknowledgement |
| `Settle`, `Cleanup`, `Clear` (in `Finish`) | `finish_task_transfers`, run again for as long as the job is kept |
| `Crash` | a stop; `recover_interrupted_tasks`, `reconcile_task_transfers` |

The task moves with the migration's media, which are one group with five states.
`AwaitingChoice` stands for both choices a task may wait for, `PartiallyCompleted` is
left out (one task of one entry), listing the tasks and beginning the transfer are one
step, because the operation refuses what changed in between. Left out as well:
failures of the plan's verification, the error of removing the source record, and
refusals that only a change of revision or of epoch causes.

Properties: `OneRecord`, `NoWriterOncePlanned`, `SourceStagingKept`, `OneRunner`,
`StopIsForThisRun`, and the liveness properties `CancelEnds` and `HandoverEnds`. Two
exemptions are stated in them, because the code has them: a migration that has ended
and gives the task back (`GivenBack`, the finding `handoff_cancel`), and a job that
returns from a stale question without withdrawing its token (`Leaked`), for which the
coordinator then waits until the process stops. The first one is in three properties.
`CancelEnds` needs it with two jobs. `OneRunner`, where it says that a running task
has its job, and `StopIsForThisRun` need it with three: of two jobs that share a token
one may consume the stop that was stored for the other, and then a task whose
cancellation nobody asked for loses its job. Their other parts hold without it: never
two jobs at work, and never a verification without its job.

### 3.6 StagedPublication

State. `lib` and `backup` say whose object is at a path of the library and in the
transaction's directory: the old file, the new one, another program's, or none.
`stage` is the staging directory with its publication manifest, `tx` the transaction's
manifest, its other half while it is exchanged, and its anchors; `marker` the
library's recovery marker. `pc`, `todo`, `held`, `moved`, `failed` and `blocked` are
what one call of the job or of recovery has in memory. `plan` is one of three kinds:
keep both, replace a video and its sidecars, replace sidecars only; sidecars are a
video's NFO and information file, and the new ones need not be those it had.

| actions | code |
|---|---|
| `Begin`, `OpenTx`, `WriteTx`, `Take`, `Validate` | `acquire_video_output_root`, `create_overwrite_backup_dir`, `acquire_overwrite_path` |
| `Prepare`, `Move`, `Moved`, `Unreplaced`, `Undo`, `Undone` | `prepare_staged_publication`, `execute_move_plan`, `restore_unreplaced`, `rollback_moves` |
| `Retire`, `Restore`, `Restored` | retirement of the manifest after a rollback, `restore_backups` |
| `Anchor`, `WriteTemp`, `Exchange`, `Untemp`, `Clean`, `Cleaned`, `Finish` | anchors, the atomic exchange of the manifest's halves, `remove_backups`, `BoundStagingDir::finish` |
| `Recover`, `Judge`, `Step`, `Stepped` | `recover_pending_video_staging_directories` and the direction it takes |
| `Settle`, `DropTemp`, `Acquired`, `Return`, `GivenBack`, `Conclude`, `Discard`, `Concluded`, `Mark` | `recover_pending_overwrite_transactions`, then the marker |
| `Crash`, `Touch` | a stop, with the file under way absent, torn or whole; any other program |

Every path of a list is a step, and between two steps the process may stop, the call
may fail and another program may replace or remove a file. Where the code checks a
list once more before each of its calls the model checks once; a directory goes in one
step, as it does for other programs (it is quarantined first).

Properties: `NeverMixed` (nobody ever sees a new file beside one it replaces),
`OldOutlivesCommit` (a step, not a state: what is taken is kept, given back, or removed
with the commit's outputs in place), `SettledIsWhole` (a clean library has nothing to
recover and shows all of the old or all of the new), and the liveness property
`PublicationSettles`, whose exemptions are named in `Stuck`.

## 4. What is checked

| run | asks | bounds |
|---|---|---|
| `retention` | what may be settled or forgotten while receipts expire on both sides, and the refinement | 2 keys (1 Telegram, 1 metadata recovery), 3 rows, pages of 1, 2 faults |
| `restore` | loss, repetition and finality, and that every request is acknowledged and runs to an end, with a restored database, reused sequence numbers, conflicts and a second epoch | 2 keys (1 Telegram, 1 management), 2 rows per history, pages of 2, 1 restore, 2 epochs, 1 fault |
| `batch` | foreign objects, journal, groups and records | two items: one moves an NFO and its media and patches that NFO, the other moves its media and gets a new NFO; 2 confirmations, 2 interventions, 2 stops, 1 fault |
| `batch_live` | an undisturbed batch completes | a group of two files, an NFO patched in place and one created, 3 stops |
| `confirmation` | cancelled, kept, in time, closed | 2 confirmations, 1 cancellation, retention of 2 ticks, 4 ticks, 1 stop, 1 fault |
| `publication` | completeness, one content per version, monotony, and that what is watched gets published | 1 viewer that asks and watches, 2 states (one too large until trimmed) in 3 chunks, 4 versions, 2 epochs, 2 faults |
| `refresh` | true answers that arrive, with a full queue, two requests on one publication, and viewers that come back | 2 viewers that ask, a queue of 1, and otherwise the same with 1 fault |
| `handoff` | one record, one runner, no writer beside a copy, cleanup, cancellations and handovers that end | 1 task in 2 generations, 2 jobs, 2 tokens, 1 migration, 1 pause, failure or stop |
| `overwrite` | nothing mixed, nothing lost, everything settled | a video that may change its extension, 2 sidecars, every kind of plan, 3 stops, failures or foreign changes |

Why these bounds are enough. In `CloudIngress` a page of 1 makes every backlog of two a
pass of several pages, a page of 2 makes one ACK cover two requests; a conflict needs
two requests with one number, that is one restore between two insertions, and the epoch
it opens; a third row is needed for a key to be accepted again after its row expired.
Two faults allow a lost reply and a stop in the same history. In `restore` a management
request is requeued after a stop, and a page holds a request in conflict with another
before or behind it. In `FileBatch` the four kinds of step (move, group, replace,
create) occur and interact; two interventions are needed to disturb both names of an
exchange, or to change a name before a removal takes it and again before it is put back,
two stops to interrupt a recovery. In `PreviewConfirmation` retention of 2 ticks leaves
a tick strictly between the reception and the expiry of a record; 4 ticks are two
retention times in succession, as the expiry of a receipt after that of a preview needs;
two confirmations are the second of a pair beside the first, and a third one adds a copy
of either. In `SnapshotPublication` two states make a publication late, four versions
allow a conflict, a trimming and a retry in one history, and two faults allow a lost
reply beside a counter or a database that was set back; a queue of one is full with the
first of two requests. A history that loses the counter when D1 already has the last
version is beyond the bounds of `refresh` and exempted in `WatchedIsPublished`: the
publication would be retried for ever. In `LibraryMigration` two jobs are the one at
work and the one that a button starts, two generations the one that is paused and the
one that is given back; the same properties hold with three generations and two faults
(4.6 million states, safety only), and for any number of jobs by the theorems. In
`StagedPublication` three faults are a failure, a stop during its rollback and one
during the recovery; the two names of the video and two sidecars give every plan a path
that is replaced, one that is removed, one that is added and one that stays.

`PreviewConfirmation` bounds one thing more, in `Tick`: no tick falls between the
two writes of one outcome. They are consecutive in the code and a retry of the
second one after a failure does not wait for days; without the bound TLC finds
that a receipt can be seven days older than the state it caused
(`src/cloud.rs:1626` in the hazards). A *stop* between the two is in the model.

Fairness (`FairSpec`). In `CloudIngress` each task of the runtime is weakly fair.
The claims and the periodic pass are strongly fair because they compete for
`backlog_sync_gate`, a first-come mutex: who keeps asking gets it. An announcement
is not fair, so liveness rests on the periodic pass alone. Returning from an
operation is fair (operations have timeouts); faults are bounded and never fair.
In `FileBatch` one attempt is one thread, and a confirmation that a
stopped process left in the inbox is dispatched by the next process. In
`SnapshotPublication` the reporter, which retries by timers, and the Worker's
handling of the request it has are weakly fair; no viewer, no timer and no change of
the state is. In `LibraryMigration` the runtime polls every job (`Polled`) and
delivers every captured notification, and the watcher starts the coordinator every
fifteen seconds; that a slot becomes free, a download ends or a user presses a button
is never assumed. In `StagedPublication` the job and recovery are one weakly fair
process: after a stop the service is started again, and a library with a dirty marker
is recovered before the next job uses it.

Deadlock is checked in `CloudIngress`, whose tasks never all stop. A batch or a
publication of files that is finished stops, a preview stops when the clock's bound
is reached, a reporter without a cause waits, and so does a queue whose only task is
settled.

### 4.1 Where the code disagrees with what it says

Three runs have one property each, which states a sentence of the repository, and
TLC shows an execution that contradicts it.

- `replay` (`src/main.rs:3768`; docs/CLOUD_FILE_MANAGEMENT.md:41). After a
  restore, a conflict on one sequence number rotates the epoch; the other
  restored rows then arrive in an empty namespace, where an envelope that already
  ran is a new request.
- `batch_resume` (`src/file_manager.rs:3812`; docs:17). An attempt that resumes
  validates recorded moves against the objects the preview approved. Where a later
  step of the same batch replaced a moved NFO, its own result counts as foreign
  and the finished batch ends partial.
- `handoff_cancel` (`src/library_migration_bot.rs:1819`; `src/main.rs:7492`). A
  migration that has ended queues a job for a task it gave back whether or not the
  task has one. Both share a token; the job that waits takes the cancellation, and
  the one that works never hears of it.

### 4.2 Open points

Behaviour the models have, met while they were written, that no sentence of the
repository decides.

- The success of an item's patch clears an error that an earlier step of the item
  recorded; the batch then reports complete (`src/file_manager.rs:3885`; compare
  docs:287). `PatchApplied` does so.
- A finished manifest may be pruned before the confirmation that produced it has a
  receipt; dispatched again after the retention time, the confirmation begins anew
  (`src/file_manager.rs:4693`). `PruneBatch` before `Execute` does so.
- The receipt of a failed confirmation can be seven days older than the preview it
  left open, if the write of the preview keeps failing that long
  (`src/cloud.rs:1626`); `Tick` is bounded against it.
- A replacement video with another extension, stopped while both halves of the
  manifest are there: recovery compares their targets, finds different transactions,
  and refuses for ever (`src/downloader.rs:24257`). No old or new file is lost, but
  the transaction waits for a person. `Stuck` names it.
- A publication beside an existing video that failed and rolled back completely keeps
  its manifest: `finish_failed_staged_move` retires it only for an overwrite, and the
  staging directory is not removed when it is dropped, because `run_staged_video_job`
  had it retained before it began to publish (`src/downloader.rs:13971`, which sets
  `preserve_on_drop`). The next recovery, which finds no transaction, completes the
  moves although failure was reported (`src/downloader.rs:20701`).
- A task that was running with a cancellation requested when a migration paused it is
  restored as queued without the cancellation (`src/queue.rs:6460`); `Restored` does
  so.
- A receipt is kept for seven days (`src/cloud.rs:3385`; docs:45). A restore of D1 to a
  moment before the acknowledgement of a command whose receipt has expired sends the
  command again, and it is a new request. `SettledIsNotPending` and
  `TelegramNotReplayed` exempt it.

## 5. What is proved

For every value of the constants under the assumptions the modules name: any number
of requests, pages, viewers, chunks, versions, epochs, restores, faults, stops, ticks,
sidecars, items, patches, jobs, tokens, generations and changes by other programs. The
assumptions say which sets are finite, that bounds are natural numbers, and:

- `TelegramAssumption`, `RecoveryAssumption`: Telegram updates are some of the keys,
  metadata recoveries some of the others.
- `KindAssumption`: no request both confirms and cancels.
- `PlanAssumption`: what planning gives a batch. A new NFO is made only where the plan
  moves none, no file of a skipped item is planned, and an item has one patch.
- `QueueAssumption`, `MigrationAssumption`: "no token" is not a token, one of the two
  libraries is listed first, and there is at least one job and one generation.
- the `PublicationAssumption` of each publication module: the chunks of a content, the
  limits as positive numbers, the paths of a plan.

Each inductive invariant was checked by TLC on instances like those of the runs before
it was proved.

`CloudIngress_proofs`: `TypeCorrect`; `InFlightCorrect`, by an invariant that also
says that a job only exists in a live recovered process, which is what keeps
recovery away from it; `ReceiptsStayFinal`, an action property that rests on it
(`SaveOutcome` and `Unclaim` write `Processing` records only); `AckedCorrect`, whose
strengthening says that what a pass has kept of its page is received, and that
what is received stays so: records leave `file` only into `expired`. The other
theorems, `SettledCorrect`, `NotReplayedCorrect` and `DeliveryImplemented`, need `IInv`,
which adds three parts.

- `AnnouncedOK`: everything in D1, in a page or on the desktop was announced, and the
  next number is above those of its era, so that a request that is accepted is one that
  nobody has seen. Without it `Accept` of the abstract specification would not be one.
- `WaitingOK`: as long as nothing was restored, a page holds requests that wait; of what
  waits only a page that took all of it has durable requests, and after a complete pass
  nothing that waits is durable. `ShortPageIsWhole` is the reason: a page that is not full
  was all there was. It carries `SettledIsNotPending` through `Claim`.
- `RanOK`: a command that ran is durable or its receipt expired, and its record is
  settled, being dispatched past its claim, or not yet recovered by the process that
  follows. What recovery finds `Processing` becomes uncertain and never pending.

`DeliveryImplemented` maps the initial states to the initial states and each action to
one of `RequestDelivery`'s or to a stutter: `Enqueue` is `Accept`, `Persist` of a new
record `Receive`, an acknowledgement `Release`, a dispatch or a recovery that ends a
request `Settle`, `Restore` `Rewind`, and the rest changes nothing that was promised.

`FileBatch_proofs`: `TypeCorrect`, `ReplacementsAreJournaled`, `GroupsAreMovedFirst`,
`RecordsAreTrue`, and the action property `NothingElseIsDestroyed`. The last one says
why the parts of `IInv` are needed: a removal takes whatever its name holds by now, and
that it may be unlinked has to follow from the check that comes after and from what was
established before the first of its gaps.

- `Placed`, `Unmade`: a staged object is at its temporary path or in its NFO's place, and
  temporary paths not used yet are empty, so an identity names at most two places.
- `JournalOK`: what is journaled was staged, and a replacement recorded as applied was
  journaled.
- `ChosenOK`: the file that a step is about is not yet recorded as moved, the patch not
  as applied, and the patch's group is; `PatchedGroupIsMoved` follows.
- `ReadyOK`, `ReplacedOK`: before the exchange the approved NFO and the staged object are
  in place, unless the user came (`Alien`); from the checkpoint on the journal names that
  object, and what is left of the old NFO is removed only while the replacement is in its
  place, or somebody else's object is. `ReplacementIsJournaled` is not inductive without
  the first: a step that exchanges must know *which* object it puts there.
- `RemovalOK`: a removal is of one of four objects, its name holds that object or the
  user came (`Alien`), and what it has set aside is that object or a foreign one.
- `HiddenOK`: what a quarantine holds is foreign, or it is what its removal was of and
  may go (`Removable`) whenever it is unlinked, by the attempt or, after a stop, by
  `Reconcile`, at any later time: an NFO that was superseded stays so.

`LibraryMigration_proofs`: `TypeCorrect`, `RecordIsInOneQueue`,
`StagingIsNotWrittenOncePlanned`, `SourceIsKeptUntilHandedOver`, `OneJobIsAtWork` and the
action property `StopsAreForThisRun`, for `LibraryMigration` and the `TaskQueue` it
extends, from one `IInv`. The first group is about the handover.

- `HandoverOK`: where the record is, what both copies agree on between the two writes of
  the commit, what the durable job knows at each time, and at which places the
  coordinator may be. `OneRecord` and `SourceStagingKept` follow from it alone.
- `CopyingOK`: a writer of a task that is handed over has the generation and the token
  that the coordinator waits for, and there is none once the files are named.

The second is about the jobs.

- `TokensOK`: a token belongs to one generation, and no generation is ahead of the
  record's: a job that enters the queue takes the token registered for its generation
  (which is how two jobs come to share one) or one that nothing refers to.
- `PendingOK`, `RegOK`: a record that is handed over is not at work, and a generation
  with a registered token is past its preparation.
- `WorkingOK`: at most one job of the generation is at work, and a verification has one.
- `AlienOK`: a job that writes for a generation that is over has been told, or is about
  to be, by a token of its own.
- `FirstOK`, `AloneOK`: until a migration has ended, the generation has at most one
  job, which owns the registered token once it has one, no two jobs share a token, and
  a job that has been told is not wanted. This is what `GivenBack` ends; the attempt to
  prove `OneRunner` and `StopIsForThisRun` without it showed that the two jobs of the
  run are too few to see why they need it.

Only model-checked: liveness (`AcceptedSettles`, `PendingDrains`, `ConfirmedCompletes`,
`PublicationSettles`, `CancelEnds`, `HandoverEnds`, `RefreshAnswered`,
`WatchedIsPublished`), as fairness and `ENABLED` are out of the prover's reach, and what
the three runs of section 4.1 contradict. `DeliverySpec` has no fairness; its liveness is
`AcceptedSettles`.

## 6. What is not modelled

Contents (bytes, JSON, identity tokens: an object equals itself), authentication,
message texts, the bounds of pages and of retention passes as numbers, retired record
formats, the planning of a batch, and directory handles (a bound directory is the
path). Time is absent from `CloudIngress`, where expiry may happen whenever a record
is settled, and from `FileBatch`. A power loss that undoes a synced write is not
modelled; a torn first write of a manifest is, because the code writes it under its
final name.

By component, beyond what section 3 names:

- Worker and notification hub: the relay of refresh requests and its time-outs, and
  everything that authenticates or validates. They hold no durable state.
- Durable inbox: the `library_migration_*` kinds of request, whose previews are
  another store with the life `PreviewConfirmation` describes.
- Publication of downloads: groups of a Bilibili collection with their receipts, the
  recovery of a mux, publications too large for one manifest, scans that found a
  library incomplete, manifests of earlier versions, and several jobs or libraries
  (a lock orders them).
- Task queue: deletion, retries of single episodes, summaries and indexes, and the
  backfill of records; one task stands for each, since no operation concerns two.
- Migration: the copying of one file (chunks, verification, intents), the refresh of
  previews that supersede one another, and the change of the default library. The
  registry and the credentials are documents saved whole under one lock; a stop in
  the middle of a save is the atomic replacement of a file, which the operating
  system promises.
- Downloads, muxing, formats, planning, metadata recovery, the bot, the Mini App and
  the installation scripts: remote calls, classification and presentation, whose
  durable effects are those of the components above.
