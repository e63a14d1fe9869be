------------------------ MODULE SnapshotPublication ------------------------
(***************************************************************************)
(* The desktop reporter builds snapshots of its state and publishes them   *)
(* through the Worker to D1, in chunks and a manifest that names them.     *)
(* Viewers ask it for a fresh snapshot, or watch its operations.           *)
(*                                                                         *)
(* src/src/main.rs     cloud_state_reporter, SnapshotRefreshQueue          *)
(* src/src/cloud.rs    post_state, the acknowledged chunks, the version    *)
(* src/cloud/src/store.ts   the chunks, the manifest and their pruning     *)
(*                                                                         *)
(* A build stands for everything a snapshot would show: `source' counts    *)
(* the changes of the desktop's state, and a content is a build, whole or  *)
(* trimmed.  `budget' bounds everything the environment may do wrong.      *)
(***************************************************************************)
EXTENDS Integers, FiniteSets

CONSTANTS
  Requests,     \* refresh requests, each of a viewer of its own
  Watchers,     \* the viewers that also watch operations
  MaxPending,   \* refresh requests the queue holds (64 in the code)
  MaxBuild,     \* bound: the changes of the desktop's state
  Chunks,       \* chunks by content address
  Parts,        \* the chunks of each build
  Big,          \* the chunk that trimming removes
  Oversized,    \* builds the desktop knows to be too large until trimmed
  MaxVersion,   \* MAX_CLOUD_STATE_VERSION
  MaxEpoch,     \* bound: the epochs of D1
  MaxBudget     \* bound: faults, timers, crashes, restores and rotations

Builds   == 0 .. MaxBuild
Versions == 1 .. MaxVersion
Contents == [build : Builds, trimmed : BOOLEAN]

ASSUME PublicationAssumption ==
  /\ Watchers \subseteq Requests
  /\ MaxPending \in Nat /\ MaxBuild \in Nat /\ MaxVersion \in Nat
  /\ MaxEpoch \in Nat \ {0} /\ MaxBudget \in Nat
  /\ Parts \in [Builds -> SUBSET Chunks]
  /\ Oversized \subseteq {n \in Builds : Big \in Parts[n]}
  /\ \A b1, b2 \in Builds : Parts[b1] = Parts[b2] => b1 = b2

VARIABLES
  source,     \* the desktop's state
  interest,   \* each viewer: "before", "visible", "closed" or "lapsed"
  asked,      \* the state each request has to see, -1 before it is queued
  result,     \* the answer to each request
  shown,      \* the build a "published" answer stands for
  queue,      \* SnapshotRefreshQueue.pending
  wake,       \* the permit that state_notify stores
  counter,    \* the durable state version
  watched,    \* the durable fingerprint of the last acknowledged build
  bound,      \* the epoch the running process is bound to
  rep,        \* the reporter
  cache,      \* the chunks it believes D1 has: staged and committed
  calls,      \* manifests at the Worker: the awaited one, an abandoned one
  d1,         \* epoch, meta, the age of each stored chunk
  saved,      \* what a restore of D1 brings back
  history,    \* every epoch, version and content D1 has committed
  lost,       \* the store that was set back: "none", "d1" or "counter"
  budget

vars == <<source, interest, asked, result, shown, queue, wake, counter, watched,
          bound, rep, cache, calls, d1, saved, history, lost, budget>>

viewers == <<interest, asked, result, shown>>
cloud   == <<d1, saved, history, lost>>

NoMeta    == [version |-> 0, content |-> [build |-> 0, trimmed |-> FALSE]]
NoTrigger == [boot |-> FALSE, idle |-> FALSE, refs |-> {}, watch |-> FALSE]
NoCall    == [at |-> "none", version |-> 0, content |-> NoMeta.content, epoch |-> 1,
              reply |-> "none", hint |-> 0]

\* bootstrap is due until a publication has been acknowledged once
Idle(due, refused) ==
  [pc |-> "wait", trigger |-> NoTrigger, pending |-> NoMeta, failed |-> {},
   todo |-> {}, rejected |-> refused, boot |-> due]

Outcomes == {"none", "ok", "epoch", "conflict", "superseded", "missing", "too large", "rejected"}

TypeOK ==
  /\ source \in Builds
  /\ interest \in [Requests -> {"before", "visible", "closed", "lapsed"}]
  /\ asked \in [Requests -> Builds \cup {-1}]
  /\ result \in [Requests -> {"none", "published", "failed", "unavailable"}]
  /\ shown \in [Requests -> Builds]
  /\ queue \subseteq Requests /\ Cardinality(queue) <= MaxPending
  /\ wake \in BOOLEAN
  /\ counter \in 0 .. MaxVersion
  /\ watched \in Builds \cup {-1}
  /\ bound \in 1 .. MaxEpoch
  /\ rep \in [pc : {"wait", "references", "attempt", "upload", "posted", "down"},
              trigger : [boot : BOOLEAN, idle : BOOLEAN, refs : SUBSET Requests,
                         watch : BOOLEAN],
              pending : [version : 0 .. MaxVersion, content : Contents],
              failed : SUBSET Requests, todo : SUBSET Chunks,
              rejected : Builds \cup {-1}, boot : BOOLEAN]
  /\ cache \in [staged : SUBSET Chunks, committed : SUBSET Chunks]
  /\ calls \in [{"own", "stale"} ->
                 [at : {"none", "read", "check", "absent", "beat", "commit", "beaten", "committed",
                       "done"},
                  version : 0 .. MaxVersion, content : Contents, epoch : 1 .. MaxEpoch,
                  reply : Outcomes, hint : 0 .. MaxVersion]]
  /\ d1 \in [epoch : 1 .. MaxEpoch, meta : [version : 0 .. MaxVersion, content : Contents],
             chunks : [Chunks -> {"absent", "fresh", "old"}]]
  /\ saved \in [meta : [version : 0 .. MaxVersion, content : Contents],
                chunks : [Chunks -> {"absent", "fresh", "old"}]]
  /\ history \subseteq ((1 .. MaxEpoch) \X Versions \X Contents)
  /\ lost \in {"none", "d1", "counter"}
  /\ budget \in 0 .. MaxBudget

Init ==
  /\ source = 0
  /\ interest = [r \in Requests |-> "before"]
  /\ asked = [r \in Requests |-> -1]
  /\ result = [r \in Requests |-> "none"]
  /\ shown = [r \in Requests |-> 0]
  /\ queue = {} /\ wake = FALSE
  /\ counter = 0 /\ watched = -1 /\ bound = 1
  /\ rep = Idle(TRUE, -1)
  /\ cache = [staged |-> {}, committed |-> {}]
  /\ calls = [s \in {"own", "stale"} |-> NoCall]
  /\ d1 = [epoch |-> 1, meta |-> NoMeta, chunks |-> [c \in Chunks |-> "absent"]]
  /\ saved = [meta |-> NoMeta, chunks |-> d1.chunks]
  /\ history = {} /\ lost = "none" /\ budget = MaxBudget

Spend == budget > 0 /\ budget' = budget - 1

---------------------------------------------------------------------------
(* Viewers and the refresh queue *)

Live(rs)  == {r \in rs : interest[r] = "visible"}
Watching  == Live(Watchers) # {}
Answer(rs, how) == [r \in Requests |-> IF r \in rs THEN how ELSE result[r]]

\* The queue drops what has lapsed without an answer: the viewer's hub has
\* sent it a timeout.
Unlapsed(rs) == {r \in rs : interest[r] # "lapsed"}

\* Any change of the state the desktop shows, announced on state_notify
Change ==
  /\ source < MaxBuild
  /\ source' = source + 1
  /\ wake' = TRUE
  /\ UNCHANGED <<viewers, queue, counter, watched, bound, rep, cache, calls, cloud, budget>>

\* apply_viewer_interest, for a viewer that opens, or that is there again after
\* it closed or its connection ended: what it asked before may still be taken up.
Show(r) ==
  /\ interest[r] \in {"before", "closed"} /\ rep.pc # "down"
  /\ IF interest[r] = "closed" THEN Spend ELSE UNCHANGED budget
  /\ interest' = [interest EXCEPT ![r] = "visible"]
  /\ wake' = TRUE
  /\ UNCHANGED <<source, asked, result, shown, queue, counter, watched, bound, rep, cache,
                 calls, cloud>>

\* apply_viewer_interest for viewers that close, or suspend_cloud_viewers
\* when the connection ends: what they wait for is answered at once.
Hide(rs) ==
  /\ rs # {} /\ rs \subseteq Live(Requests)
  /\ interest' = [r \in Requests |-> IF r \in rs THEN "closed" ELSE interest[r]]
  /\ LET cancelled == {r \in queue : interest'[r] # "visible"}
     IN  /\ queue' = queue \ cancelled
         /\ result' = Answer(cancelled, "unavailable")
  /\ wake' = TRUE
  /\ UNCHANGED <<source, asked, shown, counter, watched, bound, rep, cache, calls, cloud, budget>>

\* A request and its viewer's interest expire; nothing announces that.
Lapse(r) ==
  /\ interest[r] = "visible"
  /\ Spend
  /\ interest' = [interest EXCEPT ![r] = "lapsed"]
  /\ UNCHANGED <<source, asked, result, shown, queue, wake, counter, watched, bound, rep, cache,
                 calls, cloud>>

\* enqueue_snapshot_refresh; a full queue answers "busy" and keeps nothing
Unnotified == wake  \* a wrong Notified
Notified == TRUE
Ask(r) ==
  /\ interest[r] = "visible" /\ asked[r] = -1 /\ result[r] = "none"
  /\ IF Cardinality(Unlapsed(queue)) < MaxPending
       THEN /\ queue' = Unlapsed(queue) \cup {r}
            /\ asked' = [asked EXCEPT ![r] = source]
            /\ wake' = Notified
            /\ UNCHANGED result
       ELSE /\ queue' = Unlapsed(queue)
            /\ result' = Answer({r}, "unavailable")
            /\ UNCHANGED <<asked, wake>>
  /\ UNCHANGED <<source, interest, shown, counter, watched, bound, rep, cache, calls, cloud,
                 budget>>

---------------------------------------------------------------------------
(* The reporter *)

\* take_live_snapshot_refreshes, after the trigger and the coalescing pause
Taken == Live(queue)
Begin(trigger) ==
  /\ rep.pc = "wait"
  /\ rep' = [rep EXCEPT !.pc = "references",
                        !.trigger = [trigger EXCEPT !.refs = Taken, !.watch = Watching]]
  /\ queue' = {}
  /\ result' = Answer({r \in queue : interest[r] = "closed"}, "unavailable")
  /\ UNCHANGED <<source, interest, asked, shown, counter, watched, bound, cache, calls, cloud>>

Bootstrap == rep.boot /\ Begin([NoTrigger EXCEPT !.boot = TRUE]) /\ UNCHANGED <<wake, budget>>
Woken     == ~rep.boot /\ wake /\ wake' = FALSE /\ Begin(NoTrigger) /\ UNCHANGED budget
Hourly    == ~rep.boot /\ Spend /\ Begin([NoTrigger EXCEPT !.idle = TRUE]) /\ UNCHANGED wake

Forced(t)   == t.boot \/ t.idle \/ t.refs # {}
Admitted(t) == Forced(t) \/ t.watch

\* a wrong Pruned: a publication under way takes up what is queued
LateJoin(t) == [t EXCEPT !.refs = Live(t.refs \cup queue), !.watch = t.watch /\ Watching]
\* prune_publication_trigger: the requests that are gone are answered, and a
\* watched operation counts only while someone watches.
Pruned(t) == [t EXCEPT !.refs = Live(t.refs), !.watch = t.watch /\ Watching]
Gone(t)   == t.refs \ Live(t.refs)

\* next_state_version_after: durable, above what was seen, or exhausted
NextVersion(observed) == (IF observed > counter THEN observed ELSE counter) + 1
AlwaysHasVersion(observed) == TRUE  \* a wrong HasVersion
HasVersion(observed) == NextVersion(observed) <= MaxVersion

\* The pending publication ends; fail_snapshot_refresh_requests answers the
\* requests that are still live.
GiveUp(refused) ==
  /\ rep' = Idle(rep.boot, refused)
  /\ result' = Answer(Live(rep.trigger.refs), "failed")

\* The references are refreshed (some may fail), the trigger is pruned, the
\* snapshot is built and a version allocated for it.
Assemble(failed) ==
  /\ rep.pc = "references" /\ failed \subseteq rep.trigger.refs
  /\ LET t == Pruned(rep.trigger) IN
     /\ result' = Answer(Gone(rep.trigger), "unavailable")
     /\ IF Admitted(t) /\ (Forced(t) \/ (watched # source /\ rep.rejected # source))
          THEN /\ HasVersion(0)
               /\ counter' = NextVersion(0)
               /\ rep' = [rep EXCEPT !.pc = "attempt", !.trigger = t, !.failed = failed,
                            !.pending = [version |-> counter',
                                         content |-> [build |-> source, trimmed |-> FALSE]],
                            !.boot = @ /\ ~t.boot]
          ELSE rep' = Idle(rep.boot, rep.rejected) /\ UNCHANGED counter
  /\ IF failed # {} THEN Spend ELSE UNCHANGED budget
  /\ UNCHANGED <<source, interest, asked, shown, queue, wake, watched, bound, cache, calls, cloud>>

\* The snapshot cannot be built, or its version cannot be written, or there is
\* no version left: the requests fail and the reporter calls itself again.
AssembleFails ==
  /\ rep.pc = "references" /\ Admitted(Pruned(rep.trigger))
  /\ IF ~HasVersion(0) THEN UNCHANGED budget ELSE Spend
  /\ rep' = Idle(rep.boot, rep.rejected)
  /\ result' = [r \in Requests |-> IF r \in Live(rep.trigger.refs) THEN "failed"
                                   ELSE IF r \in Gone(rep.trigger) THEN "unavailable"
                                   ELSE result[r]]
  /\ wake' = TRUE
  /\ UNCHANGED <<source, interest, asked, shown, queue, counter, watched, bound, cache, calls,
                 cloud>>

PartsOf(c)  == IF c.trimmed THEN Parts[c.build] \ {Big} ELSE Parts[c.build]
TooLarge(c) == ~c.trimmed /\ c.build \in Oversized

\* An attempt to post the pending state begins: what no one wants any more is
\* dropped.
Attempt ==
  /\ rep.pc = "attempt"
  /\ LET t == Pruned(rep.trigger) IN
     rep' = IF Admitted(t)
              THEN [rep EXCEPT !.pc = "upload", !.trigger = t,
                      !.todo = PartsOf(rep.pending.content) \ (cache.staged \cup cache.committed)]
              ELSE Idle(rep.boot, rep.rejected)
  /\ result' = Answer(Gone(rep.trigger), "unavailable")
  /\ UNCHANGED <<source, interest, asked, shown, queue, wake, counter, watched, bound, cache, calls,
                 cloud, budget>>

Uploading == rep.pc = "upload" /\ ~TooLarge(rep.pending.content)

\* upload_state_chunk and storeSnapshotContentChunk: the chunk is written, or
\* its age renewed, in the epoch the desktop names.
Upload(ch) ==
  /\ Uploading /\ ch \in rep.todo /\ bound = d1.epoch
  /\ d1' = [d1 EXCEPT !.chunks[ch] = "fresh"]
  /\ cache' = [cache EXCEPT !.staged = @ \cup {ch}]
  /\ rep' = [rep EXCEPT !.todo = @ \ {ch}]
  /\ UNCHANGED <<source, viewers, queue, wake, counter, watched, bound, calls, saved, history,
                 lost, budget>>

\* The upload fails, or its reply is lost after it was written: the attempt
\* ends with a retryable error.
UploadFails(ch, written) ==
  /\ Uploading /\ ch \in rep.todo
  /\ Spend
  /\ written => bound = d1.epoch
  /\ d1' = IF written THEN [d1 EXCEPT !.chunks[ch] = "fresh"] ELSE d1
  /\ rep' = [rep EXCEPT !.pc = "attempt", !.todo = {}]
  /\ UNCHANGED <<source, viewers, queue, wake, counter, watched, bound, cache, calls, saved,
                 history, lost>>

\* The manifest leaves for the Worker once the chunks are acknowledged.
Post ==
  /\ Uploading /\ rep.todo = {}
  /\ calls' = [calls EXCEPT !["own"] = [NoCall EXCEPT !.at = "read",
                 !.version = rep.pending.version, !.content = rep.pending.content,
                 !.epoch = bound]]
  /\ rep' = [rep EXCEPT !.pc = "posted"]
  /\ UNCHANGED <<source, viewers, queue, wake, counter, watched, bound, cache, cloud, budget>>

---------------------------------------------------------------------------
(* The Worker: storeChunkedSnapshot, each read and each batch a step *)

Present(c, chunks) == \A ch \in PartsOf(c) : chunks[ch] # "absent"
IsStored(call) == d1.meta = [version |-> call.version, content |-> call.content]

\* A reply; an abandoned request's goes nowhere.
Reply(s, how, hint) ==
  calls' = [calls EXCEPT ![s] = IF s = "stale" THEN NoCall
              ELSE [@ EXCEPT !.at = "done", !.reply = how, !.hint = hint]]
Proceed(s, at) == calls' = [calls EXCEPT ![s].at = at]

desktop == <<source, viewers, queue, wake, counter, watched, bound, rep, cache>>

\* The epoch and the stored manifest are read, and decide what follows.
WorkerRead(s) ==
  LET call == calls[s] IN
  /\ call.at = "read"
  /\ \/ call.epoch # d1.epoch /\ Reply(s, "epoch", 0)
     \/ /\ call.epoch = d1.epoch
        /\ \/ d1.meta.version > call.version /\ Reply(s, "conflict", d1.meta.version)
           \/ /\ d1.meta.version = call.version /\ ~IsStored(call)
              /\ Reply(s, "conflict", d1.meta.version)
           \/ IsStored(call) /\ Proceed(s, "check")
           \/ d1.meta.version < call.version /\ Proceed(s, "commit")
  /\ UNCHANGED <<desktop, cloud, budget>>

\* The same version and content again: are its chunks there?  If not, the
\* epoch is read once more before the reply says so.  (The chunks of an epoch
\* that is over may or may not be pruned: the reply is the same.)
WorkerProbe(s) ==
  LET call == calls[s] IN
  /\ \/ /\ call.at = "check"
        /\ call.epoch = d1.epoch => Present(call.content, d1.chunks)
        /\ Proceed(s, "beat")
     \/ /\ call.at = "check"
        /\ call.epoch = d1.epoch => ~Present(call.content, d1.chunks)
        /\ Proceed(s, "absent")
     \/ /\ call.at = "absent"
        /\ IF call.epoch # d1.epoch THEN Reply(s, "epoch", 0) ELSE Reply(s, "missing", 0)
  /\ UNCHANGED <<desktop, cloud, budget>>

\* pruneOrphanSnapshotChunks: chunks past their retention that the manifest
\* does not name, a batch of any size
Orphan(ch, meta) == ch \notin PartsOf(meta.content)
Prunable(meta) == {ch \in Chunks : d1.chunks[ch] = "old" /\ Orphan(ch, meta)}
Without(gone)  == [ch \in Chunks |-> IF ch \in gone THEN "absent" ELSE d1.chunks[ch]]

\* The heartbeat batch, which prunes if its epoch and its manifest are still
\* the stored ones.
WorkerBeat(s) ==
  LET call == calls[s] IN
  /\ call.at = "beat"
  /\ Proceed(s, "beaten")
  /\ \E gone \in SUBSET (IF call.epoch = d1.epoch /\ IsStored(call)
                         THEN Prunable(d1.meta) ELSE {}) :
       d1' = [d1 EXCEPT !.chunks = Without(gone)]
  /\ UNCHANGED <<desktop, saved, history, lost, budget>>

\* The batch: the manifest replaces an older one of the epoch if every chunk
\* it names is there, and orphans go if it is the stored one afterwards.
\* Wrong forms of Committable
Unchecked(call)  == call.epoch = d1.epoch /\ d1.meta.version < call.version
AnyVersion(call) == call.epoch = d1.epoch /\ Present(call.content, d1.chunks)
SameVersion(call) == /\ call.epoch = d1.epoch /\ Present(call.content, d1.chunks)
                     /\ d1.meta.version <= call.version
Committable(call) ==
  /\ call.epoch = d1.epoch
  /\ Present(call.content, d1.chunks)
  /\ d1.meta.version < call.version
WorkerCommit(s) ==
  LET call == calls[s]
      meta == IF Committable(call) THEN [version |-> call.version, content |-> call.content]
              ELSE d1.meta
      own  == /\ call.epoch = d1.epoch
              /\ meta = [version |-> call.version, content |-> call.content]
  IN
  /\ call.at = "commit"
  /\ \E gone \in SUBSET (IF own THEN Prunable(meta) ELSE {}) :
       d1' = [d1 EXCEPT !.meta = meta, !.chunks = Without(gone)]
  /\ IF Committable(call)
       THEN /\ saved' = [meta |-> d1.meta, chunks |-> d1.chunks]
            /\ history' = history \cup {<<d1.epoch, call.version, call.content>>}
       ELSE UNCHANGED <<saved, history>>
  /\ Proceed(s, "committed")
  /\ UNCHANGED <<desktop, lost, budget>>

\* What is stored after the batch decides the reply, not the batch itself.
WorkerReread(s) ==
  LET call == calls[s] IN
  /\ call.at \in {"beaten", "committed"}
  /\ \/ call.epoch # d1.epoch /\ Reply(s, "epoch", 0)
     \/ call.epoch = d1.epoch /\ IsStored(call) /\ Reply(s, "ok", 0)
     \/ /\ call.epoch = d1.epoch /\ ~IsStored(call) /\ call.at = "beaten"
        /\ Reply(s, IF d1.meta.version = 0 THEN "superseded" ELSE "conflict", d1.meta.version)
     \/ /\ call.epoch = d1.epoch /\ ~IsStored(call) /\ call.at = "committed"
        /\ IF d1.meta.version >= call.version THEN Reply(s, "conflict", d1.meta.version)
                                              ELSE Reply(s, "missing", 0)
  /\ UNCHANGED <<desktop, cloud, budget>>

Worker(s) ==
  \/ WorkerRead(s) \/ WorkerProbe(s) \/ WorkerBeat(s) \/ WorkerCommit(s) \/ WorkerReread(s)

\* A request no one awaits may also be lost on its way.
Vanish ==
  /\ calls["stale"].at # "none"
  /\ calls' = [calls EXCEPT !["stale"] = NoCall]
  /\ UNCHANGED <<desktop, cloud, budget>>

\* The Worker refuses the manifest as too large, or for good.
Refuse ==
  /\ calls["own"].at = "read"
  /\ Spend
  /\ \E how \in {"too large", "rejected"} : Reply("own", how, 0)
  /\ UNCHANGED <<desktop, cloud>>

---------------------------------------------------------------------------
(* The desktop reads the reply *)

Replied(how) == rep.pc = "posted" /\ calls["own"].at = "done" /\ calls["own"].reply = how
Answered == calls' = [calls EXCEPT !["own"] = NoCall]

\* The chunks are pinned, the fingerprint recorded, the requests answered.
Published ==
  /\ Replied("ok") /\ Answered
  /\ LET c == rep.pending.content
         t == Pruned(rep.trigger)
     IN  /\ cache' = [staged |-> cache.staged \ PartsOf(c), committed |-> PartsOf(c)]
         /\ watched' = c.build
         /\ rep' = Idle(FALSE, IF c.trimmed THEN c.build ELSE -1)
         /\ result' = [r \in Requests |->
              IF r \in t.refs THEN IF r \in rep.failed THEN "failed" ELSE "published"
              ELSE IF r \in Gone(rep.trigger) THEN "unavailable" ELSE result[r]]
         /\ shown' = [r \in Requests |-> IF r \in t.refs \ rep.failed THEN c.build ELSE shown[r]]
  /\ UNCHANGED <<source, interest, asked, queue, wake, counter, bound, cloud, budget>>

\* 409 with a version: a higher one is made durable and the content retried.
Conflict ==
  /\ Replied("conflict") /\ Answered
  /\ LET next == NextVersion(calls["own"].hint) IN
     \/ /\ HasVersion(calls["own"].hint)
        /\ counter' = next
        /\ rep' = [rep EXCEPT !.pc = "attempt", !.pending.version = next]
        /\ UNCHANGED budget
     \/ /\ IF ~HasVersion(calls["own"].hint) THEN UNCHANGED budget ELSE Spend
        /\ rep' = [rep EXCEPT !.pc = "attempt"]
        /\ UNCHANGED counter
  /\ UNCHANGED <<source, viewers, queue, wake, watched, bound, cache, cloud>>

\* 428: nothing is believed stored any more.
Kept    == cache  \* a wrong Cleared
Cleared == [staged |-> {}, committed |-> {}]
Missing ==
  /\ Replied("missing") /\ Answered
  /\ cache' = Cleared
  /\ rep' = [rep EXCEPT !.pc = "attempt"]
  /\ UNCHANGED <<source, viewers, queue, wake, counter, watched, bound, cloud, budget>>

\* 409 without a version: the same version again.
Superseded ==
  /\ Replied("superseded") /\ Answered
  /\ rep' = [rep EXCEPT !.pc = "attempt"]
  /\ UNCHANGED <<source, viewers, queue, wake, counter, watched, bound, cache, cloud, budget>>

\* 413, from the desktop's own check or from the Worker: what can be trimmed
\* is, under a new version; otherwise the state is given up.
Reducible(c) == ~c.trimmed /\ Big \in Parts[c.build]
Refused413   == Replied("too large") \/ (rep.pc = "upload" /\ TooLarge(rep.pending.content))
Reduce ==
  /\ Refused413 /\ Answered
  /\ LET c == rep.pending.content IN
     \/ /\ Reducible(c) /\ HasVersion(0)
        /\ counter' = NextVersion(0)
        /\ rep' = [rep EXCEPT !.pc = "attempt", !.pending =
                     [version |-> counter', content |-> [c EXCEPT !.trimmed = TRUE]]]
        /\ UNCHANGED result
     \/ ~Reducible(c) /\ GiveUp(c.build) /\ UNCHANGED counter
  /\ UNCHANGED <<source, interest, asked, shown, queue, wake, watched, bound, cache, cloud, budget>>

\* The trimmed state gets no version: its requests fail, the reporter calls
\* itself again.
ReduceFails ==
  /\ Refused413 /\ Answered /\ Reducible(rep.pending.content)
  /\ IF ~HasVersion(0) THEN UNCHANGED budget ELSE Spend
  /\ GiveUp(rep.rejected)
  /\ wake' = TRUE
  /\ UNCHANGED <<source, interest, asked, shown, queue, counter, watched, bound, cache, cloud>>

Rejected ==
  /\ Replied("rejected") /\ Answered
  /\ GiveUp(rep.pending.content.build)
  /\ UNCHANGED <<source, interest, asked, shown, queue, wake, counter, watched, bound, cache,
                 cloud, budget>>

\* No reply arrives: the request may still be at the Worker.  (Bound: one
\* abandoned request at a time.)
Timeout ==
  /\ rep.pc = "posted" /\ calls["stale"].at = "none"
  /\ Spend
  /\ calls' = [calls EXCEPT !["own"] = NoCall,
        !["stale"] = IF calls["own"].at = "done" THEN NoCall ELSE calls["own"]]
  /\ rep' = [rep EXCEPT !.pc = "attempt"]
  /\ UNCHANGED <<source, viewers, queue, wake, counter, watched, bound, cache, cloud>>

---------------------------------------------------------------------------
(* The process, time and D1 *)

\* What dies with the process.  Its viewers lose their connection.
Down ==
  /\ rep' = [Idle(FALSE, -1) EXCEPT !.pc = "down"]
  /\ interest' = [r \in Requests |-> IF interest[r] = "visible" THEN "closed" ELSE interest[r]]
  /\ queue' = {} /\ wake' = FALSE
  /\ cache' = [staged |-> {}, committed |-> {}]

\* Another epoch: the runtime is stopped.
EpochFatal ==
  /\ \/ Replied("epoch")
     \/ Uploading /\ rep.todo # {} /\ bound # d1.epoch
  /\ Answered /\ Down
  /\ UNCHANGED <<source, asked, result, shown, counter, watched, bound, cloud, budget>>

Crash ==
  /\ rep.pc # "down" /\ calls["stale"].at = "none"
  /\ Spend /\ Down
  /\ calls' = [calls EXCEPT !["own"] = NoCall,
        !["stale"] = IF calls["own"].at = "done" THEN NoCall ELSE calls["own"]]
  /\ UNCHANGED <<source, asked, result, shown, counter, watched, bound, cloud>>

\* Each epoch has a namespace of its own, with its own counter; a bootstrap is
\* due until a publication of the namespace was acknowledged.
Restart ==
  /\ rep.pc = "down"
  /\ bound' = d1.epoch
  /\ IF bound = d1.epoch THEN UNCHANGED <<counter, watched>> ELSE counter' = 0 /\ watched' = -1
  /\ rep' = Idle(watched' = -1, -1)
  /\ UNCHANGED <<source, viewers, queue, wake, cache, calls, cloud, budget>>

\* The private counter file is lost while the process is down; the
\* acknowledgment is kept in the same file.
LoseCounter ==
  /\ rep.pc = "down" /\ lost = "none"
  /\ Spend /\ lost' = "counter" /\ counter' = 0 /\ watched' = -1
  /\ UNCHANGED <<source, viewers, queue, wake, bound, rep, cache, calls, d1, saved, history>>

\* SNAPSHOT_CHUNK_RETENTION_MS passes for a chunk.
Age(ch) ==
  /\ d1.chunks[ch] = "fresh"
  /\ Spend /\ d1' = [d1 EXCEPT !.chunks[ch] = "old"]
  /\ UNCHANGED <<desktop, calls, saved, history, lost>>

\* A staged acknowledgment expires or makes room for another.
Forget(ch) ==
  /\ ch \in cache.staged
  /\ Spend /\ cache' = [cache EXCEPT !.staged = @ \ {ch}]
  /\ UNCHANGED <<source, viewers, queue, wake, counter, watched, bound, rep, calls, cloud>>

\* D1 is restored to what it was before its last commit, in the same epoch.
Restore ==
  /\ lost = "none" /\ d1.meta # saved.meta
  /\ Spend /\ lost' = "d1"
  /\ d1' = [d1 EXCEPT !.meta = saved.meta, !.chunks = saved.chunks]
  /\ UNCHANGED <<desktop, calls, saved, history>>

\* rotateDatabaseEpoch: the manifest goes, and no chunk is of the new epoch.
Rotate ==
  /\ d1.epoch < MaxEpoch /\ Spend
  /\ d1' = [epoch |-> d1.epoch + 1, meta |-> NoMeta, chunks |-> [ch \in Chunks |-> "absent"]]
  /\ saved' = [meta |-> NoMeta, chunks |-> d1'.chunks]
  /\ UNCHANGED <<desktop, calls, history, lost>>

---------------------------------------------------------------------------
Reporter ==
  \/ Bootstrap \/ Woken \/ AssembleFails
  \/ \E failed \in SUBSET rep.trigger.refs : Assemble(failed)
  \/ Attempt \/ Post \/ Reduce \/ ReduceFails
  \/ \E ch \in Chunks : Upload(ch)
  \/ Published \/ Conflict \/ Missing \/ Superseded \/ Rejected \/ EpochFatal
  \/ Restart

Environment ==
  \/ Change \/ Hourly
  \/ \E r \in Requests : Show(r) \/ Lapse(r) \/ Ask(r)
  \/ \E rs \in SUBSET Requests : Hide(rs)
  \/ \E ch \in Chunks, written \in BOOLEAN : UploadFails(ch, written)
  \/ \E ch \in Chunks : Age(ch) \/ Forget(ch)
  \/ Worker("stale") \/ Vanish \/ Refuse \/ Timeout
  \/ Crash \/ LoseCounter \/ Restore \/ Rotate

Next == Reporter \/ Worker("own") \/ Environment

\* The reporter runs by itself and retries by a timer, and the Worker serves
\* the request it has; nothing else has to happen.
Spec == Init /\ [][Next]_vars
FairSpec == Spec /\ WF_vars(Reporter) /\ WF_vars(Worker("own"))

---------------------------------------------------------------------------
(* Properties *)

\* Every chunk that the stored manifest names is stored: pruning, retries,
\* restores and overtaking publications leave no snapshot a viewer cannot read.
StoredIsComplete == d1.meta.version > 0 => Present(d1.meta.content, d1.chunks)

\* A version names one content in an epoch, whatever crashed between its
\* allocation and its use and whichever of the two stores was set back.
VersionNamesOneContent ==
  \A h1, h2 \in history : h1[1] = h2[1] /\ h1[2] = h2[2] => h1[3] = h2[3]

\* Within an epoch the stored version only grows, except in a restore.
StoredNeverRegresses ==
  [][d1'.epoch = d1.epoch /\ lost' = lost => d1'.meta.version >= d1.meta.version]_vars

\* A request answered with "published" is shown a state at least as new as the
\* one it was asked in, and one that D1 has really committed, as it has the
\* publication the desktop takes for its last.
PublishedIsFresh ==
  LET Committed(build) == \E h \in history : h[3].build = build
  IN  /\ watched >= 0 => Committed(watched)
      /\ \A r \in Requests : result[r] = "published" => shown[r] >= asked[r] /\ Committed(shown[r])

\* A queued request is answered while its viewer stays.
RefreshAnswered ==
  \A r \in Requests : r \in queue ~> (result[r] # "none" \/ interest[r] # "visible")

\* While someone watches, the current state is published, or was rejected,
\* unless it changes again, no version is left, or they leave.
WatchedIsPublished ==
  \A b \in Builds : (source = b /\ Watching) ~>
     \/ watched = b \/ rep.rejected = b \/ source # b \/ ~Watching
     \/ counter = MaxVersion
=============================================================================
