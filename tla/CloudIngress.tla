---------------------------- MODULE CloudIngress ----------------------------
(***************************************************************************)
(* The path of a request from the Cloudflare Worker's D1 inbox to the      *)
(* desktop's durable inbox and its dispatcher.                             *)
(*                                                                         *)
(*   D1          `enqueue` gives a request a sequence number, a page of    *)
(*               unacknowledged rows is read, an ACK marks the rows whose  *)
(*               whole identity it names, acknowledged rows expire, and    *)
(*               an operator may restore an earlier state of the database, *)
(*               sequence counter and epoch row included.                  *)
(*   desktop     a reconciliation pass fetches a page, makes every request *)
(*               of it durable in the namespace of the database epoch, and *)
(*               only then acknowledges the page; the dispatcher runs what *)
(*               the namespace holds, once a pass has completed.           *)
(*   failures    a reply is lost, an operation reports an error, the       *)
(*               process stops between any two steps and starts again, a   *)
(*               WebSocket frame arrives late or twice.                    *)
(***************************************************************************)
EXTENDS Naturals, FiniteSets

CONSTANTS
  Keys,         \* request identifiers (D1's dedup_key)
  Telegram,     \* those whose kind is "telegram"
  Recovery,     \* those whose kind is "metadata_recover"; others are management
  PageSize,     \* CLOUD_REQUEST_PAGE_SIZE
  MaxSeq,       \* bound: sequence numbers D1 hands out
  MaxEpoch,     \* bound: database epochs ever minted
  MaxRestores,  \* bound: times an operator restores D1
  MaxFaults,    \* bound: lost replies, failed operations and process stops
  Retention     \* whether seven days can pass, so that receipts expire

ASSUME TelegramAssumption == Telegram \subseteq Keys
ASSUME RecoveryAssumption == Recovery \subseteq Keys \ Telegram
ASSUME BoundsAssumption == /\ PageSize \in Nat \ {0}
                           /\ MaxSeq \in Nat
                           /\ MaxEpoch \in Nat \ {0}
                           /\ MaxRestores \in Nat
                           /\ MaxFaults \in Nat
                           /\ Retention \in BOOLEAN

Seqs   == 1..MaxSeq
Epochs == 1..MaxEpoch
\* `era' stands for created_at: what tells two rows with the same key and
\* sequence number apart is that a restore came between their insertions.
Envelope == [seq : Seqs, key : Keys, era : 0..MaxRestores]
NoEnv    == [seq |-> 0]

Classes  == {"telegram", "metadata_recovery", "management"}
Class(m) == CASE m.key \in Telegram -> "telegram"
              [] m.key \in Recovery -> "metadata_recovery"
              [] OTHER -> "management"

Settled     == {"Completed", "Failed", "Uncertain"}
InboxStatus == {"Pending", "Processing", "Retryable"} \cup Settled
Outcome     == {"Completed", "Failed", "Retryable"}
Record      == [env : Envelope, status : InboxStatus]
NoRecord    == [status |-> "absent"]

Database == [rows : SUBSET Envelope, acked : SUBSET Envelope,
             lastSeq : 0..MaxSeq, epoch : Epochs]
Pass == [at : {"idle", "fetch", "page", "rotate"}, page : SUBSET Envelope,
         kept : SUBSET Envelope, last : 0..MaxSeq,
         expected : Envelope \cup {NoEnv}, seen : BOOLEAN]
Idle == [at |-> "idle", page |-> {}, kept |-> {}, last |-> 0,
         expected |-> NoEnv, seen |-> FALSE]
Job   == [env : Envelope, phase : {"claimed", "running", "done"},
          outcome : Outcome]
NoJob == [phase |-> "none"]

VARIABLES
  d1,          \* tables inbox, sqlite_sequence and cloud_database_meta
  savepoint,   \* the state of d1 an operator can restore
  restores,    \* restores so far
  minted,      \* epochs minted so far: the newest is number `minted'
  announced,   \* requests announced on the WebSocket: a frame may come late
  file,        \* durable: file[e][s], the record of seq s under epoch e
  alive,       \* the process runs
  bound,       \* the epoch the client and the inbox were opened for
  recovered,   \* the startup recovery of the inbox is complete
  fatal,       \* epoch_fatal
  reconciled,  \* reconciliation_complete
  pass,        \* the reconciliation pass, which holds backlog_sync_gate
  job,         \* the dispatch in flight of each class (a permit each)
  faults,      \* faults so far
  ran,         \* history: <<epoch, request>> begun and not reported failed
  expired      \* history: requests whose settled local receipt expired

cloudVars   == <<d1, savepoint, restores, minted, announced>>
processVars == <<alive, bound, recovered, fatal, reconciled, pass, job>>
vars == <<cloudVars, file, processVars, faults, ran, expired>>
-----------------------------------------------------------------------------
Pending(db) == db.rows \ db.acked

\* SELECT ... WHERE acked_at IS NULL ORDER BY seq LIMIT PageSize.
FirstPage(S) ==
  {m \in S : Cardinality({n \in S : n.seq < m.seq}) < PageSize}

Holds(e, m)   == file[e][m.seq] # NoRecord /\ file[e][m.seq].env = m
SetStatus(s, st) == file' = [file EXCEPT ![bound][s].status = st]

Init ==
  /\ d1 = [rows |-> {}, acked |-> {}, lastSeq |-> 0, epoch |-> 1]
  /\ savepoint = d1
  /\ restores = 0 /\ minted = 1 /\ announced = {}
  /\ file = [e \in Epochs |-> [s \in Seqs |-> NoRecord]]
  /\ alive = FALSE /\ bound = 1 /\ recovered = FALSE
  /\ fatal = FALSE /\ reconciled = FALSE /\ pass = Idle
  /\ job = [c \in Classes |-> NoJob]
  /\ faults = 0 /\ ran = {} /\ expired = {}
-----------------------------------------------------------------------------
(* The Worker and its database.                                            *)

\* INSERT ... ON CONFLICT(dedup_key) DO NOTHING, and the announcement.  A
\* retained key is answered from its row and changes nothing.
Enqueue(k) ==
  /\ d1.lastSeq < MaxSeq
  /\ \A m \in d1.rows : m.key # k
  /\ LET m == [seq |-> d1.lastSeq + 1, key |-> k, era |-> restores]
     IN  /\ d1' = [d1 EXCEPT !.rows = @ \cup {m}, !.lastSeq = @ + 1]
         /\ announced' = announced \cup {m}
  /\ UNCHANGED <<savepoint, restores, minted, file, processVars, faults, ran,
                 expired>>

\* pruneAcknowledgedInbox: an acknowledged row is deleted after seven days.
ExpireRow(m) ==
  /\ Retention
  /\ m \in d1.rows \cap d1.acked
  /\ d1' = [d1 EXCEPT !.rows = @ \ {m}, !.acked = @ \ {m}]
  /\ UNCHANGED <<savepoint, restores, minted, announced, file, processVars,
                 faults, ran, expired>>

SavePoint ==
  /\ restores < MaxRestores
  /\ savepoint' = d1
  /\ UNCHANGED <<d1, restores, minted, announced, file, processVars, faults,
                 ran, expired>>

Restore ==
  /\ restores < MaxRestores
  /\ d1' = savepoint
  /\ restores' = restores + 1
  /\ UNCHANGED <<savepoint, minted, announced, file, processVars, faults, ran,
                 expired>>
-----------------------------------------------------------------------------
(* The process: start, stop, and the bounded recovery of its inbox.        *)

\* run_cloud_bot bootstraps the epoch and opens the inbox of that epoch.
Start ==
  /\ ~alive
  /\ alive' = TRUE /\ bound' = d1.epoch
  /\ recovered' = FALSE /\ fatal' = FALSE /\ reconciled' = FALSE
  /\ pass' = Idle /\ job' = [c \in Classes |-> NoJob]
  /\ UNCHANGED <<cloudVars, file, faults, ran, expired>>

Halt ==
  /\ alive /\ alive' = FALSE
  /\ pass' = Idle /\ job' = [c \in Classes |-> NoJob]
  /\ reconciled' = FALSE
  /\ UNCHANGED <<cloudVars, file, bound, recovered, fatal, ran, expired>>

Crash == faults < MaxFaults /\ faults' = faults + 1 /\ Halt

\* The supervisor restarts a runtime that stopped on an epoch change.
ExitOnFatal == fatal /\ UNCHANGED faults /\ Halt

\* An interrupted Telegram command becomes uncertain, an interrupted
\* management request is queued again.
RequeueEverything(m) == "Pending"
RequeueNothing(m) ==
  IF Class(m) = "telegram" THEN "Uncertain" ELSE "Processing"
RecoveredStatus(m) ==
  IF Class(m) = "telegram" THEN "Uncertain" ELSE "Pending"

\* recover_processing_records_page, one rewrite at a time.
RecoverRecord(s) ==
  /\ alive /\ ~recovered
  /\ file[bound][s].status = "Processing"
  /\ SetStatus(s, RecoveredStatus(file[bound][s].env))
  /\ UNCHANGED <<cloudVars, processVars, faults, ran, expired>>

RecoverDone ==
  /\ alive /\ ~recovered
  /\ \A s \in Seqs : file[bound][s].status # "Processing"
  /\ recovered' = TRUE
  /\ UNCHANGED <<cloudVars, file, alive, bound, fatal, reconciled, pass, job,
                 faults, ran, expired>>

\* A settled receipt leaves the inbox seven days after its last update.
ExpireRecord(s) ==
  /\ Retention
  /\ alive /\ recovered
  /\ file[bound][s].status \in Settled
  /\ file' = [file EXCEPT ![bound][s] = NoRecord]
  /\ expired' = expired \cup {file[bound][s].env}
  /\ UNCHANGED <<cloudVars, processVars, faults, ran>>

\* The state report or the WebSocket handshake learns of another epoch.
ObserveEpoch ==
  /\ alive /\ d1.epoch # bound
  /\ fatal' = TRUE /\ reconciled' = FALSE
  /\ UNCHANGED <<cloudVars, file, alive, bound, recovered, pass, job, faults,
                 ran, expired>>
-----------------------------------------------------------------------------
(* The reconciliation pass.                                                *)

passOnly == <<cloudVars, file, alive, bound, recovered, job, ran, expired>>

\* m is the request a WebSocket frame announced; NoEnv is the REST fallback
\* and the pass made before every WebSocket connection.
StartPass(m) ==
  /\ alive /\ ~fatal /\ pass.at = "idle"
  /\ reconciled' = FALSE
  /\ pass' = [Idle EXCEPT !.at = "fetch", !.expected = m]
  /\ UNCHANGED <<passOnly, fatal, faults>>

EndPass(ok, epochChanged) ==
  /\ pass' = Idle
  /\ reconciled' = ok
  /\ fatal' = (fatal \/ epochChanged)

\* The reply to a request of the pass is lost, or a local write fails.
PassFails ==
  /\ pass.at # "idle"
  /\ faults < MaxFaults /\ faults' = faults + 1
  /\ EndPass(FALSE, FALSE)
  /\ UNCHANGED passOnly

\* The checks of epoch_fatal between the steps of a pass.
PassStopped ==
  /\ pass.at # "idle" /\ fatal
  /\ EndPass(FALSE, FALSE)
  /\ UNCHANGED <<passOnly, faults>>

\* After the last page: the announced request was in a page, or its exact
\* envelope is already durable.
Conclude ==
  EndPass(pass.expected = NoEnv \/ pass.seen \/ Holds(bound, pass.expected),
          FALSE)

Fetch ==
  /\ pass.at = "fetch" /\ ~fatal
  /\ LET page == FirstPage(Pending(d1))
     IN  \/ d1.epoch # bound /\ EndPass(FALSE, TRUE)
         \/ d1.epoch = bound /\ page = {} /\ Conclude
         \/ /\ d1.epoch = bound /\ \E m \in page : m.seq <= pass.last
            /\ EndPass(FALSE, FALSE)
         \/ /\ d1.epoch = bound /\ page # {}
            /\ \A m \in page : m.seq > pass.last
            /\ pass' = [pass EXCEPT !.at = "page", !.page = page, !.kept = {}]
            /\ UNCHANGED <<fatal, reconciled>>
  /\ UNCHANGED <<passOnly, faults>>

\* What CloudInbox::persist finds under the request's sequence number.
NeverDuplicate(m) == FALSE
Duplicate(m)      == Holds(bound, m)
Overwritable(m)   == ~Holds(bound, m)
Free(m)           == file[bound][m.seq] = NoRecord

\* CloudInbox::persist for the next request of the page.
Persist(m) ==
  /\ pass.at = "page" /\ ~fatal
  /\ m \in pass.page \ pass.kept
  /\ \A n \in pass.page \ pass.kept : m.seq <= n.seq
  /\ \/ /\ pass.expected # NoEnv
        /\ pass.expected # m /\ pass.expected.seq = m.seq
        /\ EndPass(FALSE, FALSE) /\ UNCHANGED file
     \/ /\ ~(pass.expected # NoEnv
             /\ pass.expected # m /\ pass.expected.seq = m.seq)
        /\ LET kept == [pass EXCEPT !.kept = @ \cup {m},
                                    !.seen = @ \/ pass.expected = m]
           IN  \/ /\ Duplicate(m)
                  /\ pass' = kept /\ UNCHANGED file
               \/ /\ ~Duplicate(m) /\ Free(m) /\ recovered
                  /\ file' = [file EXCEPT ![bound][m.seq] =
                                [env |-> m, status |-> "Pending"]]
                  /\ pass' = kept
               \/ /\ ~Duplicate(m) /\ ~Free(m)
                  /\ pass' = [pass EXCEPT !.at = "rotate", !.page = {m}]
                  /\ UNCHANGED file
        /\ UNCHANGED <<fatal, reconciled>>
  /\ UNCHANGED <<cloudVars, alive, bound, recovered, job, faults, ran, expired>>

\* The rotation names the epoch and one pending row, and commits only if both
\* are still there.
NeverRotatable == FALSE
Rotatable == d1.epoch = bound /\ pass.page \subseteq Pending(d1)

\* rotateDatabaseEpochOnSequenceConflict, asked for by the desktop when a
\* sequence number it holds names another request.  Every pending row stays.
\* `lost' is a rotation that commits and whose reply does not arrive.
Rotate(lost) ==
  /\ pass.at = "rotate" /\ ~fatal
  /\ IF Rotatable
     THEN /\ minted < MaxEpoch
          /\ minted' = minted + 1
          /\ d1' = [d1 EXCEPT !.epoch = minted + 1]
          /\ EndPass(FALSE, ~lost)
     ELSE /\ ~lost
          /\ EndPass(FALSE, d1.epoch # bound) /\ UNCHANGED <<d1, minted>>
  /\ lost => faults < MaxFaults
  /\ faults' = IF lost THEN faults + 1 ELSE faults
  /\ UNCHANGED <<savepoint, restores, announced, file, alive, bound, recovered,
                 job, ran, expired>>

\* A receipt names the whole identity of a row, not its sequence number only.
SameSequence(receipt, row) == receipt.seq = row.seq
SameRequest(receipt, row)  == receipt = row

\* A row whose sequence number a receipt names and whose identity differs.
Mismatched(receipts) ==
  \E m \in receipts, n \in d1.rows : m.seq = n.seq /\ ~SameRequest(m, n)

\* The transaction's UPDATE: receipts for rows that are gone are ignored.
AcknowledgedUnread(receipts) == [d1 EXCEPT !.acked = @ \cup receipts]
Acknowledged(receipts) ==
  [d1 EXCEPT !.acked =
     @ \cup {n \in d1.rows : \E m \in receipts : SameRequest(m, n)}]

\* The page is acknowledged when every request of it has been made durable.
AckOnFetch  == TRUE
PageDurable == pass.kept = pass.page

\* POST /api/local/ack after the whole page is durable.
Ack(lost) ==
  /\ pass.at = "page" /\ PageDurable /\ ~fatal
  /\ IF d1.epoch = bound /\ ~Mismatched(pass.page)
     THEN /\ d1' = Acknowledged(pass.page)
          /\ \/ lost /\ EndPass(FALSE, FALSE)
             \/ /\ ~lost /\ Cardinality(pass.page) < PageSize
                /\ Conclude
             \/ /\ ~lost /\ Cardinality(pass.page) >= PageSize
                /\ \E m \in pass.page :
                     /\ \A n \in pass.page : n.seq <= m.seq
                     /\ pass' = [pass EXCEPT !.at = "fetch", !.page = {},
                                             !.kept = {}, !.last = m.seq]
                /\ UNCHANGED <<fatal, reconciled>>
     ELSE /\ ~lost
          /\ EndPass(FALSE, d1.epoch # bound) /\ UNCHANGED d1
  /\ lost => faults < MaxFaults
  /\ faults' = IF lost THEN faults + 1 ELSE faults
  /\ UNCHANGED <<savepoint, restores, minted, announced, file, alive, bound,
                 recovered, job, ran, expired>>
-----------------------------------------------------------------------------
(* The dispatcher.  It holds backlog_sync_gate while it claims, so never    *)
(* during a pass; a claimed record runs beside later passes.               *)

Unreconciled == alive /\ ~fatal /\ pass.at = "idle" /\ recovered
Unrecovered  == alive /\ ~fatal /\ reconciled /\ pass.at = "idle"
MayDispatch  == alive /\ ~fatal /\ reconciled /\ pass.at = "idle" /\ recovered

\* The statuses pending() lists.
Listed == {"Pending", "Retryable"}

Claim(s) ==
  /\ MayDispatch
  /\ file[bound][s].status \in Listed
  /\ LET m == file[bound][s].env
     IN  /\ job[Class(m)] = NoJob
         /\ job' = [job EXCEPT ![Class(m)] =
                      [env |-> m, phase |-> "claimed", outcome |-> "Failed"]]
  /\ SetStatus(s, "Processing")
  /\ UNCHANGED <<cloudVars, alive, bound, recovered, fatal, reconciled, pass,
                 faults, ran, expired>>

jobOnly == <<cloudVars, alive, bound, recovered, fatal, reconciled, pass,
             expired>>

\* restore_claimed_cloud_request_after_epoch_change.
Unclaim(c) ==
  /\ job[c].phase = "claimed" /\ fatal
  /\ SetStatus(job[c].env.seq, "Pending")
  /\ job' = [job EXCEPT ![c] = NoJob]
  /\ UNCHANGED <<jobOnly, faults, ran>>

Begin(c) ==
  /\ job[c].phase = "claimed" /\ ~fatal
  /\ job' = [job EXCEPT ![c].phase = "running"]
  /\ ran' = ran \cup {<<bound, job[c].env>>}
  /\ UNCHANGED <<jobOnly, file, faults>>

\* The operation returns; an error leaves the request retryable.
Return(c, outcome) ==
  /\ job[c].phase = "running"
  /\ outcome = "Retryable" => faults < MaxFaults
  /\ faults' = IF outcome = "Retryable" THEN faults + 1 ELSE faults
  /\ job' = [job EXCEPT ![c].phase = "done", ![c].outcome = outcome]
  /\ ran' = IF outcome = "Retryable" THEN ran \ {<<bound, job[c].env>>}
                                     ELSE ran
  /\ UNCHANGED <<jobOnly, file>>

\* The outcome stays in memory until its receipt is durable.
SaveOutcome(c) ==
  /\ job[c].phase = "done"
  /\ SetStatus(job[c].env.seq, job[c].outcome)
  /\ job' = [job EXCEPT ![c] = NoJob]
  /\ UNCHANGED <<jobOnly, faults, ran>>
-----------------------------------------------------------------------------
Worker  == \/ \E k \in Keys : Enqueue(k)
           \/ \E m \in Envelope : ExpireRow(m)
           \/ SavePoint
           \/ Restore
Process == \/ Start \/ Crash \/ ExitOnFatal \/ RecoverDone \/ ObserveEpoch
           \/ \E s \in Seqs : RecoverRecord(s) \/ ExpireRecord(s)
Passing == \/ \E m \in announced \cup {NoEnv} : StartPass(m)
           \/ PassFails \/ PassStopped \/ Fetch
           \/ \E m \in pass.page : Persist(m)
           \/ \E lost \in BOOLEAN : Rotate(lost) \/ Ack(lost)
Dispatch == \/ \E s \in Seqs : Claim(s)
            \/ \E c \in Classes :
                 \/ Unclaim(c) \/ Begin(c) \/ SaveOutcome(c)
                 \/ \E outcome \in Outcome : Return(c, outcome)

Next == Worker \/ Process \/ Passing \/ Dispatch
Spec == Init /\ [][Next]_vars

\* Each task of the runtime keeps running; the gate is a first-come mutex, so
\* the fallback's pass and the dispatcher get it if they keep asking for it.
Fairness ==
  /\ WF_vars(Start) /\ WF_vars(ExitOnFatal)
  /\ WF_vars(\E s \in Seqs : RecoverRecord(s)) /\ WF_vars(RecoverDone)
  /\ SF_vars(StartPass(NoEnv)) /\ WF_vars(PassStopped) /\ WF_vars(Fetch)
  /\ WF_vars(\E m \in pass.page : Persist(m))
  /\ WF_vars(Rotate(FALSE)) /\ WF_vars(Ack(FALSE))
  /\ \A s \in Seqs : SF_vars(Claim(s))
  /\ \A c \in Classes :
       /\ WF_vars(Unclaim(c)) /\ WF_vars(Begin(c)) /\ WF_vars(SaveOutcome(c))
       /\ WF_vars(\E outcome \in {"Completed", "Failed"} : Return(c, outcome))
FairSpec == Spec /\ Fairness
-----------------------------------------------------------------------------
CloudTypeOK ==
  /\ d1 \in Database /\ d1.acked \subseteq d1.rows
  /\ savepoint \in Database /\ savepoint.acked \subseteq savepoint.rows
  /\ restores \in 0..MaxRestores
  /\ minted \in Epochs
  /\ announced \subseteq Envelope
InboxTypeOK ==
  file \in [Epochs -> [Seqs -> Record \cup {NoRecord}]]
ProcessTypeOK ==
  /\ alive \in BOOLEAN /\ recovered \in BOOLEAN
  /\ fatal \in BOOLEAN /\ reconciled \in BOOLEAN
  /\ bound \in Epochs
  /\ pass \in Pass
  /\ job \in [Classes -> Job \cup {NoJob}]
HistoryTypeOK ==
  /\ faults \in 0..MaxFaults
  /\ ran \subseteq Epochs \X Envelope
  /\ expired \subseteq Envelope

\* Every variable keeps to its type, and D1 marks only rows it holds (an
\* acknowledgement of a row that is gone leaves no trace).
TypeOK == CloudTypeOK /\ InboxTypeOK /\ ProcessTypeOK /\ HistoryTypeOK

\* Requests that some namespace of the desktop holds or has held to the end.
Received == {m \in Envelope : \E e \in Epochs : Holds(e, m)} \cup expired

\* D1 forgets a request (an acknowledged row is never sent again) only if the
\* desktop has it: no lost reply, stop, restore or reuse of a sequence number
\* makes an ACK cover a request that was not made durable.  (The ACK's
\* identity check and the order persist, then ACK.)
AckedIsReceived == d1.acked \subseteq Received

\* A request that is still to be delivered has not run to an end, unless the
\* database was restored: else its redelivery after the local receipt expired
\* would run it again.  (The dispatcher's wait for a complete pass.)
SettledIsNotPending ==
  restores = 0 =>
    \A m \in Pending(d1) :
      /\ m \notin expired
      /\ \A e \in Epochs :
           Holds(e, m) => file[e][m.seq].status = "Pending"

\* While a dispatch is in flight its durable record says so and names the same
\* request: what a stop leaves behind is recovered as interrupted, and no
\* other step (recovery, retention, a pass, the other dispatch) touches it.
InFlightIsProcessing ==
  \A c \in Classes : job[c].phase # "none" =>
    /\ alive /\ recovered /\ Class(job[c].env) = c
    /\ file[bound][job[c].env.seq] =
         [env |-> job[c].env, status |-> "Processing"]

\* A Telegram command that began and did not report an error is not queued to
\* run again under the same epoch, whenever the process stops, unless its
\* receipt expired and a restore then brought its row back.  (The uncertain
\* outcome of recovery, and the wait for a complete pass.)
Runnable(e, s) ==
  \/ file[e][s].status \in {"Pending", "Retryable"}
  \/ /\ e = bound /\ alive
     /\ \E c \in Classes : job[c].phase = "claimed" /\ job[c].env.seq = s
Remembered(m) == m \in expired => restores = 0
TelegramNotReplayed ==
  \A p \in ran :
    Class(p[2]) = "telegram" /\ Remembered(p[2]) /\ Holds(p[1], p[2])
      => ~Runnable(p[1], p[2].seq)

\* The namespace of an epoch is append-only until receipts expire: a durable
\* request is never replaced by another one with its sequence number, and a
\* settled receipt is final.
ReceiptsAreFinal ==
  [][\A e \in Epochs, s \in Seqs :
       LET r == file[e][s]  n == file'[e][s]
       IN  r # NoRecord /\ n # NoRecord =>
             n.env = r.env /\ (r.status \in Settled => n = r)]_vars

\* Again and again nothing waits in D1: every request is acknowledged (or a
\* restore takes it away), through lost replies, stops, stale frames and
\* sequence conflicts.  (Requests stop arriving, at MaxSeq.)
PendingDrains == []<>(Pending(d1) = {})

\* What a restore may undo for good: the row itself, or the epoch under which
\* the desktop had it made durable and acknowledged.
Undone(m) ==
  /\ restores > 0
  /\ \/ m \notin d1.rows
     \/ m \in d1.acked /\ ~Holds(d1.epoch, m)

HasRun(m) == \E e \in Epochs : Holds(e, m) /\ file[e][m.seq].status \in Settled

\* Again and again nothing is left to do: every accepted request runs to an
\* end on the desktop, unless a restore of the database takes it back.  None
\* waits for ever behind a pass that keeps failing, a sequence conflict,
\* another request, a claim that a stop interrupted, or a retryable record
\* nobody lists.
AcceptedSettles ==
  []<>(\A m \in announced : m \in expired \/ HasRun(m) \/ Undone(m))

\* The reliable hand-over that D1 and the desktop implement together.
Delivery == INSTANCE RequestDelivery WITH
  Requests  <- Envelope,
  CanRewind <- MaxRestores > 0,
  accepted  <- announced,
  owed      <- Pending(d1),
  received  <- Received,
  settled   <- {m \in Envelope :
                  \E e \in Epochs : /\ Holds(e, m)
                                   /\ file[e][m.seq].status \in Settled}
               \cup expired
\* Every step of the two implements a step of RequestDelivery or none.
DeliverySpec == Delivery!Spec

\* "Identical restored envelopes remain duplicates": a Telegram command that
\* ran under one epoch does not run again under the next.
RestoredEnvelopeRunsOnce ==
  \A p, q \in ran :
    p[2] = q[2] /\ Class(p[2]) = "telegram" => p[1] = q[1]
=============================================================================
