--------------------- MODULE PreviewConfirmation_proofs ---------------------
(* Theorems of PreviewConfirmation, for every value of its constants.      *)
EXTENDS PreviewConfirmation, TLAPS

-----------------------------------------------------------------------------
(* The strengthening of the invariants.                                    *)

\* The steps of a dispatch that was admitted for the preview.
Admitted == {"check", "begin", "sending", "execute", "run"}

\* Nobody else closes the preview of an admitted confirmation (the permit),
\* and the receipt of a confirmation is as young as can be when the state of
\* its preview is written.
WorkerOK ==
  /\ worker.at = "cancel" => worker.req \in Cancels
  /\ worker.at = "run" => executed
  /\ worker.at \in {"lookup"} \cup Admitted => worker.req \in Confirms
  /\ worker.at \in Admitted => preview.status \in {"Awaiting", "gone"}
  /\ worker.at \notin {"idle", "save", "relate"} => worker.related = "none"
  /\ worker.at \in {"save", "relate"} /\ worker.related # "none" =>
       /\ worker.req \in Confirms /\ worker.status \in Terminal
       /\ preview.status \in {"Awaiting", "gone"}
  /\ worker.at = "relate" =>
       /\ worker.related # "none"
       /\ requests[worker.req] = [status |-> worker.status, time |-> now]

\* An attempt leaves a trace beside a preview that still is offered: an active
\* confirmation, or one whose receipt expires no earlier than the preview.
TraceOK ==
  executed /\ preview.status = "Awaiting" =>
    \/ ActiveConfirms # {}
    \/ Expired(preview)
    \/ \E c \in Confirms : /\ requests[c].status \in Terminal
                           /\ requests[c].time >= preview.time

Ended == \E c \in Confirms : requests[c].status \in Terminal \cup {"gone"}

\* What a confirmation accepted in time needs is there until another one ends.
KeptOK ==
  /\ \A c \in inTime : requests[c].status # "none"
  /\ \A c \in inTime \cap ActiveConfirms :
       IF preview.status = "Awaiting" THEN file /\ ReceivedInTime(c) ELSE Ended

\* It is not refused without a reason.
RefusalOK ==
  worker.at \in {"save", "relate"} /\ worker.req \in inTime
    /\ worker.status = "Failed" /\ preview.status = "Awaiting"
  => executed \/ faults > 0

IInv == /\ TypeOK /\ WorkerOK /\ TraceOK /\ KeptOK /\ RefusalOK
        /\ CancelledIsUnexecuted /\ ConfirmedInTimeRuns
-----------------------------------------------------------------------------
(* Operators.                                                              *)

LEMMA Working ==
  ASSUME WorkerTypeOK, worker.at # "idle"
  PROVE  worker \in Job /\ worker # Idle /\ alive
BY DEF WorkerTypeOK, Idle

LEMMA OutcomeShape ==
  ASSUME worker \in Job, NEW st, NEW rel, Outcome(st, rel)
  PROVE  /\ worker'.at = "save" /\ worker'.req = worker.req
         /\ worker'.status = st /\ worker'.related = rel
         /\ st \in Terminal \cup {"Retryable"} /\ rel \in Related => worker' \in Job
BY DEF Outcome, Job, Steps

LEMMA GoShape ==
  ASSUME worker \in Job, NEW step, Go(step)
  PROVE  /\ worker'.at = step /\ worker'.req = worker.req
         /\ worker'.status = worker.status /\ worker'.related = worker.related
         /\ step \in Steps => worker' \in Job
BY DEF Go, Job

LEMMA ActiveShape ==
  ASSUME InboxTypeOK, NEW q \in Requests, NEW st \in Statuses, SetActive(q, st)
  PROVE  /\ requests' \in [Requests -> RequestRecord]
         /\ requests'[q].status = st /\ requests'[q].time = requests[q].time
         /\ \A r \in Requests \ {q} : requests'[r] = requests[r]
BY DEF InboxTypeOK, SetActive, RequestRecord

LEMMA SettledShape ==
  ASSUME InboxTypeOK, NEW q \in Requests, NEW st \in Statuses, now \in Times,
         SetSettled(q, st)
  PROVE  /\ requests' \in [Requests -> RequestRecord]
         /\ requests'[q] = [status |-> st, time |-> now]
         /\ \A r \in Requests \ {q} : requests'[r] = requests[r]
BY DEF InboxTypeOK, SetSettled, RequestRecord

\* A settled record is replaced by a mark that it is gone.
LEMMA GoneShape ==
  ASSUME InboxTypeOK, NEW q \in Requests, PruneRequest(q)
  PROVE  /\ requests' \in [Requests -> RequestRecord]
         /\ requests'[q].status = "gone" /\ requests'[q].time = 0
         /\ \A r \in Requests \ {q} : requests'[r] = requests[r]
BY LimitAssumption DEF InboxTypeOK, PruneRequest, Unsent, RequestRecord, Statuses, Times

LEMMA ReceiveShape ==
  ASSUME InboxTypeOK, now \in Times, NEW q \in Requests, Receive(q)
  PROVE  /\ requests' \in [Requests -> RequestRecord]
         /\ requests[q].status = "none"
         /\ requests'[q] = [status |-> "Pending", time |-> now]
         /\ \A r \in Requests \ {q} : requests'[r] = requests[r]
BY DEF InboxTypeOK, Receive, Unsent, RequestRecord, Statuses, Active

\* A start queues interrupted requests again and leaves their times alone.
LEMMA StartShape ==
  ASSUME InboxTypeOK, Start
  PROVE  /\ requests' \in [Requests -> RequestRecord]
         /\ \A r \in Requests :
              /\ requests'[r].time = requests[r].time
              /\ requests'[r].status =
                   IF requests[r].status = "Processing" THEN "Pending"
                   ELSE requests[r].status
BY DEF InboxTypeOK, Start, RequestRecord, Statuses, Active
-----------------------------------------------------------------------------
(* Type correctness.                                                       *)

LEMMA TypeInbox ==
  ASSUME TypeOK, WorkerOK, [Next]_vars
  PROVE  InboxTypeOK'
<1>0. InboxTypeOK /\ WorkerTypeOK
  BY DEF TypeOK
<1>1. now \in Nat /\ now \in Times
  BY <1>0, LimitAssumption DEF WorkerTypeOK, Times
<1>2. ASSUME NEW st \in Closed \cup {"Awaiting"}, SetPreview(st),
             UNCHANGED <<now, requests>>
      PROVE  InboxTypeOK'
  BY <1>0, <1>1, <1>2 DEF InboxTypeOK, SetPreview, PreviewRecord
<1>3. ASSUME NEW q \in Requests, Receive(q) PROVE InboxTypeOK'
  <2>1. /\ requests' \in [Requests -> RequestRecord]
        /\ requests'[q].time = now
        /\ \A r \in Requests \ {q} : requests'[r] = requests[r]
    BY <1>0, <1>1, <1>3, ReceiveShape
  <2>2. UNCHANGED <<now, preview>>
    BY <1>3 DEF Receive
  <2> QED
    BY <1>0, <1>1, <2>1, <2>2 DEF InboxTypeOK
<1>4. ASSUME NEW q \in Requests, Claim(q) PROVE InboxTypeOK'
  <2>1. "Processing" \in Statuses /\ UNCHANGED <<now, preview>> /\ SetActive(q, "Processing")
    BY <1>4 DEF Claim, Statuses, Active
  <2> QED
    BY <1>0, <2>1, ActiveShape DEF InboxTypeOK
<1>5. CASE CancelPreview
  <2>1. Disposition \in Closed
    BY DEF Disposition, Closed
  <2> QED
    BY <1>0, <1>2, <1>5, <2>1 DEF CancelPreview, InboxTypeOK
<1>6. CASE Announce \/ Announced
  <2>1. preview.status # "gone" => preview.status \in Closed \cup {"Awaiting"}
    BY <1>0 DEF InboxTypeOK, PreviewRecord
  <2> QED
    BY <1>0, <1>2, <1>6, <2>1 DEF Announce, Announced, InboxTypeOK
<1>7. CASE SaveOutcome
  <2>1. /\ worker.req \in Requests /\ worker.status \in Statuses
        /\ "Retryable" \in Statuses /\ UNCHANGED <<now, preview>>
        /\ \/ SetActive(worker.req, "Retryable")
           \/ SetSettled(worker.req, worker.status)
    BY <1>0, <1>7, Working
       DEF SaveOutcome, At, Job, Statuses, Active, Terminal
  <2>2. /\ requests' \in [Requests -> RequestRecord]
        /\ requests'[worker.req].time \in {now, requests[worker.req].time}
        /\ \A r \in Requests \ {worker.req} : requests'[r] = requests[r]
    <3>1. CASE SetActive(worker.req, "Retryable")
      BY <1>0, <2>1, <3>1, ActiveShape
    <3>2. CASE SetSettled(worker.req, worker.status)
      <4>1. requests'[worker.req] = [status |-> worker.status, time |-> now]
        BY <1>0, <1>1, <2>1, <3>2, SettledShape
      <4> QED
        BY <1>0, <1>1, <2>1, <3>2, <4>1, SettledShape
    <3> QED
      BY <2>1, <3>1, <3>2
  <2> QED
    BY <1>0, <1>1, <2>1, <2>2 DEF InboxTypeOK
<1>8. CASE SaveRelated
  <2>1. worker.related \in Closed \cup {"Awaiting"}
    BY <1>0, <1>8, Working DEF SaveRelated, At, WorkerOK, Job, Related, Closed
  <2> QED
    BY <1>0, <1>2, <1>8, <2>1 DEF SaveRelated, InboxTypeOK
<1>9. ASSUME NEW q \in Requests, PruneRequest(q) PROVE InboxTypeOK'
  <2>1. /\ requests' \in [Requests -> RequestRecord]
        /\ requests'[q].time = 0
        /\ \A r \in Requests \ {q} : requests'[r] = requests[r]
    BY <1>0, <1>9, GoneShape
  <2>2. UNCHANGED <<now, preview>>
    BY <1>9 DEF PruneRequest
  <2> QED
    BY <1>0, <1>1, <2>1, <2>2 DEF InboxTypeOK
<1>10. CASE PrunePreview
  <2>1. preview' = [status |-> "gone", time |-> 0] /\ UNCHANGED <<now, requests>>
    BY <1>10 DEF PrunePreview
  <2>2. 0 \in Times
    BY LimitAssumption DEF Times
  <2> QED
    BY <1>0, <1>1, <2>1, <2>2 DEF InboxTypeOK, PreviewRecord
<1>11. CASE Tick
  BY <1>0, <1>1, <1>11 DEF Tick, inbox, InboxTypeOK, PreviewRecord, RequestRecord, Times
<1>12. CASE Start
  BY <1>0, <1>12, StartShape DEF Start, InboxTypeOK
<1>13. CASE UNCHANGED <<now, preview, requests>>
  BY <1>0, <1>13 DEF InboxTypeOK
<1> QED
  BY <1>3, <1>4, <1>5, <1>6, <1>7, <1>8, <1>9, <1>10, <1>11, <1>12, <1>13
     DEF Next, vars, inbox, Dispatch, Failure, Prune, Lookup, CheckFile, Execute,
         Complete, EndPartial, LoseAnchors, EndInaccessible, Refuse, Defer, Break,
         PruneBatch, PruneFile, Crash

LEMMA TypeLibrary ==
  ASSUME TypeOK, [Next]_vars
  PROVE  LibraryTypeOK'
<1>0. LibraryTypeOK /\ now \in Nat /\ now \in Times
  BY LimitAssumption DEF TypeOK, WorkerTypeOK, Times
<1>1. ASSUME NEW st \in {"running", "complete", "partial", "retryable"},
             batch' = [status |-> st, time |-> now], UNCHANGED <<now, file>>
      PROVE  LibraryTypeOK'
  BY <1>0, <1>1 DEF LibraryTypeOK, BatchRecord
<1>2. CASE Execute \/ Complete \/ EndPartial \/ EndInaccessible
  BY <1>0, <1>1, <1>2 DEF Execute, Complete, EndPartial, EndInaccessible, LibraryTypeOK
<1>3. CASE PruneBatch
  <2>1. batch' = [status |-> "none", time |-> 0] /\ UNCHANGED <<now, file>>
    BY <1>3 DEF PruneBatch
  <2>2. 0 \in Times
    BY LimitAssumption DEF Times
  <2> QED
    BY <1>0, <2>1, <2>2 DEF LibraryTypeOK, BatchRecord
<1>4. CASE PruneFile
  BY <1>0, <1>4 DEF PruneFile, LibraryTypeOK
<1>5. CASE Tick
  <2>1. now' = now + 1 /\ UNCHANGED <<file, batch>>
    BY <1>5 DEF Tick, library
  <2>2. batch.time \in Nat
    BY <1>0, LimitAssumption DEF LibraryTypeOK, BatchRecord, Times
  <2> QED
    BY <1>0, <2>1, <2>2 DEF LibraryTypeOK
<1>6. CASE UNCHANGED <<now, file, batch>>
  BY <1>0, <1>6 DEF LibraryTypeOK
<1> QED
  BY <1>2, <1>3, <1>4, <1>5, <1>6
     DEF Next, vars, library, Dispatch, Failure, Prune, Receive, Claim,
         CancelPreview, Lookup, CheckFile, Announce, Announced, SaveOutcome,
         SaveRelated, LoseAnchors, Refuse, Defer, Break, PruneRequest,
         PrunePreview, Crash, Start

LEMMA TypeWorker ==
  ASSUME TypeOK, WorkerOK, [Next]_vars
  PROVE  WorkerTypeOK'
<1>0. InboxTypeOK /\ WorkerTypeOK
  BY DEF TypeOK
<1>1. "idle" \notin Steps
  BY DEF Steps
<1>2. Terminal \subseteq Statuses
  BY DEF Statuses
\* A step of the permit's holder that neither settles nor ends.
<1>3. ASSUME worker.at # "idle", worker.at # "relate",
             NEW st \in Terminal \cup {"Retryable"}, NEW rel \in Related,
             NEW step \in Steps, Outcome(st, rel) \/ Go(step),
             UNCHANGED <<now, alive, requests>>
      PROVE  WorkerTypeOK'
  <2>1. worker \in Job /\ alive /\ requests[worker.req].status = "Processing"
    BY <1>0, <1>3, Working DEF WorkerTypeOK
  <2>2. worker' \in Job /\ worker'.req = worker.req
    BY <1>3, <2>1, OutcomeShape, GoShape
  <2> QED
    BY <1>0, <1>3, <2>1, <2>2 DEF WorkerTypeOK
<1>4. ASSUME NEW q \in Requests, Receive(q) PROVE WorkerTypeOK'
  <2>1. /\ requests[q].status = "none"
        /\ \A r \in Requests \ {q} : requests'[r] = requests[r]
    BY <1>0, <1>4, ReceiveShape DEF WorkerTypeOK
  <2>2. UNCHANGED <<now, alive, worker>>
    BY <1>4 DEF Receive
  <2>3. worker # Idle => worker.req \in Requests
    BY <1>0 DEF WorkerTypeOK, Job
  <2> QED
    BY <1>0, <2>1, <2>2, <2>3 DEF WorkerTypeOK
<1>5. ASSUME NEW q \in Requests, Claim(q) PROVE WorkerTypeOK'
  <2>1. requests'[q].status = "Processing"
    <3>1. "Processing" \in Statuses /\ SetActive(q, "Processing")
      BY <1>5 DEF Claim, Statuses, Active
    <3> QED
      BY <1>0, <3>1, ActiveShape
  <2>2. worker' \in Job /\ worker'.req = q
    BY <1>5 DEF Claim, Job, Steps, Terminal, Related
  <2>3. UNCHANGED <<now, alive>> /\ alive
    BY <1>5 DEF Claim, At
  <2> QED
    BY <1>0, <2>1, <2>2, <2>3 DEF WorkerTypeOK
<1>6. CASE \/ CancelPreview \/ Lookup \/ CheckFile \/ Announce \/ Announced
           \/ Execute \/ Complete \/ EndPartial \/ LoseAnchors
           \/ EndInaccessible \/ Refuse \/ Defer \/ Break
  <2>1. /\ worker.at # "idle" /\ worker.at # "relate"
        /\ UNCHANGED <<now, alive, requests>>
    BY <1>6 DEF CancelPreview, Lookup, CheckFile, Announce, Announced, Execute,
                Complete, EndPartial, LoseAnchors, EndInaccessible, Refuse,
                Defer, Break, At, inbox
  <2>2. \E st \in Terminal \cup {"Retryable"}, rel \in Related, step \in Steps :
           Outcome(st, rel) \/ Go(step)
    BY <1>6 DEF CancelPreview, Lookup, CheckFile, Announce, Announced, Execute,
                Complete, EndPartial, LoseAnchors, EndInaccessible, Refuse,
                Defer, Break, Terminal, Related, Steps
  <2> QED
    BY <1>3, <2>1, <2>2
<1>7. CASE SaveOutcome
  <2>1. UNCHANGED <<now, alive>> /\ worker.at # "idle"
    BY <1>7 DEF SaveOutcome, At
  <2>2. worker \in Job /\ alive
    BY <1>0, <2>1, Working
  <2>3. worker' = Idle \/ (worker' \in Job /\ worker'.at = "relate")
    BY <1>7, <2>2 DEF SaveOutcome, Job, Steps
  <2> QED
    BY <1>0, <2>1, <2>2, <2>3 DEF WorkerTypeOK
<1>8. CASE SaveRelated \/ Crash
  <2>1. UNCHANGED now /\ worker' = Idle /\ alive' \in BOOLEAN
    BY <1>0, <1>8 DEF SaveRelated, Crash, WorkerTypeOK
  <2> QED
    BY <1>0, <2>1 DEF WorkerTypeOK
<1>9. ASSUME NEW q \in Requests, PruneRequest(q) PROVE WorkerTypeOK'
  <2>1. requests[q].status # "Processing"
    BY <1>9 DEF PruneRequest, Terminal
  <2>2. \A r \in Requests \ {q} : requests'[r] = requests[r]
    BY <1>0, <1>9, GoneShape
  <2>3. UNCHANGED <<now, alive, worker>>
    BY <1>9 DEF PruneRequest
  <2>4. worker # Idle => worker.req \in Requests
    BY <1>0 DEF WorkerTypeOK, Job
  <2> QED
    BY <1>0, <2>1, <2>2, <2>3, <2>4 DEF WorkerTypeOK
<1>10. CASE Tick
  BY <1>0, <1>10, LimitAssumption DEF Tick, inbox, WorkerTypeOK, Times
<1>11. CASE Start
  <2>1. worker = Idle
    BY <1>0, <1>11 DEF Start, WorkerTypeOK
  <2> QED
    BY <1>0, <1>11, <2>1 DEF Start, WorkerTypeOK
<1>12. CASE UNCHANGED <<now, alive, requests, worker>>
  BY <1>0, <1>12 DEF WorkerTypeOK
<1> QED
  BY <1>4, <1>5, <1>6, <1>7, <1>8, <1>9, <1>10, <1>11, <1>12
     DEF Next, vars, inbox, Dispatch, Failure, Prune, PrunePreview, PruneBatch,
         PruneFile

LEMMA TypeHistory ==
  ASSUME TypeOK, [Next]_vars
  PROVE  HistoryTypeOK'
<1>0. HistoryTypeOK
  BY DEF TypeOK
<1>1. /\ crashes' = crashes \/ (crashes < MaxCrashes /\ crashes' = crashes + 1)
      /\ faults' = faults \/ (faults < MaxFaults /\ faults' = faults + 1)
  BY DEF Next, vars, limits, Dispatch, Failure, Prune, Receive, Claim,
         CancelPreview, Lookup, CheckFile, Announce, Announced, Execute, Complete,
         EndPartial, SaveOutcome, SaveRelated, LoseAnchors, EndInaccessible,
         Refuse, Defer, Break, Fault, PruneRequest, PrunePreview, PruneBatch,
         PruneFile, Tick, Crash, Start
<1>2. /\ notified' \in {notified, TRUE} /\ executed' \in {executed, TRUE}
      /\ done' \in {done, TRUE}
  BY DEF Next, vars, history, Dispatch, Failure, Prune, Receive, Claim,
         CancelPreview, Lookup, CheckFile, Announce, Announced, Execute, Complete,
         EndPartial, SaveOutcome, SaveRelated, LoseAnchors, EndInaccessible,
         Refuse, Defer, Break, PruneRequest, PrunePreview, PruneBatch,
         PruneFile, Tick, Crash, Start
<1>3. inTime' \subseteq Confirms
  <2>1. ASSUME NEW q \in Requests, Receive(q) PROVE inTime' \subseteq Confirms
    BY <1>0, <2>1 DEF Receive, HistoryTypeOK
  <2> QED
    BY <1>0, <2>1
       DEF HistoryTypeOK, Next, vars, history, Dispatch, Failure, Prune, Claim,
         CancelPreview, Lookup, CheckFile, Announce, Announced, Execute, Complete,
         EndPartial, SaveOutcome, SaveRelated, LoseAnchors, EndInaccessible,
         Refuse, Defer, Break, PruneRequest, PrunePreview, PruneBatch,
         PruneFile, Tick, Crash, Start
<1>4. crashes' \in 0..MaxCrashes /\ faults' \in 0..MaxFaults
  BY <1>0, <1>1, LimitAssumption, SMT DEF HistoryTypeOK
<1>5. notified' \in BOOLEAN /\ executed' \in BOOLEAN /\ done' \in BOOLEAN
  <2>1. {notified, executed, done, TRUE} \subseteq BOOLEAN
    BY <1>0, Zenon DEF HistoryTypeOK
  <2> QED
    BY <1>2, <2>1, Zenon
<1> QED
  BY <1>3, <1>4, <1>5, Zenon DEF HistoryTypeOK
-----------------------------------------------------------------------------
(* The permit.                                                             *)

LEMMA WorkerStep ==
  ASSUME TypeOK, WorkerOK, [Next]_vars
  PROVE  WorkerOK'
<1>0. InboxTypeOK /\ WorkerTypeOK /\ now \in Nat /\ now \in Times
  BY LimitAssumption DEF TypeOK, WorkerTypeOK, Times
\* A dispatch that leaves the preview as it is.
<1>1. ASSUME NEW st, worker \in Job, Outcome(st, "none") PROVE WorkerOK'
  <2>1. worker'.at = "save" /\ worker'.related = "none"
    BY <1>1, OutcomeShape
  <2> QED
    BY <2>1 DEF WorkerOK, Admitted
<1>2. ASSUME NEW st \in Terminal, NEW rel, worker \in Job, worker.at \in Admitted,
             Outcome(st, rel), UNCHANGED preview
      PROVE  WorkerOK'
  <2>1. /\ worker'.at = "save" /\ worker'.req = worker.req
        /\ worker'.status = st
    BY <1>2, OutcomeShape
  <2> QED
    BY <1>2, <2>1 DEF WorkerOK, Admitted
<1>3. ASSUME NEW step \in Admitted, worker \in Job,
             worker.at \in {"lookup"} \cup Admitted, Go(step),
             preview'.status \in {"Awaiting", "gone"}, step = "run" => executed'
      PROVE  WorkerOK'
  <2>1. /\ worker'.at = step /\ worker'.req = worker.req
        /\ worker'.related = worker.related
    BY <1>3, GoShape
  <2> QED
    BY <1>3, <2>1 DEF WorkerOK, Admitted
<1>4. ASSUME worker' = Idle PROVE WorkerOK'
  <2>1. worker'.at = "idle"
    BY <1>4 DEF Idle
  <2> QED
    BY <2>1 DEF WorkerOK, Admitted
<1>5. ASSUME NEW q \in Requests, Receive(q) PROVE WorkerOK'
  <2>1. /\ requests[q].status = "none"
        /\ \A r \in Requests \ {q} : requests'[r] = requests[r]
    BY <1>0, <1>5, ReceiveShape
  <2>2. UNCHANGED <<now, preview, worker, executed>>
    BY <1>5 DEF Receive
  <2>3. worker.at = "relate" => worker.req \in Requests \ {q}
    BY <1>0, <2>1, Working DEF WorkerOK, Job, Terminal
  <2> QED
    BY <2>1, <2>2, <2>3 DEF WorkerOK
<1>6. ASSUME NEW q \in Requests, Claim(q) PROVE WorkerOK'
  <2>1. /\ worker'.at \in {"lookup", "cancel"} /\ worker'.req = q
        /\ worker'.related = "none"
        /\ worker'.at = "lookup" <=> q \in Confirms
    BY <1>6 DEF Claim
  <2> QED
    BY <2>1 DEF WorkerOK, Admitted, Requests
<1>7. CASE CancelPreview \/ Refuse \/ Defer
  <2>1. worker.at # "idle" /\ \E st : Outcome(st, "none")
    BY <1>7 DEF CancelPreview, Refuse, Defer, At
  <2> QED
    BY <1>0, <1>1, <2>1, Working
<1>8. CASE Lookup
  <2>1. worker \in Job /\ worker.at = "lookup"
    BY <1>0, <1>8, Working DEF Lookup, At
  <2>2. \/ \E st : Outcome(st, "none")
        \/ Go("check") /\ preview'.status = "Awaiting"
    BY <1>8 DEF Lookup, Confirmable, inbox
  <2> QED
    BY <1>1, <1>3, <2>1, <2>2 DEF Admitted
<1>9. CASE \/ CheckFile \/ Announce \/ Announced \/ Execute \/ Complete
           \/ EndPartial \/ LoseAnchors \/ EndInaccessible \/ Break
  <2>1. worker.at \in Admitted /\ worker.at # "idle"
    BY <1>9 DEF CheckFile, Announce, Announced, Execute, Complete, EndPartial,
                LoseAnchors, EndInaccessible, Break, At, Admitted
  <2>2. worker \in Job /\ preview.status \in {"Awaiting", "gone"}
    BY <1>0, <2>1, Working DEF WorkerOK
  <2>3. \/ \E st : Outcome(st, "none")
        \/ \E st \in Terminal, rel \in Related : Outcome(st, rel) /\ UNCHANGED preview
        \/ \E step \in Admitted : /\ Go(step) /\ preview'.status = preview.status
                                  /\ step = "run" => executed'
    BY <1>9 DEF CheckFile, Announce, Announced, Execute, Complete, EndPartial,
                LoseAnchors, EndInaccessible, Break, Admitted, SetPreview, inbox,
                Terminal, Related
  <2> QED
    BY <1>1, <1>2, <1>3, <2>1, <2>2, <2>3
<1>10. CASE SaveOutcome
  <2>1. worker \in Job /\ worker.at = "save" /\ UNCHANGED <<now, preview>>
    BY <1>0, <1>10, Working DEF SaveOutcome, At
  <2>2. CASE worker.related = "none"
    BY <1>4, <1>10, <2>2 DEF SaveOutcome
  <2>3. CASE worker.related # "none"
    <3>1. worker.status \in Terminal /\ worker.req \in Confirms
          /\ preview.status \in {"Awaiting", "gone"}
      BY <2>1, <2>3 DEF WorkerOK
    <3>2. worker' = [worker EXCEPT !.at = "relate"] /\ SetSettled(worker.req, worker.status)
      BY <1>10, <2>3, <3>1 DEF SaveOutcome, Terminal
    <3>3. /\ worker'.at = "relate" /\ worker'.req = worker.req
          /\ worker'.status = worker.status /\ worker'.related = worker.related
      BY <2>1, <3>2 DEF Job
    <3>4. requests'[worker.req] = [status |-> worker.status, time |-> now]
      <4>1. worker.req \in Requests /\ worker.status \in Statuses
        BY <2>1, <3>1 DEF Job, Statuses
      <4> QED
        BY <1>0, <3>2, <4>1, SettledShape
    <3> QED
      BY <2>1, <2>3, <3>1, <3>3, <3>4 DEF WorkerOK, Admitted
  <2> QED
    BY <2>2, <2>3
<1>11. CASE SaveRelated \/ Crash
  BY <1>4, <1>11 DEF SaveRelated, Crash
<1>12. ASSUME NEW q \in Requests, PruneRequest(q) PROVE WorkerOK'
  <2>1. /\ requests[q].time + Retention <= now
        /\ UNCHANGED <<now, preview, worker, executed>>
    BY <1>12 DEF PruneRequest, Expired, history
  <2>2. \A r \in Requests \ {q} : requests'[r] = requests[r]
    BY <1>0, <1>12, GoneShape
  <2>3. worker.at = "relate" => worker.req \in Requests \ {q}
    <3>1. worker.at = "relate" => requests[worker.req].time = now /\ worker.req \in Requests
      BY <1>0, Working DEF WorkerOK, Job
    <3> QED
      BY <1>0, <2>1, <3>1, LimitAssumption
  <2> QED
    BY <2>1, <2>2, <2>3 DEF WorkerOK
<1>13. CASE PrunePreview
  <2>1. preview'.status = "gone" /\ UNCHANGED <<now, requests, worker, executed>>
    BY <1>13 DEF PrunePreview, history
  <2> QED
    BY <2>1 DEF WorkerOK
<1>14. CASE Tick
  <2>1. worker.at # "relate" /\ UNCHANGED <<preview, requests, worker, executed>>
    BY <1>14 DEF Tick, inbox, history
  <2> QED
    BY <2>1 DEF WorkerOK
<1>15. CASE Start
  <2>1. worker' = Idle
    BY <1>0, <1>15 DEF Start, WorkerTypeOK
  <2> QED
    BY <1>4, <2>1
<1>16. CASE UNCHANGED <<now, preview, requests, worker, executed>>
  BY <1>16 DEF WorkerOK
<1> QED
  BY <1>5, <1>6, <1>7, <1>8, <1>9, <1>10, <1>11, <1>12, <1>13, <1>14, <1>15, <1>16
     DEF Next, vars, inbox, history, Dispatch, Failure, Prune, PruneBatch, PruneFile
-----------------------------------------------------------------------------
(* What an attempt leaves behind.                                          *)

LEMMA TraceStep ==
  ASSUME TypeOK, WorkerOK, TraceOK, [Next]_vars
  PROVE  TraceOK'
<1>0. InboxTypeOK /\ WorkerTypeOK /\ now \in Nat /\ now \in Times
  BY LimitAssumption DEF TypeOK, WorkerTypeOK, Times
<1>1. /\ preview.time \in Nat /\ preview.time <= now
      /\ \A r \in Requests : requests[r].time \in Nat /\ requests[r].time <= now
  BY <1>0, LimitAssumption DEF InboxTypeOK, PreviewRecord, RequestRecord, Times
<1>2. Confirms \subseteq Requests
  BY DEF Requests
\* The confirmation that is at work is the trace.
<1>3. ASSUME worker.at \in Admitted, UNCHANGED requests PROVE TraceOK'
  <2>1. worker.req \in Confirms /\ requests[worker.req].status \in Active
    BY <1>0, <1>3, Working DEF WorkerOK, WorkerTypeOK, Admitted, Active
  <2> QED
    BY <1>3, <2>1 DEF TraceOK, ActiveConfirms
\* Every request but one stays, and that one does not matter less.
<1>4. ASSUME NEW q \in Requests, \A r \in Requests \ {q} : requests'[r] = requests[r],
             UNCHANGED <<now, preview, executed>>,
             q \in Confirms =>
               \/ requests'[q].status \in Active
               \/ requests'[q].status \in Terminal /\ requests'[q].time >= preview.time
               \/ /\ requests[q].status \notin Active
                  /\ requests[q].status \in Terminal =>
                       requests[q].time < preview.time \/ Expired(preview)
      PROVE  TraceOK'
  <2> SUFFICES ASSUME executed, preview.status = "Awaiting", ~Expired(preview)
               PROVE  \/ ActiveConfirms' # {}
                      \/ \E c \in Confirms : /\ requests'[c].status \in Terminal
                                             /\ requests'[c].time >= preview.time
    BY <1>4 DEF TraceOK, Expired
  <2>1. PICK c \in Confirms : \/ requests[c].status \in Active
                              \/ /\ requests[c].status \in Terminal
                                 /\ requests[c].time >= preview.time
    BY DEF TraceOK, ActiveConfirms
  <2>2. CASE c = q
    BY <1>1, <1>2, <1>4, <2>1, <2>2 DEF ActiveConfirms
  <2>3. CASE c # q
    BY <1>2, <1>4, <2>1, <2>3 DEF ActiveConfirms
  <2> QED
    BY <2>2, <2>3
<1>5. ASSUME preview'.status # "Awaiting" PROVE TraceOK'
  BY <1>5 DEF TraceOK
<1>6. CASE UNCHANGED <<now, preview, requests, executed>>
  BY <1>6 DEF TraceOK, Expired, ActiveConfirms
<1>7. ASSUME NEW q \in Requests, Receive(q) PROVE TraceOK'
  <2>1. /\ requests'[q].status \in Active
        /\ \A r \in Requests \ {q} : requests'[r] = requests[r]
    BY <1>0, <1>7, ReceiveShape DEF Active
  <2>2. UNCHANGED <<now, preview, executed>>
    BY <1>7 DEF Receive
  <2> QED
    BY <1>4, <2>1, <2>2
<1>8. ASSUME NEW q \in Requests, Claim(q) PROVE TraceOK'
  <2>1. /\ SetActive(q, "Processing") /\ "Processing" \in Statuses \cap Active
        /\ UNCHANGED <<now, preview, executed>>
    BY <1>8 DEF Claim, Statuses, Active, history
  <2>2. /\ requests'[q].status = "Processing"
        /\ \A r \in Requests \ {q} : requests'[r] = requests[r]
    BY <1>0, <2>1, ActiveShape
  <2> QED
    BY <1>4, <2>1, <2>2
<1>9. CASE CancelPreview
  <2>1. \/ UNCHANGED <<now, preview, requests, executed>>
        \/ preview'.status = Disposition
    BY <1>9 DEF CancelPreview, SetPreview, history
  <2> QED
    BY <1>5, <1>6, <2>1 DEF Disposition
<1>10. CASE Lookup \/ Refuse \/ Defer
  BY <1>6, <1>10 DEF Lookup, Refuse, Defer, inbox, history
<1>11. CASE \/ CheckFile \/ Announce \/ Announced \/ Execute \/ Complete
            \/ EndPartial \/ LoseAnchors \/ EndInaccessible \/ Break
  BY <1>3, <1>11 DEF CheckFile, Announce, Announced, Execute, Complete, EndPartial,
                LoseAnchors, EndInaccessible, Break, At, Admitted, inbox
<1>12. CASE SaveOutcome
  <2>1. worker \in Job /\ UNCHANGED <<now, preview, executed>>
    BY <1>0, <1>12, Working DEF SaveOutcome, At, history
  <2>2. CASE SetActive(worker.req, "Retryable")
    <3>1. /\ requests'[worker.req].status = "Retryable"
          /\ \A r \in Requests \ {worker.req} : requests'[r] = requests[r]
      BY <1>0, <2>1, <2>2, ActiveShape DEF Job, Statuses, Active
    <3> QED
      BY <1>4, <2>1, <3>1 DEF Job, Active
  <2>3. CASE worker.status \in Terminal /\ SetSettled(worker.req, worker.status)
    <3>1. /\ requests'[worker.req] = [status |-> worker.status, time |-> now]
          /\ \A r \in Requests \ {worker.req} : requests'[r] = requests[r]
      BY <1>0, <2>1, <2>3, SettledShape DEF Job, Statuses
    <3>2. requests'[worker.req].status \in Terminal /\ requests'[worker.req].time >= preview.time
      BY <1>0, <1>1, <2>3, <3>1
    <3> QED
      BY <1>4, <2>1, <3>1, <3>2 DEF Job
  <2> QED
    BY <1>12, <2>1, <2>2, <2>3 DEF SaveOutcome, Job
<1>13. CASE SaveRelated
  <2>1. worker \in Job /\ worker.at = "relate" /\ UNCHANGED requests
    BY <1>0, <1>13, Working DEF SaveRelated, At
  <2>2. /\ worker.req \in Confirms /\ worker.status \in Terminal
        /\ requests[worker.req] = [status |-> worker.status, time |-> now]
    BY <2>1 DEF WorkerOK
  <2>3. preview'.status = "Awaiting" => preview'.time = now
    BY <1>13 DEF SaveRelated, SetPreview
  <2>4. requests'[worker.req].status \in Terminal /\ requests'[worker.req].time = now
    BY <2>1, <2>2
  <2>5. preview'.status = "Awaiting" => requests'[worker.req].time >= preview'.time
    BY <1>0, <2>3, <2>4
  <2> QED
    BY <2>2, <2>4, <2>5 DEF TraceOK
<1>14. ASSUME NEW q \in Requests, PruneRequest(q) PROVE TraceOK'
  <2>1. /\ requests[q].status \in Terminal /\ requests[q].time + Retention <= now
        /\ UNCHANGED <<now, preview, executed>>
    BY <1>14 DEF PruneRequest, Expired, history
  <2>2. \A r \in Requests \ {q} : requests'[r] = requests[r]
    BY <1>0, <1>14, GoneShape
  <2>3. requests[q].time < preview.time \/ Expired(preview)
    BY <1>0, <1>1, <2>1, LimitAssumption DEF Expired
  <2> QED
    BY <1>4, <2>1, <2>2, <2>3 DEF Active, Terminal
<1>15. CASE PrunePreview
  BY <1>5, <1>15 DEF PrunePreview
<1>16. CASE Tick
  <2>1. now' = now + 1 /\ UNCHANGED <<preview, requests, executed>>
    BY <1>16 DEF Tick, inbox, history
  <2>2. ActiveConfirms' = ActiveConfirms
    BY <2>1 DEF ActiveConfirms
  <2>3. Expired(preview) => Expired(preview)'
    BY <1>0, <1>1, <2>1, LimitAssumption DEF Expired
  <2> QED
    BY <2>1, <2>2, <2>3 DEF TraceOK
<1>17. CASE Start
  <2>1. UNCHANGED <<now, preview, executed>>
    BY <1>17 DEF Start, history
  <2>2. \A r \in Requests : /\ requests'[r].time = requests[r].time
                            /\ requests[r].status \in Active => requests'[r].status \in Active
                            /\ requests[r].status \in Terminal => requests'[r].status \in Terminal
    BY <1>0, <1>17, StartShape DEF Active, Terminal
  <2>3. ActiveConfirms # {} => ActiveConfirms' # {}
    BY <1>2, <2>2 DEF ActiveConfirms
  <2> QED
    BY <1>2, <2>1, <2>2, <2>3 DEF TraceOK, Expired
<1> QED
  BY <1>6, <1>7, <1>8, <1>9, <1>10, <1>11, <1>12, <1>13, <1>14, <1>15, <1>16, <1>17
     DEF Next, vars, inbox, history, Dispatch, Failure, Prune, PruneBatch, PruneFile, Crash
-----------------------------------------------------------------------------
(* What a confirmation accepted in time needs.                             *)

LEMMA KeptStep ==
  ASSUME TypeOK, WorkerOK, KeptOK, [Next]_vars
  PROVE  KeptOK'
<1>0. /\ InboxTypeOK /\ WorkerTypeOK /\ HistoryTypeOK
      /\ now \in Nat /\ now \in Times /\ Confirms \subseteq Requests
  BY LimitAssumption DEF TypeOK, WorkerTypeOK, Times, Requests
<1>1. /\ preview.time \in Nat /\ preview.time <= now
      /\ \A r \in Requests : requests[r].time \in Nat /\ requests[r].time <= now
  BY <1>0, LimitAssumption DEF InboxTypeOK, PreviewRecord, RequestRecord, Times
<1>2. CASE UNCHANGED <<preview, requests, file, inTime>>
  BY <1>2 DEF KeptOK, ActiveConfirms, ReceivedInTime, Ended
\* The requests do not change, and the preview is written again or closed.
<1>3. ASSUME UNCHANGED <<requests, file, inTime>>,
             \/ ActiveConfirms = {} \/ Ended
             \/ preview'.status # "Awaiting" /\ preview.status # "Awaiting",
             preview'.status = "Awaiting" =>
               preview.status = "Awaiting" /\ preview'.time \in {preview.time, now}
      PROVE  KeptOK'
  <2>1. inTime \subseteq Confirms
    BY <1>0 DEF HistoryTypeOK
  <2>2. preview'.status = "Awaiting" =>
          \A c \in inTime : ReceivedInTime(c) => ReceivedInTime(c)'
    BY <1>0, <1>1, <1>3, <2>1, LimitAssumption DEF ReceivedInTime
  <2>3. ActiveConfirms' = ActiveConfirms /\ Ended' = Ended
    BY <1>3 DEF ActiveConfirms, Ended
  <2> QED
    BY <1>3, <2>2, <2>3 DEF KeptOK
<1>4. ASSUME UNCHANGED <<requests, file, inTime>>,
             preview'.status = preview.status, preview'.time \in {preview.time, now}
      PROVE  KeptOK'
  <2>1. inTime \subseteq Confirms
    BY <1>0 DEF HistoryTypeOK
  <2>2. \A c \in inTime : ReceivedInTime(c) => ReceivedInTime(c)'
    BY <1>0, <1>1, <1>4, <2>1, LimitAssumption DEF ReceivedInTime
  <2>3. ActiveConfirms' = ActiveConfirms /\ Ended' = Ended
    BY <1>4 DEF ActiveConfirms, Ended
  <2> QED
    BY <1>4, <2>2, <2>3 DEF KeptOK
\* One request changes: it stays queued, or it ends.
<1>5. ASSUME NEW q \in Requests, \A r \in Requests \ {q} : requests'[r] = requests[r],
             UNCHANGED <<preview, file, inTime>>,
             requests[q].status \notin {"gone"} \cup Terminal
               \/ requests'[q].status \in {"gone"} \cup Terminal,
             requests'[q].status # "none",
             requests'[q].status \in Active =>
               requests[q].status \in Active /\ requests'[q].time = requests[q].time
      PROVE  KeptOK'
  <2>1. inTime \subseteq Confirms
    BY <1>0 DEF HistoryTypeOK
  <2>2. Ended => Ended'
    BY <1>0, <1>5 DEF Ended
  <2>3. ASSUME NEW c \in inTime
        PROVE  /\ requests'[c].status # "none"
               /\ requests'[c].status \in Active =>
                    requests[c].status \in Active /\ requests'[c].time = requests[c].time
    BY <1>0, <1>5, <2>1, <2>3 DEF KeptOK
  <2> QED
    BY <1>5, <2>1, <2>2, <2>3 DEF KeptOK, ActiveConfirms, ReceivedInTime
<1>6. ASSUME NEW q \in Requests, Receive(q) PROVE KeptOK'
  <2>1. /\ requests[q].status = "none"
        /\ requests'[q] = [status |-> "Pending", time |-> now]
        /\ \A r \in Requests \ {q} : requests'[r] = requests[r]
    BY <1>0, <1>6, ReceiveShape
  <2>2. /\ UNCHANGED <<now, preview, file>>
        /\ inTime' \subseteq inTime \cup {q} /\ inTime \subseteq Confirms
        /\ q \notin inTime
        /\ q \in inTime' => /\ q \in Confirms /\ file /\ preview.status = "Awaiting"
                            /\ ~Expired(preview)
    BY <1>0, <1>6, <2>1 DEF Receive, library, KeptOK, HistoryTypeOK
  <2>3. q \in inTime' => ReceivedInTime(q)'
    BY <1>0, <1>1, <2>1, <2>2, LimitAssumption DEF Expired, ReceivedInTime
  <2>4. Ended => Ended'
    BY <1>0, <2>1 DEF Ended, Terminal
  <2>5. \A c \in inTime : requests'[c] = requests[c]
    BY <1>0, <2>1, <2>2
  <2>6. \A c \in inTime' : requests'[c].status # "none"
    BY <2>1, <2>2, <2>5 DEF KeptOK
  <2>7. ASSUME NEW c \in inTime' \cap ActiveConfirms'
        PROVE  IF preview.status = "Awaiting" THEN file /\ ReceivedInTime(c)' ELSE Ended'
    <3>1. CASE c = q
      BY <2>2, <2>3, <2>7, <3>1
    <3>2. CASE c \in inTime
      <4>1. c \in ActiveConfirms /\ (ReceivedInTime(c)' <=> ReceivedInTime(c))
        BY <2>2, <2>5, <2>7, <3>2 DEF ActiveConfirms, ReceivedInTime
      <4> QED
        BY <2>4, <3>2, <4>1 DEF KeptOK
    <3> QED
      BY <2>2, <2>7, <3>1, <3>2
  <2> QED
    BY <2>2, <2>6, <2>7 DEF KeptOK
<1>7. ASSUME NEW q \in Requests, Claim(q) PROVE KeptOK'
  <2>1. /\ SetActive(q, "Processing") /\ "Processing" \in Statuses
        /\ requests[q].status \in {"Pending", "Retryable"}
        /\ UNCHANGED <<preview, file, inTime>>
    BY <1>7 DEF Claim, Statuses, Active, history, library
  <2>2. /\ requests'[q].status = "Processing" /\ requests'[q].time = requests[q].time
        /\ \A r \in Requests \ {q} : requests'[r] = requests[r]
    BY <1>0, <2>1, ActiveShape
  <2> QED
    BY <1>5, <2>1, <2>2 DEF Active, Terminal
<1>8. CASE CancelPreview
  <2>1. \/ UNCHANGED <<preview, requests, file, inTime>>
        \/ /\ ActiveConfirms = {} /\ preview' = [status |-> Disposition, time |-> now]
           /\ UNCHANGED <<requests, file, inTime>>
    BY <1>8 DEF CancelPreview, SetPreview, history, library
  <2> QED
    BY <1>2, <1>3, <2>1 DEF Disposition
<1>9. CASE \/ Lookup \/ CheckFile \/ LoseAnchors \/ Execute \/ Complete \/ EndPartial
           \/ EndInaccessible \/ Refuse \/ Defer \/ Break \/ PruneBatch \/ Tick \/ Crash
  BY <1>2, <1>9 DEF Lookup, CheckFile, LoseAnchors, Execute, Complete, EndPartial,
     EndInaccessible, Refuse, Defer, Break, PruneBatch, Tick, Crash, inbox, library,
     history
<1>10. CASE Announce \/ Announced
  BY <1>2, <1>4, <1>10 DEF Announce, Announced, SetPreview, library, history
<1>11. CASE SaveOutcome
  <2>1. /\ worker \in Job /\ worker.req \in Requests
        /\ requests[worker.req].status = "Processing"
        /\ UNCHANGED <<preview, file, inTime>>
    BY <1>0, <1>11, Working DEF SaveOutcome, At, WorkerTypeOK, Job, history, library
  <2>2. CASE SetActive(worker.req, "Retryable")
    <3>1. /\ requests'[worker.req].status = "Retryable"
          /\ requests'[worker.req].time = requests[worker.req].time
          /\ \A r \in Requests \ {worker.req} : requests'[r] = requests[r]
      BY <1>0, <2>1, <2>2, ActiveShape DEF Statuses, Active
    <3> QED
      BY <1>5, <2>1, <3>1 DEF Active, Terminal
  <2>3. CASE worker.status \in Terminal /\ SetSettled(worker.req, worker.status)
    <3>1. /\ requests'[worker.req] = [status |-> worker.status, time |-> now]
          /\ \A r \in Requests \ {worker.req} : requests'[r] = requests[r]
      BY <1>0, <2>1, <2>3, SettledShape DEF Statuses
    <3> QED
      BY <1>5, <2>1, <2>3, <3>1 DEF Active, Terminal
  <2> QED
    BY <1>11, <2>1, <2>2, <2>3 DEF SaveOutcome, Job
<1>12. CASE SaveRelated
  <2>1. /\ worker \in Job /\ worker.at = "relate"
        /\ UNCHANGED <<requests, file, inTime>>
    BY <1>0, <1>12, Working DEF SaveRelated, At, history, library
  <2>2. /\ worker.req \in Confirms /\ worker.status \in Terminal
        /\ requests[worker.req].status = worker.status
        /\ preview.status \in {"Awaiting", "gone"}
    BY <2>1 DEF WorkerOK
  <2>3. Ended
    BY <2>2 DEF Ended
  <2>4. preview'.status = "Awaiting" => preview.status = "Awaiting" /\ preview'.time = now
    BY <1>12, <2>2 DEF SaveRelated, SetPreview
  <2> QED
    BY <1>3, <2>1, <2>3, <2>4
<1>13. ASSUME NEW q \in Requests, PruneRequest(q) PROVE KeptOK'
  <2>1. UNCHANGED <<preview, file, inTime>>
    BY <1>13 DEF PruneRequest, history, library
  <2>2. /\ requests'[q].status = "gone"
        /\ \A r \in Requests \ {q} : requests'[r] = requests[r]
    BY <1>0, <1>13, GoneShape
  <2> QED
    BY <1>5, <2>1, <2>2 DEF Active
<1>14. CASE PrunePreview
  <2>1. preview'.status = "gone" /\ UNCHANGED <<requests, file, inTime>>
    BY <1>14 DEF PrunePreview, history, library
  <2>2. CASE preview.status \in Closed
    BY <1>3, <2>1, <2>2 DEF Closed
  <2>3. CASE preview.status = "Awaiting" /\ ~Protected
    <3>1. inTime \cap ActiveConfirms = {}
      BY <2>3 DEF KeptOK, Protected
    <3>2. inTime' \cap ActiveConfirms' = {} /\ \A c \in inTime' : requests'[c].status # "none"
      BY <2>1, <3>1 DEF ActiveConfirms, KeptOK
    <3> QED
      BY <3>2 DEF KeptOK
  <2> QED
    BY <1>14, <2>2, <2>3 DEF PrunePreview, Abandoned
<1>15. CASE PruneFile
  <2>1. UNCHANGED <<preview, requests, inTime>> /\ GateOpen
    BY <1>15 DEF PruneFile, history, inbox
  <2>2. preview.status = "Awaiting" => inTime \cap ActiveConfirms = {}
    BY <2>1 DEF GateOpen, Protected, KeptOK
  <2>3. ActiveConfirms' = ActiveConfirms /\ Ended' = Ended
    BY <2>1 DEF ActiveConfirms, Ended
  <2> QED
    BY <2>1, <2>2, <2>3 DEF KeptOK
<1>16. CASE Start
  <2>1. UNCHANGED <<preview, file, inTime>> /\ inTime \subseteq Confirms
    BY <1>0, <1>16 DEF Start, history, library, HistoryTypeOK
  <2>2. \A r \in Requests :
          /\ requests'[r].time = requests[r].time
          /\ requests'[r].status \in Active <=> requests[r].status \in Active
          /\ requests'[r].status = "none" <=> requests[r].status = "none"
          /\ requests[r].status \in {"gone"} \cup Terminal =>
               requests'[r].status \in {"gone"} \cup Terminal
    BY <1>0, <1>16, StartShape DEF Active, Terminal
  <2>3. Ended => Ended'
    BY <1>0, <2>2 DEF Ended
  <2> QED
    BY <1>0, <2>1, <2>2, <2>3 DEF KeptOK, ActiveConfirms, ReceivedInTime
<1> QED
  BY <1>2, <1>6, <1>7, <1>8, <1>9, <1>10, <1>11, <1>12, <1>13, <1>14, <1>15, <1>16
     DEF Next, vars, inbox, library, history, Dispatch, Failure, Prune
-----------------------------------------------------------------------------
(* The answers.                                                            *)

LEMMA RefusalStep ==
  ASSUME TypeOK, WorkerOK, KeptOK, RefusalOK, [Next]_vars
  PROVE  RefusalOK'
<1>0. /\ InboxTypeOK /\ WorkerTypeOK /\ HistoryTypeOK /\ inTime \subseteq Confirms
      /\ now \in Times
  BY DEF TypeOK, HistoryTypeOK, WorkerTypeOK
<1>1. faults \in Nat
  BY <1>0, LimitAssumption DEF HistoryTypeOK
<1>2. ASSUME worker'.at \notin {"save", "relate"} PROVE RefusalOK'
  BY <1>2 DEF RefusalOK
<1>3. CASE UNCHANGED <<preview, worker, executed, faults, inTime>>
  BY <1>3 DEF RefusalOK
<1>4. CASE LoseAnchors \/ EndInaccessible \/ Refuse \/ Defer \/ Break
  <2>1. faults' = faults + 1
    BY <1>4 DEF LoseAnchors, EndInaccessible, Refuse, Defer, Break, Fault
  <2>2. faults' > 0
    BY <1>1, <2>1
  <2> QED
    BY <2>2 DEF RefusalOK
<1>5. ASSUME NEW q \in Requests, Receive(q) PROVE RefusalOK'
  <2>1. /\ requests[q].status = "none"
        /\ UNCHANGED <<preview, worker, executed, faults>>
        /\ inTime' \subseteq inTime \cup {q}
    BY <1>0, <1>5, ReceiveShape DEF Receive, limits
  <2>2. worker.at \in {"save", "relate"} => worker.req # q
    BY <1>0, <2>1, Working DEF WorkerOK, WorkerTypeOK, Terminal
  <2> QED
    BY <2>1, <2>2 DEF RefusalOK
<1>6. ASSUME NEW q \in Requests, Claim(q) PROVE RefusalOK'
  <2>1. worker'.at \in {"lookup", "cancel"}
    BY <1>6 DEF Claim
  <2> QED
    BY <1>2, <2>1
<1>7. CASE CancelPreview
  <2>1. worker \in Job /\ worker.req \notin inTime /\ UNCHANGED inTime
    BY <1>0, <1>7, Working, KindAssumption DEF CancelPreview, At, WorkerOK, history
  <2>2. worker'.req = worker.req
    BY <1>7, <2>1, OutcomeShape DEF CancelPreview
  <2> QED
    BY <2>1, <2>2 DEF RefusalOK
\* A confirmation that is refused at this step was not accepted in time.
<1>8. CASE Lookup \/ CheckFile \/ Execute
  <2>1. /\ worker \in Job /\ worker.req \in Confirms
        /\ requests[worker.req].status = "Processing"
        /\ UNCHANGED <<preview, inTime>>
    BY <1>0, <1>8, Working
       DEF Lookup, CheckFile, Execute, At, WorkerOK, WorkerTypeOK, Admitted, inbox, history
  <2>2. \/ worker'.at \notin {"save", "relate"}
        \/ worker'.status = "Completed"
        \/ worker'.req = worker.req /\ (~Confirmable(worker.req) \/ ~file)
    BY <1>8, <2>1, OutcomeShape, GoShape DEF Lookup, CheckFile, Execute
  <2>3. worker.req \in inTime /\ preview.status = "Awaiting" => file /\ Confirmable(worker.req)
    BY <2>1 DEF KeptOK, ActiveConfirms, Active, Confirmable
  <2> QED
    BY <2>1, <2>2, <2>3 DEF RefusalOK
<1>9. CASE Announce \/ Announced
  <2>1. worker \in Job
    BY <1>0, <1>9, Working DEF Announce, Announced, At
  <2>2. worker'.at \notin {"save", "relate"} \/ preview'.status = "gone"
    BY <1>9, <2>1, GoShape DEF Announce, Announced
  <2> QED
    BY <2>2 DEF RefusalOK
<1>10. CASE Complete
  <2>1. worker'.status = "Completed"
    BY <1>0, <1>10, Working, OutcomeShape DEF Complete, At
  <2> QED
    BY <2>1 DEF RefusalOK
<1>11. CASE EndPartial
  <2>1. executed /\ UNCHANGED executed
    BY <1>11 DEF EndPartial, At, WorkerOK, history
  <2> QED
    BY <2>1 DEF RefusalOK
<1>12. CASE SaveOutcome
  <2>1. worker \in Job /\ worker.at = "save" /\ UNCHANGED <<preview, executed, faults, inTime>>
    BY <1>0, <1>12, Working DEF SaveOutcome, At, history, limits
  <2>2. \/ worker' = Idle
        \/ worker'.req = worker.req /\ worker'.status = worker.status
    BY <1>12, <2>1 DEF SaveOutcome, Job
  <2> QED
    BY <1>2, <2>1, <2>2 DEF RefusalOK, Idle
<1>13. CASE SaveRelated \/ Crash
  BY <1>2, <1>13 DEF SaveRelated, Crash, Idle
<1>14. CASE PrunePreview
  BY <1>14 DEF PrunePreview, RefusalOK
<1> QED
  BY <1>3, <1>4, <1>5, <1>6, <1>7, <1>8, <1>9, <1>10, <1>11, <1>12, <1>13, <1>14
     DEF Next, vars, inbox, limits, history, Dispatch, Failure, Prune,
         PruneRequest, PruneBatch, PruneFile, Tick, Start

LEMMA CancelledStep ==
  ASSUME TypeOK, WorkerOK, TraceOK, CancelledIsUnexecuted, [Next]_vars
  PROVE  CancelledIsUnexecuted'
<1>0. InboxTypeOK /\ WorkerTypeOK
  BY DEF TypeOK
<1>1. CASE UNCHANGED <<preview, executed>>
  BY <1>1 DEF CancelledIsUnexecuted
<1>2. ASSUME preview'.status # "Cancelled" PROVE CancelledIsUnexecuted'
  BY <1>2 DEF CancelledIsUnexecuted
\* Nothing that began left no trace: had an attempt begun, it would show.
<1>3. CASE CancelPreview
  <2>1. \/ UNCHANGED <<preview, executed>>
        \/ /\ preview.status = "Awaiting" /\ ~Expired(preview) /\ ActiveConfirms = {}
           /\ preview'.status = Disposition /\ UNCHANGED executed
    BY <1>3 DEF CancelPreview, SetPreview, Abandoned, history
  <2>2. ASSUME preview.status = "Awaiting", ~Expired(preview), ActiveConfirms = {},
               Disposition = "Cancelled"
        PROVE  ~executed
    BY <2>2 DEF TraceOK, Disposition, AnyConfirm, Terminal
  <2> QED
    BY <1>1, <1>2, <2>1, <2>2 DEF CancelledIsUnexecuted
<1>4. CASE Announce \/ Announced
  <2>1. preview'.status = preview.status /\ UNCHANGED executed
    BY <1>4 DEF Announce, Announced, SetPreview, history
  <2> QED
    BY <2>1 DEF CancelledIsUnexecuted
<1>5. CASE Execute
  <2>1. preview.status # "Cancelled" /\ UNCHANGED preview
    BY <1>5 DEF Execute, At, WorkerOK, Admitted, inbox
  <2> QED
    BY <1>2, <2>1
<1>6. CASE SaveRelated
  <2>1. worker.related # "Cancelled"
    BY <1>0, <1>6, Working DEF SaveRelated, At, Job, Related
  <2> QED
    BY <1>1, <1>2, <1>6, <2>1 DEF SaveRelated, SetPreview, history
<1>7. CASE PrunePreview
  BY <1>2, <1>7 DEF PrunePreview
<1> QED
  BY <1>1, <1>3, <1>4, <1>5, <1>6, <1>7
     DEF Next, vars, inbox, history, Dispatch, Failure, Prune, Receive, Claim,
         Lookup, CheckFile, Complete, EndPartial, SaveOutcome, LoseAnchors,
         EndInaccessible, Refuse, Defer, Break, PruneRequest, PruneBatch,
         PruneFile, Tick, Crash, Start

LEMMA InTimeStep ==
  ASSUME TypeOK, WorkerOK, RefusalOK, ConfirmedInTimeRuns, [Next]_vars
  PROVE  ConfirmedInTimeRuns'
<1>0. /\ InboxTypeOK /\ WorkerTypeOK /\ HistoryTypeOK /\ inTime \subseteq Requests
      /\ now \in Times
  BY DEF TypeOK, HistoryTypeOK, WorkerTypeOK, Requests
<1>1. executed \/ faults > 0 => executed' \/ faults' > 0
  <2>1. faults' = faults \/ faults' = faults + 1
    BY DEF Next, vars, limits, Dispatch, Failure, Prune, Receive, Claim,
       CancelPreview, Lookup, CheckFile, Announce, Announced, Execute, Complete,
       EndPartial, SaveOutcome, SaveRelated, LoseAnchors, EndInaccessible,
       Refuse, Defer, Break, Fault, PruneRequest, PrunePreview, PruneBatch,
       PruneFile, Tick, Crash, Start
  <2>2. faults > 0 => faults' > 0
    BY <1>0, <2>1, LimitAssumption DEF HistoryTypeOK
  <2>3. executed => executed'
    BY DEF Next, vars, history, Dispatch, Failure, Prune, Receive, Claim,
       CancelPreview, Lookup, CheckFile, Announce, Announced, Execute, Complete,
       EndPartial, SaveOutcome, SaveRelated, LoseAnchors, EndInaccessible,
       Refuse, Defer, Break, PruneRequest, PrunePreview, PruneBatch,
       PruneFile, Tick, Crash, Start
  <2> QED
    BY <2>2, <2>3
\* The preview is not offered again, and no other request fails.
<1>2. ASSUME preview'.status = "Awaiting" => preview.status = "Awaiting",
             \A c \in inTime' : requests'[c].status = "Failed" =>
               c \in inTime /\ requests[c].status = "Failed"
      PROVE  ConfirmedInTimeRuns'
  BY <1>1, <1>2 DEF ConfirmedInTimeRuns
<1>3. ASSUME NEW q \in Requests, Receive(q) PROVE ConfirmedInTimeRuns'
  <2>1. /\ requests'[q].status = "Pending"
        /\ \A r \in Requests \ {q} : requests'[r] = requests[r]
    BY <1>0, <1>3, ReceiveShape
  <2>2. UNCHANGED preview /\ inTime' \subseteq inTime \cup {q}
    BY <1>3 DEF Receive
  <2> QED
    BY <1>0, <1>2, <2>1, <2>2
<1>4. ASSUME NEW q \in Requests, Claim(q) PROVE ConfirmedInTimeRuns'
  <2>1. /\ SetActive(q, "Processing") /\ "Processing" \in Statuses
        /\ UNCHANGED <<preview, inTime>>
    BY <1>4 DEF Claim, Statuses, Active, history
  <2>2. /\ requests'[q].status = "Processing"
        /\ \A r \in Requests \ {q} : requests'[r] = requests[r]
    BY <1>0, <2>1, ActiveShape
  <2> QED
    BY <1>0, <1>2, <2>1, <2>2
<1>5. CASE CancelPreview
  <2>1. /\ preview'.status = "Awaiting" => preview.status = "Awaiting"
        /\ UNCHANGED <<requests, inTime>>
    BY <1>5 DEF CancelPreview, SetPreview, Disposition, history
  <2> QED
    BY <1>2, <2>1
<1>6. CASE Announce \/ Announced
  <2>1. preview'.status = preview.status /\ UNCHANGED <<requests, inTime>>
    BY <1>6 DEF Announce, Announced, SetPreview, history
  <2> QED
    BY <1>2, <2>1
<1>7. CASE SaveOutcome
  <2>1. /\ worker \in Job /\ worker.at = "save"
        /\ UNCHANGED <<preview, executed, faults, inTime>>
    BY <1>0, <1>7, Working DEF SaveOutcome, At, history, limits
  <2>2. /\ requests'[worker.req].status = worker.status
        /\ \A r \in Requests \ {worker.req} : requests'[r] = requests[r]
    <3>1. worker.req \in Requests /\ worker.status \in Statuses /\ "Retryable" \in Statuses
      BY <2>1 DEF Job, Statuses, Active, Terminal
    <3>2. CASE worker.status = "Retryable" /\ SetActive(worker.req, "Retryable")
      BY <1>0, <3>1, <3>2, ActiveShape
    <3>3. CASE SetSettled(worker.req, worker.status)
      <4>1. requests'[worker.req] = [status |-> worker.status, time |-> now]
        BY <1>0, <3>1, <3>3, SettledShape
      <4>2. \A r \in Requests \ {worker.req} : requests'[r] = requests[r]
        BY <1>0, <3>1, <3>3, SettledShape
      <4> QED
        BY <4>1, <4>2
    <3> QED
      BY <1>7, <3>2, <3>3 DEF SaveOutcome
  <2>3. SUFFICES ASSUME NEW c \in inTime, requests'[c].status = "Failed",
                        preview.status = "Awaiting"
                 PROVE  executed \/ faults > 0
    BY <2>1 DEF ConfirmedInTimeRuns
  <2>4. CASE c = worker.req
    BY <2>1, <2>2, <2>3, <2>4 DEF RefusalOK
  <2>5. CASE c # worker.req
    BY <1>0, <2>2, <2>3, <2>5 DEF ConfirmedInTimeRuns
  <2> QED
    BY <2>4, <2>5
<1>8. CASE SaveRelated
  <2>1. worker.related # "none" /\ preview.status \in {"Awaiting", "gone"}
    BY <1>8 DEF SaveRelated, At, WorkerOK
  <2>2. /\ preview'.status = "Awaiting" => preview.status = "Awaiting"
        /\ UNCHANGED <<requests, inTime>>
    BY <1>8, <2>1 DEF SaveRelated, SetPreview, history
  <2> QED
    BY <1>2, <2>2
<1>9. ASSUME NEW q \in Requests, PruneRequest(q) PROVE ConfirmedInTimeRuns'
  <2>1. /\ requests'[q].status = "gone"
        /\ \A r \in Requests \ {q} : requests'[r] = requests[r]
    BY <1>0, <1>9, GoneShape
  <2>2. UNCHANGED <<preview, inTime>>
    BY <1>9 DEF PruneRequest, history
  <2> QED
    BY <1>0, <1>2, <2>1, <2>2
<1>10. CASE PrunePreview
  <2>1. preview'.status = "gone" /\ UNCHANGED <<requests, inTime>>
    BY <1>10 DEF PrunePreview, history
  <2> QED
    BY <1>2, <2>1
<1>11. CASE Start
  <2>1. \A r \in Requests : requests'[r].status = "Failed" => requests[r].status = "Failed"
    BY <1>0, <1>11, StartShape
  <2>2. UNCHANGED <<preview, inTime>>
    BY <1>11 DEF Start, history
  <2> QED
    BY <1>0, <1>2, <2>1, <2>2
<1>12. CASE UNCHANGED <<preview, requests, inTime>>
  BY <1>2, <1>12
<1> QED
  BY <1>3, <1>4, <1>5, <1>6, <1>7, <1>8, <1>9, <1>10, <1>11, <1>12
     DEF Next, vars, inbox, history, Dispatch, Failure, Prune, Lookup, CheckFile,
         Execute, Complete, EndPartial, LoseAnchors, EndInaccessible, Refuse,
         Defer, Break, PruneBatch, PruneFile, Tick, Crash
-----------------------------------------------------------------------------
(* The theorems.                                                           *)

LEMMA InitOK == Init => IInv
<1> SUFFICES ASSUME Init PROVE IInv
  OBVIOUS
<1>1. 0 \in Times /\ 0 \in 0..MaxCrashes /\ 0 \in 0..MaxFaults
  BY LimitAssumption DEF Times
<1>2. TypeOK
  <2>1. InboxTypeOK
    BY <1>1 DEF Init, InboxTypeOK, PreviewRecord, RequestRecord, Unsent, Statuses
  <2>2. LibraryTypeOK
    BY <1>1 DEF Init, LibraryTypeOK, BatchRecord
  <2>3. WorkerTypeOK
    BY <1>1 DEF Init, WorkerTypeOK
  <2>4. HistoryTypeOK
    BY <1>1 DEF Init, HistoryTypeOK
  <2> QED
    BY <2>1, <2>2, <2>3, <2>4 DEF TypeOK
<1>3. WorkerOK /\ TraceOK /\ RefusalOK
  BY DEF Init, WorkerOK, TraceOK, RefusalOK, Idle, Admitted
<1>4. KeptOK /\ CancelledIsUnexecuted /\ ConfirmedInTimeRuns
  BY DEF Init, KeptOK, CancelledIsUnexecuted, ConfirmedInTimeRuns
<1> QED
  BY <1>2, <1>3, <1>4 DEF IInv

LEMMA StepOK == IInv /\ [Next]_vars => IInv'
<1> SUFFICES ASSUME IInv, [Next]_vars PROVE IInv'
  OBVIOUS
<1>1. TypeOK'
  BY TypeInbox, TypeLibrary, TypeWorker, TypeHistory DEF IInv, TypeOK
<1>2. WorkerOK' /\ TraceOK' /\ KeptOK' /\ RefusalOK'
  BY WorkerStep, TraceStep, KeptStep, RefusalStep DEF IInv
<1>3. CancelledIsUnexecuted' /\ ConfirmedInTimeRuns'
  BY CancelledStep, InTimeStep DEF IInv
<1> QED
  BY <1>1, <1>2, <1>3 DEF IInv

THEOREM Inductive == Spec => []IInv
BY InitOK, StepOK, PTL DEF Spec

\* Every variable keeps its type, no timestamp is ahead of the clock, and the
\* holder of the permit works on a request that the inbox calls Processing.
THEOREM PreviewTypeCorrect == Spec => []TypeOK
<1>1. IInv => TypeOK
  BY DEF IInv
<1> QED
  BY <1>1, Inductive, PTL

\* However many confirmations and cancellations arrive, whenever their receipts
\* expire and wherever the process stops: a preview that ends as cancelled
\* (cancel_awaiting_preview, src/cloud/inbox.rs) has changed no media.
THEOREM CancelledCorrect == Spec => []CancelledIsUnexecuted
<1>1. IInv => CancelledIsUnexecuted
  BY DEF IInv
<1> QED
  BY <1>1, Inductive, PTL

\* Neither the inbox nor the library lets go of the preview that a confirmation
\* accepted in time still waits to use (prunable_record_ids,
\* remove_preview_if_unconfirmed).
THEOREM KeptCorrect == Spec => []ConfirmedIsKept
<1>1. IInv => ConfirmedIsKept
  <2> SUFFICES ASSUME IInv, NEW c \in inTime \cap ActiveConfirms
               PROVE  /\ preview.status # "gone" \/ Ended
                      /\ preview.status = "Awaiting" => file
    BY DEF ConfirmedIsKept, Ended, AnyConfirm, Terminal
  <2> QED
    BY DEF IInv, KeptOK
<1> QED
  BY <1>1, Inductive, PTL

\* A confirmation accepted in time is refused only after an attempt or a fault,
\* or when another request closed its preview (awaiting_confirmation_record).
THEOREM InTimeCorrect == Spec => []ConfirmedInTimeRuns
<1>1. IInv => ConfirmedInTimeRuns
  BY DEF IInv
<1> QED
  BY <1>1, Inductive, PTL

\* A closed preview stays as it was closed and is not executed again
\* (persist_cloud_dispatch_outcome, begin_cloud_batch_message).
THEOREM ClosedStaysFinal == Spec => ClosedIsFinal
<1> DEFINE Final == preview.status \in Closed =>
                      /\ preview'.status \in {preview.status, "gone"}
                      /\ worker'.at = "run" => worker.at = "run"
<1>1. IInv /\ [Next]_vars => [Final]_vars
  <2> SUFFICES ASSUME IInv, [Next]_vars, preview.status \in Closed
               PROVE  /\ preview'.status \in {preview.status, "gone"}
                      /\ worker'.at = "run" => worker.at = "run"
    OBVIOUS
  <2>0. InboxTypeOK /\ WorkerTypeOK /\ WorkerOK /\ preview.status \notin {"Awaiting", "gone"}
    BY DEF IInv, TypeOK, Closed
  <2>1. worker.at \notin Admitted
    BY <2>0 DEF WorkerOK
  <2>2. worker.at # "relate"
    BY <2>0 DEF WorkerOK
  <2>3. preview'.status \in {preview.status, "gone"}
    BY <2>0, <2>1, <2>2
       DEF Next, vars, inbox, Dispatch, Failure, Prune, Receive, Claim, CancelPreview,
           Lookup, CheckFile, Announce, Announced, Execute, Complete, EndPartial,
           SaveOutcome, SaveRelated, LoseAnchors, EndInaccessible, Refuse, Defer,
           Break, PruneRequest, PrunePreview, PruneBatch, PruneFile, Tick, Crash,
           Start, At, Admitted, SetPreview
  <2>4. worker'.at # "run"
    <3>1. CASE UNCHANGED worker
      BY <2>1, <3>1 DEF Admitted
    <3>2. CASE \E q \in Requests : Claim(q)
      BY <3>2 DEF Claim
    <3>3. CASE worker' = Idle
      BY <3>3 DEF Idle
    <3>4. CASE CancelPreview \/ Lookup \/ Refuse \/ Defer \/ SaveOutcome
      <4>1. worker \in Job
        BY <2>0, <3>4, Working DEF CancelPreview, Lookup, Refuse, Defer, SaveOutcome, At
      <4>2. \/ worker' = Idle \/ Go("check") \/ Go("relate")
            \/ \E st, rel : Outcome(st, rel)
        BY <3>4 DEF CancelPreview, Lookup, Refuse, Defer, SaveOutcome, Go
      <4> QED
        BY <4>1, <4>2, OutcomeShape, GoShape DEF Idle
    <3>5. CASE \/ CheckFile \/ Announce \/ Announced \/ Execute \/ Complete \/ EndPartial
               \/ LoseAnchors \/ EndInaccessible \/ Break
      BY <2>1, <3>5 DEF CheckFile, Announce, Announced, Execute, Complete, EndPartial,
           LoseAnchors, EndInaccessible, Break, At, Admitted
    <3> QED
      BY <3>1, <3>2, <3>3, <3>4, <3>5
         DEF Next, vars, Dispatch, Failure, Prune, Receive, SaveRelated, PruneRequest,
             PrunePreview, PruneBatch, PruneFile, Tick, Crash, Start
  <2> QED
    BY <2>3, <2>4
<1> QED
  BY <1>1, Inductive, PTL DEF Spec, ClosedIsFinal
=============================================================================
