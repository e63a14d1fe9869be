------------------------ MODULE CloudIngress_proofs -------------------------
(* Theorems of CloudIngress, for every value of its constants.             *)
EXTENDS CloudIngress, TLAPS, FiniteSetTheorems, WellFoundedInduction

-----------------------------------------------------------------------------
(* Operators.                                                              *)

LEMMA FirstPageSubset == \A S : FirstPage(S) \subseteq S
BY DEF FirstPage

LEMMA EnvelopeClass == \A m : Class(m) \in Classes
BY DEF Class, Classes

LEMMA IdleType == Idle \in Pass
BY BoundsAssumption DEF Idle, Pass, NoEnv

LEMMA FirstEpoch == 1 \in Epochs
BY BoundsAssumption DEF Epochs

\* A record can be written under any epoch and sequence number.
LEMMA FileUpdate ==
  ASSUME InboxTypeOK, NEW e \in Epochs, NEW s \in Seqs,
         NEW r \in Record \cup {NoRecord}
  PROVE  [file EXCEPT ![e][s] = r] \in [Epochs -> [Seqs -> Record \cup {NoRecord}]]
BY DEF InboxTypeOK

LEMMA FileRecord ==
  ASSUME InboxTypeOK, NEW e \in Epochs, NEW s \in Seqs,
         file[e][s] # NoRecord
  PROVE  file[e][s] \in Record
BY DEF InboxTypeOK

\* Changing the status of a record keeps its request.
LEMMA StatusUpdate ==
  ASSUME InboxTypeOK, NEW e \in Epochs, NEW s \in Seqs, NEW st \in InboxStatus,
         file[e][s] # NoRecord
  PROVE  /\ [file EXCEPT ![e][s].status = st]
              \in [Epochs -> [Seqs -> Record \cup {NoRecord}]]
         /\ [file[e][s] EXCEPT !.status = st].env = file[e][s].env
         /\ [file[e][s] EXCEPT !.status = st] # NoRecord
<1>1. file[e][s] \in Record
  BY FileRecord
<1>2. [file[e][s] EXCEPT !.status = st] \in Record
  BY <1>1 DEF Record
<1>3. [file[e][s] EXCEPT !.status = st].env = file[e][s].env
  BY <1>1 DEF Record
<1>4. [file[e][s] EXCEPT !.status = st].status # "absent"
  BY <1>1 DEF Record, InboxStatus, Settled
<1> QED
  BY <1>2, <1>3, <1>4, FileUpdate DEF NoRecord
-----------------------------------------------------------------------------
(* Type correctness, one lemma per part of the next-state relation.        *)

LEMMA TypeInit == Init => TypeOK
<1> SUFFICES ASSUME Init PROVE TypeOK
  OBVIOUS
<1>1. CloudTypeOK
  BY FirstEpoch, BoundsAssumption DEF Init, CloudTypeOK, Database
<1>2. InboxTypeOK
  BY DEF Init, InboxTypeOK
<1>3. ProcessTypeOK
  BY FirstEpoch, IdleType DEF Init, ProcessTypeOK
<1>4. HistoryTypeOK
  BY BoundsAssumption DEF Init, HistoryTypeOK
<1> QED
  BY <1>1, <1>2, <1>3, <1>4 DEF TypeOK

LEMMA TypeStutter == TypeOK /\ UNCHANGED vars => TypeOK'
BY DEF TypeOK, vars, cloudVars, processVars, CloudTypeOK, InboxTypeOK,
       ProcessTypeOK, HistoryTypeOK

LEMMA TypeWorker == TypeOK /\ Worker => TypeOK'
<1> SUFFICES ASSUME TypeOK, Worker PROVE TypeOK'
  OBVIOUS
<1>0. /\ CloudTypeOK /\ InboxTypeOK /\ ProcessTypeOK /\ HistoryTypeOK
  BY DEF TypeOK
<1>1. UNCHANGED <<file, processVars, faults, ran, expired>>
  BY DEF Worker, Enqueue, ExpireRow, SavePoint, Restore
<1>2. InboxTypeOK' /\ ProcessTypeOK' /\ HistoryTypeOK'
  BY <1>0, <1>1 DEF InboxTypeOK, ProcessTypeOK, HistoryTypeOK, processVars
<1>3. CloudTypeOK'
  <2>1. ASSUME NEW k \in Keys, Enqueue(k) PROVE CloudTypeOK'
    <3> DEFINE m == [seq |-> d1.lastSeq + 1, key |-> k, era |-> restores]
    <3>1. d1.lastSeq + 1 \in Seqs /\ d1.lastSeq + 1 \in 0..MaxSeq
      BY <1>0, <2>1, BoundsAssumption DEF Enqueue, CloudTypeOK, Database, Seqs
    <3>2. m \in Envelope
      BY <1>0, <3>1 DEF CloudTypeOK, Envelope
    <3>3. /\ d1' = [d1 EXCEPT !.rows = @ \cup {m}, !.lastSeq = @ + 1]
          /\ announced' = announced \cup {m}
          /\ UNCHANGED <<savepoint, restores, minted>>
      BY <2>1 DEF Enqueue
    <3> HIDE DEF m
    <3>4. d1' \in Database /\ d1'.acked \subseteq d1'.rows
      BY <1>0, <3>1, <3>2, <3>3 DEF CloudTypeOK, Database
    <3> QED
      BY <1>0, <3>2, <3>3, <3>4 DEF CloudTypeOK
  <2>2. ASSUME NEW m \in Envelope, ExpireRow(m) PROVE CloudTypeOK'
    <3>1. d1' \in Database /\ d1'.acked \subseteq d1'.rows
      BY <1>0, <2>2 DEF ExpireRow, CloudTypeOK, Database
    <3> QED
      BY <1>0, <2>2, <3>1 DEF ExpireRow, CloudTypeOK
  <2>3. CASE SavePoint
    BY <1>0, <2>3 DEF SavePoint, CloudTypeOK
  <2>4. CASE Restore
    BY <1>0, <2>4, BoundsAssumption DEF Restore, CloudTypeOK
  <2> QED
    BY <2>1, <2>2, <2>3, <2>4 DEF Worker
<1> QED
  BY <1>2, <1>3 DEF TypeOK

LEMMA TypeProcess == TypeOK /\ Process => TypeOK'
<1> SUFFICES ASSUME TypeOK, Process PROVE TypeOK'
  OBVIOUS
<1>0. /\ CloudTypeOK /\ InboxTypeOK /\ ProcessTypeOK /\ HistoryTypeOK
  BY DEF TypeOK
<1>1. CloudTypeOK'
  <2>1. UNCHANGED cloudVars
    BY DEF Process, Start, Crash, ExitOnFatal, Halt, RecoverDone, ObserveEpoch,
           RecoverRecord, ExpireRecord
  <2> QED
    BY <1>0, <2>1 DEF CloudTypeOK, cloudVars
<1>2. InboxTypeOK'
  <2>1. ASSUME NEW s \in Seqs, RecoverRecord(s) PROVE InboxTypeOK'
    <3>1. file[bound][s] # NoRecord
      BY <2>1 DEF RecoverRecord, NoRecord
    <3>2. RecoveredStatus(file[bound][s].env) \in InboxStatus
      BY DEF RecoveredStatus, InboxStatus, Settled
    <3> QED
      BY <1>0, <2>1, <3>1, <3>2, StatusUpdate
         DEF RecoverRecord, SetStatus, ProcessTypeOK, InboxTypeOK
  <2>2. ASSUME NEW s \in Seqs, ExpireRecord(s) PROVE InboxTypeOK'
    BY <1>0, <2>2, FileUpdate DEF ExpireRecord, ProcessTypeOK, InboxTypeOK
  <2>3. CASE UNCHANGED file
    BY <1>0, <2>3 DEF InboxTypeOK
  <2> QED
    BY <2>1, <2>2, <2>3
       DEF Process, Start, Crash, ExitOnFatal, Halt, RecoverDone, ObserveEpoch
<1>3. ProcessTypeOK'
  <2>1. CASE Start
    BY <1>0, <2>1, IdleType DEF Start, ProcessTypeOK, CloudTypeOK, Database
  <2>2. CASE Halt
    BY <1>0, <2>2, IdleType DEF Halt, ProcessTypeOK
  <2>3. CASE RecoverDone
    BY <1>0, <2>3 DEF RecoverDone, ProcessTypeOK
  <2>4. CASE ObserveEpoch
    BY <1>0, <2>4 DEF ObserveEpoch, ProcessTypeOK
  <2>5. CASE UNCHANGED processVars
    BY <1>0, <2>5 DEF processVars, ProcessTypeOK
  <2> QED
    BY <2>1, <2>2, <2>3, <2>4, <2>5
       DEF Process, Crash, ExitOnFatal, RecoverRecord, ExpireRecord
<1>4. HistoryTypeOK'
  <2>1. CASE Crash
    BY <1>0, <2>1, BoundsAssumption DEF Crash, Halt, HistoryTypeOK
  <2>2. ASSUME NEW s \in Seqs, ExpireRecord(s) PROVE HistoryTypeOK'
    <3>1. file[bound][s] # NoRecord
      BY <2>2 DEF ExpireRecord, NoRecord, Settled
    <3>2. file[bound][s].env \in Envelope
      BY <1>0, <3>1, FileRecord DEF ProcessTypeOK, Record
    <3> QED
      BY <1>0, <2>2, <3>2 DEF ExpireRecord, HistoryTypeOK
  <2>3. CASE UNCHANGED <<faults, ran, expired>>
    BY <1>0, <2>3 DEF HistoryTypeOK
  <2> QED
    BY <2>1, <2>2, <2>3 DEF Process, Start, ExitOnFatal, Halt, RecoverDone,
                            ObserveEpoch, RecoverRecord
<1> QED
  BY <1>1, <1>2, <1>3, <1>4 DEF TypeOK

LEMMA TypeEndPass ==
  ASSUME ProcessTypeOK, NEW ok \in BOOLEAN, NEW ch \in BOOLEAN, EndPass(ok, ch)
  PROVE  pass' \in Pass /\ reconciled' \in BOOLEAN /\ fatal' \in BOOLEAN
BY IdleType DEF ProcessTypeOK, EndPass

LEMMA TypeConclude ==
  ASSUME ProcessTypeOK, Conclude
  PROVE  pass' \in Pass /\ reconciled' \in BOOLEAN /\ fatal' \in BOOLEAN
<1> DEFINE ok == pass.expected = NoEnv \/ pass.seen
                   \/ Holds(bound, pass.expected)
<1>1. ok \in BOOLEAN
  BY DEF ProcessTypeOK, Pass, Holds
<1> QED
  BY <1>1, TypeEndPass DEF Conclude

LEMMA TypePassing == TypeOK /\ Passing => TypeOK'
<1> SUFFICES ASSUME TypeOK, Passing PROVE TypeOK'
  OBVIOUS
<1>0. /\ CloudTypeOK /\ InboxTypeOK /\ ProcessTypeOK /\ HistoryTypeOK
  BY DEF TypeOK
<1>1. CloudTypeOK'
  <2>1. ASSUME NEW lost \in BOOLEAN, Rotate(lost) PROVE CloudTypeOK'
    <3>1. CASE UNCHANGED <<d1, minted>>
      BY <1>0, <2>1, <3>1 DEF Rotate, CloudTypeOK
    <3>2. CASE minted < MaxEpoch /\ minted' = minted + 1
               /\ d1' = [d1 EXCEPT !.epoch = minted + 1]
      <4>1. minted + 1 \in Epochs
        BY <1>0, <3>2, BoundsAssumption DEF CloudTypeOK, Epochs
      <4>2. d1' \in Database /\ d1'.acked \subseteq d1'.rows
        BY <1>0, <3>2, <4>1 DEF CloudTypeOK, Database
      <4> QED
        BY <1>0, <2>1, <3>2, <4>1, <4>2 DEF Rotate, CloudTypeOK
    <3> QED
      BY <2>1, <3>1, <3>2 DEF Rotate
  <2>2. ASSUME NEW lost \in BOOLEAN, Ack(lost) PROVE CloudTypeOK'
    <3>1. CASE UNCHANGED d1
      BY <1>0, <2>2, <3>1 DEF Ack, CloudTypeOK
    <3>2. CASE d1' = Acknowledged(pass.page)
      <4>1. d1' \in Database /\ d1'.acked \subseteq d1'.rows
        BY <1>0, <3>2 DEF CloudTypeOK, Database, Acknowledged
      <4> QED
        BY <1>0, <2>2, <4>1 DEF Ack, CloudTypeOK
    <3> QED
      BY <2>2, <3>1, <3>2 DEF Ack
  <2>3. CASE UNCHANGED cloudVars
    BY <1>0, <2>3 DEF CloudTypeOK, cloudVars
  <2> QED
    BY <2>1, <2>2, <2>3 DEF Passing, StartPass, PassFails, PassStopped, Fetch,
                            Persist, passOnly
<1>2. InboxTypeOK'
  <2>1. ASSUME NEW m \in pass.page, Persist(m) PROVE InboxTypeOK'
    <3>1. m \in Envelope
      BY <1>0 DEF ProcessTypeOK, Pass
    <3> DEFINE r == [env |-> m, status |-> "Pending"]
    <3>2. r \in Record \cup {NoRecord} /\ m.seq \in Seqs
      BY <3>1 DEF Record, InboxStatus, Envelope
    <3>3. \/ UNCHANGED file
          \/ file' = [file EXCEPT ![bound][m.seq] = r]
      BY <2>1 DEF Persist
    <3> HIDE DEF r
    <3>4. CASE UNCHANGED file
      BY <1>0, <3>4 DEF InboxTypeOK
    <3>5. CASE file' = [file EXCEPT ![bound][m.seq] = r]
      <4>1. InboxTypeOK /\ bound \in Epochs
        BY <1>0 DEF ProcessTypeOK
      <4> QED
        BY <3>2, <3>5, <4>1, FileUpdate DEF InboxTypeOK
    <3> QED
      BY <3>3, <3>4, <3>5
  <2>2. CASE UNCHANGED file
    BY <1>0, <2>2 DEF InboxTypeOK
  <2> QED
    BY <2>1, <2>2 DEF Passing, StartPass, PassFails, PassStopped, Fetch,
                      Rotate, Ack, passOnly
<1>3. ProcessTypeOK'
  <2>1. UNCHANGED <<alive, bound, recovered, job>>
    BY DEF Passing, StartPass, PassFails, PassStopped, Fetch, Persist, Rotate,
           Ack, passOnly
  <2>2. pass' \in Pass /\ reconciled' \in BOOLEAN /\ fatal' \in BOOLEAN
    <3>1. ASSUME NEW ok \in BOOLEAN, NEW ch \in BOOLEAN, EndPass(ok, ch)
          PROVE  pass' \in Pass /\ reconciled' \in BOOLEAN /\ fatal' \in BOOLEAN
      BY <1>0, <3>1, TypeEndPass
    <3>2. CASE Conclude
      BY <1>0, <3>2, TypeConclude
    <3>3. ASSUME NEW m \in announced \cup {NoEnv}, StartPass(m)
          PROVE  pass' \in Pass /\ reconciled' \in BOOLEAN /\ fatal' \in BOOLEAN
      <4>1. m \in Envelope \cup {NoEnv}
        BY <1>0 DEF CloudTypeOK
      <4> QED
        BY <1>0, <3>3, <4>1, IdleType DEF StartPass, ProcessTypeOK, Pass
    <3>4. CASE PassFails \/ PassStopped
      BY <3>1, <3>4 DEF PassFails, PassStopped
    <3>5. CASE Fetch
      <4> DEFINE page == FirstPage(Pending(d1))
      <4>1. page \in SUBSET Envelope
        BY <1>0, FirstPageSubset DEF Pending, CloudTypeOK, Database
      <4>2. \/ EndPass(FALSE, TRUE) \/ EndPass(FALSE, FALSE) \/ Conclude
            \/ /\ pass' = [pass EXCEPT !.at = "page", !.page = page,
                                         !.kept = {}]
               /\ UNCHANGED <<fatal, reconciled>>
        BY <3>5 DEF Fetch
      <4> HIDE DEF page
      <4> QED
        BY <1>0, <3>1, <3>2, <4>1, <4>2 DEF ProcessTypeOK, Pass
    <3>6. ASSUME NEW m \in pass.page, Persist(m)
          PROVE  pass' \in Pass /\ reconciled' \in BOOLEAN /\ fatal' \in BOOLEAN
      <4>1. m \in Envelope
        BY <1>0 DEF ProcessTypeOK, Pass
      <4> DEFINE seen == pass.seen \/ pass.expected = m
      <4>3. seen \in BOOLEAN
        BY <1>0 DEF ProcessTypeOK, Pass
      <4>2. \/ EndPass(FALSE, FALSE)
            \/ /\ \/ pass' = [pass EXCEPT !.kept = @ \cup {m}, !.seen = seen]
                  \/ pass' = [pass EXCEPT !.at = "rotate", !.page = {m}]
               /\ UNCHANGED <<fatal, reconciled>>
        BY <3>6 DEF Persist
      <4> HIDE DEF seen
      <4>4. ASSUME pass' = [pass EXCEPT !.kept = @ \cup {m}, !.seen = seen]
            PROVE  pass' \in Pass
        <5>1. pass.kept \cup {m} \in SUBSET Envelope
          BY <1>0, <4>1 DEF ProcessTypeOK, Pass
        <5> QED
          BY <1>0, <4>3, <4>4, <5>1 DEF ProcessTypeOK, Pass
      <4>5. ASSUME pass' = [pass EXCEPT !.at = "rotate", !.page = {m}]
            PROVE  pass' \in Pass
        <5>1. {m} \in SUBSET Envelope
          BY <4>1
        <5> QED
          BY <1>0, <4>5, <5>1 DEF ProcessTypeOK, Pass
      <4> QED
        BY <1>0, <3>1, <4>2, <4>4, <4>5 DEF ProcessTypeOK
    <3>7. ASSUME NEW lost \in BOOLEAN, Rotate(lost)
          PROVE  pass' \in Pass /\ reconciled' \in BOOLEAN /\ fatal' \in BOOLEAN
      BY <3>1, <3>7 DEF Rotate
    <3>8. ASSUME NEW lost \in BOOLEAN, Ack(lost)
          PROVE  pass' \in Pass /\ reconciled' \in BOOLEAN /\ fatal' \in BOOLEAN
      <4>1. ASSUME NEW m \in pass.page,
                   pass' = [pass EXCEPT !.at = "fetch", !.page = {},
                                        !.kept = {}, !.last = m.seq]
            PROVE  pass' \in Pass
        <5>1. m.seq \in 0..MaxSeq
          BY <1>0, BoundsAssumption DEF ProcessTypeOK, Pass, Envelope, Seqs
        <5> QED
          BY <1>0, <4>1, <5>1 DEF ProcessTypeOK, Pass
      <4>2. \/ \E ch \in BOOLEAN : EndPass(FALSE, ch)
            \/ Conclude
            \/ /\ \E m \in pass.page :
                    pass' = [pass EXCEPT !.at = "fetch", !.page = {},
                                         !.kept = {}, !.last = m.seq]
               /\ UNCHANGED <<fatal, reconciled>>
        BY <3>8 DEF Ack
      <4> QED
        BY <1>0, <3>1, <3>2, <4>1, <4>2 DEF ProcessTypeOK
    <3> QED
      BY <3>3, <3>4, <3>5, <3>6, <3>7, <3>8 DEF Passing
  <2> QED
    BY <1>0, <2>1, <2>2 DEF ProcessTypeOK
<1>4. HistoryTypeOK'
  <2>1. UNCHANGED <<ran, expired>>
    BY DEF Passing, StartPass, PassFails, PassStopped, Fetch, Persist, Rotate,
           Ack, passOnly
  <2>2. faults' = faults \/ (faults < MaxFaults /\ faults' = faults + 1)
    BY DEF Passing, StartPass, PassFails, PassStopped, Fetch, Persist, Rotate,
           Ack
  <2> QED
    BY <1>0, <2>1, <2>2, BoundsAssumption DEF HistoryTypeOK
<1> QED
  BY <1>1, <1>2, <1>3, <1>4 DEF TypeOK

LEMMA JobType ==
  ASSUME ProcessTypeOK, NEW c \in Classes, job[c].phase # "none"
  PROVE  job[c] \in Job /\ job[c].env \in Envelope /\ job[c].env.seq \in Seqs
BY DEF ProcessTypeOK, NoJob, Job, Envelope

LEMMA InFlightRecord ==
  ASSUME InFlightIsProcessing, NEW c \in Classes, job[c].phase # "none"
  PROVE  LET r == file[bound][job[c].env.seq]
         IN  r.status = "Processing" /\ r.env = job[c].env /\ r # NoRecord
<1> DEFINE r == file[bound][job[c].env.seq]
<1>1. r = [env |-> job[c].env, status |-> "Processing"]
  BY DEF InFlightIsProcessing
<1>2. r.status = "Processing" /\ r.env = job[c].env
  BY <1>1
<1> QED
  BY <1>2 DEF NoRecord

LEMMA TypeDispatch ==
  TypeOK /\ InFlightIsProcessing /\ Dispatch => TypeOK'
<1> SUFFICES ASSUME TypeOK, InFlightIsProcessing, Dispatch PROVE TypeOK'
  OBVIOUS
<1>0. /\ CloudTypeOK /\ InboxTypeOK /\ ProcessTypeOK /\ HistoryTypeOK
  BY DEF TypeOK
<1>1. UNCHANGED <<cloudVars, alive, bound, recovered, fatal, reconciled, pass,
                  expired>>
  BY DEF Dispatch, Claim, Unclaim, Begin, Return, SaveOutcome, jobOnly
<1>2. CloudTypeOK'
  BY <1>0, <1>1 DEF CloudTypeOK, cloudVars
<1>3. HistoryTypeOK'
  <2>1. faults' = faults \/ (faults < MaxFaults /\ faults' = faults + 1)
    BY DEF Dispatch, Claim, Unclaim, Begin, Return, SaveOutcome
  <2>2. ASSUME NEW c \in Classes, Begin(c) PROVE ran' \subseteq Epochs \X Envelope
    <3>1. job[c].env \in Envelope
      BY <1>0, <2>2, JobType DEF Begin
    <3> QED
      BY <1>0, <2>2, <3>1 DEF Begin, ProcessTypeOK, HistoryTypeOK
  <2>3. ASSUME ran' \subseteq ran PROVE ran' \subseteq Epochs \X Envelope
    BY <1>0, <2>3 DEF HistoryTypeOK
  <2>4. \/ \E c \in Classes : Begin(c)
        \/ ran' \subseteq ran
    BY DEF Dispatch, Claim, Unclaim, Return, SaveOutcome
  <2> QED
    BY <1>0, <1>1, <2>1, <2>2, <2>3, <2>4, BoundsAssumption DEF HistoryTypeOK
<1>4. InboxTypeOK' /\ job' \in [Classes -> Job \cup {NoJob}]
  <2>1. ASSUME NEW s \in Seqs, Claim(s)
        PROVE  InboxTypeOK' /\ job' \in [Classes -> Job \cup {NoJob}]
    <3> DEFINE m == file[bound][s].env
               j == [env |-> m, phase |-> "claimed", outcome |-> "Failed"]
    <3>1. file[bound][s] # NoRecord
      BY <2>1 DEF Claim, Listed, NoRecord
    <3>2. m \in Envelope
      BY <1>0, <3>1, FileRecord DEF ProcessTypeOK, Record
    <3>3. j \in Job
      BY <3>2 DEF Job, Outcome
    <3>4. job' = [job EXCEPT ![Class(m)] = j]
      BY <2>1 DEF Claim
    <3>5. "Processing" \in InboxStatus
      BY DEF InboxStatus
    <3> HIDE DEF m, j
    <3>6. job' \in [Classes -> Job \cup {NoJob}]
      BY <1>0, <3>3, <3>4, EnvelopeClass DEF ProcessTypeOK
    <3> QED
      BY <1>0, <2>1, <3>1, <3>5, <3>6, StatusUpdate
         DEF Claim, SetStatus, ProcessTypeOK, InboxTypeOK
  <2>2. ASSUME NEW c \in Classes, Unclaim(c) \/ SaveOutcome(c)
        PROVE  InboxTypeOK' /\ job' \in [Classes -> Job \cup {NoJob}]
    <3>1. job[c] \in Job /\ job[c].env.seq \in Seqs
      BY <1>0, <2>2, JobType DEF Unclaim, SaveOutcome
    <3>2. job' \in [Classes -> Job \cup {NoJob}]
      BY <1>0, <2>2 DEF Unclaim, SaveOutcome, ProcessTypeOK
    <3>3. job[c].outcome \in InboxStatus /\ "Pending" \in InboxStatus
      BY <3>1 DEF Job, Outcome, InboxStatus, Settled
    <3>4. PICK st \in InboxStatus : SetStatus(job[c].env.seq, st)
      BY <2>2, <3>3 DEF Unclaim, SaveOutcome
    <3>5. file[bound][job[c].env.seq] # NoRecord
      BY <2>2, InFlightRecord DEF Unclaim, SaveOutcome
    <3> QED
      BY <1>0, <3>1, <3>2, <3>4, <3>5, StatusUpdate
         DEF SetStatus, ProcessTypeOK, InboxTypeOK
  <2>3. ASSUME NEW c \in Classes,
               Begin(c) \/ \E outcome \in Outcome : Return(c, outcome)
        PROVE  InboxTypeOK' /\ job' \in [Classes -> Job \cup {NoJob}]
    <3>1. job[c] \in Job
      BY <1>0, <2>3, JobType DEF Begin, Return
    <3>2. CASE Begin(c)
      <4>1. [job[c] EXCEPT !.phase = "running"] \in Job
        BY <3>1 DEF Job
      <4> QED
        BY <1>0, <3>2, <4>1 DEF Begin, ProcessTypeOK, InboxTypeOK
    <3>3. ASSUME NEW outcome \in Outcome, Return(c, outcome)
          PROVE  InboxTypeOK' /\ job' \in [Classes -> Job \cup {NoJob}]
      <4> DEFINE j == [job[c] EXCEPT !.phase = "done", !.outcome = outcome]
      <4>1. j \in Job
        BY <3>1 DEF Job
      <4>2. job' = [job EXCEPT ![c] = j] /\ UNCHANGED file
        BY <3>3 DEF Return
      <4> HIDE DEF j
      <4> QED
        BY <1>0, <4>1, <4>2 DEF ProcessTypeOK, InboxTypeOK
    <3> QED
      BY <2>3, <3>2, <3>3
  <2> QED
    BY <2>1, <2>2, <2>3 DEF Dispatch
<1> QED
  BY <1>0, <1>1, <1>2, <1>3, <1>4 DEF TypeOK, ProcessTypeOK
-----------------------------------------------------------------------------
(* What a step does to a durable record.                                   *)

\* A record is filed under its own sequence number.
FiledBySeq ==
  \A e \in Epochs, s \in Seqs :
    file[e][s] # NoRecord => file[e][s].env.seq = s

Base == TypeOK /\ InFlightIsProcessing /\ FiledBySeq

\* The four things a step can do to the record of sequence s under epoch e.
Kept(e, s)    == file'[e][s] = file[e][s]
Written(e, s) == file[e][s] = NoRecord /\ file'[e][s].env.seq = s
Moved(e, s)   == /\ file[e][s] # NoRecord /\ file[e][s].status \notin Settled
                 /\ file'[e][s] # NoRecord
                 /\ file'[e][s].env = file[e][s].env
Dropped(e, s) == /\ file'[e][s] = NoRecord /\ file[e][s] # NoRecord
                 /\ file[e][s].env \in expired'

LEMMA StatusStep ==
  ASSUME Base, NEW t \in Seqs, NEW st \in InboxStatus, SetStatus(t, st),
         file[bound][t] # NoRecord, file[bound][t].status \notin Settled
  PROVE  \A e \in Epochs, s \in Seqs :
           IF e = bound /\ s = t THEN Moved(e, s) ELSE Kept(e, s)
<1>1. InboxTypeOK /\ bound \in Epochs
  BY DEF Base, TypeOK, ProcessTypeOK
<1>2. Moved(bound, t)
  BY <1>1, StatusUpdate DEF SetStatus, Moved, InboxTypeOK
<1>3. ASSUME NEW e \in Epochs, NEW s \in Seqs, ~(e = bound /\ s = t)
      PROVE  Kept(e, s)
  BY <1>1, <1>3 DEF SetStatus, Kept, InboxTypeOK
<1> QED
  BY <1>2, <1>3

LEMMA FileStep ==
  ASSUME Base, [Next]_vars
  PROVE  \A e \in Epochs, s \in Seqs :
           Kept(e, s) \/ Written(e, s) \/ Moved(e, s) \/ Dropped(e, s)
<1>0. InboxTypeOK /\ bound \in Epochs /\ TypeOK /\ ProcessTypeOK
  BY DEF Base, TypeOK, ProcessTypeOK
<1> DEFINE Goal == \A e \in Epochs, s \in Seqs :
             Kept(e, s) \/ Written(e, s) \/ Moved(e, s) \/ Dropped(e, s)
<1>1. CASE UNCHANGED file
  BY <1>1 DEF Kept
<1>2. ASSUME NEW t \in Seqs, RecoverRecord(t) PROVE Goal
  <2>1. file[bound][t] # NoRecord /\ file[bound][t].status \notin Settled
    BY <1>2 DEF RecoverRecord, NoRecord, Settled
  <2>2. RecoveredStatus(file[bound][t].env) \in InboxStatus
    BY DEF RecoveredStatus, InboxStatus, Settled
  <2> QED
    BY <1>2, <2>1, <2>2, StatusStep DEF RecoverRecord
<1>3. ASSUME NEW t \in Seqs, ExpireRecord(t) PROVE Goal
  <2>1. file[bound][t] # NoRecord
    BY <1>3 DEF ExpireRecord, NoRecord, Settled
  <2>2. Dropped(bound, t)
    BY <1>0, <1>3, <2>1 DEF ExpireRecord, Dropped, InboxTypeOK
  <2>3. ASSUME NEW e \in Epochs, NEW s \in Seqs, ~(e = bound /\ s = t)
        PROVE  Kept(e, s)
    BY <1>0, <1>3, <2>3 DEF ExpireRecord, Kept, InboxTypeOK
  <2> QED
    BY <2>2, <2>3
<1>4. ASSUME NEW m \in pass.page, Persist(m) PROVE Goal
  <2>1. m \in Envelope /\ m.seq \in Seqs
    BY <1>0 DEF ProcessTypeOK, Pass, Envelope
  <2>2. CASE UNCHANGED file
    BY <2>2 DEF Kept
  <2>3. CASE Free(m) /\ file' = [file EXCEPT ![bound][m.seq] =
                                   [env |-> m, status |-> "Pending"]]
    <3>1. Written(bound, m.seq)
      BY <1>0, <2>1, <2>3 DEF Free, Written, InboxTypeOK
    <3>2. ASSUME NEW e \in Epochs, NEW s \in Seqs, ~(e = bound /\ s = m.seq)
          PROVE  Kept(e, s)
      BY <1>0, <2>3, <3>2 DEF Kept, InboxTypeOK
    <3> QED
      BY <3>1, <3>2
  <2> QED
    BY <1>4, <2>2, <2>3 DEF Persist
<1>5. ASSUME NEW t \in Seqs, Claim(t) PROVE Goal
  <2>1. file[bound][t] # NoRecord /\ file[bound][t].status \notin Settled
    BY <1>5 DEF Claim, Listed, NoRecord, Settled
  <2> QED
    BY <1>5, <2>1, StatusStep DEF Claim, InboxStatus
<1>6. ASSUME NEW c \in Classes, Unclaim(c) \/ SaveOutcome(c) PROVE Goal
  <2>1. job[c] \in Job /\ job[c].env.seq \in Seqs
    BY <1>0, <1>6, JobType DEF Unclaim, SaveOutcome
  <2>2. /\ file[bound][job[c].env.seq] # NoRecord
        /\ file[bound][job[c].env.seq].status \notin Settled
    BY <1>6, InFlightRecord DEF Unclaim, SaveOutcome, Base, Settled
  <2>3. job[c].outcome \in InboxStatus /\ "Pending" \in InboxStatus
    BY <2>1 DEF Job, Outcome, InboxStatus, Settled
  <2> QED
    BY <1>6, <2>1, <2>2, <2>3, StatusStep DEF Unclaim, SaveOutcome
<1>7. \/ UNCHANGED file
      \/ \E t \in Seqs : RecoverRecord(t) \/ ExpireRecord(t) \/ Claim(t)
      \/ \E m \in pass.page : Persist(m)
      \/ \E c \in Classes : Unclaim(c) \/ SaveOutcome(c)
  BY DEF Next, vars, Worker, Enqueue, ExpireRow, SavePoint, Restore, Process,
         Start, Crash, ExitOnFatal, Halt, RecoverDone, ObserveEpoch, Passing,
         StartPass, PassFails, PassStopped, Fetch, Rotate, Ack, passOnly,
         Dispatch, Begin, Return, jobOnly
<1> QED
  BY <1>1, <1>2, <1>3, <1>4, <1>5, <1>6, <1>7
-----------------------------------------------------------------------------
(* The base invariant: types, the dispatch in flight, filing by sequence.  *)

LEMMA BaseInit == Init => Base
<1> SUFFICES ASSUME Init PROVE Base
  OBVIOUS
<1>1. InFlightIsProcessing
  BY DEF Init, InFlightIsProcessing, NoJob
<1>2. FiledBySeq
  BY DEF Init, FiledBySeq
<1> QED
  BY <1>1, <1>2, TypeInit DEF Base

LEMMA FiledBySeqStep == Base /\ [Next]_vars => FiledBySeq'
<1> SUFFICES ASSUME Base, [Next]_vars, NEW e \in Epochs, NEW s \in Seqs,
                    file'[e][s] # NoRecord
             PROVE  file'[e][s].env.seq = s
  BY DEF FiledBySeq
<1>1. Kept(e, s) \/ Written(e, s) \/ Moved(e, s) \/ Dropped(e, s)
  BY FileStep
<1> QED
  BY <1>1 DEF Kept, Written, Moved, Dropped, Base, FiledBySeq

\* A job that stays in flight keeps its record: the steps that write another
\* sequence number, and those that write none.
LEMMA InFlightStep == Base /\ [Next]_vars => InFlightIsProcessing'
<1> SUFFICES ASSUME Base, [Next]_vars, NEW c \in Classes, job'[c].phase # "none"
             PROVE  /\ alive' /\ recovered' /\ Class(job'[c].env) = c
                    /\ file'[bound'][job'[c].env.seq] =
                         [env |-> job'[c].env, status |-> "Processing"]
  BY DEF InFlightIsProcessing
<1>0. /\ InboxTypeOK /\ ProcessTypeOK /\ bound \in Epochs
      /\ InFlightIsProcessing /\ FiledBySeq /\ TypeOK
  BY DEF Base, TypeOK, ProcessTypeOK
<1> DEFINE q == job[c].env.seq
           InFlight == /\ alive /\ recovered /\ Class(job[c].env) = c
                       /\ file[bound][q] =
                            [env |-> job[c].env, status |-> "Processing"]
<1>a. ASSUME job[c].phase # "none" PROVE InFlight /\ q \in Seqs
  BY <1>0, <1>a, JobType DEF InFlightIsProcessing
<1>b. ASSUME job'[c].env = job[c].env, job[c].phase # "none",
             UNCHANGED <<alive, bound, recovered>>,
             file'[bound][q] = file[bound][q]
      PROVE  /\ alive' /\ recovered' /\ Class(job'[c].env) = c
             /\ file'[bound'][job'[c].env.seq] =
                  [env |-> job'[c].env, status |-> "Processing"]
  BY <1>a, <1>b
<1>c. ASSUME job[c].phase # "none" PROVE file[bound][q].status = "Processing"
  BY <1>0, <1>c, InFlightRecord
<1>1. CASE UNCHANGED vars
  BY <1>1, <1>b DEF vars, processVars
<1>2. CASE Worker
  BY <1>2, <1>b DEF Worker, Enqueue, ExpireRow, SavePoint, Restore, processVars
<1>3. CASE Process
  <2>1. CASE Start \/ Halt
    BY <2>1 DEF Start, Halt, NoJob
  <2>2. CASE RecoverDone \/ ObserveEpoch
    BY <1>a, <1>b, <2>2 DEF RecoverDone, ObserveEpoch
  <2>3. ASSUME NEW s \in Seqs, RecoverRecord(s) PROVE FALSE
    BY <1>a, <2>3 DEF RecoverRecord, processVars
  <2>4. ASSUME NEW s \in Seqs, ExpireRecord(s)
        PROVE  file'[bound][q] = file[bound][q]
    <3>1. job[c].phase # "none"
      BY <2>4 DEF ExpireRecord, processVars
    <3>2. s # q
      BY <1>c, <2>4, <3>1 DEF ExpireRecord, Settled
    <3> QED
      BY <1>0, <1>a, <2>4, <3>1, <3>2 DEF ExpireRecord, InboxTypeOK
  <2> QED
    BY <1>3, <1>b, <2>1, <2>2, <2>3, <2>4
       DEF Process, Crash, ExitOnFatal, ExpireRecord, processVars
<1>4. CASE Passing
  <2>1. UNCHANGED <<alive, bound, recovered, job>>
    BY <1>4 DEF Passing, StartPass, PassFails, PassStopped, Fetch, Persist,
                Rotate, Ack, passOnly
  <2>2. ASSUME NEW m \in pass.page, Persist(m)
        PROVE  file'[bound][q] = file[bound][q]
    <3>1. InFlight /\ q \in Seqs /\ file[bound][q] # NoRecord
      BY <1>0, <1>a, <2>1, InFlightRecord
    <3>2. m.seq \in Seqs
      BY <1>0 DEF ProcessTypeOK, Pass, Envelope
    <3>3. CASE UNCHANGED file
      BY <3>3
    <3>4. CASE Free(m) /\ file' = [file EXCEPT ![bound][m.seq] =
                                     [env |-> m, status |-> "Pending"]]
      BY <1>0, <3>1, <3>2, <3>4 DEF Free, InboxTypeOK
    <3> QED
      BY <2>2, <3>3, <3>4 DEF Persist
  <2>3. CASE UNCHANGED file
    BY <1>b, <2>1, <2>3
  <2> QED
    BY <1>4, <1>b, <2>1, <2>2, <2>3
       DEF Passing, StartPass, PassFails, PassStopped, Fetch, Rotate, Ack,
           passOnly
<1>5. CASE Dispatch
  <2>1. UNCHANGED <<alive, bound, recovered>>
    BY <1>5 DEF Dispatch, Claim, Unclaim, Begin, Return, SaveOutcome, jobOnly
  <2>2. ASSUME NEW s \in Seqs, Claim(s)
        PROVE  /\ alive' /\ recovered' /\ Class(job'[c].env) = c
               /\ file'[bound'][job'[c].env.seq] =
                    [env |-> job'[c].env, status |-> "Processing"]
    <3> DEFINE m == file[bound][s].env
    <3>1. file[bound][s] # NoRecord /\ file[bound][s].status # "Processing"
      BY <2>2 DEF Claim, Listed, NoRecord
    <3>2. file[bound][s] \in Record /\ m.seq = s
      BY <1>0, <3>1, FileRecord DEF FiledBySeq
    <3>3. CASE c = Class(m)
      <4>1. job'[c].env = m
        BY <1>0, <2>2, <3>3 DEF Claim, ProcessTypeOK
      <4>2. file'[bound][s] = [file[bound][s] EXCEPT !.status = "Processing"]
        BY <1>0, <2>2 DEF Claim, SetStatus, InboxTypeOK
      <4>3. file'[bound][s] = [env |-> m, status |-> "Processing"]
        BY <3>2, <4>2 DEF Record
      <4> QED
        BY <2>1, <2>2, <3>2, <3>3, <4>1, <4>3 DEF Claim, MayDispatch
    <3>4. CASE c # Class(m)
      <4>1. job'[c] = job[c]
        BY <1>0, <2>2, <3>4 DEF Claim, ProcessTypeOK
      <4>2. s # q
        BY <1>c, <3>1, <4>1
      <4>3. file'[bound][q] = file[bound][q]
        BY <1>0, <1>a, <2>2, <4>1, <4>2 DEF Claim, SetStatus, InboxTypeOK
      <4> QED
        BY <1>b, <2>1, <4>1, <4>3
    <3> QED
      BY <3>3, <3>4
  <2>3. ASSUME NEW d \in Classes, Unclaim(d) \/ SaveOutcome(d)
        PROVE  /\ alive' /\ recovered' /\ Class(job'[c].env) = c
               /\ file'[bound'][job'[c].env.seq] =
                    [env |-> job'[c].env, status |-> "Processing"]
    <3> DEFINE s == job[d].env.seq
    <3>1. d # c /\ job'[c] = job[c]
      BY <1>0, <2>3 DEF Unclaim, SaveOutcome, ProcessTypeOK, NoJob
    <3>2. /\ Class(job[d].env) = d /\ file[bound][s].env = job[d].env
          /\ Class(job[c].env) = c /\ file[bound][q].env = job[c].env
      BY <1>0, <1>a, <2>3, <3>1, InFlightRecord
         DEF Unclaim, SaveOutcome, InFlightIsProcessing
    <3>3. s # q
      BY <3>1, <3>2
    <3>4. file'[bound][q] = file[bound][q]
      BY <1>0, <1>a, <2>3, <3>1, <3>3
         DEF Unclaim, SaveOutcome, SetStatus, InboxTypeOK
    <3> QED
      BY <1>b, <2>1, <3>1, <3>4
  <2>4. ASSUME NEW d \in Classes,
               Begin(d) \/ \E outcome \in Outcome : Return(d, outcome)
        PROVE  /\ alive' /\ recovered' /\ Class(job'[c].env) = c
               /\ file'[bound'][job'[c].env.seq] =
                    [env |-> job'[c].env, status |-> "Processing"]
    <3>1. UNCHANGED file
      BY <2>4 DEF Begin, Return
    <3>2. job'[c].env = job[c].env /\ job[c].phase # "none"
      BY <1>0, <2>4, JobType DEF Begin, Return, ProcessTypeOK, Job, NoJob
    <3> QED
      BY <1>b, <2>1, <3>1, <3>2
  <2> QED
    BY <1>5, <2>2, <2>3, <2>4 DEF Dispatch
<1> QED
  BY <1>1, <1>2, <1>3, <1>4, <1>5 DEF Next

LEMMA BaseStep == Base /\ [Next]_vars => Base'
<1> SUFFICES ASSUME Base, [Next]_vars PROVE Base'
  OBVIOUS
<1>1. TypeOK'
  BY TypeStutter, TypeWorker, TypeProcess, TypePassing, TypeDispatch
     DEF Base, Next
<1> QED
  BY <1>1, FiledBySeqStep, InFlightStep DEF Base

\* Every variable keeps to its type in every reachable state.
THEOREM TypeCorrect == Spec => []TypeOK
<1>1. Base => TypeOK
  BY DEF Base
<1> QED
  BY <1>1, BaseInit, BaseStep, PTL DEF Spec

\* The durable record of a dispatch in flight names its request and says
\* Processing until the outcome is saved.
THEOREM InFlightCorrect == Spec => []InFlightIsProcessing
<1>1. Base => InFlightIsProcessing
  BY DEF Base
<1> QED
  BY <1>1, BaseInit, BaseStep, PTL DEF Spec

\* No durable request is replaced by another one and no settled receipt
\* changes, for any number of epochs, restores and stops.
THEOREM ReceiptsStayFinal == Spec => ReceiptsAreFinal
<1>1. ASSUME Base, [Next]_vars
      PROVE  [\A e \in Epochs, s \in Seqs :
                LET r == file[e][s]  n == file'[e][s]
                IN  r # NoRecord /\ n # NoRecord =>
                      n.env = r.env /\ (r.status \in Settled => n = r)]_vars
  BY <1>1, FileStep DEF Kept, Written, Moved, Dropped
<1> QED
  BY <1>1, BaseInit, BaseStep, PTL DEF Spec, ReceiptsAreFinal
-----------------------------------------------------------------------------
(* An acknowledged request is a received one.                              *)

LEMMA ReceivedStays == Base /\ [Next]_vars => Received \subseteq Received'
<1> SUFFICES ASSUME Base, [Next]_vars, NEW m \in Received PROVE m \in Received'
  OBVIOUS
<1>1. expired \subseteq expired'
  BY DEF Next, vars, Worker, Enqueue, ExpireRow, SavePoint, Restore, Process,
         Start, Crash, ExitOnFatal, Halt, RecoverRecord, RecoverDone,
         ExpireRecord, ObserveEpoch, Passing, StartPass, PassFails,
         PassStopped, Fetch, Persist, Rotate, Ack, passOnly, Dispatch, Claim,
         Unclaim, Begin, Return, SaveOutcome, jobOnly
<1>2. ASSUME NEW e \in Epochs, m \in Envelope, Holds(e, m)
      PROVE  m \in Received'
  <2>1. m.seq \in Seqs /\ file[e][m.seq] # NoRecord /\ file[e][m.seq].env = m
    BY <1>2 DEF Envelope, Holds
  <2>2. \/ file'[e][m.seq] = file[e][m.seq]
        \/ file'[e][m.seq] # NoRecord /\ file'[e][m.seq].env = m
        \/ m \in expired'
    BY <2>1, FileStep DEF Kept, Written, Moved, Dropped
  <2>3. Holds(e, m)' \/ m \in expired'
    BY <2>1, <2>2 DEF Holds
  <2> QED
    BY <1>2, <2>3 DEF Received
<1> QED
  BY <1>1, <1>2 DEF Received

\* AckedIsReceived is not inductive alone: a restore brings back older
\* acknowledgements, and the ACK relies on what its pass made durable.
AckedInv == /\ Base
            /\ AckedIsReceived
            /\ savepoint.acked \subseteq Received
            /\ pass.kept \subseteq Received

LEMMA AckedInit == Init => AckedInv
BY BaseInit DEF Init, AckedInv, AckedIsReceived, Idle

LEMMA EndPassKept ==
  ASSUME NEW ok, NEW ch, EndPass(ok, ch)
  PROVE  pass'.kept = {}
<1>1. pass' = Idle
  BY DEF EndPass
<1> QED
  BY <1>1 DEF Idle

LEMMA RotateKept ==
  ASSUME ProcessTypeOK, NEW S, pass' = [pass EXCEPT !.at = "rotate", !.page = S]
  PROVE  pass'.kept = pass.kept
BY DEF ProcessTypeOK, Pass

LEMMA AckedStep == AckedInv /\ [Next]_vars => AckedInv'
<1> SUFFICES ASSUME AckedInv, [Next]_vars PROVE AckedInv'
  OBVIOUS
<1>0. /\ Base /\ Base' /\ Received \subseteq Received'
      /\ d1.acked \subseteq Received /\ savepoint.acked \subseteq Received
      /\ pass.kept \subseteq Received
      /\ CloudTypeOK /\ ProcessTypeOK
  BY BaseStep, ReceivedStays DEF AckedInv, AckedIsReceived, Base, TypeOK
<1>1. pass'.kept \subseteq Received'
  <2>1. ASSUME NEW m \in pass.page, Persist(m), m \in Received'
        PROVE  pass'.kept \subseteq Received'
    <3> DEFINE seen == pass.seen \/ pass.expected = m
    <3>1. \/ EndPass(FALSE, FALSE)
          \/ pass' = [pass EXCEPT !.kept = @ \cup {m}, !.seen = seen]
          \/ pass' = [pass EXCEPT !.at = "rotate", !.page = {m}]
      BY <2>1 DEF Persist
    <3> HIDE DEF seen
    <3>2. ASSUME pass' = [pass EXCEPT !.kept = @ \cup {m}, !.seen = seen]
          PROVE  pass'.kept = pass.kept \cup {m}
      BY <1>0, <3>2 DEF ProcessTypeOK, Pass
    <3> QED
      BY <1>0, <2>1, <3>1, <3>2, EndPassKept, RotateKept
  <2>2. ASSUME NEW m \in pass.page, Persist(m), m \notin Received'
        PROVE  pass'.kept \subseteq Received'
    <3>1. m \in Envelope /\ m.seq \in Seqs /\ bound \in Epochs
      BY <1>0 DEF ProcessTypeOK, Pass, Envelope
    <3>2. ~Holds(bound, m)' /\ bound' = bound
      BY <2>2, <3>1 DEF Received, Persist
    <3>3. ~Duplicate(m) \/ ~UNCHANGED file
      BY <3>2 DEF Duplicate, Holds
    <3> DEFINE r == [env |-> m, status |-> "Pending"]
    <3>a. r.env = m /\ r # NoRecord
      BY DEF NoRecord
    <3>b. InboxTypeOK
      BY <1>0 DEF Base, TypeOK
    <3> HIDE DEF r
    <3>c. ASSUME file' = [file EXCEPT ![bound][m.seq] = r] PROVE FALSE
      <4>1. file'[bound][m.seq] = r
        BY <3>1, <3>b, <3>c DEF InboxTypeOK
      <4> QED
        BY <3>2, <3>a, <4>1 DEF Holds
    <3>4. file' # [file EXCEPT ![bound][m.seq] =
                     [env |-> m, status |-> "Pending"]]
      BY <3>c DEF r
    <3>5. \/ EndPass(FALSE, FALSE)
          \/ pass' = [pass EXCEPT !.at = "rotate", !.page = {m}]
      BY <2>2, <3>3, <3>4 DEF Persist
    <3> QED
      BY <1>0, <3>5, EndPassKept, RotateKept
  <2>3. CASE UNCHANGED pass \/ pass'.kept = {} \/ pass' = Idle
    BY <1>0, <2>3 DEF Idle
  <2>4. ASSUME Fetch \/ \E m \in announced \cup {NoEnv} : StartPass(m)
        PROVE  pass' = Idle \/ pass'.kept = {}
    BY <1>0, <2>4 DEF Fetch, Conclude, EndPass, StartPass, Idle, ProcessTypeOK,
                      Pass
  <2>5. ASSUME NEW lost \in BOOLEAN, Rotate(lost) \/ Ack(lost)
        PROVE  pass' = Idle \/ pass'.kept = {}
    BY <1>0, <2>5 DEF Rotate, Ack, Conclude, EndPass, ProcessTypeOK, Pass
  <2>6. PassFails \/ PassStopped \/ Start \/ Halt => pass' = Idle
    BY DEF PassFails, PassStopped, Start, Halt, EndPass
  <2>7. \/ UNCHANGED pass
        \/ Start \/ Halt \/ PassFails \/ PassStopped
        \/ Fetch \/ \E m \in announced \cup {NoEnv} : StartPass(m)
        \/ \E m \in pass.page : Persist(m)
        \/ \E lost \in BOOLEAN : Rotate(lost) \/ Ack(lost)
    BY DEF Next, vars, processVars, Worker, Enqueue, ExpireRow, SavePoint,
           Restore, Process, Crash, ExitOnFatal, RecoverRecord, RecoverDone,
           ExpireRecord, ObserveEpoch, Passing, Dispatch, Claim, Unclaim,
           Begin, Return, SaveOutcome, jobOnly
  <2> QED
    BY <2>1, <2>2, <2>3, <2>4, <2>5, <2>6, <2>7
<1>2. d1'.acked \subseteq Received'
  <2>1. ASSUME NEW lost \in BOOLEAN, Ack(lost) PROVE d1'.acked \subseteq Received'
    <3>1. CASE UNCHANGED d1
      BY <1>0, <3>1
    <3>2. CASE d1' = Acknowledged(pass.page)
      <4>1. pass.page \subseteq Received
        BY <1>0, <2>1 DEF Ack, PageDurable
      <4>2. d1'.acked \subseteq d1.acked \cup pass.page
        BY <1>0, <3>2 DEF Acknowledged, SameRequest, CloudTypeOK, Database
      <4> QED
        BY <1>0, <4>1, <4>2
    <3> QED
      BY <2>1, <3>1, <3>2 DEF Ack
  <2>2. CASE Restore
    BY <1>0, <2>2 DEF Restore
  <2>3. ASSUME d1'.acked \subseteq d1.acked PROVE d1'.acked \subseteq Received'
    BY <1>0, <2>3
  <2>4. \/ \E lost \in BOOLEAN : Ack(lost)
        \/ Restore
        \/ d1'.acked \subseteq d1.acked
    <3>1. ASSUME \/ \E k \in Keys : Enqueue(k)
                 \/ \E m \in Envelope : ExpireRow(m)
                 \/ \E lost \in BOOLEAN : Rotate(lost)
          PROVE  d1'.acked \subseteq d1.acked
      BY <1>0, <3>1 DEF Enqueue, ExpireRow, Rotate, CloudTypeOK, Database
    <3> QED
      BY <3>1 DEF Next, vars, cloudVars, Worker, SavePoint, Process, Start,
           Crash, ExitOnFatal, Halt, RecoverRecord, RecoverDone, ExpireRecord,
           ObserveEpoch, Passing, StartPass, PassFails, PassStopped, Fetch,
           Persist, passOnly, Dispatch, Claim, Unclaim, Begin, Return,
           SaveOutcome, jobOnly
  <2> QED
    BY <2>1, <2>2, <2>3, <2>4
<1>3. savepoint'.acked \subseteq Received'
  <2>1. UNCHANGED savepoint \/ savepoint' = d1
    BY DEF Next, vars, cloudVars, Worker, Enqueue, ExpireRow, SavePoint,
           Restore, Process, Start, Crash, ExitOnFatal, Halt, RecoverRecord,
           RecoverDone, ExpireRecord, ObserveEpoch, Passing, StartPass,
           PassFails, PassStopped, Fetch, Persist, Rotate, Ack, passOnly,
           Dispatch, Claim, Unclaim, Begin, Return, SaveOutcome, jobOnly
  <2> QED
    BY <1>0, <2>1
<1> QED
  BY <1>0, <1>1, <1>2, <1>3 DEF AckedInv, AckedIsReceived

\* D1 never forgets a request that the desktop does not have.
THEOREM AckedCorrect == Spec => []AckedIsReceived
<1>1. AckedInv => AckedIsReceived
  BY DEF AckedInv
<1> QED
  BY <1>1, AckedInit, AckedStep, PTL DEF Spec
-----------------------------------------------------------------------------
(* A page and what it leaves out.                                          *)

\* A set of requests has one with the smallest sequence number.
LEMMA FirstExists ==
  ASSUME NEW S, S # {}, \A m \in S : m.seq \in Nat
  PROVE  \E m \in S : \A n \in S : ~(n.seq < m.seq)
<1> DEFINE T == {m.seq : m \in S}
           Less == {ss \in Nat \X Nat : ss[1] < ss[2]}
<1>1. IsWellFoundedOn(Less, Nat)
  BY NatLessThanWellFounded DEF OpToRel
<1>2. T \subseteq Nat /\ T # {}
  OBVIOUS
<1> HIDE DEF T, Less
<1>3. PICK x \in T : \A y \in T : ~(<<y, x>> \in Less)
  BY <1>1, <1>2, WFMin
<1>4. \A y \in T : ~(y < x)
  BY <1>2, <1>3 DEF Less
<1> QED
  BY <1>3, <1>4 DEF T

\* A page that is not full holds everything that waited.
LEMMA ShortPageIsWhole ==
  ASSUME NEW S, IsFiniteSet(S), \A m \in S : m.seq \in Nat,
         Cardinality(FirstPage(S)) < PageSize
  PROVE  FirstPage(S) = S
<1> DEFINE Before(m) == {n \in S : n.seq < m.seq}
           Out       == S \ FirstPage(S)
<1> SUFFICES ASSUME Out # {} PROVE FALSE
  BY FirstPageSubset
<1>1. PICK m \in Out : \A n \in Out : ~(n.seq < m.seq)
  BY FirstExists
<1>2. Before(m) \subseteq FirstPage(S)
  BY <1>1
<1>3. IsFiniteSet(FirstPage(S))
  BY FS_Subset, FirstPageSubset
<1>4. Cardinality(Before(m)) <= Cardinality(FirstPage(S))
  BY <1>2, <1>3, FS_Subset
<1>5. IsFiniteSet(Before(m))
  BY <1>2, <1>3, FS_Subset
<1>6. Cardinality(Before(m)) \in Nat /\ Cardinality(FirstPage(S)) \in Nat
  BY <1>3, <1>5, FS_CardinalityType
<1>7. ~(Cardinality(Before(m)) < PageSize)
  BY <1>1 DEF FirstPage
<1> QED
  BY <1>4, <1>6, <1>7, BoundsAssumption
-----------------------------------------------------------------------------
(* What a step does to a durable record, action by action.                 *)

\* The record of sequence t under the bound epoch becomes r, no other changes.
Becomes(t, r) ==
  /\ file'[bound][t] = r
  /\ \A e \in Epochs, s \in Seqs :
       e # bound \/ s # t => file'[e][s] = file[e][s]

\* SetStatus rewrites one record and keeps its request.
LEMMA StatusIs ==
  ASSUME Base, NEW t \in Seqs, NEW st \in InboxStatus, SetStatus(t, st),
         file[bound][t] # NoRecord
  PROVE  Becomes(t, [env |-> file[bound][t].env, status |-> st])
<1>1. InboxTypeOK /\ bound \in Epochs
  BY DEF Base, TypeOK, ProcessTypeOK
<1>2. file[bound][t] \in Record
  BY <1>1, FileRecord
<1>3. file'[bound][t] = [file[bound][t] EXCEPT !.status = st]
  BY <1>1 DEF SetStatus, InboxTypeOK
<1>4. file'[bound][t] = [env |-> file[bound][t].env, status |-> st]
  BY <1>2, <1>3 DEF Record
<1>5. ASSUME NEW e \in Epochs, NEW s \in Seqs, e # bound \/ s # t
      PROVE  file'[e][s] = file[e][s]
  BY <1>1, <1>5 DEF SetStatus, InboxTypeOK
<1> QED
  BY <1>4, <1>5 DEF Becomes

\* A page's request that is written was not there and is pending.
LEMMA PersistIs ==
  ASSUME Base, NEW m \in pass.page, Persist(m), ~UNCHANGED file
  PROVE  /\ m \in Envelope /\ m.seq \in Seqs /\ file[bound][m.seq] = NoRecord
         /\ Becomes(m.seq, [env |-> m, status |-> "Pending"])
<1>1. InboxTypeOK /\ bound \in Epochs /\ m \in Envelope /\ m.seq \in Seqs
  BY DEF Base, TypeOK, ProcessTypeOK, Pass, Envelope
<1>2. Free(m) /\ file' = [file EXCEPT ![bound][m.seq] =
                            [env |-> m, status |-> "Pending"]]
  BY DEF Persist
<1>3. file'[bound][m.seq] = [env |-> m, status |-> "Pending"]
  BY <1>1, <1>2 DEF InboxTypeOK
<1>4. ASSUME NEW e \in Epochs, NEW s \in Seqs, e # bound \/ s # m.seq
      PROVE  file'[e][s] = file[e][s]
  BY <1>1, <1>2, <1>4 DEF InboxTypeOK
<1> QED
  BY <1>1, <1>2, <1>3, <1>4 DEF Free, Becomes

\* Recovery gives an interrupted record the status of its class.
LEMMA RecoverIs ==
  ASSUME Base, NEW t \in Seqs, RecoverRecord(t)
  PROVE  /\ file[bound][t] # NoRecord /\ file[bound][t].status = "Processing"
         /\ Becomes(t, [env |-> file[bound][t].env,
                        status |-> RecoveredStatus(file[bound][t].env)])
<1>1. file[bound][t] # NoRecord
  BY DEF RecoverRecord, NoRecord
<1>2. RecoveredStatus(file[bound][t].env) \in InboxStatus
  BY DEF RecoveredStatus, InboxStatus, Settled
<1> QED
  BY <1>1, <1>2, StatusIs DEF RecoverRecord

\* Retention removes a settled record and remembers its request.
LEMMA ExpireIs ==
  ASSUME Base, NEW t \in Seqs, ExpireRecord(t)
  PROVE  /\ file[bound][t] # NoRecord /\ file[bound][t].status \in Settled
         /\ Becomes(t, NoRecord)
         /\ expired' = expired \cup {file[bound][t].env}
<1>1. InboxTypeOK /\ bound \in Epochs
  BY DEF Base, TypeOK, ProcessTypeOK
<1>2. file[bound][t] # NoRecord
  BY DEF ExpireRecord, NoRecord, Settled
<1>3. file'[bound][t] = NoRecord
  BY <1>1 DEF ExpireRecord, InboxTypeOK
<1>4. ASSUME NEW e \in Epochs, NEW s \in Seqs, e # bound \/ s # t
      PROVE  file'[e][s] = file[e][s]
  BY <1>1, <1>4 DEF ExpireRecord, InboxTypeOK
<1> QED
  BY <1>2, <1>3, <1>4 DEF ExpireRecord, Becomes

\* A claim takes a listed record and the permit of its class.
LEMMA ClaimIs ==
  ASSUME Base, NEW t \in Seqs, Claim(t)
  PROVE  /\ file[bound][t] # NoRecord /\ file[bound][t].status \in Listed
         /\ Becomes(t, [env |-> file[bound][t].env, status |-> "Processing"])
         /\ job[Class(file[bound][t].env)] = NoJob
         /\ \A c \in Classes : c # Class(file[bound][t].env) =>
              job'[c] = job[c]
<1>1. file[bound][t] # NoRecord
  BY DEF Claim, Listed, NoRecord
<1>2. "Processing" \in InboxStatus
  BY DEF InboxStatus
<1>3. ProcessTypeOK
  BY DEF Base, TypeOK
<1> QED
  BY <1>1, <1>2, <1>3, StatusIs DEF Claim, ProcessTypeOK

\* The record a dispatch in flight writes is the one that it claimed.
LEMMA DispatchIs ==
  ASSUME Base, NEW c \in Classes, job[c].phase # "none"
  PROVE  /\ job[c] \in Job /\ job[c].env \in Envelope /\ job[c].env.seq \in Seqs
         /\ alive /\ recovered /\ Class(job[c].env) = c
         /\ file[bound][job[c].env.seq] # NoRecord
         /\ file[bound][job[c].env.seq].env = job[c].env
         /\ file[bound][job[c].env.seq].status = "Processing"
<1>1. ProcessTypeOK /\ InFlightIsProcessing
  BY DEF Base, TypeOK
<1> QED
  BY <1>1, JobType, InFlightRecord DEF InFlightIsProcessing

\* A claim given back leaves the record pending.
LEMMA UnclaimIs ==
  ASSUME Base, NEW c \in Classes, Unclaim(c)
  PROVE  Becomes(job[c].env.seq, [env |-> job[c].env, status |-> "Pending"])
<1>1. "Pending" \in InboxStatus /\ job[c].phase # "none"
  BY DEF InboxStatus, Unclaim
<1> QED
  BY <1>1, DispatchIs, StatusIs DEF Unclaim

\* A receipt gives the record of its dispatch the outcome.
LEMMA SaveIs ==
  ASSUME Base, NEW c \in Classes, SaveOutcome(c)
  PROVE  Becomes(job[c].env.seq, [env |-> job[c].env, status |-> job[c].outcome])
<1>1. job[c].phase # "none"
  BY DEF SaveOutcome
<1>2. job[c].outcome \in InboxStatus
  BY <1>1, DispatchIs DEF Job, Outcome, InboxStatus, Settled
<1> QED
  BY <1>1, <1>2, DispatchIs, StatusIs DEF SaveOutcome

\* The actions that write a record.
LEMMA FileActions ==
  ASSUME Base, [Next]_vars
  PROVE  \/ UNCHANGED file
         \/ \E m \in pass.page : Persist(m)
         \/ \E t \in Seqs : RecoverRecord(t) \/ ExpireRecord(t) \/ Claim(t)
         \/ \E c \in Classes : Unclaim(c) \/ SaveOutcome(c)
BY DEF Next, vars, Worker, Enqueue, ExpireRow, SavePoint, Restore, Process,
       Start, Crash, ExitOnFatal, Halt, RecoverDone, ObserveEpoch, Passing,
       StartPass, PassFails, PassStopped, Fetch, Rotate, Ack, passOnly,
       Dispatch, Begin, Return, jobOnly

\* The ways the record of sequence s under epoch e can come to be r.
PersistedAs(e, s, r) ==
  /\ e = bound /\ file[e][s] = NoRecord
  /\ \E m \in pass.page : /\ m.seq = s /\ Persist(m)
                          /\ r = [env |-> m, status |-> "Pending"]
RecoveredAs(e, s, r) ==
  /\ e = bound /\ RecoverRecord(s)
  /\ file[e][s] # NoRecord /\ file[e][s].status = "Processing"
  /\ r = [env |-> file[e][s].env, status |-> RecoveredStatus(file[e][s].env)]
ExpiredAs(e, s, r) ==
  /\ e = bound /\ ExpireRecord(s)
  /\ file[e][s] # NoRecord /\ file[e][s].status \in Settled
  /\ r = NoRecord /\ expired' = expired \cup {file[e][s].env}
ClaimedAs(e, s, r) ==
  /\ e = bound /\ Claim(s)
  /\ file[e][s] # NoRecord /\ file[e][s].status \in Listed
  /\ r = [env |-> file[e][s].env, status |-> "Processing"]
ReleasedAs(e, s, r) ==
  /\ e = bound /\ file[e][s] # NoRecord /\ file[e][s].status = "Processing"
  /\ \E c \in Classes : /\ Unclaim(c) /\ s = job[c].env.seq
                        /\ file[e][s].env = job[c].env
                        /\ r = [env |-> job[c].env, status |-> "Pending"]
SavedAs(e, s, r) ==
  /\ e = bound /\ file[e][s] # NoRecord /\ file[e][s].status = "Processing"
  /\ \E c \in Classes : /\ SaveOutcome(c) /\ s = job[c].env.seq
                        /\ file[e][s].env = job[c].env
                        /\ r = [env |-> job[c].env, status |-> job[c].outcome]
Changes(e, s, r) ==
  \/ PersistedAs(e, s, r) \/ RecoveredAs(e, s, r) \/ ExpiredAs(e, s, r)
  \/ ClaimedAs(e, s, r) \/ ReleasedAs(e, s, r) \/ SavedAs(e, s, r)

\* A record that changes does so by one of these actions.
LEMMA FileChange ==
  ASSUME Base, [Next]_vars, NEW e \in Epochs, NEW s \in Seqs,
         file'[e][s] # file[e][s]
  PROVE  Changes(e, s, file'[e][s])
<1>1. ASSUME NEW m \in pass.page, Persist(m) PROVE PersistedAs(e, s, file'[e][s])
  <2>1. ~UNCHANGED file
    OBVIOUS
  <2>2. /\ m.seq \in Seqs /\ file[bound][m.seq] = NoRecord
        /\ Becomes(m.seq, [env |-> m, status |-> "Pending"])
    BY <1>1, <2>1, PersistIs
  <2>3. e = bound /\ s = m.seq
    BY <2>2 DEF Becomes
  <2> QED
    BY <1>1, <2>2, <2>3 DEF Becomes, PersistedAs
<1>2. ASSUME NEW t \in Seqs, RecoverRecord(t) PROVE RecoveredAs(e, s, file'[e][s])
  <2>1. e = bound /\ s = t
    BY <1>2, RecoverIs DEF Becomes
  <2> QED
    BY <1>2, <2>1, RecoverIs DEF Becomes, RecoveredAs
<1>3. ASSUME NEW t \in Seqs, ExpireRecord(t) PROVE ExpiredAs(e, s, file'[e][s])
  <2>1. e = bound /\ s = t
    BY <1>3, ExpireIs DEF Becomes
  <2> QED
    BY <1>3, <2>1, ExpireIs DEF Becomes, ExpiredAs
<1>4. ASSUME NEW t \in Seqs, Claim(t) PROVE ClaimedAs(e, s, file'[e][s])
  <2>1. e = bound /\ s = t
    BY <1>4, ClaimIs DEF Becomes
  <2> QED
    BY <1>4, <2>1, ClaimIs DEF Becomes, ClaimedAs
<1>5. ASSUME NEW c \in Classes, Unclaim(c) PROVE ReleasedAs(e, s, file'[e][s])
  <2>1. job[c].phase # "none"
    BY <1>5 DEF Unclaim
  <2>2. e = bound /\ s = job[c].env.seq
    BY <1>5, <2>1, UnclaimIs, DispatchIs DEF Becomes
  <2> QED
    BY <1>5, <2>1, <2>2, UnclaimIs, DispatchIs DEF Becomes, ReleasedAs
<1>6. ASSUME NEW c \in Classes, SaveOutcome(c) PROVE SavedAs(e, s, file'[e][s])
  <2>1. job[c].phase # "none"
    BY <1>6 DEF SaveOutcome
  <2>2. e = bound /\ s = job[c].env.seq
    BY <1>6, <2>1, SaveIs, DispatchIs DEF Becomes
  <2> QED
    BY <1>6, <2>1, <2>2, SaveIs, DispatchIs DEF Becomes, SavedAs
<1> QED
  BY <1>1, <1>2, <1>3, <1>4, <1>5, <1>6, FileActions DEF Changes
-----------------------------------------------------------------------------
(* What was announced, and what waits in D1.                               *)

\* Every request was announced when it was accepted, and a request accepted
\* next is another one: its number is above those of the present history, and
\* a restore begins a new history.
AnnouncedOK ==
  /\ d1.rows \subseteq announced /\ savepoint.rows \subseteq announced
  /\ pass.page \subseteq announced /\ Received \subseteq announced
  /\ \A m \in announced :
       /\ m.era <= restores
       /\ m.era = restores => m.seq <= d1.lastSeq

Held(m) == \E e \in Epochs : Holds(e, m)

\* The actions that write the database, its savepoint or the announcements.
LEMMA CloudActions ==
  ASSUME [Next]_vars
  PROVE  \/ UNCHANGED <<d1, savepoint, restores, announced>>
         \/ \E k \in Keys : Enqueue(k)
         \/ \E m \in Envelope : ExpireRow(m)
         \/ SavePoint \/ Restore
         \/ \E lost \in BOOLEAN : Rotate(lost) \/ Ack(lost)
BY DEF Next, vars, cloudVars, Worker, Process, Start, Crash, ExitOnFatal, Halt,
       RecoverRecord, RecoverDone, ExpireRecord, ObserveEpoch, Passing,
       StartPass, PassFails, PassStopped, Fetch, Persist, passOnly, Dispatch,
       Claim, Unclaim, Begin, Return, SaveOutcome, jobOnly

\* The actions that write the pass or its result.
LEMMA PassActions ==
  ASSUME [Next]_vars
  PROVE  \/ UNCHANGED <<pass, reconciled>>
         \/ Start \/ Halt \/ PassFails \/ PassStopped
         \/ ObserveEpoch
         \/ \E m \in announced \cup {NoEnv} : StartPass(m)
         \/ Fetch
         \/ \E m \in pass.page : Persist(m)
         \/ \E lost \in BOOLEAN : Rotate(lost) \/ Ack(lost)
BY DEF Next, vars, processVars, Worker, Enqueue, ExpireRow, SavePoint, Restore,
       Process, Crash, ExitOnFatal, RecoverRecord, RecoverDone, ExpireRecord,
       Passing, Dispatch, Claim, Unclaim, Begin, Return, SaveOutcome, jobOnly

\* The place and the page of a pass after each kind of assignment.
LEMMA PassIs ==
  ASSUME ProcessTypeOK
  PROVE  /\ \A ok, ch : EndPass(ok, ch) => pass' = Idle /\ reconciled' = ok
         /\ Idle.at = "idle" /\ Idle.page = {}
         /\ \A m : StartPass(m) => pass'.at = "fetch" /\ pass'.page = {}
         /\ \A m, seen : pass' = [pass EXCEPT !.kept = @ \cup {m}, !.seen = seen]
              => pass'.at = pass.at /\ pass'.page = pass.page
         /\ \A S : pass' = [pass EXCEPT !.at = "rotate", !.page = S]
              => pass'.at = "rotate" /\ pass'.page = S
         /\ \A S : pass' = [pass EXCEPT !.at = "page", !.page = S, !.kept = {}]
              => pass'.at = "page" /\ pass'.page = S
         /\ \A q : pass' = [pass EXCEPT !.at = "fetch", !.page = {},
                                        !.kept = {}, !.last = q]
              => pass'.at = "fetch" /\ pass'.page = {}
BY DEF ProcessTypeOK, Pass, EndPass, Idle, StartPass

\* Persisting ends the pass, keeps its place, or asks for a rotation.
LEMMA PersistPass ==
  ASSUME ProcessTypeOK, NEW m \in pass.page, Persist(m)
  PROVE  \/ pass' = Idle /\ reconciled' = FALSE
         \/ UNCHANGED reconciled /\ pass'.at = pass.at /\ pass'.page = pass.page
         \/ UNCHANGED reconciled /\ pass'.at = "rotate" /\ pass'.page = {m}
<1> DEFINE seen == pass.seen \/ pass.expected = m
<1>1. \/ EndPass(FALSE, FALSE)
      \/ UNCHANGED reconciled /\ pass' = [pass EXCEPT !.kept = @ \cup {m}, !.seen = seen]
      \/ UNCHANGED reconciled /\ pass' = [pass EXCEPT !.at = "rotate", !.page = {m}]
  BY DEF Persist
<1> HIDE DEF seen
<1> QED
  BY <1>1, PassIs

\* The result of a fetch: it ends the pass, for want of a page with success,
\* or it takes the first page of what waits.
LEMMA FetchIs ==
  ASSUME ProcessTypeOK, Fetch
  PROVE  /\ UNCHANGED <<d1, file, expired>>
         /\ \/ pass' = Idle /\ (reconciled' => FirstPage(Pending(d1)) = {})
            \/ /\ pass'.at = "page" /\ pass'.page = FirstPage(Pending(d1))
               /\ UNCHANGED reconciled
<1> DEFINE page == FirstPage(Pending(d1))
<1>1. \/ \E ch \in BOOLEAN : EndPass(FALSE, ch)
      \/ page = {} /\ Conclude
      \/ pass' = [pass EXCEPT !.at = "page", !.page = page, !.kept = {}]
         /\ UNCHANGED reconciled
  BY DEF Fetch
<1>2. Conclude => pass' = Idle
  BY DEF Conclude, EndPass
<1>3. UNCHANGED <<d1, file, expired>>
  BY DEF Fetch, passOnly, cloudVars
<1> HIDE DEF page
<1> QED
  BY <1>1, <1>2, <1>3, PassIs DEF page

\* The result of an ACK: what it marks was in the page; a success of the pass
\* needs a page that was not full.
LEMMA AckIs ==
  ASSUME ProcessTypeOK, NEW lost \in BOOLEAN, Ack(lost)
  PROVE  /\ pass.at = "page" /\ pass.kept = pass.page
         /\ UNCHANGED <<file, expired, savepoint, restores, announced>>
         /\ d1' = d1 \/ d1' = Acknowledged(pass.page)
         /\ pass'.page = {} /\ pass'.at # "page"
         /\ pass'.at # "idle" => UNCHANGED reconciled
         /\ reconciled' /\ pass'.at = "idle" =>
              /\ d1' = Acknowledged(pass.page)
              /\ Cardinality(pass.page) < PageSize
<1>1. /\ pass.at = "page" /\ PageDurable
      /\ UNCHANGED <<file, expired, savepoint, restores, announced>>
      /\ d1' = d1 \/ d1' = Acknowledged(pass.page)
  BY DEF Ack
<1>2. \/ \E ch \in BOOLEAN : EndPass(FALSE, ch)
      \/ /\ d1' = Acknowledged(pass.page) /\ Cardinality(pass.page) < PageSize
         /\ Conclude
      \/ /\ \E m \in pass.page : pass' = [pass EXCEPT !.at = "fetch", !.page = {},
                                                      !.kept = {}, !.last = m.seq]
         /\ UNCHANGED reconciled
  BY DEF Ack
<1>3. Conclude => pass' = Idle
  BY DEF Conclude, EndPass
<1> QED
  BY <1>1, <1>2, <1>3, PassIs DEF PageDurable

\* An ACK takes what it names out of what waits, and nothing else.
LEMMA AcknowledgedIs ==
  ASSUME CloudTypeOK, NEW S, d1' = Acknowledged(S)
  PROVE  /\ d1'.rows = d1.rows /\ d1'.lastSeq = d1.lastSeq
         /\ Pending(d1)' = Pending(d1) \ S
BY DEF CloudTypeOK, Database, Acknowledged, SameRequest, Pending

\* An accepted request is new and waits.
LEMMA EnqueueIs ==
  ASSUME Base, AnnouncedOK, NEW k \in Keys, Enqueue(k)
  PROVE  \E m \in Envelope :
           /\ m \notin announced /\ m.seq = d1.lastSeq + 1 /\ m.era = restores
           /\ announced' = announced \cup {m}
           /\ d1'.rows = d1.rows \cup {m} /\ d1'.lastSeq = d1.lastSeq + 1
           /\ Pending(d1)' = Pending(d1) \cup {m}
           /\ UNCHANGED <<savepoint, restores, file, processVars, ran, expired>>
<1> DEFINE m == [seq |-> d1.lastSeq + 1, key |-> k, era |-> restores]
<1>0. CloudTypeOK
  BY DEF Base, TypeOK
<1>1. d1.lastSeq + 1 \in Seqs
  BY <1>0, BoundsAssumption DEF Enqueue, CloudTypeOK, Database, Seqs
<1>2. m \in Envelope /\ m.seq = d1.lastSeq + 1 /\ m.era = restores
  BY <1>0, <1>1 DEF CloudTypeOK, Envelope
<1>3. /\ d1' = [d1 EXCEPT !.rows = @ \cup {m}, !.lastSeq = @ + 1]
      /\ announced' = announced \cup {m}
      /\ UNCHANGED <<savepoint, restores, file, processVars, ran, expired>>
  BY DEF Enqueue
<1> HIDE DEF m
<1>4. d1.lastSeq \in Nat
  BY <1>0, BoundsAssumption DEF CloudTypeOK, Database
<1>5. m \notin announced
  BY <1>2, <1>4 DEF AnnouncedOK
<1>6. /\ d1'.rows = d1.rows \cup {m} /\ d1'.acked = d1.acked
      /\ d1'.lastSeq = d1.lastSeq + 1
  BY <1>0, <1>3 DEF CloudTypeOK, Database
<1>7. m \notin d1.acked
  BY <1>0, <1>5 DEF CloudTypeOK, AnnouncedOK
<1> QED
  BY <1>2, <1>3, <1>5, <1>6, <1>7 DEF Pending

\* A request that becomes durable is one of the page.
LEMMA HeldStep ==
  ASSUME Base, [Next]_vars, NEW m \in Envelope, Held(m)'
  PROVE  Held(m) \/ (m \in pass.page /\ Persist(m) /\ ~UNCHANGED file)
<1>1. PICK e \in Epochs : file'[e][m.seq] # NoRecord /\ file'[e][m.seq].env = m
  BY DEF Held, Holds
<1>2. m.seq \in Seqs
  BY DEF Envelope
<1>3. CASE file'[e][m.seq] = file[e][m.seq]
  BY <1>1, <1>3 DEF Held, Holds
<1>4. CASE file'[e][m.seq] # file[e][m.seq]
  <2>1. Changes(e, m.seq, file'[e][m.seq])
    BY <1>2, <1>4, FileChange
  <2>2. CASE PersistedAs(e, m.seq, file'[e][m.seq])
    BY <1>1, <1>4, <2>2 DEF PersistedAs
  <2>3. CASE ~PersistedAs(e, m.seq, file'[e][m.seq])
    <3>1. file[e][m.seq] # NoRecord /\ file[e][m.seq].env = m
      <4> DEFINE r == file'[e][m.seq]
      <4>1. r # NoRecord /\ r.env = m /\ Changes(e, m.seq, r)
        BY <1>1, <2>1
      <4>2. ~PersistedAs(e, m.seq, r)
        BY <2>3
      <4> HIDE DEF r
      <4>3. RecoveredAs(e, m.seq, r) \/ ClaimedAs(e, m.seq, r) => file[e][m.seq].env = r.env
        BY DEF RecoveredAs, ClaimedAs
      <4>4. ReleasedAs(e, m.seq, r) \/ SavedAs(e, m.seq, r) => file[e][m.seq].env = r.env
        BY DEF ReleasedAs, SavedAs
      <4>5. Changes(e, m.seq, r) /\ ~PersistedAs(e, m.seq, r) => file[e][m.seq] # NoRecord
        BY DEF Changes, RecoveredAs, ExpiredAs, ClaimedAs, ReleasedAs, SavedAs
      <4>6. ~ExpiredAs(e, m.seq, r)
        BY <4>1 DEF ExpiredAs
      <4> QED
        BY <4>1, <4>2, <4>3, <4>4, <4>5, <4>6 DEF Changes
    <3> QED
      BY <3>1 DEF Held, Holds
  <2> QED
    BY <2>2, <2>3
<1> QED
  BY <1>3, <1>4

\* A receipt that expires was settled.
LEMMA ExpiredStep ==
  ASSUME Base, [Next]_vars, NEW m \in expired', m \notin expired
  PROVE  /\ m \in Envelope /\ Holds(bound, m)
         /\ file[bound][m.seq].status \in Settled
<1>1. \E t \in Seqs : ExpireRecord(t)
  BY DEF Next, vars, Worker, Enqueue, ExpireRow, SavePoint, Restore, Process,
         Start, Crash, ExitOnFatal, Halt, RecoverRecord, RecoverDone,
         ObserveEpoch, Passing, StartPass, PassFails,
         PassStopped, Fetch, Persist, Rotate, Ack, passOnly, Dispatch, Claim,
         Unclaim, Begin, Return, SaveOutcome, jobOnly
<1>2. PICK t \in Seqs : ExpireRecord(t)
  BY <1>1
<1>3. /\ file[bound][t] # NoRecord /\ file[bound][t].status \in Settled
      /\ m = file[bound][t].env
  BY <1>2, ExpireIs
<1>4. InboxTypeOK /\ bound \in Epochs /\ FiledBySeq
  BY DEF Base, TypeOK, ProcessTypeOK
<1>5. m \in Envelope /\ m.seq = t
  BY <1>3, <1>4, FileRecord DEF Record, FiledBySeq
<1> QED
  BY <1>3, <1>5 DEF Holds

\* Received in terms of Held.
LEMMA ReceivedIs == Received = {m \in Envelope : Held(m)} \cup expired
BY DEF Received, Held

\* What a step makes received was in the page.
LEMMA ReceivedStep ==
  ASSUME Base, [Next]_vars
  PROVE  Received' \subseteq Received \cup pass.page
<1> SUFFICES ASSUME NEW m \in Received', m \notin Received
             PROVE  m \in pass.page
  OBVIOUS
<1>1. CASE m \in expired'
  BY <1>1, ExpiredStep DEF Received, Base, TypeOK, ProcessTypeOK
<1>2. CASE m \in Envelope /\ Held(m)'
  BY <1>2, HeldStep DEF Received, Held
<1> QED
  BY <1>1, <1>2 DEF Received, Held

\* A page shrinks, or is the first one of what waits.
LEMMA PageStep ==
  ASSUME Base, [Next]_vars
  PROVE  \/ pass'.page \subseteq pass.page
         \/ Fetch /\ pass'.at = "page" /\ pass'.page = FirstPage(Pending(d1))
<1>0. ProcessTypeOK
  BY DEF Base, TypeOK
<1>1. CASE UNCHANGED <<pass, reconciled>> \/ ObserveEpoch
  BY <1>1 DEF ObserveEpoch
<1>2. CASE Start \/ Halt \/ PassFails \/ PassStopped
  BY <1>0, <1>2, PassIs DEF Start, Halt, PassFails, PassStopped
<1>3. CASE \E m \in announced \cup {NoEnv} : StartPass(m)
  BY <1>0, <1>3, PassIs
<1>4. CASE Fetch
  BY <1>0, <1>4, FetchIs, PassIs
<1>5. ASSUME NEW m \in pass.page, Persist(m) PROVE pass'.page \subseteq pass.page
  BY <1>0, <1>5, PersistPass, PassIs
<1>6. ASSUME NEW lost \in BOOLEAN, Rotate(lost) PROVE pass'.page \subseteq pass.page
  BY <1>0, <1>6, PassIs DEF Rotate
<1>7. ASSUME NEW lost \in BOOLEAN, Ack(lost) PROVE pass'.page \subseteq pass.page
  BY <1>0, <1>7, AckIs
<1> QED
  BY <1>1, <1>2, <1>3, <1>4, <1>5, <1>6, <1>7, PassActions

\* Announcements stay complete and new requests stay new.
LEMMA AnnouncedStep == Base /\ AnnouncedOK /\ [Next]_vars => AnnouncedOK'
<1> SUFFICES ASSUME Base, AnnouncedOK, [Next]_vars PROVE AnnouncedOK'
  OBVIOUS
<1>0. /\ CloudTypeOK /\ restores \in Nat /\ d1.lastSeq \in Nat
      /\ announced \subseteq Envelope
  BY BoundsAssumption DEF Base, TypeOK, CloudTypeOK, Database
<1>1. ASSUME announced \subseteq announced'
      PROVE  pass'.page \subseteq announced' /\ Received' \subseteq announced'
  <2>1. FirstPage(Pending(d1)) \subseteq announced
    BY FirstPageSubset DEF AnnouncedOK, Pending
  <2> QED
    BY <1>1, <2>1, PageStep, ReceivedStep DEF AnnouncedOK
<1>2. ASSUME UNCHANGED <<savepoint, restores, announced>>,
             d1'.rows \subseteq d1.rows, d1'.lastSeq = d1.lastSeq
      PROVE  AnnouncedOK'
  BY <1>1, <1>2 DEF AnnouncedOK
<1>3. CASE UNCHANGED <<d1, savepoint, restores, announced>>
  BY <1>2, <1>3
<1>4. ASSUME NEW k \in Keys, Enqueue(k) PROVE AnnouncedOK'
  <2>1. PICK m \in Envelope :
           /\ m \notin announced /\ m.seq = d1.lastSeq + 1 /\ m.era = restores
           /\ announced' = announced \cup {m}
           /\ d1'.rows = d1.rows \cup {m} /\ d1'.lastSeq = d1.lastSeq + 1
           /\ UNCHANGED <<savepoint, restores>>
    BY <1>4, EnqueueIs
  <2>2. ASSUME NEW n \in announced'
        PROVE  n.era <= restores' /\ (n.era = restores' => n.seq <= d1'.lastSeq)
    <3>1. CASE n = m
      BY <1>0, <2>1, <3>1
    <3>2. CASE n \in announced
      <4>1. n.seq \in Nat
        BY <1>0, <3>2 DEF Envelope, Seqs
      <4> QED
        BY <1>0, <2>1, <3>2, <4>1 DEF AnnouncedOK
    <3> QED
      BY <2>1, <3>1, <3>2
  <2> QED
    BY <1>1, <2>1, <2>2 DEF AnnouncedOK
<1>5. ASSUME NEW m \in Envelope, ExpireRow(m) PROVE AnnouncedOK'
  BY <1>0, <1>2, <1>5 DEF ExpireRow, CloudTypeOK, Database
<1>6. CASE SavePoint
  BY <1>1, <1>6 DEF SavePoint, AnnouncedOK
<1>7. CASE Restore
  <2>1. ASSUME NEW n \in announced'
        PROVE  n.era <= restores' /\ (n.era = restores' => n.seq <= d1'.lastSeq)
    <3>1. n.era \in Nat /\ n.era <= restores /\ restores' = restores + 1
      BY <1>0, <1>7, <2>1, BoundsAssumption DEF Restore, Envelope, AnnouncedOK
    <3> QED
      BY <1>0, <3>1
  <2> QED
    BY <1>1, <1>7, <2>1 DEF Restore, AnnouncedOK
<1>8. ASSUME NEW lost \in BOOLEAN, Rotate(lost) PROVE AnnouncedOK'
  BY <1>0, <1>2, <1>8 DEF Rotate, CloudTypeOK, Database
<1>9. ASSUME NEW lost \in BOOLEAN, Ack(lost) PROVE AnnouncedOK'
  <2>1. ProcessTypeOK
    BY DEF Base, TypeOK
  <2> QED
    BY <1>0, <1>2, <1>9, <2>1, AckIs, AcknowledgedIs
<1> QED
  BY <1>3, <1>4, <1>5, <1>6, <1>7, <1>8, <1>9, CloudActions

\* Initially the desktop holds nothing.
LEMMA NothingReceived == Init => Received = {} /\ \A m \in Envelope : ~Held(m)
<1> SUFFICES ASSUME Init PROVE \A m \in Envelope, e \in Epochs : ~Holds(e, m)
  BY DEF Init, Received, Held
<1>1. \A e \in Epochs, s \in Seqs : file[e][s] = NoRecord
  BY DEF Init
<1> QED
  BY <1>1 DEF Holds, Envelope

LEMMA AnnouncedInit == Init => AnnouncedOK
<1> SUFFICES ASSUME Init PROVE AnnouncedOK
  OBVIOUS
<1>1. d1.rows = {} /\ savepoint.rows = {} /\ announced = {} /\ pass.page = {}
  BY DEF Init, Idle
<1> QED
  BY <1>1, NothingReceived DEF AnnouncedOK
-----------------------------------------------------------------------------
(* Without a restore: what waits in D1 has not been dispatched.            *)

\* What waits in D1 while nothing was restored: of the requests that are
\* durable, those that still wait are in the page under way, if that page took
\* everything that waited, and there is none when a pass has succeeded.
WaitingOK ==
  /\ reconciled => pass.at = "idle"
  /\ restores = 0 =>
       /\ IsFiniteSet(d1.rows)
       /\ pass.page \subseteq Pending(d1)
       /\ pass.at = "page" /\ Cardinality(pass.page) < PageSize =>
            \A m \in Pending(d1) : Held(m) => m \in pass.page
       /\ reconciled => \A m \in Pending(d1) : ~Held(m)

\* A step that does not restore adds at most a new request to what waits, and
\* takes away what an ACK marks.
PendingMoves ==
  /\ restores' = restores
  /\ IsFiniteSet(d1.rows) => IsFiniteSet(d1'.rows)
  /\ \A m \in Pending(d1)' :
       \/ m \in Pending(d1)
       \/ m \notin announced /\ UNCHANGED <<file, processVars, expired>>
  /\ (\A lost \in BOOLEAN : ~Ack(lost)) => Pending(d1) \subseteq Pending(d1)'

LEMMA PendingStep ==
  ASSUME Base, AnnouncedOK, [Next]_vars, ~Restore
  PROVE  PendingMoves
<1>0. CloudTypeOK
  BY DEF Base, TypeOK
<1>1. ASSUME restores' = restores, d1'.rows = d1.rows, d1'.acked = d1.acked
      PROVE  PendingMoves
  BY <1>1 DEF Pending, PendingMoves
<1>2. ASSUME NEW k \in Keys, Enqueue(k) PROVE PendingMoves
  <2>1. PICK m \in Envelope :
           /\ m \notin announced
           /\ d1'.rows = d1.rows \cup {m}
           /\ Pending(d1)' = Pending(d1) \cup {m}
           /\ UNCHANGED <<restores, file, processVars, expired>>
    BY <1>2, EnqueueIs
  <2>2. IsFiniteSet(d1.rows) => IsFiniteSet(d1'.rows)
    BY <2>1, FS_AddElement
  <2> QED
    BY <2>1, <2>2 DEF PendingMoves
<1>3. ASSUME NEW m \in Envelope, ExpireRow(m) PROVE PendingMoves
  <2>1. /\ d1'.rows = d1.rows \ {m} /\ d1'.acked = d1.acked \ {m}
        /\ m \in d1.acked /\ restores' = restores
    BY <1>0, <1>3 DEF ExpireRow, CloudTypeOK, Database
  <2>2. IsFiniteSet(d1.rows) => IsFiniteSet(d1'.rows)
    BY <2>1, FS_Subset
  <2>3. Pending(d1)' = Pending(d1)
    BY <2>1 DEF Pending
  <2> QED
    BY <2>1, <2>2, <2>3 DEF PendingMoves
<1>4. CASE SavePoint \/ UNCHANGED <<d1, savepoint, restores, announced>>
  BY <1>1, <1>4 DEF SavePoint
<1>5. ASSUME NEW lost \in BOOLEAN, Rotate(lost) PROVE PendingMoves
  BY <1>0, <1>1, <1>5 DEF Rotate, CloudTypeOK, Database
<1>6. ASSUME NEW lost \in BOOLEAN, Ack(lost) PROVE PendingMoves
  <2>1. ProcessTypeOK
    BY DEF Base, TypeOK
  <2>2. restores' = restores /\ (d1' = d1 \/ d1' = Acknowledged(pass.page))
    BY <1>6, <2>1, AckIs
  <2>3. CASE d1' = Acknowledged(pass.page)
    <3>1. d1'.rows = d1.rows /\ Pending(d1)' \subseteq Pending(d1)
      BY <1>0, <2>3, AcknowledgedIs
    <3> QED
      BY <1>6, <2>2, <3>1 DEF PendingMoves
  <2> QED
    BY <1>1, <2>2, <2>3
<1> QED
  BY <1>2, <1>3, <1>4, <1>5, <1>6, CloudActions

LEMMA WaitingInit == Init => WaitingOK
<1> SUFFICES ASSUME Init PROVE WaitingOK
  OBVIOUS
<1>1. d1.rows = {} /\ pass.page = {} /\ pass.at = "idle" /\ ~reconciled
  BY DEF Init, Idle
<1> QED
  BY <1>1, FS_EmptySet DEF WaitingOK

\* Of what waits after a step, what is durable was so before or is persisted.
LEMMA WaitingHeld ==
  ASSUME Base, AnnouncedOK, [Next]_vars, ~Restore,
         NEW m \in Pending(d1)', Held(m)'
  PROVE  /\ m \in Pending(d1)
         /\ Held(m) \/ (m \in pass.page /\ Persist(m) /\ ~UNCHANGED file)
<1>1. m \in Envelope
  <2>1. CloudTypeOK'
    BY BaseStep DEF Base, TypeOK
  <2> QED
    BY <2>1 DEF CloudTypeOK, Database, Pending
<1>2. m \in Pending(d1) \/ (m \notin announced /\ UNCHANGED <<file, processVars, expired>>)
  BY PendingStep DEF PendingMoves
<1>3. Held(m) => m \in announced
  BY <1>1 DEF AnnouncedOK, Received, Held
<1>4. Held(m) \/ (m \in pass.page /\ Persist(m) /\ ~UNCHANGED file)
  BY <1>1, HeldStep
<1> QED
  BY <1>2, <1>3, <1>4

\* A pass succeeds by an empty page or an ACK, and keeps its success while idle.
LEMMA ReconciledStep ==
  ASSUME Base, WaitingOK, [Next]_vars, reconciled'
  PROVE  /\ pass'.at = "idle"
         /\ \/ UNCHANGED <<pass, reconciled>>
            \/ Fetch /\ FirstPage(Pending(d1)) = {}
            \/ \E lost \in BOOLEAN : Ack(lost)
<1>0. ProcessTypeOK /\ (reconciled => pass.at = "idle")
  BY DEF Base, TypeOK, WaitingOK
<1> DEFINE Goal == /\ pass'.at = "idle"
                   /\ \/ UNCHANGED <<pass, reconciled>>
                      \/ Fetch /\ FirstPage(Pending(d1)) = {}
                      \/ \E lost \in BOOLEAN : Ack(lost)
<1>1. CASE UNCHANGED <<pass, reconciled>>
  BY <1>0, <1>1
<1>2. ~(Start \/ Halt \/ PassFails \/ PassStopped \/ ObserveEpoch)
  BY DEF Start, Halt, PassFails, PassStopped, ObserveEpoch, EndPass
<1>3. \A m : ~StartPass(m)
  BY DEF StartPass
<1>4. ASSUME Fetch PROVE Goal
  <2>1. pass.at = "fetch"
    BY <1>4 DEF Fetch
  <2> QED
    BY <1>0, <1>4, <2>1, FetchIs, PassIs
<1>5. ASSUME NEW m \in pass.page, Persist(m) PROVE FALSE
  <2>1. pass.at = "page"
    BY <1>5 DEF Persist
  <2> QED
    BY <1>0, <1>5, <2>1, PersistPass
<1>6. ASSUME NEW lost \in BOOLEAN, Rotate(lost) PROVE FALSE
  BY <1>6 DEF Rotate, EndPass
<1>7. ASSUME NEW lost \in BOOLEAN, Ack(lost) PROVE Goal
  <2>1. pass.at = "page" /\ (pass'.at # "idle" => UNCHANGED reconciled)
    BY <1>0, <1>7, AckIs
  <2> QED
    BY <1>0, <1>7, <2>1
<1> QED
  BY <1>1, <1>2, <1>3, <1>4, <1>5, <1>6, <1>7, PassActions

\* Each conjunct of WaitingOK, by the actions that write the pass.
LEMMA WaitingStep ==
  Base /\ AnnouncedOK /\ WaitingOK /\ [Next]_vars => WaitingOK'
<1> SUFFICES ASSUME Base, AnnouncedOK, WaitingOK, [Next]_vars PROVE WaitingOK'
  OBVIOUS
<1>0. ProcessTypeOK /\ CloudTypeOK
  BY DEF Base, TypeOK
<1>1. reconciled' => pass'.at = "idle"
  BY ReconciledStep
<1> SUFFICES ASSUME restores' = 0
             PROVE  /\ IsFiniteSet(d1'.rows)
                    /\ pass'.page \subseteq Pending(d1)'
                    /\ pass'.at = "page" /\ Cardinality(pass'.page) < PageSize =>
                         \A m \in Pending(d1)' : Held(m)' => m \in pass'.page
                    /\ reconciled' => \A m \in Pending(d1)' : ~Held(m)'
  BY <1>1 DEF WaitingOK
<1>2. ~Restore
  BY <1>0, BoundsAssumption DEF Restore, CloudTypeOK
<1>3. PendingMoves
  BY <1>2, PendingStep
<1>4. /\ restores = 0 /\ IsFiniteSet(d1.rows) /\ pass.page \subseteq Pending(d1)
      /\ pass.at = "page" /\ Cardinality(pass.page) < PageSize =>
           \A m \in Pending(d1) : Held(m) => m \in pass.page
      /\ reconciled => \A m \in Pending(d1) : ~Held(m)
  BY <1>3 DEF PendingMoves, WaitingOK
<1>5. IsFiniteSet(d1'.rows)
  BY <1>3, <1>4 DEF PendingMoves
<1>6. pass'.page \subseteq Pending(d1)'
  <2>1. CASE Fetch /\ pass'.page = FirstPage(Pending(d1))
    <3>1. d1' = d1
      BY <1>0, <2>1, FetchIs
    <3> QED
      BY <2>1, <3>1, FirstPageSubset DEF Pending
  <2>2. CASE pass'.page \subseteq pass.page
    <3>1. CASE \E lost \in BOOLEAN : Ack(lost)
      BY <1>0, <3>1, AckIs
    <3>2. CASE \A lost \in BOOLEAN : ~Ack(lost)
      BY <1>3, <1>4, <2>2, <3>2 DEF PendingMoves
    <3> QED
      BY <3>1, <3>2
  <2> QED
    BY <2>1, <2>2, PageStep
<1>7. ASSUME pass'.at = "page", Cardinality(pass'.page) < PageSize,
             NEW m \in Pending(d1)', Held(m)'
      PROVE  m \in pass'.page
  <2>1. /\ m \in Pending(d1)
        /\ Held(m) \/ (m \in pass.page /\ Persist(m) /\ ~UNCHANGED file)
    BY <1>2, <1>7, WaitingHeld
  <2>2. ASSUME pass'.at = pass.at, pass'.page = pass.page PROVE m \in pass'.page
    BY <1>4, <1>7, <2>1, <2>2
  <2>3. CASE UNCHANGED <<pass, reconciled>> \/ ObserveEpoch
    BY <2>2, <2>3 DEF ObserveEpoch
  <2>4. ~(Start \/ Halt \/ PassFails \/ PassStopped)
    BY <1>0, <1>7, PassIs DEF Start, Halt, PassFails, PassStopped
  <2>5. \A n : ~StartPass(n)
    BY <1>0, <1>7, PassIs
  <2>6. CASE Fetch
    <3>1. pass'.page = FirstPage(Pending(d1))
      BY <1>0, <1>7, <2>6, FetchIs, PassIs
    <3>2. \A n \in Pending(d1) : n.seq \in Nat
      BY <1>0 DEF Pending, CloudTypeOK, Database, Envelope, Seqs
    <3>3. IsFiniteSet(Pending(d1))
      BY <1>4, FS_Subset DEF Pending
    <3> QED
      BY <1>7, <2>1, <3>1, <3>2, <3>3, ShortPageIsWhole
  <2>7. ASSUME NEW n \in pass.page, Persist(n) PROVE m \in pass'.page
    BY <1>0, <1>7, <2>2, <2>7, PersistPass, PassIs DEF Persist
  <2>8. ASSUME NEW lost \in BOOLEAN, Rotate(lost) \/ Ack(lost) PROVE FALSE
    BY <1>0, <1>7, <2>8, AckIs, PassIs DEF Rotate
  <2> QED
    BY <2>3, <2>4, <2>5, <2>6, <2>7, <2>8, PassActions
<1>8. ASSUME reconciled', NEW m \in Pending(d1)', Held(m)'
      PROVE  FALSE
  <2>1. /\ m \in Pending(d1)
        /\ Held(m) \/ (m \in pass.page /\ Persist(m) /\ ~UNCHANGED file)
    BY <1>2, <1>8, WaitingHeld
  <2>2. ASSUME UNCHANGED <<pass, reconciled>> PROVE FALSE
    BY <1>4, <1>8, <2>1, <2>2 DEF Persist, WaitingOK
  <2>3. ASSUME Fetch, FirstPage(Pending(d1)) = {} PROVE FALSE
    <3>1. \A n \in Pending(d1) : n.seq \in Nat
      BY <1>0 DEF Pending, CloudTypeOK, Database, Envelope, Seqs
    <3>2. IsFiniteSet(Pending(d1))
      BY <1>4, FS_Subset DEF Pending
    <3>3. Cardinality(FirstPage(Pending(d1))) < PageSize
      BY <2>3, FS_EmptySet, BoundsAssumption
    <3> QED
      BY <2>1, <2>3, <3>1, <3>2, <3>3, ShortPageIsWhole
  <2>4. ASSUME NEW lost \in BOOLEAN, Ack(lost) PROVE FALSE
    <3>1. /\ pass.at = "page" /\ Cardinality(pass.page) < PageSize
          /\ d1' = Acknowledged(pass.page) /\ UNCHANGED file
      BY <1>0, <1>1, <1>8, <2>4, AckIs
    <3>2. m \notin pass.page
      BY <1>0, <1>8, <3>1, AcknowledgedIs
    <3> QED
      BY <1>4, <2>1, <3>1, <3>2
  <2> QED
    BY <1>8, <2>2, <2>3, <2>4, ReconciledStep
<1> QED
  BY <1>5, <1>6, <1>7, <1>8

\* Nothing that waits has been dispatched: only a step of the dispatcher gives
\* a record another status than Pending, and it needs a pass that succeeded.
LEMMA SettledStep ==
  Base /\ AnnouncedOK /\ WaitingOK /\ SettledIsNotPending /\ [Next]_vars
    => SettledIsNotPending'
<1> SUFFICES ASSUME Base, AnnouncedOK, WaitingOK, SettledIsNotPending, [Next]_vars,
                    restores' = 0, NEW m \in Pending(d1)'
             PROVE  /\ m \notin expired'
                    /\ \A e \in Epochs : Holds(e, m)' =>
                         file'[e][m.seq].status = "Pending"
  BY DEF SettledIsNotPending
<1>0. CloudTypeOK /\ CloudTypeOK' /\ ProcessTypeOK
  BY BaseStep DEF Base, TypeOK
<1>1. ~Restore
  BY <1>0, BoundsAssumption DEF Restore, CloudTypeOK
<1>2. PendingMoves
  BY <1>1, PendingStep
<1>3. m \in Envelope /\ m.seq \in Seqs /\ restores = 0
  BY <1>0, <1>2 DEF CloudTypeOK, Database, Pending, Envelope, PendingMoves
<1>4. CASE m \notin Pending(d1)
  <2>1. m \notin announced /\ UNCHANGED <<file, expired>>
    BY <1>2, <1>4 DEF PendingMoves
  <2>2. m \notin expired /\ \A e \in Epochs : ~Holds(e, m)
    BY <1>3, <2>1 DEF AnnouncedOK, Received
  <2> QED
    BY <2>1, <2>2 DEF Holds
<1>5. CASE m \in Pending(d1)
  <2>0. m \notin expired /\ \A e \in Epochs : Holds(e, m) =>
                              file[e][m.seq].status = "Pending"
    BY <1>3, <1>5 DEF SettledIsNotPending
  <2>1. m \notin expired'
    BY <1>0, <2>0, ExpiredStep DEF ProcessTypeOK, Settled
  <2>2. ASSUME NEW e \in Epochs, Holds(e, m)'
        PROVE  file'[e][m.seq].status = "Pending"
    <3> DEFINE s == m.seq
               r == file'[e][s]
    <3>1. CASE r = file[e][s]
      BY <2>0, <2>2, <3>1 DEF Holds
    <3>2. CASE r # file[e][s]
      <4>1. Changes(e, s, r)
        BY <1>3, <3>2, FileChange
      <4>2. r # NoRecord /\ r.env = m
        BY <2>2 DEF Holds
      <4> SUFFICES r.status = "Pending"
        OBVIOUS
      <4> HIDE DEF r
      <4>3. CASE PersistedAs(e, s, r)
        BY <4>3 DEF PersistedAs
      <4>4. ASSUME file[e][s] # NoRecord, file[e][s].env = r.env,
                   file[e][s].status \notin Listed
            PROVE  FALSE
        BY <2>0, <4>2, <4>4 DEF Holds, Listed
      <4>5. CASE RecoveredAs(e, s, r)
        <5>1. file[e][s].env = r.env
          BY <4>5 DEF RecoveredAs
        <5> QED
          BY <4>4, <4>5, <5>1 DEF RecoveredAs, Listed
      <4>6. CASE ExpiredAs(e, s, r)
        BY <4>2, <4>6 DEF ExpiredAs
      <4>7. CASE ClaimedAs(e, s, r)
        <5>1. file[e][s].env = r.env /\ file[e][s] # NoRecord /\ reconciled
          BY <4>7 DEF ClaimedAs, Claim, MayDispatch
        <5>2. Holds(e, m)
          BY <4>2, <5>1 DEF Holds
        <5> QED
          BY <1>3, <1>5, <5>1, <5>2 DEF WaitingOK, Held
      <4>8. CASE ReleasedAs(e, s, r)
        BY <4>8 DEF ReleasedAs
      <4>9. CASE SavedAs(e, s, r)
        <5>1. file[e][s].env = r.env
          BY <4>9 DEF SavedAs
        <5> QED
          BY <4>4, <4>9, <5>1 DEF SavedAs, Listed
      <4> QED
        BY <4>1, <4>3, <4>5, <4>6, <4>7, <4>8, <4>9 DEF Changes
    <3> QED
      BY <3>1, <3>2
  <2> QED
    BY <2>1, <2>2
<1> QED
  BY <1>4, <1>5
-----------------------------------------------------------------------------
(* A command that began is not queued again.                               *)

\* The record of a request that began: it is settled, or the dispatch that
\* began it has not returned an error, or nobody has recovered it yet.
Begun(e, m) ==
  LET r == file[e][m.seq]  j == job["telegram"]
  IN  \/ r.status \in Settled
      \/ /\ r.status = "Processing"
         /\ e = bound /\ alive /\ recovered =>
              /\ j.phase \in {"running", "done"} /\ j.env = m
              /\ j.phase = "done" => j.outcome \in Settled

\* What ran is durable, or its receipt expired; and it has begun.
RanOK ==
  \A e \in Epochs, m \in Envelope : <<e, m>> \in ran =>
    /\ Holds(e, m) \/ m \in expired
    /\ Class(m) = "telegram" /\ Remembered(m) /\ Holds(e, m) => Begun(e, m)

LEMMA RanInit == Init => RanOK
BY DEF Init, RanOK

\* What ran stays durable until its receipt expires.
LEMMA RanHeld ==
  ASSUME Base, RanOK, [Next]_vars, NEW e \in Epochs, NEW m \in Envelope,
         <<e, m>> \in ran
  PROVE  (Holds(e, m) \/ m \in expired)'
<1>1. expired \subseteq expired'
  BY DEF Next, vars, Worker, Enqueue, ExpireRow, SavePoint, Restore, Process,
         Start, Crash, ExitOnFatal, Halt, RecoverRecord, RecoverDone,
         ExpireRecord, ObserveEpoch, Passing, StartPass, PassFails,
         PassStopped, Fetch, Persist, Rotate, Ack, passOnly, Dispatch, Claim,
         Unclaim, Begin, Return, SaveOutcome, jobOnly
<1>2. CASE Holds(e, m)
  <2>1. m.seq \in Seqs /\ file[e][m.seq] # NoRecord /\ file[e][m.seq].env = m
    BY <1>2 DEF Envelope, Holds
  <2>2. \/ file'[e][m.seq] = file[e][m.seq]
        \/ file'[e][m.seq] # NoRecord /\ file'[e][m.seq].env = m
        \/ m \in expired'
    BY <2>1, FileStep DEF Kept, Written, Moved, Dropped
  <2> QED
    BY <2>1, <2>2 DEF Holds
<1> QED
  BY <1>1, <1>2 DEF RanOK

\* The actions that write the process or the Telegram dispatch.
LEMMA JobActions ==
  ASSUME Base, [Next]_vars
  PROVE  \/ UNCHANGED <<alive, bound, recovered>> /\ job'["telegram"] = job["telegram"]
         \/ ~alive' \/ ~recovered' \/ RecoverDone
         \/ \E s \in Seqs : Claim(s) /\ job["telegram"] = NoJob
         \/ /\ UNCHANGED <<alive, bound, recovered>>
            /\ \/ Unclaim("telegram") \/ Begin("telegram") \/ SaveOutcome("telegram")
               \/ \E outcome \in Outcome : Return("telegram", outcome)
<1>0. ProcessTypeOK
  BY DEF Base, TypeOK
<1> DEFINE Goal ==
         \/ UNCHANGED <<alive, bound, recovered>> /\ job'["telegram"] = job["telegram"]
         \/ ~alive' \/ ~recovered' \/ RecoverDone
         \/ \E s \in Seqs : Claim(s) /\ job["telegram"] = NoJob
         \/ /\ UNCHANGED <<alive, bound, recovered>>
            /\ \/ Unclaim("telegram") \/ Begin("telegram") \/ SaveOutcome("telegram")
               \/ \E outcome \in Outcome : Return("telegram", outcome)
<1>1. CASE Start \/ Halt \/ RecoverDone
  BY <1>1 DEF Start, Halt
<1>2. CASE UNCHANGED <<alive, bound, recovered, job>>
  BY <1>2
<1>3. ASSUME NEW s \in Seqs, Claim(s) PROVE Goal
  <2>1. CASE Class(file[bound][s].env) = "telegram"
    BY <1>3, <2>1, ClaimIs
  <2>2. CASE Class(file[bound][s].env) # "telegram"
    <3>1. job'["telegram"] = job["telegram"]
      BY <1>3, <2>2, ClaimIs DEF Classes
    <3> QED
      BY <1>3, <3>1 DEF Claim
  <2> QED
    BY <2>1, <2>2
<1>4. ASSUME NEW c \in Classes,
             \/ Unclaim(c) \/ Begin(c) \/ SaveOutcome(c)
             \/ \E outcome \in Outcome : Return(c, outcome)
      PROVE  Goal
  <2>1. UNCHANGED <<alive, bound, recovered>>
    BY <1>4 DEF Unclaim, Begin, SaveOutcome, Return, jobOnly
  <2>2. CASE c # "telegram"
    <3>1. job'["telegram"] = job["telegram"]
      BY <1>0, <1>4, <2>2 DEF Unclaim, Begin, SaveOutcome, Return, ProcessTypeOK, Classes
    <3> QED
      BY <2>1, <3>1
  <2>3. CASE c = "telegram"
    BY <1>4, <2>1, <2>3
  <2> QED
    BY <2>2, <2>3
<1> HIDE DEF Goal
<1>5. \/ UNCHANGED <<alive, bound, recovered, job>>
      \/ Start \/ Halt \/ RecoverDone
      \/ \E s \in Seqs : Claim(s)
      \/ \E c \in Classes : \/ Unclaim(c) \/ Begin(c) \/ SaveOutcome(c)
                            \/ \E outcome \in Outcome : Return(c, outcome)
  BY DEF Next, vars, processVars, Worker, Enqueue, ExpireRow, SavePoint, Restore,
         Process, Crash, ExitOnFatal, RecoverRecord, ExpireRecord,
         ObserveEpoch, Passing, StartPass, PassFails, PassStopped, Fetch,
         Persist, Rotate, Ack, passOnly, Dispatch
<1>6. Goal
  <2>1. CASE UNCHANGED <<alive, bound, recovered, job>> \/ Start \/ Halt \/ RecoverDone
    BY <1>1, <1>2, <2>1 DEF Goal
  <2>2. CASE \E s \in Seqs : Claim(s)
    BY <1>3, <2>2
  <2>3. CASE \E c \in Classes : \/ Unclaim(c) \/ Begin(c) \/ SaveOutcome(c)
                                \/ \E outcome \in Outcome : Return(c, outcome)
    BY <1>4, <2>3
  <2> QED
    BY <1>5, <2>1, <2>2, <2>3
<1> QED
  BY <1>6 DEF Goal

\* A step that leaves the record of a begun command leaves it begun.
LEMMA BegunKept ==
  ASSUME Base, [Next]_vars, NEW e \in Epochs, NEW m \in Envelope,
         Class(m) = "telegram", Holds(e, m), Begun(e, m), <<e, m>> \in ran',
         file'[e][m.seq] = file[e][m.seq]
  PROVE  Begun(e, m)'
<1>0. ProcessTypeOK /\ "telegram" \in Classes /\ m.seq \in Seqs
  BY DEF Base, TypeOK, Classes, Envelope
<1> DEFINE j == job["telegram"]
           n == job'["telegram"]
<1>1. CASE file[e][m.seq].status \in Settled
  BY <1>1 DEF Begun
<1>2. CASE file[e][m.seq].status \notin Settled
  <2>1. /\ file[e][m.seq].status = "Processing"
        /\ e = bound /\ alive /\ recovered =>
             /\ j.phase \in {"running", "done"} /\ j.env = m
             /\ j.phase = "done" => j.outcome \in Settled
    BY <1>2 DEF Begun
  <2> SUFFICES ASSUME e = bound', alive', recovered'
               PROVE  /\ n.phase \in {"running", "done"} /\ n.env = m
                      /\ n.phase = "done" => n.outcome \in Settled
    BY <2>1 DEF Begun
  <2>2. CASE UNCHANGED <<alive, bound, recovered>> /\ n = j
    BY <2>1, <2>2
  <2>3. ASSUME RecoverDone PROVE FALSE
    BY <1>0, <2>1, <2>3 DEF RecoverDone
  <2>4. ASSUME NEW s \in Seqs, Claim(s), j = NoJob PROVE FALSE
    BY <2>1, <2>4 DEF Claim, MayDispatch, NoJob
  <2>5. ASSUME UNCHANGED <<alive, bound, recovered>>, Unclaim("telegram") \/ Begin("telegram")
        PROVE  FALSE
    BY <2>1, <2>5 DEF Unclaim, Begin
  <2>6. ASSUME UNCHANGED <<alive, bound, recovered>>, SaveOutcome("telegram")
        PROVE  FALSE
    <3>1. j.phase = "done" /\ j.outcome \in Settled /\ j.env = m
      BY <2>1, <2>6 DEF SaveOutcome
    <3>2. file'[bound][m.seq] = [env |-> m, status |-> j.outcome]
      BY <1>0, <2>6, <3>1, SaveIs DEF Becomes
    <3> QED
      BY <1>2, <2>6, <3>1, <3>2
  <2>7. ASSUME NEW outcome \in Outcome, UNCHANGED <<alive, bound, recovered>>,
               Return("telegram", outcome)
        PROVE  /\ n.phase \in {"running", "done"} /\ n.env = m
               /\ n.phase = "done" => n.outcome \in Settled
    <3>1. j.env = m /\ j.phase = "running"
      BY <2>1, <2>7 DEF Return
    <3>2. outcome # "Retryable"
      BY <2>7, <3>1 DEF Return
    <3>3. outcome \in Settled
      BY <3>2 DEF Outcome, Settled
    <3>4. j \in Job
      BY <1>0, <3>1, JobType DEF Return
    <3>5. n.phase = "done" /\ n.outcome = outcome /\ n.env = m
      BY <1>0, <2>7, <3>1, <3>4 DEF Return, ProcessTypeOK, Job
    <3> QED
      BY <3>3, <3>5
  <2> QED
    BY <2>2, <2>3, <2>4, <2>5, <2>6, <2>7, JobActions
<1> QED
  BY <1>1, <1>2

\* The dispatch of a begun command is past its claim.
LEMMA BegunDispatch ==
  ASSUME Base, NEW c \in Classes, NEW m \in Envelope, job[c].phase # "none",
         job[c].env = m, Class(m) = "telegram", Begun(bound, m)
  PROVE  /\ c = "telegram" /\ job[c].phase \in {"running", "done"}
         /\ job[c].phase = "done" => job[c].outcome \in Settled
<1>1. /\ alive /\ recovered /\ Class(job[c].env) = c
      /\ file[bound][m.seq].status = "Processing"
  BY DispatchIs
<1> QED
  BY <1>1 DEF Begun, Settled

\* A step that writes the record of a begun command settles it.
LEMMA BegunChanged ==
  ASSUME Base, [Next]_vars, NEW e \in Epochs, NEW m \in Envelope,
         Class(m) = "telegram", Holds(e, m), Begun(e, m), Holds(e, m)',
         file'[e][m.seq] # file[e][m.seq]
  PROVE  Begun(e, m)'
<1> DEFINE s == m.seq
           r == file'[e][s]
<1>1. Changes(e, s, r) /\ s \in Seqs /\ r # NoRecord /\ r.env = m
  BY FileChange DEF Envelope, Holds
<1>2. file[e][s].env = m /\ file[e][s] # NoRecord
  BY DEF Holds
<1>3. file[e][s].status \notin Listed
  BY DEF Begun, Settled, Listed
<1> SUFFICES r.status \in Settled
  BY DEF Begun
<1> HIDE DEF r
<1>4. ~PersistedAs(e, s, r) /\ ~ExpiredAs(e, s, r) /\ ~ClaimedAs(e, s, r)
  BY <1>1, <1>2, <1>3 DEF PersistedAs, ExpiredAs, ClaimedAs
<1>5. CASE RecoveredAs(e, s, r)
  <2>1. r.status = RecoveredStatus(m)
    BY <1>2, <1>5 DEF RecoveredAs
  <2> QED
    BY <2>1 DEF RecoveredStatus, Settled
<1>6. CASE ReleasedAs(e, s, r)
  <2>1. PICK c \in Classes : Unclaim(c) /\ job[c].env = m
    BY <1>2, <1>6 DEF ReleasedAs
  <2>2. e = bound /\ job[c].phase = "claimed"
    BY <1>6, <2>1 DEF ReleasedAs, Unclaim
  <2> QED
    BY <2>1, <2>2, BegunDispatch
<1>7. CASE SavedAs(e, s, r)
  <2>1. PICK c \in Classes : /\ SaveOutcome(c) /\ job[c].env = m
                             /\ r.status = job[c].outcome
    BY <1>2, <1>7 DEF SavedAs
  <2>2. e = bound /\ job[c].phase = "done"
    BY <1>7, <2>1 DEF SavedAs, SaveOutcome
  <2> QED
    BY <2>1, <2>2, BegunDispatch
<1> QED
  BY <1>1, <1>4, <1>5, <1>6, <1>7 DEF Changes

\* A restore is never undone.
LEMMA RestoresGrow ==
  ASSUME Base, AnnouncedOK, [Next]_vars, restores' = 0
  PROVE  restores = 0 /\ ~Restore
<1>1. restores \in Nat
  BY BoundsAssumption DEF Base, TypeOK, CloudTypeOK
<1>2. ~Restore
  BY <1>1 DEF Restore
<1> QED
  BY <1>2, PendingStep DEF PendingMoves

\* Each action keeps RanOK.
LEMMA RanStep ==
  Base /\ AnnouncedOK /\ WaitingOK /\ SettledIsNotPending /\ RanOK /\ [Next]_vars
    => RanOK'
<1> SUFFICES ASSUME Base, AnnouncedOK, WaitingOK, SettledIsNotPending, RanOK,
                    [Next]_vars, NEW e \in Epochs, NEW m \in Envelope,
                    <<e, m>> \in ran'
             PROVE  /\ (Holds(e, m) \/ m \in expired)'
                    /\ Class(m) = "telegram" /\ Remembered(m)' /\ Holds(e, m)'
                         => Begun(e, m)'
  BY DEF RanOK
<1>1. CASE <<e, m>> \in ran
  <2>1. (Holds(e, m) \/ m \in expired)'
    BY <1>1, RanHeld
  <2>2. ASSUME Class(m) = "telegram", Remembered(m)', Holds(e, m)'
        PROVE  Begun(e, m)'
    <3>1. Remembered(m)
      <4>1. m \in expired => m \in expired'
        BY DEF Next, vars, Worker, Enqueue, ExpireRow, SavePoint, Restore, Process,
           Start, Crash, ExitOnFatal, Halt, RecoverRecord, RecoverDone,
           ExpireRecord, ObserveEpoch, Passing, StartPass, PassFails,
           PassStopped, Fetch, Persist, Rotate, Ack, passOnly, Dispatch, Claim,
           Unclaim, Begin, Return, SaveOutcome, jobOnly
      <4> QED
        BY <2>2, <4>1, RestoresGrow DEF Remembered
    <3>2. CASE Holds(e, m)
      <4>1. Begun(e, m)
        BY <1>1, <2>2, <3>1, <3>2 DEF RanOK
      <4> QED
        BY <2>2, <3>2, <4>1, BegunKept, BegunChanged
    <3>3. CASE ~Holds(e, m)
      <4>1. m \in expired /\ restores = 0
        BY <1>1, <3>1, <3>3 DEF RanOK, Remembered
      <4>2. file'[e][m.seq] # file[e][m.seq] /\ m.seq \in Seqs
        BY <2>2, <3>3 DEF Holds, Envelope
      <4> DEFINE r == file'[e][m.seq]
      <4>3. Changes(e, m.seq, r) /\ r # NoRecord /\ r.env = m
        BY <2>2, <4>2, FileChange DEF Holds
      <4> HIDE DEF r
      <4>4. ~(file[e][m.seq] # NoRecord /\ file[e][m.seq].env = r.env)
        BY <3>3, <4>3 DEF Holds
      <4>5. ~RecoveredAs(e, m.seq, r) /\ ~ClaimedAs(e, m.seq, r)
        BY <4>4 DEF RecoveredAs, ClaimedAs
      <4>6. ~ReleasedAs(e, m.seq, r) /\ ~SavedAs(e, m.seq, r)
        BY <4>4 DEF ReleasedAs, SavedAs
      <4>7. ~ExpiredAs(e, m.seq, r)
        BY <4>3 DEF ExpiredAs
      <4>8. m \in pass.page
        BY <4>3, <4>5, <4>6, <4>7 DEF Changes, PersistedAs
      <4> QED
        BY <4>1, <4>8 DEF WaitingOK, SettledIsNotPending
    <3> QED
      BY <3>2, <3>3
  <2> QED
    BY <2>1, <2>2
<1>2. CASE <<e, m>> \notin ran
  <2>1. \E c \in Classes : Begin(c)
    BY <1>2 DEF Next, vars, Worker, Enqueue, ExpireRow, SavePoint, Restore, Process,
         Start, Crash, ExitOnFatal, Halt, RecoverRecord, RecoverDone,
         ExpireRecord, ObserveEpoch, Passing, StartPass, PassFails,
         PassStopped, Fetch, Persist, Rotate, Ack, passOnly, Dispatch, Claim,
         Unclaim, Return, SaveOutcome, jobOnly
  <2>2. PICK c \in Classes : Begin(c)
    BY <2>1
  <2>3. ProcessTypeOK
    BY DEF Base, TypeOK
  <2>4. /\ e = bound /\ m = job[c].env /\ job[c].phase = "claimed"
        /\ UNCHANGED <<file, bound>>
    BY <1>2, <2>2 DEF Begin, jobOnly
  <2>5. /\ job[c] \in Job /\ Class(m) = c /\ file[bound][m.seq] # NoRecord
        /\ file[bound][m.seq].env = m /\ file[bound][m.seq].status = "Processing"
    BY <2>4, DispatchIs
  <2>6. Holds(e, m)'
    BY <2>4, <2>5 DEF Holds
  <2>7. job'[c].phase = "running" /\ job'[c].env = m
    BY <2>2, <2>3, <2>4, <2>5 DEF Begin, ProcessTypeOK, Job
  <2>8. ASSUME Class(m) = "telegram" PROVE Begun(e, m)'
    BY <2>4, <2>5, <2>7, <2>8 DEF Begun
  <2> QED
    BY <2>6, <2>8
<1> QED
  BY <1>1, <1>2

\* A begun command is not runnable.
LEMMA RanNotReplayed == Base /\ RanOK => TelegramNotReplayed
<1> SUFFICES ASSUME Base, RanOK, NEW p \in ran, Class(p[2]) = "telegram",
                    Remembered(p[2]), Holds(p[1], p[2]),
                    Runnable(p[1], p[2].seq)
             PROVE  FALSE
  BY DEF TelegramNotReplayed
<1>1. PICK e \in Epochs, m \in Envelope : p = <<e, m>>
  BY DEF Base, TypeOK, HistoryTypeOK
<1>2. Begun(e, m) /\ file[e][m.seq].env = m /\ Class(m) = "telegram" /\ Runnable(e, m.seq)
  BY <1>1 DEF RanOK, Holds
<1>3. file[e][m.seq].status \notin {"Pending", "Retryable"}
  BY <1>2 DEF Begun, Settled
<1>4. PICK c \in Classes : /\ e = bound /\ job[c].phase = "claimed"
                           /\ job[c].env.seq = m.seq
  BY <1>2, <1>3 DEF Runnable
<1>5. job[c].env = m
  BY <1>2, <1>4, DispatchIs
<1> QED
  BY <1>2, <1>4, <1>5, BegunDispatch
-----------------------------------------------------------------------------
\* What the steps need of one another, together.
IInv == /\ AckedInv /\ AnnouncedOK /\ WaitingOK /\ SettledIsNotPending /\ RanOK

LEMMA InvInit == Init => IInv
<1> SUFFICES ASSUME Init PROVE IInv
  OBVIOUS
<1>1. SettledIsNotPending
  BY DEF Init, SettledIsNotPending, Pending
<1> QED
  BY <1>1, AckedInit, AnnouncedInit, WaitingInit, RanInit DEF IInv

LEMMA InvStep == IInv /\ [Next]_vars => IInv'
BY AckedStep, AnnouncedStep, WaitingStep, SettledStep, RanStep DEF IInv, AckedInv

\* No request is settled, or its receipt forgotten, while D1 would still send
\* it, as long as D1 was not restored.
THEOREM SettledCorrect == Spec => []SettledIsNotPending
<1>1. IInv => SettledIsNotPending
  BY DEF IInv
<1> QED
  BY <1>1, InvInit, InvStep, PTL DEF Spec

\* No Telegram command that began is queued again under the same epoch, for
\* any number of stops, restores and epochs, except one whose receipt expired
\* before a restore brought it back.
THEOREM NotReplayedCorrect == Spec => []TelegramNotReplayed
<1>1. IInv => TelegramNotReplayed
  BY RanNotReplayed DEF IInv, AckedInv
<1> QED
  BY <1>1, InvInit, InvStep, PTL DEF Spec
-----------------------------------------------------------------------------
(* CloudIngress implements RequestDelivery.                                *)

SettledIn(e, m) == Holds(e, m) /\ file[e][m.seq].status \in Settled
RunToEnd == {m \in Envelope : \E e \in Epochs : SettledIn(e, m)} \cup expired

LEMMA DeliveryInit == Init => Delivery!Init
<1> SUFFICES ASSUME Init PROVE Delivery!Init
  OBVIOUS
<1>1. announced = {} /\ Pending(d1) = {} /\ expired = {}
  BY DEF Init, Pending
<1>2. Received = {} /\ \A m \in Envelope, e \in Epochs : ~Holds(e, m)
  BY NothingReceived DEF Held
<1> QED
  BY <1>1, <1>2 DEF Delivery!Init

\* What the steps of RequestDelivery see of a step here.
Unsent   == UNCHANGED announced /\ Pending(d1)' = Pending(d1)
Unfiled  == Received' = Received /\ RunToEnd' = RunToEnd

\* The steps of RequestDelivery, in the terms of this module.
LEMMA DeliveryVars ==
  /\ Unsent /\ Unfiled => UNCHANGED Delivery!vars
  /\ \A m \in Envelope :
       /\ m \notin announced /\ announced' = announced \cup {m}
       /\ Pending(d1)' = Pending(d1) \cup {m} /\ Unfiled
       => Delivery!Accept(m)
  /\ \A m \in Envelope :
       /\ m \in announced /\ (MaxRestores > 0 \/ m \in Pending(d1)) /\ Unsent
       /\ Received' = Received \cup {m} /\ RunToEnd' = RunToEnd
       => Delivery!Receive(m)
  /\ \A S :
       /\ S \subseteq Received /\ UNCHANGED announced
       /\ Pending(d1)' = Pending(d1) \ S /\ Unfiled
       => Delivery!Release(S)
  /\ \A m \in Envelope :
       /\ m \in Received \ RunToEnd /\ (MaxRestores > 0 \/ m \notin Pending(d1))
       /\ Unsent /\ Received' = Received /\ RunToEnd' = RunToEnd \cup {m}
       => Delivery!Settle(m)
  /\ MaxRestores > 0 /\ Pending(d1)' \subseteq announced /\ UNCHANGED announced
       /\ Unfiled => Delivery!Rewind
BY DEF Unsent, Unfiled, RunToEnd, SettledIn, Delivery!vars, Delivery!Accept,
       Delivery!Receive, Delivery!Release, Delivery!Settle, Delivery!Rewind

\* Without a write to the inbox nothing is received or settled.
LEMMA UnfiledIs == UNCHANGED <<file, expired>> => Unfiled
<1> SUFFICES ASSUME UNCHANGED <<file, expired>> PROVE Unfiled
  OBVIOUS
<1>1. \A e, m : /\ Holds(e, m)' <=> Holds(e, m)
                /\ SettledIn(e, m)' <=> SettledIn(e, m)
  BY DEF Holds, SettledIn
<1> QED
  BY <1>1 DEF Unfiled, Received, RunToEnd

\* A new status leaves what is received, and settles its request or nothing.
LEMMA StatusMoves ==
  ASSUME Base, NEW m \in Envelope, NEW st \in InboxStatus, Holds(bound, m),
         file[bound][m.seq].status \notin Settled, UNCHANGED expired,
         Becomes(m.seq, [env |-> m, status |-> st])
  PROVE  /\ Received' = Received
         /\ st \in Settled => RunToEnd' = RunToEnd \cup {m}
         /\ st \notin Settled => RunToEnd' = RunToEnd
<1>0. bound \in Epochs /\ m.seq \in Seqs
  BY DEF Base, TypeOK, ProcessTypeOK, Envelope
<1> DEFINE r == [env |-> m, status |-> st]
<1>1. r.env = m /\ r.status = st /\ r # NoRecord
  BY DEF NoRecord
<1>2. file'[bound][m.seq] = r
  BY DEF Becomes
<1> HIDE DEF r
<1>3. ASSUME NEW e \in Epochs, NEW n \in Envelope, e # bound \/ n # m
      PROVE  /\ Holds(e, n)' <=> Holds(e, n)
             /\ SettledIn(e, n)' <=> SettledIn(e, n)
  <2>1. n.seq \in Seqs
    BY DEF Envelope
  <2>2. CASE e # bound \/ n.seq # m.seq
    <3>1. file'[e][n.seq] = file[e][n.seq]
      BY <2>1, <2>2 DEF Becomes
    <3> QED
      BY <3>1 DEF Holds, SettledIn
  <2>3. CASE e = bound /\ n.seq = m.seq
    <3>1. ~Holds(e, n) /\ ~Holds(e, n)'
      BY <1>1, <1>2, <1>3, <2>3 DEF Holds
    <3> QED
      BY <3>1 DEF SettledIn
  <2> QED
    BY <2>2, <2>3
<1>4. /\ Holds(bound, m) /\ ~SettledIn(bound, m)
      /\ (\E e \in Epochs : e = bound /\ Holds(e, m)')
      /\ (\E e \in Epochs : e = bound /\ SettledIn(e, m)') <=> st \in Settled
  BY <1>0, <1>1, <1>2 DEF Holds, SettledIn
<1>5. \A n \in Envelope : (\E e \in Epochs : Holds(e, n)') <=> \E e \in Epochs : Holds(e, n)
  BY <1>0, <1>3, <1>4
<1>6. \A n \in Envelope : n # m =>
        ((\E e \in Epochs : SettledIn(e, n)') <=> \E e \in Epochs : SettledIn(e, n))
  BY <1>3
<1>7. st \in Settled => \E e \in Epochs : SettledIn(e, m)'
  BY <1>4
<1>8. st \notin Settled =>
        ((\E e \in Epochs : SettledIn(e, m)') <=> \E e \in Epochs : SettledIn(e, m))
  BY <1>3, <1>4
<1>9. Received' = Received
  BY <1>5 DEF Received
<1> QED
  BY <1>6, <1>7, <1>8, <1>9 DEF RunToEnd

\* A receipt that expires stays settled and received.
LEMMA ExpiryMoves ==
  ASSUME Base, NEW t \in Seqs, ExpireRecord(t)
  PROVE  Unfiled
<1> DEFINE m == file[bound][t].env
<1>0. InboxTypeOK /\ bound \in Epochs /\ FiledBySeq
  BY DEF Base, TypeOK, ProcessTypeOK
<1>1. /\ file[bound][t] # NoRecord /\ file[bound][t].status \in Settled
      /\ Becomes(t, NoRecord) /\ expired' = expired \cup {m}
  BY ExpireIs
<1>2. m \in Envelope /\ m.seq = t /\ SettledIn(bound, m)
  BY <1>0, <1>1, FileRecord DEF Record, FiledBySeq, SettledIn, Holds
<1> HIDE DEF m
<1>3. ASSUME NEW e \in Epochs, NEW n \in Envelope, n # m
      PROVE  /\ Holds(e, n)' <=> Holds(e, n)
             /\ SettledIn(e, n)' <=> SettledIn(e, n)
  <2>1. n.seq \in Seqs
    BY DEF Envelope
  <2>2. CASE e # bound \/ n.seq # t
    <3>1. file'[e][n.seq] = file[e][n.seq]
      BY <1>1, <2>1, <2>2 DEF Becomes
    <3> QED
      BY <3>1 DEF Holds, SettledIn
  <2>3. CASE e = bound /\ n.seq = t
    <3>1. ~Holds(e, n) /\ ~Holds(e, n)'
      BY <1>1, <1>2, <1>3, <2>3 DEF Holds, SettledIn, Becomes
    <3> QED
      BY <3>1 DEF SettledIn
  <2> QED
    BY <2>2, <2>3
<1>4. m \in Received /\ m \in RunToEnd /\ m \in Received' /\ m \in RunToEnd'
  BY <1>0, <1>1, <1>2 DEF Received, RunToEnd, SettledIn
<1>5. ASSUME NEW n, n # m
      PROVE  (n \in Received' <=> n \in Received) /\ (n \in RunToEnd' <=> n \in RunToEnd)
  <2>1. n \in expired' <=> n \in expired
    BY <1>1, <1>5
  <2>2. n \in Envelope => /\ (\E e \in Epochs : Holds(e, n)') <=> \E e \in Epochs : Holds(e, n)
                          /\ (\E e \in Epochs : SettledIn(e, n)') <=> \E e \in Epochs : SettledIn(e, n)
    BY <1>3, <1>5
  <2> QED
    BY <2>1, <2>2 DEF Received, RunToEnd
<1> QED
  BY <1>4, <1>5 DEF Unfiled

\* What is persisted becomes received.
LEMMA PersistMoves ==
  ASSUME Base, NEW m \in pass.page, Persist(m), ~UNCHANGED file
  PROVE  Received' = Received \cup {m} /\ RunToEnd' = RunToEnd
<1>0. /\ bound \in Epochs /\ m \in Envelope /\ m.seq \in Seqs
      /\ file[bound][m.seq] = NoRecord
      /\ Becomes(m.seq, [env |-> m, status |-> "Pending"]) /\ UNCHANGED expired
  BY PersistIs DEF Base, TypeOK, ProcessTypeOK, Persist
<1> DEFINE r == [env |-> m, status |-> "Pending"]
<1>1. r.env = m /\ r.status \notin Settled /\ r # NoRecord
  BY DEF NoRecord, Settled
<1>2. file'[bound][m.seq] = r
  BY <1>0 DEF Becomes
<1> HIDE DEF r
<1>3. ASSUME NEW e \in Epochs, NEW n \in Envelope
      PROVE  /\ n # m => (Holds(e, n)' <=> Holds(e, n))
             /\ SettledIn(e, n)' <=> SettledIn(e, n)
  <2>1. n.seq \in Seqs
    BY DEF Envelope
  <2>2. CASE e # bound \/ n.seq # m.seq
    <3>1. file'[e][n.seq] = file[e][n.seq]
      BY <1>0, <2>1, <2>2 DEF Becomes
    <3> QED
      BY <3>1 DEF Holds, SettledIn
  <2>3. CASE e = bound /\ n.seq = m.seq
    BY <1>0, <1>1, <1>2, <2>3 DEF Holds, SettledIn
  <2> QED
    BY <2>2, <2>3
<1>4. ASSUME NEW e \in Epochs, e = bound PROVE Holds(e, m)'
  BY <1>1, <1>2, <1>4 DEF Holds
<1>5. \E e \in Epochs : Holds(e, m)'
  BY <1>0, <1>4
<1>6. Received' = Received \cup {m}
  BY <1>0, <1>3, <1>5 DEF Received
<1>7. RunToEnd' = RunToEnd
  BY <1>0, <1>3 DEF RunToEnd
<1> QED
  BY <1>6, <1>7

\* A step that writes the inbox leaves the database and the announcements.
LEMMA FiledIsUnsent ==
  ASSUME [Next]_vars,
         \/ \E m \in pass.page : Persist(m)
         \/ \E t \in Seqs : RecoverRecord(t) \/ ExpireRecord(t) \/ Claim(t)
         \/ \E c \in Classes : Unclaim(c) \/ SaveOutcome(c)
  PROVE  Unsent
BY DEF Persist, RecoverRecord, ExpireRecord, Claim, Unclaim, SaveOutcome,
       jobOnly, cloudVars, Unsent, Pending

\* A step that gives a dispatched record its next status settles its request
\* or does nothing that RequestDelivery tells apart.
LEMMA StatusDelivers ==
  ASSUME IInv, NEW m \in Envelope, NEW st \in InboxStatus, Holds(bound, m),
         file[bound][m.seq].status \notin Settled,
         st \in Settled => file[bound][m.seq].status # "Pending",
         UNCHANGED expired, Unsent,
         Becomes(m.seq, [env |-> m, status |-> st])
  PROVE  Delivery!Next \/ UNCHANGED Delivery!vars
<1>1. Base /\ bound \in Epochs /\ SettledIsNotPending
  BY DEF IInv, AckedInv, Base, TypeOK, ProcessTypeOK
<1>2. /\ Received' = Received
      /\ st \in Settled => RunToEnd' = RunToEnd \cup {m}
      /\ st \notin Settled => RunToEnd' = RunToEnd
  BY <1>1, StatusMoves
<1>3. CASE RunToEnd' = RunToEnd
  BY <1>2, <1>3, DeliveryVars DEF Unfiled
<1>4. CASE RunToEnd' # RunToEnd
  <2>1. st \in Settled /\ RunToEnd' = RunToEnd \cup {m} /\ m \notin RunToEnd
    BY <1>2, <1>4
  <2>2. m \in Received
    BY <1>1 DEF Received
  <2>3. MaxRestores > 0 \/ m \notin Pending(d1)
    <3>1. restores \in 0..MaxRestores
      BY <1>1 DEF Base, TypeOK, CloudTypeOK
    <3>2. MaxRestores > 0 \/ restores = 0
      BY <3>1, BoundsAssumption
    <3> QED
      BY <1>1, <2>1, <3>2 DEF SettledIsNotPending
  <2>4. Delivery!Settle(m)
    BY <1>2, <2>1, <2>2, <2>3, DeliveryVars
  <2> QED
    BY <2>4 DEF Delivery!Next
<1> QED
  BY <1>3, <1>4

\* A step that writes the inbox is a Receive, a Settle or none.
LEMMA FiledDelivers ==
  ASSUME IInv, [Next]_vars,
         \/ \E m \in pass.page : Persist(m) /\ ~UNCHANGED file
         \/ \E t \in Seqs : RecoverRecord(t) \/ ExpireRecord(t) \/ Claim(t)
         \/ \E c \in Classes : Unclaim(c) \/ SaveOutcome(c)
  PROVE  Delivery!Next \/ UNCHANGED Delivery!vars
<1>0. /\ Base /\ InboxTypeOK /\ bound \in Epochs /\ FiledBySeq /\ AnnouncedOK
      /\ CloudTypeOK /\ ProcessTypeOK /\ WaitingOK
  BY DEF IInv, AckedInv, Base, TypeOK, ProcessTypeOK
<1>1. Unsent
  BY FiledIsUnsent
<1>2. ASSUME NEW m \in pass.page, Persist(m), ~UNCHANGED file
      PROVE  Delivery!Next
  <2>1. m \in Envelope /\ m \in announced
    BY <1>0 DEF ProcessTypeOK, Pass, AnnouncedOK
  <2>2. Received' = Received \cup {m} /\ RunToEnd' = RunToEnd
    BY <1>0, <1>2, PersistMoves
  <2>3. MaxRestores > 0 \/ restores = 0
    BY <1>0, BoundsAssumption DEF CloudTypeOK
  <2>4. MaxRestores > 0 \/ m \in Pending(d1)
    BY <1>0, <2>3 DEF WaitingOK
  <2>5. Delivery!Receive(m)
    BY <1>1, <2>1, <2>2, <2>4, DeliveryVars
  <2> QED
    BY <2>1, <2>5 DEF Delivery!Next
<1>3. ASSUME NEW t \in Seqs, ExpireRecord(t) PROVE UNCHANGED Delivery!vars
  BY <1>0, <1>1, <1>3, ExpiryMoves, DeliveryVars
<1>4. ASSUME NEW t \in Seqs, file[bound][t] # NoRecord
      PROVE  LET m == file[bound][t].env
             IN  m \in Envelope /\ m.seq = t /\ Holds(bound, m)
  BY <1>0, <1>4, FileRecord DEF Record, FiledBySeq, Holds
<1>5. ASSUME NEW t \in Seqs, RecoverRecord(t)
      PROVE  Delivery!Next \/ UNCHANGED Delivery!vars
  <2> DEFINE m == file[bound][t].env
             st == RecoveredStatus(m)
  <2>1. /\ file[bound][t] # NoRecord /\ file[bound][t].status = "Processing"
        /\ Becomes(t, [env |-> m, status |-> st]) /\ UNCHANGED expired
    BY <1>0, <1>5, RecoverIs DEF RecoverRecord
  <2>2. st \in InboxStatus
    BY DEF RecoveredStatus, InboxStatus, Settled
  <2>3. m \in Envelope /\ m.seq = t /\ Holds(bound, m)
    BY <1>4, <2>1
  <2> HIDE DEF m, st
  <2>4. file[bound][m.seq].status \notin Settled /\ file[bound][m.seq].status # "Pending"
    BY <2>1, <2>3 DEF Settled
  <2> QED
    BY <1>1, <2>1, <2>2, <2>3, <2>4, StatusDelivers
<1>6. ASSUME NEW t \in Seqs, Claim(t)
      PROVE  Delivery!Next \/ UNCHANGED Delivery!vars
  <2> DEFINE m == file[bound][t].env
  <2>1. /\ file[bound][t] # NoRecord /\ file[bound][t].status \in Listed
        /\ Becomes(t, [env |-> m, status |-> "Processing"]) /\ UNCHANGED expired
    BY <1>0, <1>6, ClaimIs DEF Claim
  <2>2. "Processing" \in InboxStatus /\ "Processing" \notin Settled
    BY DEF InboxStatus, Settled
  <2>3. m \in Envelope /\ m.seq = t /\ Holds(bound, m)
    BY <1>4, <2>1
  <2> HIDE DEF m
  <2>4. file[bound][m.seq].status \notin Settled
    BY <2>1, <2>3 DEF Settled, Listed
  <2> QED
    BY <1>1, <2>1, <2>2, <2>3, <2>4, StatusDelivers
<1>7. ASSUME NEW c \in Classes, Unclaim(c) \/ SaveOutcome(c)
      PROVE  Delivery!Next \/ UNCHANGED Delivery!vars
  <2> DEFINE m == job[c].env
  <2>1. job[c].phase # "none" /\ UNCHANGED expired
    BY <1>7 DEF Unclaim, SaveOutcome, jobOnly
  <2>2. /\ job[c] \in Job /\ m \in Envelope /\ m.seq \in Seqs
        /\ file[bound][m.seq] # NoRecord /\ file[bound][m.seq].env = m
        /\ file[bound][m.seq].status = "Processing"
    BY <1>0, <2>1, DispatchIs
  <2>3. "Pending" \in InboxStatus /\ job[c].outcome \in InboxStatus
    BY <2>2 DEF Job, Outcome, InboxStatus, Settled
  <2>4. PICK st \in InboxStatus : Becomes(m.seq, [env |-> m, status |-> st])
    BY <1>0, <1>7, <2>3, UnclaimIs, SaveIs
  <2>5. Holds(bound, m)
    BY <2>2 DEF Holds
  <2> HIDE DEF m
  <2>6. file[bound][m.seq].status \notin Settled /\ file[bound][m.seq].status # "Pending"
    BY <2>2 DEF Settled
  <2> QED
    BY <1>1, <2>1, <2>2, <2>4, <2>5, <2>6, StatusDelivers
<1> QED
  BY <1>2, <1>3, <1>5, <1>6, <1>7

\* A step that does not is an Accept, a Release, a Rewind or none.
LEMMA CloudDelivers ==
  ASSUME IInv, IInv', [Next]_vars, UNCHANGED <<file, expired>>
  PROVE  Delivery!Next \/ UNCHANGED Delivery!vars
<1>0. /\ Base /\ AnnouncedOK /\ CloudTypeOK /\ ProcessTypeOK
      /\ pass.kept \subseteq Received /\ AnnouncedOK'
  BY DEF IInv, AckedInv, Base, TypeOK
<1>1. Unfiled
  BY UnfiledIs
<1>2. CASE UNCHANGED <<d1, savepoint, restores, announced>> \/ SavePoint
  <2>1. Unsent
    BY <1>2 DEF SavePoint, Unsent, Pending
  <2> QED
    BY <1>1, <2>1, DeliveryVars
<1>3. ASSUME NEW k \in Keys, Enqueue(k) PROVE Delivery!Next
  <2>1. PICK m \in Envelope :
           /\ m \notin announced /\ announced' = announced \cup {m}
           /\ Pending(d1)' = Pending(d1) \cup {m}
    BY <1>0, <1>3, EnqueueIs
  <2>2. Delivery!Accept(m)
    BY <1>1, <2>1, DeliveryVars
  <2> QED
    BY <2>2 DEF Delivery!Next
<1>4. ASSUME NEW m \in Envelope, ExpireRow(m) PROVE UNCHANGED Delivery!vars
  <2>1. /\ d1'.rows = d1.rows \ {m} /\ d1'.acked = d1.acked \ {m}
        /\ m \in d1.acked /\ UNCHANGED announced
    BY <1>0, <1>4 DEF ExpireRow, CloudTypeOK, Database
  <2>2. Unsent
    BY <2>1 DEF Unsent, Pending
  <2> QED
    BY <1>1, <2>2, DeliveryVars
<1>5. CASE Restore
  <2>1. restores < MaxRestores /\ UNCHANGED announced
    BY <1>5 DEF Restore
  <2>2. MaxRestores > 0
    BY <1>0, <2>1, BoundsAssumption DEF CloudTypeOK
  <2>3. Pending(d1)' \subseteq announced
    BY <1>0, <2>1 DEF AnnouncedOK, Pending
  <2>4. Delivery!Rewind
    BY <1>1, <2>1, <2>2, <2>3, DeliveryVars
  <2> QED
    BY <2>4 DEF Delivery!Next
<1>6. ASSUME NEW lost \in BOOLEAN, Rotate(lost) PROVE UNCHANGED Delivery!vars
  <2>1. d1'.rows = d1.rows /\ d1'.acked = d1.acked /\ UNCHANGED announced
    BY <1>0, <1>6 DEF Rotate, CloudTypeOK, Database
  <2>2. Unsent
    BY <2>1 DEF Unsent, Pending
  <2> QED
    BY <1>1, <2>2, DeliveryVars
<1>7. ASSUME NEW lost \in BOOLEAN, Ack(lost)
      PROVE  Delivery!Next \/ UNCHANGED Delivery!vars
  <2>1. /\ pass.kept = pass.page /\ UNCHANGED announced
        /\ d1' = d1 \/ d1' = Acknowledged(pass.page)
    BY <1>0, <1>7, AckIs
  <2>2. CASE d1' = d1
    <3>1. Unsent
      BY <2>1, <2>2 DEF Unsent, Pending
    <3> QED
      BY <1>1, <3>1, DeliveryVars
  <2>3. CASE d1' = Acknowledged(pass.page)
    <3> DEFINE S == pass.page \cap Pending(d1)
    <3>1. /\ Pending(d1)' = Pending(d1) \ S /\ S \subseteq Received
          /\ S \in SUBSET Pending(d1)
      BY <1>0, <2>1, <2>3, AcknowledgedIs
    <3> HIDE DEF S
    <3>2. Delivery!Release(S)
      BY <1>1, <2>1, <3>1, DeliveryVars
    <3> QED
      BY <3>1, <3>2 DEF Delivery!Next
  <2> QED
    BY <2>1, <2>2, <2>3
<1>8. \/ UNCHANGED <<d1, savepoint, restores, announced>> \/ SavePoint
      \/ \E k \in Keys : Enqueue(k)
      \/ \E m \in Envelope : ExpireRow(m)
      \/ Restore
      \/ \E lost \in BOOLEAN : Rotate(lost) \/ Ack(lost)
  BY CloudActions
<1> QED
  BY <1>2, <1>3, <1>4, <1>5, <1>6, <1>7, <1>8

\* Every step of the database and the desktop is a step of RequestDelivery, or
\* none of it.
LEMMA DeliveryStep ==
  IInv /\ IInv' /\ [Next]_vars => [Delivery!Next]_(Delivery!vars)
<1> SUFFICES ASSUME IInv, IInv', [Next]_vars
             PROVE  Delivery!Next \/ UNCHANGED Delivery!vars
  OBVIOUS
<1>1. Base
  BY DEF IInv, AckedInv
<1>2. CASE UNCHANGED file
  <2>1. CASE UNCHANGED expired
    BY <1>2, <2>1, CloudDelivers
  <2>2. CASE ~UNCHANGED expired
    <3>1. \E t \in Seqs : ExpireRecord(t)
      BY <2>2 DEF Next, vars, Worker, Enqueue, ExpireRow, SavePoint, Restore, Process,
         Start, Crash, ExitOnFatal, Halt, RecoverRecord, RecoverDone,
         ObserveEpoch, Passing, StartPass, PassFails,
         PassStopped, Fetch, Persist, Rotate, Ack, passOnly, Dispatch, Claim,
         Unclaim, Begin, Return, SaveOutcome, jobOnly
    <3> QED
      BY <3>1, FiledDelivers
  <2> QED
    BY <2>1, <2>2
<1>3. CASE ~UNCHANGED file
  BY <1>1, <1>3, FileActions, FiledDelivers
<1> QED
  BY <1>2, <1>3

\* D1, the desktop and whatever fails between them hand every request over as
\* RequestDelivery promises.
THEOREM DeliveryImplemented == Spec => DeliverySpec
<1>1. Init => Delivery!Init
  BY DeliveryInit
<1>2. IInv /\ IInv' /\ [Next]_vars => [Delivery!Next]_(Delivery!vars)
  BY DeliveryStep
<1> QED
  BY <1>1, <1>2, InvInit, InvStep, PTL DEF Spec, DeliverySpec, Delivery!Spec
=============================================================================
