---------------------- MODULE SnapshotPublication_proofs ----------------------
(* Theorems of SnapshotPublication, for any viewers, chunks and states, any   *)
(* versions and epochs, and any number of faults.                             *)
EXTENDS SnapshotPublication, FiniteSetTheorems, TLAPS

-----------------------------------------------------------------------------
(* The strengthening of the invariants.                                     *)

Slots       == {"own", "stale"}
InFlight(s) == calls[s].at # "none"
Working     == rep.pc \in {"attempt", "upload", "posted"}
Named(s)    == <<calls[s].epoch, calls[s].version, calls[s].content>>

\* A manifest at the Worker was posted in the epoch the desktop is bound to, or
\* in an earlier one; the awaited one is the pending publication.
CallsOK ==
  /\ bound <= d1.epoch
  /\ Working => rep.pending.version \in Versions
  /\ \A s \in Slots :
       InFlight(s) => calls[s].version \in Versions /\ calls[s].epoch <= bound
  /\ InFlight("own") =>
       /\ rep.pc = "posted"
       /\ Named("own") = <<bound, rep.pending.version, rep.pending.content>>

\* What is stored, or would be restored, is complete and was committed.
Readable(meta, chunks) ==
  meta.version > 0 =>
    /\ Present(meta.content, chunks)
    /\ <<d1.epoch, meta.version, meta.content>> \in history
StoredOK == Readable(d1.meta, d1.chunks) /\ Readable(saved.meta, saved.chunks)

\* Nothing was committed beyond what is stored, unless D1 was set back.
HistoryOK ==
  /\ \A h \in history : h[1] <= bound
  /\ lost # "d1" => \A h \in history : h[1] = d1.epoch => h[2] <= d1.meta.version

\* What has an epoch and a version: what was committed, what is at the Worker
\* and what is under way.
Given ==
  history \cup {Named(s) : s \in {t \in Slots : InFlight(t)}}
          \cup (IF Working THEN {<<bound, rep.pending.version, rep.pending.content>>}
                           ELSE {})

\* No version beyond the counter was ever given, and none to two contents,
\* unless the counter was set back.
NamesOK ==
  lost # "counter" =>
    /\ \A g \in Given : g[1] = bound => g[2] <= counter
    /\ \A g, h \in Given : g[1] = h[1] /\ g[2] = h[2] => g[3] = h[3]

\* Who asked sees a state no older than the question: the queue and the
\* publication hold requests that were asked, and only of states that are.
AskedOK ==
  /\ \A r \in Requests : asked[r] <= source
  /\ \A r \in queue \cup rep.trigger.refs : asked[r] # -1
  /\ Working => \A r \in rep.trigger.refs : asked[r] <= rep.pending.content.build

\* A favourable reply speaks of a manifest that was committed.
RepliesOK ==
  InFlight("own") /\ calls["own"].at = "done" /\ calls["own"].reply = "ok" =>
    Named("own") \in history

IInv == /\ TypeOK /\ IsFiniteSet(queue)
        /\ CallsOK /\ StoredOK /\ HistoryOK /\ NamesOK /\ AskedOK /\ RepliesOK
        /\ VersionNamesOneContent /\ PublishedIsFresh

-----------------------------------------------------------------------------
\* The parts of TypeOK.
ViewersT == /\ source \in Builds
            /\ interest \in [Requests -> {"before", "visible", "closed", "lapsed"}]
            /\ asked \in [Requests -> Builds \cup {-1}]
            /\ result \in [Requests -> {"none", "published", "failed", "unavailable"}]
            /\ shown \in [Requests -> Builds]
QueueT   == /\ queue \subseteq Requests /\ IsFiniteSet(queue)
            /\ Cardinality(queue) <= MaxPending
StoreT   == /\ counter \in 0 .. MaxVersion /\ watched \in Builds \cup {-1}
            /\ bound \in 1 .. MaxEpoch
Steps    == {"wait", "references", "attempt", "upload", "posted", "down"}
Triggers == [boot : BOOLEAN, idle : BOOLEAN, refs : SUBSET Requests, watch : BOOLEAN]
Metas    == [version : 0 .. MaxVersion, content : Contents]
RepT     == rep \in [pc : Steps, trigger : Triggers, pending : Metas,
                     failed : SUBSET Requests, todo : SUBSET Chunks,
                     rejected : Builds \cup {-1}, boot : BOOLEAN]
CacheT   == cache \in [staged : SUBSET Chunks, committed : SUBSET Chunks]
Places   == {"none", "read", "check", "absent", "beat", "commit", "beaten", "committed", "done"}
CallsT   == calls \in [Slots -> [at : Places, version : 0 .. MaxVersion, content : Contents,
                                epoch : 1 .. MaxEpoch, reply : Outcomes,
                                hint : 0 .. MaxVersion]]
Ages     == [Chunks -> {"absent", "fresh", "old"}]
CloudT   == /\ d1 \in [epoch : 1 .. MaxEpoch, meta : Metas, chunks : Ages]
            /\ saved \in [meta : Metas, chunks : Ages]
            /\ history \subseteq ((1 .. MaxEpoch) \X Versions \X Contents)
RestT    == /\ wake \in BOOLEAN /\ lost \in {"none", "d1", "counter"}
            /\ budget \in 0 .. MaxBudget

\* TypeOK is the conjunction of its parts.
LEMMA TypeParts ==
  TypeOK /\ IsFiniteSet(queue) <=>
    ViewersT /\ QueueT /\ StoreT /\ RepT /\ CacheT /\ CallsT /\ CloudT /\ RestT
BY DEF TypeOK, ViewersT, QueueT, StoreT, RepT, CacheT, CallsT, CloudT, RestT, Steps,
   Triggers, Metas, Places, Ages, Slots

\* The actions of the next-state relation.
LEMMA Cases ==
  Next =>
    \/ Bootstrap
    \/ Woken
    \/ Hourly
    \/ \E failed \in SUBSET rep.trigger.refs : Assemble(failed)
    \/ AssembleFails
    \/ Attempt
    \/ Post
    \/ Reduce
    \/ ReduceFails
    \/ \E ch \in Chunks : Upload(ch)
    \/ Published
    \/ Conflict
    \/ Missing
    \/ Superseded
    \/ Rejected
    \/ EpochFatal
    \/ Restart
    \/ Change
    \/ \E q \in Requests : Show(q)
    \/ \E q \in Requests : Lapse(q)
    \/ \E q \in Requests : Ask(q)
    \/ \E rs \in SUBSET Requests : Hide(rs)
    \/ \E ch \in Chunks, written \in BOOLEAN : UploadFails(ch, written)
    \/ \E ch \in Chunks : Age(ch)
    \/ \E ch \in Chunks : Forget(ch)
    \/ \E t \in Slots : WorkerRead(t) \/ WorkerProbe(t)
    \/ \E t \in Slots : WorkerReread(t)
    \/ \E t \in Slots : WorkerBeat(t)
    \/ \E t \in Slots : WorkerCommit(t)
    \/ Vanish
    \/ Refuse
    \/ Timeout
    \/ Crash
    \/ LoseCounter
    \/ Restore
    \/ Rotate
BY DEF Next, Reporter, Environment, Worker, Slots

\* The constants that actions write.
LEMMA Constants ==
  /\ NoMeta \in Metas /\ NoTrigger \in Triggers
  /\ "wait" \in Steps /\ "references" \in Steps /\ "attempt" \in Steps
  /\ "upload" \in Steps /\ "posted" \in Steps /\ "down" \in Steps
  /\ [ch \in Chunks |-> "absent"] \in Ages
BY PublicationAssumption DEF NoMeta, NoTrigger, Metas, Triggers, Contents, Builds, Steps,
   Ages

\* Every action keeps what is known of the viewers and their requests typed.
LEMMA ViewersTyped ==
  ASSUME ViewersT, RepT, Next
  PROVE  ViewersT'
<1> USE PublicationAssumption
<1> USE DEF ViewersT, RepT
<1>1. CASE Bootstrap
  BY <1>1 DEF Bootstrap, Begin, Spend, Answer, cloud
<1>2. CASE Woken
  BY <1>2 DEF Woken, Begin, Spend, Answer, cloud
<1>3. CASE Hourly
  BY <1>3 DEF Hourly, Begin, Spend, Answer, cloud
<1>4. CASE \E failed \in SUBSET rep.trigger.refs : Assemble(failed)
  BY <1>4 DEF Assemble, Spend, Answer, Idle, cloud
<1>5. CASE AssembleFails
  BY <1>5 DEF AssembleFails, Spend, Idle, cloud
<1>6. CASE Attempt
  BY <1>6 DEF Attempt, Answer, Idle, cloud
<1>7. CASE Reduce
  BY <1>7 DEF Reduce, GiveUp, Answered, Answer, Refused413, Idle, cloud
<1>8. CASE ReduceFails
  BY <1>8 DEF ReduceFails, GiveUp, Answered, Answer, Refused413, Idle, Spend, cloud
<1>9. CASE Published
  BY <1>9 DEF Published, Replied, Answered, Idle, cloud, Metas, Contents
<1>10. CASE Rejected
  BY <1>10 DEF Rejected, Replied, Answered, GiveUp, Answer, Idle, cloud
<1>11. CASE EpochFatal
  BY <1>11 DEF EpochFatal, Replied, Answered, Uploading, Down, Idle, cloud
<1>12. CASE Change
  BY <1>12 DEF Change, cloud, viewers, Builds
<1>13. CASE \E q \in Requests : Show(q)
  BY <1>13 DEF Show, cloud
<1>14. CASE \E q \in Requests : Lapse(q)
  BY <1>14 DEF Lapse, Spend, cloud
<1>15. CASE \E q \in Requests : Ask(q)
  BY <1>15 DEF Ask, Answer, Notified, cloud
<1>16. CASE \E rs \in SUBSET Requests : Hide(rs)
  BY <1>16 DEF Hide, Answer, cloud
<1>17. CASE Crash
  BY <1>17 DEF Crash, Spend, Down, Idle, cloud
<1>18. CASE Post \/ (\E ch \in Chunks : Upload(ch)) \/ Conflict \/ Missing \/ Superseded
          \/ Restart \/ (\E ch \in Chunks, written \in BOOLEAN : UploadFails(ch, written))
          \/ (\E ch \in Chunks : Age(ch)) \/ (\E ch \in Chunks : Forget(ch))
          \/ (\E t \in Slots : WorkerRead(t) \/ WorkerProbe(t))
          \/ (\E t \in Slots : WorkerReread(t))
          \/ (\E t \in Slots : WorkerBeat(t)) \/ (\E t \in Slots : WorkerCommit(t))
          \/ Vanish \/ Refuse \/ Timeout \/ LoseCounter \/ Restore \/ Rotate
  <2>1. UNCHANGED <<asked, interest, result, shown, source>>
    BY <1>18 DEF Post, Upload, Conflict, Answered, Spend, Missing, Superseded, Restart,
       UploadFails, Age, Forget, WorkerRead, WorkerProbe, Reply, Proceed, WorkerReread,
       WorkerBeat,
       WorkerCommit, Vanish, Refuse, Timeout, LoseCounter, Restore, Rotate, desktop,
       cloud, viewers
  <2> QED BY <2>1 DEF ViewersT
<1> QED BY <1>1, <1>2, <1>3, <1>4, <1>5, <1>6, <1>7, <1>8, <1>9, <1>10, <1>11, <1>12,
   <1>13, <1>14, <1>15, <1>16, <1>17, <1>18, Cases

\* The queue stays within its limit: a request is added only to fewer than that.
LEMMA QueueTyped ==
  ASSUME QueueT, Next
  PROVE  QueueT'
<1> USE PublicationAssumption
<1>1. CASE Bootstrap
  BY <1>1, FS_EmptySet DEF Bootstrap, Begin, QueueT
<1>2. CASE Woken
  BY <1>2, FS_EmptySet DEF Woken, Begin, QueueT
<1>3. CASE Hourly
  BY <1>3, FS_EmptySet DEF Hourly, Begin, QueueT
<1>4. CASE EpochFatal
  BY <1>4, FS_EmptySet DEF EpochFatal, Down, QueueT
<1>5. CASE \E q \in Requests : Ask(q)
  <2>1. PICK r \in Requests : Ask(r)
    BY <1>5
  <2> DEFINE kept == Unlapsed(queue)
  <2>2. kept \subseteq queue
    BY DEF Unlapsed
  <2>3. IsFiniteSet(kept) /\ Cardinality(kept) <= Cardinality(queue)
    BY <2>2, FS_Subset DEF QueueT
  <2>4. Cardinality(kept) \in Nat /\ Cardinality(queue) \in Nat
    BY <2>3, FS_CardinalityType DEF QueueT
  <2>5. CASE Cardinality(kept) < MaxPending
    <3>1. queue' = kept \cup {r}
      BY <2>1, <2>5 DEF Ask
    <3>2. /\ IsFiniteSet(kept \cup {r})
          /\ Cardinality(kept \cup {r}) <= Cardinality(kept) + 1
      BY <2>3, <2>4, FS_AddElement
    <3>3. Cardinality(kept \cup {r}) \in Nat
      BY <3>2, FS_CardinalityType
    <3> QED BY <2>2, <2>4, <2>5, <3>1, <3>2, <3>3 DEF QueueT
  <2>6. CASE ~(Cardinality(kept) < MaxPending)
    <3>1. queue' = kept
      BY <2>1, <2>6 DEF Ask
    <3> QED BY <2>2, <2>3, <2>4, <3>1 DEF QueueT
  <2> QED BY <2>5, <2>6
<1>6. CASE \E rs \in SUBSET Requests : Hide(rs)
  <2>1. PICK rs \in SUBSET Requests : Hide(rs)
    BY <1>6
  <2>2. queue' \subseteq queue
    BY <2>1 DEF Hide
  <2>3. IsFiniteSet(queue') /\ Cardinality(queue') <= Cardinality(queue)
    BY <2>2, FS_Subset DEF QueueT
  <2>4. Cardinality(queue') \in Nat /\ Cardinality(queue) \in Nat
    BY <2>3, FS_CardinalityType DEF QueueT
  <2> QED BY <2>2, <2>3, <2>4 DEF QueueT
<1>7. CASE Crash
  BY <1>7, FS_EmptySet DEF Crash, Down, QueueT
<1>8. CASE (\E failed \in SUBSET rep.trigger.refs : Assemble(failed)) \/ AssembleFails
          \/ Attempt \/ Post \/ Reduce \/ ReduceFails \/ (\E ch \in Chunks : Upload(ch))
          \/ Published \/ Conflict \/ Missing \/ Superseded \/ Rejected \/ Restart
          \/ Change \/ (\E q \in Requests : Show(q)) \/ (\E q \in Requests : Lapse(q))
          \/ (\E ch \in Chunks, written \in BOOLEAN : UploadFails(ch, written))
          \/ (\E ch \in Chunks : Age(ch)) \/ (\E ch \in Chunks : Forget(ch))
          \/ (\E t \in Slots : WorkerRead(t) \/ WorkerProbe(t))
          \/ (\E t \in Slots : WorkerReread(t))
          \/ (\E t \in Slots : WorkerBeat(t)) \/ (\E t \in Slots : WorkerCommit(t))
          \/ Vanish \/ Refuse \/ Timeout \/ LoseCounter \/ Restore \/ Rotate
  <2>1. UNCHANGED <<queue>>
    BY <1>8 DEF Assemble, Spend, AssembleFails, Attempt, Post, Reduce, GiveUp, Answered,
       ReduceFails, Upload, Published, Conflict, Missing, Superseded, Rejected, Restart,
       Change, Show, Lapse, UploadFails, Age, Forget, WorkerRead, WorkerProbe, Reply,
       Proceed,
       WorkerReread, WorkerBeat, WorkerCommit, Vanish, Refuse, Timeout, LoseCounter,
       Restore, Rotate, desktop, cloud, viewers
  <2> QED BY <2>1 DEF QueueT
<1> QED BY <1>1, <1>2, <1>3, <1>4, <1>5, <1>6, <1>7, <1>8, Cases

\* A version that is allocated is above the counter and what was seen.
LEMMA NextTyped ==
  ASSUME StoreT, NEW observed \in 0 .. MaxVersion, HasVersion(observed)
  PROVE  /\ NextVersion(observed) \in Versions /\ NextVersion(observed) \in 0 .. MaxVersion
         /\ NextVersion(observed) > counter /\ NextVersion(observed) > observed
BY PublicationAssumption DEF StoreT, HasVersion, NextVersion, Versions

\* Nothing seen is a version to go on from.
LEMMA ZeroSeen == 0 \in 0 .. MaxVersion
BY PublicationAssumption

\* Every action keeps the durable counter and fingerprint typed.
LEMMA StoreTyped ==
  ASSUME StoreT, RepT, CallsT, CloudT, Next
  PROVE  StoreT'
<1> USE PublicationAssumption
<1> USE DEF StoreT
<1>1. CASE \E failed \in SUBSET rep.trigger.refs : Assemble(failed)
  BY <1>1, NextTyped, ZeroSeen DEF Assemble, Spend, Answer, Idle, cloud
<1>2. CASE Reduce
  <2>1. counter' = counter \/ (HasVersion(0) /\ counter' = NextVersion(0))
    BY <1>2 DEF Reduce
  <2>2. UNCHANGED <<watched, bound>>
    BY <1>2 DEF Reduce
  <2> QED BY <2>1, <2>2, NextTyped, ZeroSeen
<1>3. CASE Published
  BY <1>3 DEF Published, Replied, Answered, Idle, cloud, RepT, Metas, Contents
<1>4. CASE Conflict
  <2>1. calls["own"].hint \in 0 .. MaxVersion
    BY DEF CallsT, Slots
  <2>2. \/ counter' = counter
        \/ HasVersion(calls["own"].hint) /\ counter' = NextVersion(calls["own"].hint)
    BY <1>4 DEF Conflict
  <2>3. UNCHANGED <<watched, bound>>
    BY <1>4 DEF Conflict
  <2> QED BY <2>1, <2>2, <2>3, NextTyped
<1>5. CASE Restart
  BY <1>5 DEF Restart, Idle, cloud, viewers, CloudT
<1>6. CASE LoseCounter
  BY <1>6 DEF LoseCounter, Spend, viewers
<1>7. CASE Bootstrap \/ Woken \/ Hourly \/ AssembleFails \/ Attempt \/ Post \/ ReduceFails
          \/ (\E ch \in Chunks : Upload(ch)) \/ Missing \/ Superseded \/ Rejected
          \/ EpochFatal \/ Change \/ (\E q \in Requests : Show(q))
          \/ (\E q \in Requests : Lapse(q)) \/ (\E q \in Requests : Ask(q))
          \/ (\E rs \in SUBSET Requests : Hide(rs))
          \/ (\E ch \in Chunks, written \in BOOLEAN : UploadFails(ch, written))
          \/ (\E ch \in Chunks : Age(ch)) \/ (\E ch \in Chunks : Forget(ch))
          \/ (\E t \in Slots : WorkerRead(t) \/ WorkerProbe(t))
          \/ (\E t \in Slots : WorkerReread(t))
          \/ (\E t \in Slots : WorkerBeat(t)) \/ (\E t \in Slots : WorkerCommit(t))
          \/ Vanish \/ Refuse \/ Timeout \/ Crash \/ Restore \/ Rotate
  <2>1. UNCHANGED <<bound, counter, watched>>
    BY <1>7 DEF Bootstrap, Begin, Spend, Woken, Hourly, AssembleFails, Attempt, Post,
       ReduceFails, GiveUp, Answered, Upload, Missing, Superseded, Rejected, EpochFatal,
       Down, Change, Show, Lapse, Ask, Hide, UploadFails, Age, Forget, WorkerRead,
       WorkerProbe, Reply,
       Proceed, WorkerReread, WorkerBeat, WorkerCommit, Vanish, Refuse, Timeout, Crash,
       Restore, Rotate, desktop, cloud, viewers
  <2> QED BY <2>1 DEF StoreT
<1> QED BY <1>1, <1>2, <1>3, <1>4, <1>5, <1>6, <1>7, Cases

\* An idle reporter is of its type.
LEMMA IdleTyped ==
  ASSUME NEW due \in BOOLEAN, NEW refused \in Builds \cup {-1}
  PROVE  Idle(due, refused) \in [pc : Steps, trigger : Triggers, pending : Metas,
             failed : SUBSET Requests, todo : SUBSET Chunks,
             rejected : Builds \cup {-1}, boot : BOOLEAN]
BY Constants DEF Idle

\* Every action keeps the reporter typed.
LEMMA RepTyped ==
  ASSUME QueueT, StoreT, ViewersT, CallsT, RepT, Next
  PROVE  RepT'
<1> USE PublicationAssumption, Constants, IdleTyped
<1> USE DEF RepT, Triggers, QueueT, StoreT
<1>1. CASE Bootstrap
  BY <1>1 DEF Bootstrap, Begin, Spend, Answer, cloud, Taken, Live, Watching
<1>2. CASE Woken
  BY <1>2 DEF Woken, Begin, Spend, Answer, cloud, Taken, Live, Watching
<1>3. CASE Hourly
  BY <1>3 DEF Hourly, Begin, Spend, Answer, cloud, Taken, Live, Watching
<1>4. CASE \E failed \in SUBSET rep.trigger.refs : Assemble(failed)
  <2>1. PICK failed \in SUBSET rep.trigger.refs : Assemble(failed)
    BY <1>4
  <2> DEFINE t == Pruned(rep.trigger)
  <2>2. t \in Triggers
    BY DEF Pruned, Live, Watching
  <2>3. CASE rep' = Idle(rep.boot, rep.rejected)
    BY <2>3
  <2>4. CASE rep' # Idle(rep.boot, rep.rejected)
    <3>1. /\ HasVersion(0) /\ counter' = NextVersion(0)
          /\ rep' = [rep EXCEPT !.pc = "attempt", !.trigger = t, !.failed = failed,
                       !.pending = [version |-> counter',
                                    content |-> [build |-> source, trimmed |-> FALSE]],
                       !.boot = @ /\ ~t.boot]
      BY <2>1, <2>4 DEF Assemble
    <3>2. [version |-> counter', content |-> [build |-> source, trimmed |-> FALSE]]
            \in Metas
      BY <3>1, NextTyped, ZeroSeen DEF Metas, Contents, ViewersT
    <3> HIDE DEF t
    <3> QED BY <2>1, <2>2, <3>1, <3>2
  <2> QED BY <2>3, <2>4
<1>5. CASE AssembleFails
  BY <1>5 DEF AssembleFails, Spend, cloud
<1>6. CASE Attempt
  <2> DEFINE t == Pruned(rep.trigger)
  <2>1. t \in Triggers
    BY DEF Pruned, Live, Watching
  <2>2. CASE rep' = Idle(rep.boot, rep.rejected)
    BY <2>2
  <2>3. CASE rep' # Idle(rep.boot, rep.rejected)
    <3> DEFINE todo == PartsOf(rep.pending.content) \ (cache.staged \cup cache.committed)
    <3>1. rep' = [rep EXCEPT !.pc = "upload", !.trigger = t, !.todo = todo]
      BY <1>6, <2>3 DEF Attempt
    <3>2. todo \in SUBSET Chunks
      BY DEF PartsOf, Metas, Contents
    <3> HIDE DEF t, todo
    <3> QED BY <2>1, <3>1, <3>2
  <2> QED BY <2>2, <2>3
<1>7. CASE Post
  BY <1>7 DEF Post, Uploading, cloud, viewers
<1>8. CASE Reduce
  <2>1. CASE rep' = Idle(rep.boot, rep.pending.content.build)
    BY <2>1 DEF Metas, Contents
  <2>2. CASE rep' # Idle(rep.boot, rep.pending.content.build)
    <3> DEFINE less == [version |-> counter',
                        content |-> [rep.pending.content EXCEPT !.trimmed = TRUE]]
    <3>1. /\ HasVersion(0) /\ counter' = NextVersion(0)
          /\ rep' = [rep EXCEPT !.pc = "attempt", !.pending = less]
      BY <1>8, <2>2 DEF Reduce, GiveUp
    <3>2. less \in Metas
      BY <3>1, NextTyped, ZeroSeen DEF Metas, Contents
    <3> HIDE DEF less
    <3> QED BY <3>1, <3>2
  <2> QED BY <2>1, <2>2
<1>9. CASE ReduceFails
  BY <1>9 DEF ReduceFails, GiveUp, Answered, Answer, Refused413, Spend, cloud
<1>10. CASE \E ch \in Chunks : Upload(ch)
  BY <1>10 DEF Upload, Uploading, viewers
<1>11. CASE Published
  BY <1>11 DEF Published, Replied, Answered, cloud, Metas, Contents
<1>12. CASE Conflict
  <2>1. calls["own"].hint \in 0 .. MaxVersion
    BY DEF CallsT, Slots
  <2>2. CASE rep' = [rep EXCEPT !.pc = "attempt"]
    BY <2>2
  <2>3. CASE rep' # [rep EXCEPT !.pc = "attempt"]
    <3> DEFINE next == NextVersion(calls["own"].hint)
    <3>1. /\ HasVersion(calls["own"].hint)
          /\ rep' = [rep EXCEPT !.pc = "attempt", !.pending.version = next]
      BY <1>12, <2>3 DEF Conflict
    <3>2. next \in 0 .. MaxVersion
      BY <2>1, <3>1, NextTyped
    <3> HIDE DEF next
    <3> QED BY <3>1, <3>2 DEF Metas
  <2> QED BY <2>2, <2>3
<1>13. CASE Missing
  BY <1>13 DEF Missing, Replied, Answered, Cleared, cloud, viewers
<1>14. CASE Superseded
  BY <1>14 DEF Superseded, Replied, Answered, cloud, viewers
<1>15. CASE Rejected
  BY <1>15 DEF Rejected, Replied, Answered, GiveUp, Answer, cloud, Metas, Contents
<1>16. CASE EpochFatal
  BY <1>16 DEF EpochFatal, Replied, Answered, Uploading, Down, cloud
<1>17. CASE Restart
  BY <1>17 DEF Restart, cloud, viewers
<1>18. CASE \E ch \in Chunks, written \in BOOLEAN : UploadFails(ch, written)
  BY <1>18 DEF UploadFails, Uploading, Spend, viewers
<1>19. CASE Timeout
  BY <1>19 DEF Timeout, Spend, cloud, viewers
<1>20. CASE Crash
  BY <1>20 DEF Crash, Spend, Down, cloud
<1>21. CASE Change \/ (\E q \in Requests : Show(q)) \/ (\E q \in Requests : Lapse(q))
          \/ (\E q \in Requests : Ask(q)) \/ (\E rs \in SUBSET Requests : Hide(rs))
          \/ (\E ch \in Chunks : Age(ch)) \/ (\E ch \in Chunks : Forget(ch))
          \/ (\E t \in Slots : WorkerRead(t) \/ WorkerProbe(t))
          \/ (\E t \in Slots : WorkerReread(t))
          \/ (\E t \in Slots : WorkerBeat(t)) \/ (\E t \in Slots : WorkerCommit(t))
          \/ Vanish \/ Refuse \/ LoseCounter \/ Restore \/ Rotate
  <2>1. UNCHANGED <<rep>>
    BY <1>21 DEF Change, Show, Lapse, Spend, Ask, Hide, Age, Forget, WorkerRead,
       WorkerProbe, Reply,
       Proceed, WorkerReread, WorkerBeat, WorkerCommit, Vanish, Refuse, LoseCounter,
       Restore, Rotate, desktop, cloud, viewers
  <2> QED BY <2>1 DEF RepT
<1> QED BY <1>1, <1>2, <1>3, <1>4, <1>5, <1>6, <1>7, <1>8, <1>9, <1>10, <1>11, <1>12,
   <1>13, <1>14, <1>15, <1>16, <1>17, <1>18, <1>19, <1>20, <1>21, Cases

\* Every action keeps the acknowledged chunks typed.
LEMMA CacheTyped ==
  ASSUME CacheT, RepT, Next
  PROVE  CacheT'
<1> USE PublicationAssumption
<1> USE DEF CacheT, RepT
<1>1. CASE \E ch \in Chunks : Upload(ch)
  BY <1>1 DEF Upload, Uploading, viewers
<1>2. CASE Published
  BY <1>2 DEF Published, Replied, Answered, Idle, cloud, PartsOf, Metas, Contents
<1>3. CASE Missing
  BY <1>3 DEF Missing, Replied, Answered, Cleared, cloud, viewers
<1>4. CASE EpochFatal
  BY <1>4 DEF EpochFatal, Replied, Answered, Uploading, Down, Idle, cloud
<1>5. CASE \E ch \in Chunks : Forget(ch)
  BY <1>5 DEF Forget, Spend, cloud, viewers
<1>6. CASE Crash
  BY <1>6 DEF Crash, Spend, Down, Idle, cloud
<1>7. CASE Bootstrap \/ Woken \/ Hourly
          \/ (\E failed \in SUBSET rep.trigger.refs : Assemble(failed)) \/ AssembleFails
          \/ Attempt \/ Post \/ Reduce \/ ReduceFails \/ Conflict \/ Superseded
          \/ Rejected \/ Restart \/ Change \/ (\E q \in Requests : Show(q))
          \/ (\E q \in Requests : Lapse(q)) \/ (\E q \in Requests : Ask(q))
          \/ (\E rs \in SUBSET Requests : Hide(rs))
          \/ (\E ch \in Chunks, written \in BOOLEAN : UploadFails(ch, written))
          \/ (\E ch \in Chunks : Age(ch)) \/ (\E t \in Slots : WorkerRead(t) \/ WorkerProbe(t))
          \/ (\E t \in Slots : WorkerReread(t)) \/ (\E t \in Slots : WorkerBeat(t))
          \/ (\E t \in Slots : WorkerCommit(t)) \/ Vanish \/ Refuse \/ Timeout
          \/ LoseCounter \/ Restore \/ Rotate
  <2>1. UNCHANGED <<cache>>
    BY <1>7 DEF Bootstrap, Begin, Spend, Woken, Hourly, Assemble, AssembleFails, Attempt,
       Post, Reduce, GiveUp, Answered, ReduceFails, Conflict, Superseded, Rejected,
       Restart, Change, Show, Lapse, Ask, Hide, UploadFails, Age, WorkerRead, WorkerProbe,
       Reply,
       Proceed, WorkerReread, WorkerBeat, WorkerCommit, Vanish, Refuse, Timeout,
       LoseCounter, Restore, Rotate, desktop, cloud, viewers
  <2> QED BY <2>1 DEF CacheT
<1> QED BY <1>1, <1>2, <1>3, <1>4, <1>5, <1>6, <1>7, Cases

\* No request is of its type.
LEMMA NoCallTyped ==
  NoCall \in [at : Places, version : 0 .. MaxVersion, content : Contents,
             epoch : 1 .. MaxEpoch, reply : Outcomes, hint : 0 .. MaxVersion]
<1>1. /\ NoMeta.content \in Contents /\ 0 \in 0 .. MaxVersion /\ 1 \in 1 .. MaxEpoch
      /\ "none" \in Places /\ "none" \in Outcomes
  BY Constants, PublicationAssumption DEF Metas, Places, Outcomes
<1> QED BY <1>1 DEF NoCall

\* What a reply makes of a request is of its type.
LEMMA ReplyTyped ==
  ASSUME CallsT, NEW s \in Slots, NEW how \in Outcomes, NEW hint \in 0 .. MaxVersion,
         Reply(s, how, hint)
  PROVE  CallsT'
BY NoCallTyped DEF CallsT, Reply, Places

\* Every action keeps the manifests at the Worker typed.
LEMMA CallsTyped ==
  ASSUME CallsT, RepT, StoreT, CloudT, Next
  PROVE  CallsT'
<1> USE NoCallTyped
<1>1. CASE Post
  <2>1. [NoCall EXCEPT !.at = "read", !.version = rep.pending.version,
          !.content = rep.pending.content, !.epoch = bound] \in
           [at : Places, version : 0 .. MaxVersion, content : Contents,
            epoch : 1 .. MaxEpoch, reply : Outcomes, hint : 0 .. MaxVersion]
    BY DEF RepT, StoreT, Metas, Places
  <2> QED BY <1>1, <2>1 DEF Post, CallsT, Slots
<1>2. CASE Reduce
  BY <1>2 DEF Reduce, GiveUp, Answered, Answer, Refused413, Idle, cloud, CallsT, Slots,
     Places
<1>3. CASE ReduceFails
  BY <1>3 DEF ReduceFails, GiveUp, Answered, Answer, Refused413, Idle, Spend, cloud,
     CallsT, Slots, Places
<1>4. CASE Published
  BY <1>4 DEF Published, Replied, Answered, Idle, cloud, CallsT, Slots, Places
<1>5. CASE Conflict
  BY <1>5 DEF Conflict, Replied, Answered, Spend, cloud, viewers, CallsT, Slots, Places
<1>6. CASE Missing
  BY <1>6 DEF Missing, Replied, Answered, Cleared, cloud, viewers, CallsT, Slots, Places
<1>7. CASE Superseded
  BY <1>7 DEF Superseded, Replied, Answered, cloud, viewers, CallsT, Slots, Places
<1>8. CASE Rejected
  BY <1>8 DEF Rejected, Replied, Answered, GiveUp, Answer, Idle, cloud, CallsT, Slots,
     Places
<1>9. CASE EpochFatal
  BY <1>9 DEF EpochFatal, Replied, Answered, Uploading, Down, Idle, cloud, CallsT, Slots,
     Places
<1>10. CASE \E t \in Slots : WorkerRead(t) \/ WorkerProbe(t)
  <2>1. PICK s \in Slots : WorkerRead(s) \/ WorkerProbe(s)
    BY <1>10
  <2>2. d1.meta.version \in 0 .. MaxVersion
    BY DEF CloudT, Metas
  <2>3. \/ calls' = [calls EXCEPT ![s].at = "check"]
        \/ calls' = [calls EXCEPT ![s].at = "absent"]
        \/ calls' = [calls EXCEPT ![s].at = "beat"]
        \/ calls' = [calls EXCEPT ![s].at = "commit"]
        \/ calls' = [calls EXCEPT ![s].at = "beaten"]
        \/ \E how \in Outcomes, hint \in 0 .. MaxVersion : Reply(s, how, hint)
    BY <2>1, <2>2, ZeroSeen DEF WorkerRead, WorkerProbe, Proceed, Outcomes
  <2> QED BY <2>3, ReplyTyped DEF CallsT, Places
<1>11. CASE \E t \in Slots : WorkerReread(t)
  <2>1. PICK s \in Slots : WorkerReread(s)
    BY <1>11
  <2>2. d1.meta.version \in 0 .. MaxVersion
    BY DEF CloudT, Metas
  <2>3. \/ calls' = [calls EXCEPT ![s].at = "beat"]
        \/ calls' = [calls EXCEPT ![s].at = "commit"]
        \/ calls' = [calls EXCEPT ![s].at = "beaten"]
        \/ \E how \in Outcomes, hint \in 0 .. MaxVersion : Reply(s, how, hint)
    BY <2>1, <2>2, ZeroSeen DEF WorkerReread, Proceed, Outcomes
  <2> QED BY <2>3, ReplyTyped DEF CallsT, Places
<1>12. CASE \E t \in Slots : WorkerBeat(t)
  <2>1. PICK s \in Slots : WorkerBeat(s)
    BY <1>12
  <2>2. d1.meta.version \in 0 .. MaxVersion
    BY DEF CloudT, Metas
  <2>3. \/ calls' = [calls EXCEPT ![s].at = "beat"]
        \/ calls' = [calls EXCEPT ![s].at = "commit"]
        \/ calls' = [calls EXCEPT ![s].at = "beaten"]
        \/ \E how \in Outcomes, hint \in 0 .. MaxVersion : Reply(s, how, hint)
    BY <2>1, <2>2, ZeroSeen DEF WorkerBeat, Proceed, Outcomes
  <2> QED BY <2>3, ReplyTyped DEF CallsT, Places
<1>13. CASE \E t \in Slots : WorkerCommit(t)
  BY <1>13 DEF WorkerCommit, Proceed, desktop, viewers, CallsT, Slots, Places
<1>14. CASE Vanish
  BY <1>14 DEF Vanish, desktop, cloud, viewers, CallsT, Slots, Places
<1>15. CASE Refuse
  <2>1. \E how \in Outcomes : Reply("own", how, 0)
    BY <1>15 DEF Refuse, Outcomes
  <2> QED BY <2>1, ReplyTyped, ZeroSeen DEF Slots
<1>16. CASE Timeout
  BY <1>16 DEF Timeout, Spend, cloud, viewers, CallsT, Slots, Places
<1>17. CASE Crash
  BY <1>17 DEF Crash, Spend, Down, Idle, cloud, CallsT, Slots, Places
<1>18. CASE Bootstrap \/ Woken \/ Hourly
          \/ (\E failed \in SUBSET rep.trigger.refs : Assemble(failed)) \/ AssembleFails
          \/ Attempt \/ (\E ch \in Chunks : Upload(ch)) \/ Restart \/ Change
          \/ (\E q \in Requests : Show(q)) \/ (\E q \in Requests : Lapse(q))
          \/ (\E q \in Requests : Ask(q)) \/ (\E rs \in SUBSET Requests : Hide(rs))
          \/ (\E ch \in Chunks, written \in BOOLEAN : UploadFails(ch, written))
          \/ (\E ch \in Chunks : Age(ch)) \/ (\E ch \in Chunks : Forget(ch))
          \/ LoseCounter \/ Restore \/ Rotate
  <2>1. UNCHANGED <<calls>>
    BY <1>18 DEF Bootstrap, Begin, Spend, Woken, Hourly, Assemble, AssembleFails, Attempt,
       Upload, Restart, Change, Show, Lapse, Ask, Hide, UploadFails, Age, Forget,
       LoseCounter, Restore, Rotate, desktop, cloud, viewers
  <2> QED BY <2>1 DEF CallsT
<1> QED BY <1>1, <1>2, <1>3, <1>4, <1>5, <1>6, <1>7, <1>8, <1>9, <1>10, <1>11, <1>12,
   <1>13, <1>14, <1>15, <1>16, <1>17, <1>18, Cases

\* Every action keeps D1, its backup and the history typed.
LEMMA CloudTyped ==
  ASSUME CloudT, CallsT, StoreT, Next
  PROVE  CloudT'
<1> USE PublicationAssumption
<1> USE DEF CloudT
<1>1. CASE \E ch \in Chunks : Upload(ch)
  BY <1>1 DEF Upload, Uploading, viewers, Ages
<1>2. CASE \E ch \in Chunks, written \in BOOLEAN : UploadFails(ch, written)
  BY <1>2 DEF UploadFails, Uploading, Spend, viewers, Ages
<1>3. CASE \E ch \in Chunks : Age(ch)
  BY <1>3 DEF Age, Spend, desktop, viewers, Ages
<1>4. CASE \E t \in Slots : WorkerBeat(t)
  BY <1>4 DEF WorkerBeat, Reply, Proceed, desktop, viewers, Without, Ages
<1>5. CASE \E t \in Slots : WorkerCommit(t)
  <2>1. PICK s \in Slots : WorkerCommit(s)
    BY <1>5
  <2> DEFINE named == [version |-> calls[s].version, content |-> calls[s].content]
  <2>2. /\ named \in Metas /\ calls[s].content \in Contents
        /\ calls[s].version \in 0 .. MaxVersion
    BY DEF CallsT, Metas
  <2>3. \A gone : Without(gone) \in Ages
    BY DEF Without, Ages, CloudT
  <2>4. PICK meta \in Metas : \E gone :
          d1' = [d1 EXCEPT !.meta = meta, !.chunks = Without(gone)]
    BY <2>1, <2>2 DEF WorkerCommit, CloudT
  <2>5. d1' \in [epoch : 1 .. MaxEpoch, meta : Metas, chunks : Ages]
    <3>1. PICK gone : d1' = [d1 EXCEPT !.meta = meta, !.chunks = Without(gone)]
      BY <2>4
    <3> QED BY <2>3, <3>1 DEF CloudT
  <2>6. saved' \in [meta : Metas, chunks : Ages]
    BY <2>1 DEF WorkerCommit, CloudT
  <2>7. history' \subseteq ((1 .. MaxEpoch) \X Versions \X Contents)
    <3>1. CASE Committable(calls[s])
      <4>1. calls[s].version \in Versions
        <5>1. d1.meta.version < calls[s].version /\ d1.meta.version \in 0 .. MaxVersion
          BY <3>1 DEF Committable, CloudT, Metas
        <5> QED BY <5>1, <2>2, PublicationAssumption DEF Versions
      <4>2. history' = history \cup {<<d1.epoch, calls[s].version, calls[s].content>>}
        BY <2>1, <3>1 DEF WorkerCommit
      <4> QED BY <2>2, <4>1, <4>2 DEF CloudT
    <3>2. CASE ~Committable(calls[s])
      BY <2>1, <3>2 DEF WorkerCommit, CloudT
    <3> QED BY <3>1, <3>2
  <2> QED BY <2>5, <2>6, <2>7 DEF CloudT
<1>6. CASE Restore
  BY <1>6 DEF Restore, Spend, desktop, viewers, Ages, Metas
<1>7. CASE Rotate
  BY <1>7, Constants DEF Rotate, Spend, desktop, viewers, Ages
<1>8. CASE Bootstrap \/ Woken \/ Hourly
          \/ (\E failed \in SUBSET rep.trigger.refs : Assemble(failed)) \/ AssembleFails
          \/ Attempt \/ Post \/ Reduce \/ ReduceFails \/ Published \/ Conflict \/ Missing
          \/ Superseded \/ Rejected \/ EpochFatal \/ Restart \/ Change
          \/ (\E q \in Requests : Show(q)) \/ (\E q \in Requests : Lapse(q))
          \/ (\E q \in Requests : Ask(q)) \/ (\E rs \in SUBSET Requests : Hide(rs))
          \/ (\E ch \in Chunks : Forget(ch)) \/ (\E t \in Slots : WorkerRead(t) \/ WorkerProbe(t))
          \/ (\E t \in Slots : WorkerReread(t)) \/ Vanish \/ Refuse \/ Timeout \/ Crash
          \/ LoseCounter
  <2>1. UNCHANGED <<d1, history, saved>>
    BY <1>8 DEF Bootstrap, Begin, Spend, Woken, Hourly, Assemble, AssembleFails, Attempt,
       Post, Reduce, GiveUp, Answered, ReduceFails, Published, Conflict, Missing,
       Superseded, Rejected, EpochFatal, Down, Restart, Change, Show, Lapse, Ask, Hide,
       Forget, WorkerRead, WorkerProbe, Reply, Proceed, WorkerReread, Vanish, Refuse,
       Timeout, Crash,
       LoseCounter, desktop, cloud, viewers
  <2> QED BY <2>1 DEF CloudT
<1> QED BY <1>1, <1>2, <1>3, <1>4, <1>5, <1>6, <1>7, <1>8, Cases

\* Every action keeps the rest typed.
LEMMA RestTyped ==
  ASSUME RestT, Next
  PROVE  RestT'
<1> USE PublicationAssumption
<1> USE DEF RestT
<1>1. CASE Bootstrap
  BY <1>1 DEF Bootstrap, Begin, Spend, Answer, cloud
<1>2. CASE Woken
  BY <1>2 DEF Woken, Begin, Spend, Answer, cloud
<1>3. CASE Hourly
  BY <1>3 DEF Hourly, Begin, Spend, Answer, cloud
<1>4. CASE \E failed \in SUBSET rep.trigger.refs : Assemble(failed)
  BY <1>4 DEF Assemble, Spend, Answer, Idle, cloud
<1>5. CASE AssembleFails
  <2>1. wake' \in BOOLEAN /\ lost' = lost
    BY <1>5 DEF AssembleFails, desktop, cloud, RestT
  <2>2. budget' = budget \/ Spend
    BY <1>5 DEF AssembleFails
  <2> QED BY <2>1, <2>2 DEF RestT, Spend
<1>6. CASE ReduceFails
  <2>1. wake' \in BOOLEAN /\ lost' = lost
    BY <1>6 DEF ReduceFails, desktop, cloud, RestT
  <2>2. budget' = budget \/ Spend
    BY <1>6 DEF ReduceFails
  <2> QED BY <2>1, <2>2 DEF RestT, Spend
<1>7. CASE Conflict
  <2>1. wake' \in BOOLEAN /\ lost' = lost
    BY <1>7 DEF Conflict, desktop, cloud, RestT
  <2>2. budget' = budget \/ Spend
    BY <1>7 DEF Conflict
  <2> QED BY <2>1, <2>2 DEF RestT, Spend
<1>8. CASE EpochFatal
  BY <1>8 DEF EpochFatal, Replied, Answered, Uploading, Down, Idle, cloud
<1>9. CASE Change
  BY <1>9 DEF Change, cloud, viewers
<1>10. CASE \E q \in Requests : Show(q)
  BY <1>10 DEF Show, Spend, cloud
<1>11. CASE \E q \in Requests : Lapse(q)
  BY <1>11 DEF Lapse, Spend, cloud
<1>12. CASE \E q \in Requests : Ask(q)
  BY <1>12 DEF Ask, Answer, Notified, cloud
<1>13. CASE \E rs \in SUBSET Requests : Hide(rs)
  BY <1>13 DEF Hide, Answer, cloud
<1>14. CASE \E ch \in Chunks, written \in BOOLEAN : UploadFails(ch, written)
  BY <1>14 DEF UploadFails, Uploading, Spend, viewers
<1>15. CASE \E ch \in Chunks : Age(ch)
  BY <1>15 DEF Age, Spend, desktop, viewers
<1>16. CASE \E ch \in Chunks : Forget(ch)
  BY <1>16 DEF Forget, Spend, cloud, viewers
<1>17. CASE Refuse
  <2>1. wake' \in BOOLEAN /\ lost' = lost
    BY <1>17 DEF Refuse, desktop, cloud, RestT
  <2>2. budget' = budget \/ Spend
    BY <1>17 DEF Refuse
  <2> QED BY <2>1, <2>2 DEF RestT, Spend
<1>18. CASE Timeout
  BY <1>18 DEF Timeout, Spend, cloud, viewers
<1>19. CASE Crash
  <2>1. wake' \in BOOLEAN /\ lost' = lost
    BY <1>19 DEF Crash, Down, desktop, cloud, RestT
  <2>2. budget' = budget \/ Spend
    BY <1>19 DEF Crash
  <2> QED BY <2>1, <2>2 DEF RestT, Spend
<1>20. CASE LoseCounter
  BY <1>20 DEF LoseCounter, Spend, viewers
<1>21. CASE Restore
  BY <1>21 DEF Restore, Spend, desktop, viewers
<1>22. CASE Rotate
  BY <1>22 DEF Rotate, Spend, desktop, viewers
<1>23. CASE Attempt \/ Post \/ Reduce \/ (\E ch \in Chunks : Upload(ch)) \/ Published
          \/ Missing \/ Superseded \/ Rejected \/ Restart
          \/ (\E t \in Slots : WorkerRead(t) \/ WorkerProbe(t))
          \/ (\E t \in Slots : WorkerReread(t))
          \/ (\E t \in Slots : WorkerBeat(t)) \/ (\E t \in Slots : WorkerCommit(t))
          \/ Vanish
  <2>1. UNCHANGED <<budget, lost, wake>>
    BY <1>23 DEF Attempt, Post, Reduce, GiveUp, Answered, Upload, Published, Missing,
       Superseded, Rejected, Restart, WorkerRead, WorkerProbe, Reply, Proceed, WorkerReread,
       WorkerBeat, WorkerCommit, Vanish, desktop, cloud, viewers
  <2> QED BY <2>1 DEF RestT
<1> QED BY <1>1, <1>2, <1>3, <1>4, <1>5, <1>6, <1>7, <1>8, <1>9, <1>10, <1>11, <1>12,
   <1>13, <1>14, <1>15, <1>16, <1>17, <1>18, <1>19, <1>20, <1>21, <1>22, <1>23, Cases

\* Every step keeps the types.
LEMMA TypeStep ==
  ASSUME TypeOK, IsFiniteSet(queue), Next
  PROVE  TypeOK' /\ IsFiniteSet(queue')
<1>1. ViewersT /\ QueueT /\ StoreT /\ RepT /\ CacheT /\ CallsT /\ CloudT /\ RestT
  BY TypeParts
<1>2. ViewersT' /\ QueueT' /\ StoreT' /\ RepT'
  BY <1>1, ViewersTyped, QueueTyped, StoreTyped, RepTyped
<1>3. CacheT' /\ CallsT' /\ CloudT' /\ RestT'
  BY <1>1, CacheTyped, CallsTyped, CloudTyped, RestTyped
<1> QED BY <1>2, <1>3 DEF TypeOK, ViewersT, QueueT, StoreT, RepT, CacheT, CallsT, CloudT,
   RestT, Steps, Triggers, Metas, Places, Ages, Slots

-----------------------------------------------------------------------------

\* What a step may do to the publication under way: it keeps its version and
\* content, or it takes a version above every earlier one.
PendingFrom ==
  /\ rep'.trigger.refs \subseteq rep.trigger.refs
  /\ \/ Working /\ rep'.pending = rep.pending /\ counter' = counter
     \/ /\ rep'.pending.version = counter' /\ counter' > counter
        /\ \/ Working /\ rep'.pending.content.build = rep.pending.content.build
           \/ rep.pc = "references" /\ rep'.pending.content.build = source

\* The publication under way is the earlier one, or has a new version.
LEMMA PendingComes ==
  ASSUME StoreT, RepT, CallsT, Next, Working'
  PROVE  PendingFrom
<1> USE DEF RepT
<1>1. CASE Bootstrap
  BY <1>1 DEF Bootstrap, Begin, Spend, Answer, cloud, Working, PendingFrom
<1>2. CASE Woken
  BY <1>2 DEF Woken, Begin, Spend, Answer, cloud, Working, PendingFrom
<1>3. CASE Hourly
  BY <1>3 DEF Hourly, Begin, Spend, Answer, cloud, Working, PendingFrom
<1>4. CASE \E failed \in SUBSET rep.trigger.refs : Assemble(failed)
  <2>1. PICK failed \in SUBSET rep.trigger.refs : Assemble(failed)
    BY <1>4
  <2>2. rep' # Idle(rep.boot, rep.rejected)
    BY DEF Working, Idle
  <2>3. /\ HasVersion(0) /\ counter' = NextVersion(0) /\ rep.pc = "references"
        /\ rep' = [rep EXCEPT !.pc = "attempt", !.trigger = Pruned(rep.trigger),
                     !.failed = failed,
                     !.pending = [version |-> counter',
                                  content |-> [build |-> source, trimmed |-> FALSE]],
                     !.boot = @ /\ ~Pruned(rep.trigger).boot]
    BY <2>1, <2>2 DEF Assemble
  <2>4. /\ rep'.trigger = Pruned(rep.trigger) /\ rep'.pending.version = counter'
        /\ rep'.pending.content.build = source
    BY <2>3
  <2>5. counter' > counter
    BY <2>3, NextTyped, ZeroSeen
  <2>6. rep'.trigger.refs \subseteq rep.trigger.refs
    BY <2>4 DEF Pruned, Live, Triggers
  <2> QED BY <2>3, <2>4, <2>5, <2>6 DEF PendingFrom
<1>5. CASE AssembleFails
  BY <1>5 DEF AssembleFails, Spend, Idle, cloud, Working, PendingFrom
<1>6. CASE Attempt
  <2>1. rep' # Idle(rep.boot, rep.rejected)
    BY DEF Working, Idle
  <2>2. PICK todo : rep' = [rep EXCEPT !.pc = "upload", !.trigger = Pruned(rep.trigger),
                             !.todo = todo]
    BY <1>6, <2>1 DEF Attempt
  <2>3. rep'.trigger = Pruned(rep.trigger) /\ rep'.pending = rep.pending
    BY <2>2
  <2>4. rep'.trigger.refs \subseteq rep.trigger.refs
    BY <2>3 DEF Pruned, Live, Triggers
  <2>5. rep.pc = "attempt" /\ counter' = counter
    BY <1>6 DEF Attempt
  <2> QED BY <2>3, <2>4, <2>5 DEF PendingFrom, Working
<1>7. CASE Post
  BY <1>7 DEF Post, Uploading, cloud, viewers, Working, PendingFrom
<1>8. CASE Reduce
  <2>1. rep' # Idle(rep.boot, rep.pending.content.build)
    BY DEF Working, Idle
  <2>2. /\ HasVersion(0) /\ counter' = NextVersion(0)
        /\ rep' = [rep EXCEPT !.pc = "attempt", !.pending =
                     [version |-> counter',
                      content |-> [rep.pending.content EXCEPT !.trimmed = TRUE]]]
    BY <1>8, <2>1 DEF Reduce, GiveUp
  <2>3. /\ rep'.trigger = rep.trigger /\ rep'.pending.version = counter'
        /\ rep'.pending.content.build = rep.pending.content.build
    BY <2>2 DEF Metas, Contents
  <2>4. counter' > counter
    BY <2>2, NextTyped, ZeroSeen
  <2>5. Working
    BY <1>8 DEF Reduce, Refused413, Replied, Working
  <2> QED BY <2>3, <2>4, <2>5 DEF PendingFrom
<1>9. CASE ReduceFails
  BY <1>9 DEF ReduceFails, GiveUp, Answered, Answer, Refused413, Idle, Spend, cloud,
     Working, PendingFrom
<1>10. CASE \E ch \in Chunks : Upload(ch)
  BY <1>10 DEF Upload, Uploading, viewers, Working, PendingFrom
<1>11. CASE Published
  BY <1>11 DEF Published, Replied, Answered, Idle, cloud, Working, PendingFrom
<1>12. CASE Conflict
  <2> DEFINE next == NextVersion(calls["own"].hint)
  <2>1. Working
    BY <1>12 DEF Conflict, Replied, Working
  <2>2. CASE rep' = [rep EXCEPT !.pc = "attempt"] /\ counter' = counter
    BY <2>1, <2>2 DEF PendingFrom
  <2>3. CASE ~(rep' = [rep EXCEPT !.pc = "attempt"] /\ counter' = counter)
    <3>1. /\ HasVersion(calls["own"].hint) /\ counter' = next
          /\ rep' = [rep EXCEPT !.pc = "attempt", !.pending.version = next]
      BY <1>12, <2>3 DEF Conflict
    <3>2. next > counter
      BY <3>1, NextTyped DEF CallsT, Slots
    <3> HIDE DEF next
    <3> QED BY <2>1, <3>1, <3>2 DEF PendingFrom, Metas
  <2> QED BY <2>2, <2>3
<1>13. CASE Missing
  BY <1>13 DEF Missing, Replied, Answered, Cleared, cloud, viewers, Working, PendingFrom
<1>14. CASE Superseded
  BY <1>14 DEF Superseded, Replied, Answered, cloud, viewers, Working, PendingFrom
<1>15. CASE Rejected
  BY <1>15 DEF Rejected, Replied, Answered, GiveUp, Answer, Idle, cloud, Working,
     PendingFrom
<1>16. CASE EpochFatal
  BY <1>16 DEF EpochFatal, Replied, Answered, Uploading, Down, Idle, cloud, Working,
     PendingFrom
<1>17. CASE Restart
  BY <1>17 DEF Restart, Idle, cloud, viewers, Working, PendingFrom
<1>18. CASE \E ch \in Chunks, written \in BOOLEAN : UploadFails(ch, written)
  BY <1>18 DEF UploadFails, Uploading, Spend, viewers, Working, PendingFrom
<1>19. CASE Timeout
  BY <1>19 DEF Timeout, Spend, cloud, viewers, Working, PendingFrom
<1>20. CASE Crash
  BY <1>20 DEF Crash, Spend, Down, Idle, cloud, Working, PendingFrom
<1>21. CASE LoseCounter
  BY <1>21 DEF LoseCounter, Spend, viewers, Working, PendingFrom
<1>22. CASE Change \/ (\E q \in Requests : Show(q)) \/ (\E q \in Requests : Lapse(q))
          \/ (\E q \in Requests : Ask(q)) \/ (\E rs \in SUBSET Requests : Hide(rs))
          \/ (\E ch \in Chunks : Age(ch)) \/ (\E ch \in Chunks : Forget(ch))
          \/ (\E t \in Slots : WorkerRead(t) \/ WorkerProbe(t))
          \/ (\E t \in Slots : WorkerReread(t))
          \/ (\E t \in Slots : WorkerBeat(t)) \/ (\E t \in Slots : WorkerCommit(t))
          \/ Vanish \/ Refuse \/ Restore \/ Rotate
  <2>1. UNCHANGED <<counter, rep>>
    BY <1>22 DEF Change, Show, Lapse, Spend, Ask, Hide, Age, Forget, WorkerRead,
       WorkerProbe, Reply,
       Proceed, WorkerReread, WorkerBeat, WorkerCommit, Vanish, Refuse, Restore, Rotate,
       desktop, cloud, viewers
  <2> QED BY <2>1 DEF PendingFrom, Working
<1> QED BY <1>1, <1>2, <1>3, <1>4, <1>5, <1>6, <1>7, <1>8, <1>9, <1>10, <1>11, <1>12,
   <1>13, <1>14, <1>15, <1>16, <1>17, <1>18, <1>19, <1>20, <1>21, <1>22, Cases

\* The epoch of D1 only grows.
LEMMA EpochMoves ==
  ASSUME CloudT, Next
  PROVE  d1'.epoch >= d1.epoch
<1> USE PublicationAssumption
<1> USE DEF CloudT
<1>1. CASE \E ch \in Chunks : Upload(ch)
  BY <1>1 DEF Upload, Uploading, viewers
<1>2. CASE \E ch \in Chunks, written \in BOOLEAN : UploadFails(ch, written)
  BY <1>2 DEF UploadFails, Uploading, Spend, viewers
<1>3. CASE \E ch \in Chunks : Age(ch)
  BY <1>3 DEF Age, Spend, desktop, viewers
<1>4. CASE \E t \in Slots : WorkerBeat(t)
  BY <1>4 DEF WorkerBeat, Reply, Proceed, desktop, viewers
<1>5. CASE \E t \in Slots : WorkerCommit(t)
  BY <1>5 DEF WorkerCommit, Proceed, desktop, viewers
<1>6. CASE Restore
  BY <1>6 DEF Restore, Spend, desktop, viewers
<1>7. CASE Rotate
  BY <1>7 DEF Rotate, Spend, desktop, viewers
<1>8. CASE Bootstrap \/ Woken \/ Hourly
          \/ (\E failed \in SUBSET rep.trigger.refs : Assemble(failed)) \/ AssembleFails
          \/ Attempt \/ Post \/ Reduce \/ ReduceFails \/ Published \/ Conflict \/ Missing
          \/ Superseded \/ Rejected \/ EpochFatal \/ Restart \/ Change
          \/ (\E q \in Requests : Show(q)) \/ (\E q \in Requests : Lapse(q))
          \/ (\E q \in Requests : Ask(q)) \/ (\E rs \in SUBSET Requests : Hide(rs))
          \/ (\E ch \in Chunks : Forget(ch)) \/ (\E t \in Slots : WorkerRead(t) \/ WorkerProbe(t))
          \/ (\E t \in Slots : WorkerReread(t)) \/ Vanish \/ Refuse \/ Timeout \/ Crash
          \/ LoseCounter
  <2>1. UNCHANGED <<d1>>
    BY <1>8 DEF Bootstrap, Begin, Spend, Woken, Hourly, Assemble, AssembleFails, Attempt,
       Post, Reduce, GiveUp, Answered, ReduceFails, Published, Conflict, Missing,
       Superseded, Rejected, EpochFatal, Down, Restart, Change, Show, Lapse, Ask, Hide,
       Forget, WorkerRead, WorkerProbe, Reply, Proceed, WorkerReread, Vanish, Refuse,
       Timeout, Crash,
       LoseCounter, desktop, cloud, viewers
  <2> QED BY <2>1
<1> QED BY <1>1, <1>2, <1>3, <1>4, <1>5, <1>6, <1>7, <1>8, Cases

\* The counter only grows within an epoch, unless it is lost.
BoundFrom ==
  \/ bound' = bound /\ counter' >= counter
  \/ /\ bound' = d1.epoch /\ bound' # bound /\ counter' = 0
     /\ rep'.pc = "wait" /\ UNCHANGED <<calls, history, d1, lost>>
  \/ LoseCounter

\* The desktop's epoch and counter move together.
LEMMA BoundMoves ==
  ASSUME StoreT, CallsT, Next
  PROVE  BoundFrom
<1> USE PublicationAssumption
<1>1. CASE \E failed \in SUBSET rep.trigger.refs : Assemble(failed)
  <2>1. /\ bound' = bound
        /\ counter' = counter \/ (HasVersion(0) /\ counter' = NextVersion(0))
    BY <1>1 DEF Assemble
  <2> QED BY <2>1, NextTyped, ZeroSeen DEF BoundFrom, StoreT
<1>2. CASE Reduce
  <2>1. /\ bound' = bound
        /\ counter' = counter \/ (HasVersion(0) /\ counter' = NextVersion(0))
    BY <1>2 DEF Reduce
  <2> QED BY <2>1, NextTyped, ZeroSeen DEF BoundFrom, StoreT
<1>3. CASE Conflict
  <2>1. calls["own"].hint \in 0 .. MaxVersion
    BY DEF CallsT, Slots
  <2>2. /\ bound' = bound
        /\ \/ counter' = counter
           \/ HasVersion(calls["own"].hint) /\ counter' = NextVersion(calls["own"].hint)
    BY <1>3 DEF Conflict
  <2> QED BY <2>1, <2>2, NextTyped DEF BoundFrom, StoreT
<1>4. CASE Restart
  BY <1>4 DEF Restart, Idle, cloud, viewers, StoreT, BoundFrom
<1>5. CASE LoseCounter
  BY <1>5 DEF LoseCounter, Spend, viewers, StoreT, BoundFrom
<1>6. CASE Bootstrap \/ Woken \/ Hourly \/ AssembleFails \/ Attempt \/ Post \/ ReduceFails
          \/ (\E ch \in Chunks : Upload(ch)) \/ Published \/ Missing \/ Superseded
          \/ Rejected \/ EpochFatal \/ Change \/ (\E q \in Requests : Show(q))
          \/ (\E q \in Requests : Lapse(q)) \/ (\E q \in Requests : Ask(q))
          \/ (\E rs \in SUBSET Requests : Hide(rs))
          \/ (\E ch \in Chunks, written \in BOOLEAN : UploadFails(ch, written))
          \/ (\E ch \in Chunks : Age(ch)) \/ (\E ch \in Chunks : Forget(ch))
          \/ (\E t \in Slots : WorkerRead(t) \/ WorkerProbe(t))
          \/ (\E t \in Slots : WorkerReread(t))
          \/ (\E t \in Slots : WorkerBeat(t)) \/ (\E t \in Slots : WorkerCommit(t))
          \/ Vanish \/ Refuse \/ Timeout \/ Crash \/ Restore \/ Rotate
  <2>1. UNCHANGED <<bound, counter>>
    BY <1>6 DEF Bootstrap, Begin, Spend, Woken, Hourly, AssembleFails, Attempt, Post,
       ReduceFails, GiveUp, Answered, Upload, Published, Missing, Superseded, Rejected,
       EpochFatal, Down, Change, Show, Lapse, Ask, Hide, UploadFails, Age, Forget,
       WorkerRead, WorkerProbe, Reply, Proceed, WorkerReread, WorkerBeat, WorkerCommit,
       Vanish, Refuse,
       Timeout, Crash, Restore, Rotate, desktop, cloud, viewers
  <2> QED BY <2>1 DEF BoundFrom, StoreT
<1> QED BY <1>1, <1>2, <1>3, <1>4, <1>5, <1>6, Cases

\* What a step may do to the manifests at the Worker: they keep their name,
\* the awaited one may be abandoned, or the pending publication is posted.
CallFrom(s) ==
  \/ InFlight(s) /\ (Named(s))' = Named(s)
  \/ s = "stale" /\ InFlight("own") /\ (Named(s))' = Named("own")
  \/ /\ s = "own" /\ rep.pc = "upload"
     /\ (Named(s))' = <<bound, rep.pending.version, rep.pending.content>>

\* Serving a manifest does not rename any.
LEMMA ServedNamed ==
  ASSUME CallsT, NEW t \in Slots, NEW s \in Slots, InFlight(t), (InFlight(s))',
         (\E how, hint : Reply(t, how, hint)) \/ (\E at : Proceed(t, at))
  PROVE  InFlight(s) /\ (Named(s))' = Named(s)
<1>1. CASE \E at : Proceed(t, at)
  BY <1>1 DEF CallsT, Proceed, InFlight, Named
<1>2. CASE \E how, hint : Reply(t, how, hint)
  <2>1. PICK how, hint : Reply(t, how, hint)
    BY <1>2
  <2>2. CASE t = "stale"
    BY <2>1, <2>2 DEF CallsT, Reply, InFlight, Named, NoCall, Slots
  <2>3. CASE t = "own"
    BY <2>1, <2>3 DEF CallsT, Reply, InFlight, Named, Slots
  <2> QED BY <2>2, <2>3 DEF Slots
<1> QED BY <1>1, <1>2

\* A manifest at the Worker was there, was abandoned, or is posted.
LEMMA CallsCome ==
  ASSUME CallsT, Next, NEW s \in Slots, (InFlight(s))'
  PROVE  CallFrom(s)
<1> USE DEF CallsT
<1>1. CASE Post
  BY <1>1 DEF Post, Uploading, cloud, viewers, CallFrom, Named, InFlight, Slots, NoCall
<1>2. CASE Reduce
  BY <1>2 DEF Reduce, GiveUp, Answered, Answer, Refused413, Idle, cloud, CallFrom, Named,
     InFlight, Slots, NoCall
<1>3. CASE ReduceFails
  BY <1>3 DEF ReduceFails, GiveUp, Answered, Answer, Refused413, Idle, Spend, cloud,
     CallFrom, Named, InFlight, Slots, NoCall
<1>4. CASE Published
  BY <1>4 DEF Published, Replied, Answered, Idle, cloud, CallFrom, Named, InFlight, Slots,
     NoCall
<1>5. CASE Conflict
  BY <1>5 DEF Conflict, Replied, Answered, Spend, cloud, viewers, CallFrom, Named,
     InFlight, Slots, NoCall
<1>6. CASE Missing
  BY <1>6 DEF Missing, Replied, Answered, Cleared, cloud, viewers, CallFrom, Named,
     InFlight, Slots, NoCall
<1>7. CASE Superseded
  BY <1>7 DEF Superseded, Replied, Answered, cloud, viewers, CallFrom, Named, InFlight,
     Slots, NoCall
<1>8. CASE Rejected
  BY <1>8 DEF Rejected, Replied, Answered, GiveUp, Answer, Idle, cloud, CallFrom, Named,
     InFlight, Slots, NoCall
<1>9. CASE EpochFatal
  BY <1>9 DEF EpochFatal, Replied, Answered, Uploading, Down, Idle, cloud, CallFrom,
     Named, InFlight, Slots, NoCall
<1>10. CASE \E t \in Slots : WorkerRead(t) \/ WorkerProbe(t)
  <2>1. PICK t \in Slots : WorkerRead(t) \/ WorkerProbe(t)
    BY <1>10
  <2>2. /\ InFlight(t)
        /\ (\E how, hint : Reply(t, how, hint)) \/ (\E at : Proceed(t, at))
    BY <2>1 DEF WorkerRead, WorkerProbe, InFlight
  <2> QED BY <2>2, ServedNamed DEF CallFrom
<1>11. CASE \E t \in Slots : WorkerReread(t)
  <2>1. PICK t \in Slots : WorkerReread(t)
    BY <1>11
  <2>2. /\ InFlight(t)
        /\ (\E how, hint : Reply(t, how, hint)) \/ (\E at : Proceed(t, at))
    BY <2>1 DEF WorkerReread, InFlight
  <2> QED BY <2>2, ServedNamed DEF CallFrom
<1>12. CASE \E t \in Slots : WorkerBeat(t)
  <2>1. PICK t \in Slots : WorkerBeat(t)
    BY <1>12
  <2>2. /\ InFlight(t)
        /\ (\E how, hint : Reply(t, how, hint)) \/ (\E at : Proceed(t, at))
    BY <2>1 DEF WorkerBeat, InFlight
  <2> QED BY <2>2, ServedNamed DEF CallFrom
<1>13. CASE \E t \in Slots : WorkerCommit(t)
  <2>1. PICK t \in Slots : WorkerCommit(t)
    BY <1>13
  <2>2. /\ InFlight(t)
        /\ (\E how, hint : Reply(t, how, hint)) \/ (\E at : Proceed(t, at))
    BY <2>1 DEF WorkerCommit, InFlight
  <2> QED BY <2>2, ServedNamed DEF CallFrom
<1>14. CASE Vanish
  BY <1>14 DEF Vanish, desktop, cloud, viewers, CallFrom, Named, InFlight, Slots, NoCall
<1>15. CASE Refuse
  <2>1. InFlight("own") /\ \E how : Reply("own", how, 0)
    BY <1>15 DEF Refuse, InFlight
  <2> QED BY <2>1, ServedNamed DEF CallFrom, Slots
<1>16. CASE Timeout
  BY <1>16 DEF Timeout, Spend, cloud, viewers, CallFrom, Named, InFlight, Slots, NoCall
<1>17. CASE Crash
  BY <1>17 DEF Crash, Spend, Down, Idle, cloud, CallFrom, Named, InFlight, Slots, NoCall
<1>18. CASE Bootstrap \/ Woken \/ Hourly
          \/ (\E failed \in SUBSET rep.trigger.refs : Assemble(failed)) \/ AssembleFails
          \/ Attempt \/ (\E ch \in Chunks : Upload(ch)) \/ Restart \/ Change
          \/ (\E q \in Requests : Show(q)) \/ (\E q \in Requests : Lapse(q))
          \/ (\E q \in Requests : Ask(q)) \/ (\E rs \in SUBSET Requests : Hide(rs))
          \/ (\E ch \in Chunks, written \in BOOLEAN : UploadFails(ch, written))
          \/ (\E ch \in Chunks : Age(ch)) \/ (\E ch \in Chunks : Forget(ch))
          \/ LoseCounter \/ Restore \/ Rotate
  <2>1. UNCHANGED <<calls>>
    BY <1>18 DEF Bootstrap, Begin, Spend, Woken, Hourly, Assemble, AssembleFails, Attempt,
       Upload, Restart, Change, Show, Lapse, Ask, Hide, UploadFails, Age, Forget,
       LoseCounter, Restore, Rotate, desktop, cloud, viewers
  <2> QED BY <2>1 DEF CallFrom, Named, InFlight
<1> QED BY <1>1, <1>2, <1>3, <1>4, <1>5, <1>6, <1>7, <1>8, <1>9, <1>10, <1>11, <1>12,
   <1>13, <1>14, <1>15, <1>16, <1>17, <1>18, Cases

\* What a step may do to the history: a manifest at the Worker is committed.
HistoryFrom ==
  \/ history' = history
  \/ \E s \in Slots :
       /\ InFlight(s) /\ Committable(calls[s]) /\ lost' = lost
       /\ history' = history \cup {Named(s)}
       /\ d1'.epoch = d1.epoch /\ d1'.meta.version = calls[s].version

\* The history changes by the commit of a manifest only.
LEMMA HistoryComes ==
  ASSUME CloudT, Next
  PROVE  HistoryFrom
<1>1. CASE \E t \in Slots : WorkerCommit(t)
  <2>1. PICK s \in Slots : WorkerCommit(s)
    BY <1>1
  <2>2. CASE Committable(calls[s])
    <3>1. /\ history' = history \cup {<<d1.epoch, calls[s].version, calls[s].content>>}
          /\ d1.epoch = calls[s].epoch /\ lost' = lost /\ InFlight(s)
      BY <2>1, <2>2 DEF WorkerCommit, Committable, InFlight
    <3>2. PICK gone :
            d1' = [d1 EXCEPT !.meta = [version |-> calls[s].version,
                                       content |-> calls[s].content],
                             !.chunks = Without(gone)]
      BY <2>1, <2>2 DEF WorkerCommit
    <3>3. d1'.epoch = d1.epoch /\ d1'.meta.version = calls[s].version
      BY <3>2 DEF CloudT
    <3> QED BY <2>2, <3>1, <3>3 DEF HistoryFrom, Named
  <2>3. CASE ~Committable(calls[s])
    BY <2>1, <2>3 DEF WorkerCommit, HistoryFrom
  <2> QED BY <2>2, <2>3
<1>2. CASE Bootstrap \/ Woken \/ Hourly
          \/ (\E failed \in SUBSET rep.trigger.refs : Assemble(failed)) \/ AssembleFails
          \/ Attempt \/ Post \/ Reduce \/ ReduceFails \/ (\E ch \in Chunks : Upload(ch))
          \/ Published \/ Conflict \/ Missing \/ Superseded \/ Rejected \/ EpochFatal
          \/ Restart \/ Change \/ (\E q \in Requests : Show(q))
          \/ (\E q \in Requests : Lapse(q)) \/ (\E q \in Requests : Ask(q))
          \/ (\E rs \in SUBSET Requests : Hide(rs))
          \/ (\E ch \in Chunks, written \in BOOLEAN : UploadFails(ch, written))
          \/ (\E ch \in Chunks : Age(ch)) \/ (\E ch \in Chunks : Forget(ch))
          \/ (\E t \in Slots : WorkerRead(t) \/ WorkerProbe(t))
          \/ (\E t \in Slots : WorkerReread(t))
          \/ (\E t \in Slots : WorkerBeat(t)) \/ Vanish \/ Refuse \/ Timeout \/ Crash
          \/ LoseCounter \/ Restore \/ Rotate
  <2>1. UNCHANGED <<history>>
    BY <1>2 DEF Bootstrap, Begin, Spend, Woken, Hourly, Assemble, AssembleFails, Attempt,
       Post, Reduce, GiveUp, Answered, ReduceFails, Upload, Published, Conflict, Missing,
       Superseded, Rejected, EpochFatal, Down, Restart, Change, Show, Lapse, Ask, Hide,
       UploadFails, Age, Forget, WorkerRead, WorkerProbe, Reply, Proceed, WorkerReread,
       WorkerBeat,
       Vanish, Refuse, Timeout, Crash, LoseCounter, Restore, Rotate, desktop, cloud,
       viewers
  <2> QED BY <2>1 DEF HistoryFrom
<1> QED BY <1>1, <1>2, Cases

\* Nothing that was committed is forgotten.
LEMMA HistoryGrows ==
  ASSUME CloudT, Next
  PROVE  history \subseteq history'
BY HistoryComes DEF HistoryFrom

\* A lost counter stays lost.
LEMMA LostMoves ==
  ASSUME Next, lost' # "counter"
  PROVE  lost # "counter"
<1>1. CASE LoseCounter
  BY <1>1 DEF LoseCounter, Spend, viewers
<1>2. CASE Restore
  BY <1>2 DEF Restore, Spend, desktop, viewers
<1>3. CASE Bootstrap \/ Woken \/ Hourly
          \/ (\E failed \in SUBSET rep.trigger.refs : Assemble(failed)) \/ AssembleFails
          \/ Attempt \/ Post \/ Reduce \/ ReduceFails \/ (\E ch \in Chunks : Upload(ch))
          \/ Published \/ Conflict \/ Missing \/ Superseded \/ Rejected \/ EpochFatal
          \/ Restart \/ Change \/ (\E q \in Requests : Show(q))
          \/ (\E q \in Requests : Lapse(q)) \/ (\E q \in Requests : Ask(q))
          \/ (\E rs \in SUBSET Requests : Hide(rs))
          \/ (\E ch \in Chunks, written \in BOOLEAN : UploadFails(ch, written))
          \/ (\E ch \in Chunks : Age(ch)) \/ (\E ch \in Chunks : Forget(ch))
          \/ (\E t \in Slots : WorkerRead(t) \/ WorkerProbe(t))
          \/ (\E t \in Slots : WorkerReread(t))
          \/ (\E t \in Slots : WorkerBeat(t)) \/ (\E t \in Slots : WorkerCommit(t))
          \/ Vanish \/ Refuse \/ Timeout \/ Crash \/ Rotate
  <2>1. UNCHANGED <<lost>>
    BY <1>3 DEF Bootstrap, Begin, Spend, Woken, Hourly, Assemble, AssembleFails, Attempt,
       Post, Reduce, GiveUp, Answered, ReduceFails, Upload, Published, Conflict, Missing,
       Superseded, Rejected, EpochFatal, Down, Restart, Change, Show, Lapse, Ask, Hide,
       UploadFails, Age, Forget, WorkerRead, WorkerProbe, Reply, Proceed, WorkerReread,
       WorkerBeat,
       WorkerCommit, Vanish, Refuse, Timeout, Crash, Rotate, desktop, cloud, viewers
  <2> QED BY <2>1
<1> QED BY <1>1, <1>2, <1>3, Cases

\* The awaited manifest is the publication under way, in the desktop's epoch.
LEMMA OwnStays ==
  ASSUME RepT, CallsT, CallsOK, Next
  PROVE  (InFlight("own"))' =>
           /\ rep'.pc = "posted"
           /\ (Named("own"))' = <<bound', rep'.pending.version, rep'.pending.content>>
<1>1. CASE Bootstrap
  BY <1>1 DEF Bootstrap, Begin, Spend, Answer, cloud, CallsT, RepT, Slots, InFlight,
     Named, NoCall, CallsOK, Working
<1>2. CASE Woken
  BY <1>2 DEF Woken, Begin, Spend, Answer, cloud, CallsT, RepT, Slots, InFlight, Named,
     NoCall, CallsOK, Working
<1>3. CASE Hourly
  BY <1>3 DEF Hourly, Begin, Spend, Answer, cloud, CallsT, RepT, Slots, InFlight, Named,
     NoCall, CallsOK, Working
<1>4. CASE \E failed \in SUBSET rep.trigger.refs : Assemble(failed)
  BY <1>4 DEF Assemble, Spend, Answer, Idle, cloud, CallsT, RepT, Slots, InFlight, Named,
     NoCall, CallsOK, Working
<1>5. CASE AssembleFails
  BY <1>5 DEF AssembleFails, Spend, Idle, cloud, CallsT, RepT, Slots, InFlight, Named,
     NoCall, CallsOK, Working
<1>6. CASE Attempt
  BY <1>6 DEF Attempt, Answer, Idle, cloud, CallsT, RepT, Slots, InFlight, Named, NoCall,
     CallsOK, Working
<1>7. CASE Post
  BY <1>7 DEF Post, Uploading, cloud, viewers, CallsT, RepT, Slots, InFlight, Named,
     NoCall, CallsOK, Working
<1>8. CASE Reduce
  BY <1>8 DEF Reduce, GiveUp, Answered, Answer, Refused413, Idle, cloud, CallsT, RepT,
     Slots, InFlight, Named, NoCall, CallsOK, Working
<1>9. CASE ReduceFails
  BY <1>9 DEF ReduceFails, GiveUp, Answered, Answer, Refused413, Idle, Spend, cloud,
     CallsT, RepT, Slots, InFlight, Named, NoCall, CallsOK, Working
<1>10. CASE \E ch \in Chunks : Upload(ch)
  BY <1>10 DEF Upload, Uploading, viewers, CallsT, RepT, Slots, InFlight, Named, NoCall,
     CallsOK, Working
<1>11. CASE Published
  BY <1>11 DEF Published, Replied, Answered, Idle, cloud, CallsT, RepT, Slots, InFlight,
     Named, NoCall, CallsOK, Working
<1>12. CASE Conflict
  BY <1>12 DEF Conflict, Replied, Answered, Spend, cloud, viewers, CallsT, RepT, Slots,
     InFlight, Named, NoCall, CallsOK, Working
<1>13. CASE Missing
  BY <1>13 DEF Missing, Replied, Answered, Cleared, cloud, viewers, CallsT, RepT, Slots,
     InFlight, Named, NoCall, CallsOK, Working
<1>14. CASE Superseded
  BY <1>14 DEF Superseded, Replied, Answered, cloud, viewers, CallsT, RepT, Slots,
     InFlight, Named, NoCall, CallsOK, Working
<1>15. CASE Rejected
  BY <1>15 DEF Rejected, Replied, Answered, GiveUp, Answer, Idle, cloud, CallsT, RepT,
     Slots, InFlight, Named, NoCall, CallsOK, Working
<1>16. CASE EpochFatal
  BY <1>16 DEF EpochFatal, Replied, Answered, Uploading, Down, Idle, cloud, CallsT, RepT,
     Slots, InFlight, Named, NoCall, CallsOK, Working
<1>17. CASE Restart
  BY <1>17 DEF Restart, Idle, cloud, viewers, CallsT, RepT, Slots, InFlight, Named,
     NoCall, CallsOK, Working
<1>18. CASE \E ch \in Chunks, written \in BOOLEAN : UploadFails(ch, written)
  BY <1>18 DEF UploadFails, Uploading, Spend, viewers, CallsT, RepT, Slots, InFlight,
     Named, NoCall, CallsOK, Working
<1>19. CASE \E t \in Slots : WorkerRead(t) \/ WorkerProbe(t)
  <2>1. PICK t \in Slots : WorkerRead(t) \/ WorkerProbe(t)
    BY <1>19
  <2>2. /\ InFlight(t) /\ UNCHANGED <<rep, bound>>
        /\ (\E how, hint : Reply(t, how, hint)) \/ (\E at : Proceed(t, at))
    BY <2>1 DEF WorkerRead, WorkerProbe, InFlight, desktop
  <2> QED BY <2>2, ServedNamed DEF CallsOK, Slots
<1>20. CASE \E t \in Slots : WorkerReread(t)
  <2>1. PICK t \in Slots : WorkerReread(t)
    BY <1>20
  <2>2. /\ InFlight(t) /\ UNCHANGED <<rep, bound>>
        /\ (\E how, hint : Reply(t, how, hint)) \/ (\E at : Proceed(t, at))
    BY <2>1 DEF WorkerReread, InFlight, desktop
  <2> QED BY <2>2, ServedNamed DEF CallsOK, Slots
<1>21. CASE \E t \in Slots : WorkerBeat(t)
  <2>1. PICK t \in Slots : WorkerBeat(t)
    BY <1>21
  <2>2. /\ InFlight(t) /\ UNCHANGED <<rep, bound>>
        /\ (\E how, hint : Reply(t, how, hint)) \/ (\E at : Proceed(t, at))
    BY <2>1 DEF WorkerBeat, InFlight, desktop
  <2> QED BY <2>2, ServedNamed DEF CallsOK, Slots
<1>22. CASE \E t \in Slots : WorkerCommit(t)
  <2>1. PICK t \in Slots : WorkerCommit(t)
    BY <1>22
  <2>2. /\ InFlight(t) /\ UNCHANGED <<rep, bound>>
        /\ (\E how, hint : Reply(t, how, hint)) \/ (\E at : Proceed(t, at))
    BY <2>1 DEF WorkerCommit, InFlight, desktop
  <2> QED BY <2>2, ServedNamed DEF CallsOK, Slots
<1>23. CASE Vanish
  BY <1>23 DEF Vanish, desktop, cloud, viewers, CallsT, RepT, Slots, InFlight, Named,
     NoCall, CallsOK, Working
<1>24. CASE Refuse
  <2>1. InFlight("own") /\ (\E how : Reply("own", how, 0)) /\ UNCHANGED <<rep, bound>>
    BY <1>24 DEF Refuse, InFlight, desktop
  <2> QED BY <2>1, ServedNamed DEF CallsOK, Slots
<1>25. CASE Timeout
  BY <1>25 DEF Timeout, Spend, cloud, viewers, CallsT, RepT, Slots, InFlight, Named,
     NoCall, CallsOK, Working
<1>26. CASE Crash
  BY <1>26 DEF Crash, Spend, Down, Idle, cloud, CallsT, RepT, Slots, InFlight, Named,
     NoCall, CallsOK, Working
<1>27. CASE Change \/ (\E q \in Requests : Show(q)) \/ (\E q \in Requests : Lapse(q))
          \/ (\E q \in Requests : Ask(q)) \/ (\E rs \in SUBSET Requests : Hide(rs))
          \/ (\E ch \in Chunks : Age(ch)) \/ (\E ch \in Chunks : Forget(ch))
          \/ LoseCounter \/ Restore \/ Rotate
  <2>1. UNCHANGED <<bound, calls, rep>>
    BY <1>27 DEF Change, Show, Lapse, Spend, Ask, Hide, Age, Forget, LoseCounter, Restore,
       Rotate, desktop, cloud, viewers
  <2> QED BY <2>1 DEF InFlight, Named, CallsOK
<1> QED BY <1>1, <1>2, <1>3, <1>4, <1>5, <1>6, <1>7, <1>8, <1>9, <1>10, <1>11, <1>12,
   <1>13, <1>14, <1>15, <1>16, <1>17, <1>18, <1>19, <1>20, <1>21, <1>22, <1>23, <1>24,
   <1>25, <1>26, <1>27, Cases

\* Every action keeps CallsOK.
LEMMA CallsStep ==
  ASSUME StoreT, RepT, CallsT, CloudT, StoreT', CloudT', CallsOK, Next
  PROVE  CallsOK'
<1>1. bound' <= d1'.epoch /\ bound' >= bound
  <2>1. bound \in Int /\ bound' \in Int /\ d1.epoch \in Int /\ d1'.epoch \in Int
    BY PublicationAssumption DEF StoreT, CloudT
  <2>2. bound <= d1.epoch /\ d1'.epoch >= d1.epoch
    BY EpochMoves DEF CallsOK
  <2> QED BY <2>1, <2>2, BoundMoves DEF BoundFrom, LoseCounter
<1>2. ASSUME Working'
      PROVE  rep'.pending.version \in Versions
  <2>1. /\ counter \in Int /\ counter >= 0 /\ counter' \in Int /\ counter' <= MaxVersion
    BY PublicationAssumption DEF StoreT
  <2>2. CASE Working /\ rep'.pending = rep.pending
    BY <2>2 DEF CallsOK
  <2>3. CASE rep'.pending.version = counter' /\ counter' > counter
    BY <2>1, <2>3, PublicationAssumption DEF Versions
  <2> QED BY <1>2, <2>2, <2>3, PendingComes DEF PendingFrom
<1>3. ASSUME NEW s \in Slots, (InFlight(s))'
      PROVE  calls'[s].version \in Versions /\ calls'[s].epoch <= bound'
  <2>1. /\ bound \in Int /\ bound' \in Int /\ \A t \in Slots : calls[t].epoch \in Int
    BY PublicationAssumption DEF StoreT, CallsT
  <2>2. ASSUME NEW t \in Slots, InFlight(t), (Named(s))' = Named(t)
        PROVE  calls'[s].version \in Versions /\ calls'[s].epoch <= bound'
    BY <1>1, <2>1, <2>2 DEF CallsOK, Named
  <2>3. CASE /\ rep.pc = "upload"
             /\ (Named(s))' = <<bound, rep.pending.version, rep.pending.content>>
    BY <1>1, <2>1, <2>3 DEF CallsOK, Named, Working
  <2> QED BY <1>3, <2>2, <2>3, CallsCome DEF CallFrom, Slots
<1> QED BY <1>1, <1>2, <1>3, OwnStays DEF CallsOK

\* What is stored stays complete when chunks are written, renewed or aged.
LEMMA PresentStays ==
  ASSUME NEW c, NEW old, NEW new, Present(c, old),
         \A ch : old[ch] # "absent" => new[ch] # "absent"
  PROVE  Present(c, new)
BY DEF Present

\* Pruning takes no chunk that the manifest names.
LEMMA PruneKeeps ==
  ASSUME NEW meta, NEW gone \in SUBSET Prunable(meta), Present(meta.content, d1.chunks),
         meta.content \in Contents
  PROVE  Present(meta.content, Without(gone))
<1>1. PartsOf(meta.content) \subseteq Chunks
  BY PublicationAssumption DEF PartsOf, Contents
<1> QED BY <1>1 DEF Present, Without, Prunable, Orphan

\* Every action keeps StoredOK: a manifest is committed with its chunks, and
\* pruning and ageing spare them.
LEMMA StoredStep ==
  ASSUME CloudT, CallsT, StoredOK, Next
  PROVE  StoredOK'
<1> USE DEF CloudT
<1>1. CASE \E ch \in Chunks : Upload(ch)
  BY <1>1 DEF Upload, Uploading, viewers, StoredOK, Readable, Present, Ages
<1>2. CASE \E ch \in Chunks, written \in BOOLEAN : UploadFails(ch, written)
  BY <1>2 DEF UploadFails, Uploading, Spend, viewers, StoredOK, Readable, Present, Ages
<1>3. CASE \E ch \in Chunks : Age(ch)
  BY <1>3 DEF Age, Spend, desktop, viewers, StoredOK, Readable, Present, Ages
<1>4. CASE \E t \in Slots : WorkerBeat(t)
  <2>1. PICK t \in Slots : WorkerBeat(t)
    BY <1>4
  <2>2. UNCHANGED <<saved, history>>
    BY <2>1 DEF WorkerBeat
  <2>3. PICK gone \in SUBSET Prunable(d1.meta) :
          d1' = d1 \/ d1' = [d1 EXCEPT !.chunks = Without(gone)]
    BY <2>1 DEF WorkerBeat
  <2>4. d1'.meta = d1.meta /\ d1'.epoch = d1.epoch
        /\ d1'.chunks \in {d1.chunks, Without(gone)}
    BY <2>3
  <2>5. d1.meta.content \in Contents
    BY DEF Metas
  <2>6. d1.meta.version > 0 => Present(d1.meta.content, d1'.chunks)
    BY <2>4, <2>5, PruneKeeps DEF StoredOK, Readable
  <2> QED BY <2>2, <2>4, <2>6 DEF StoredOK, Readable
<1>5. CASE \E t \in Slots : WorkerCommit(t)
  <2>1. PICK t \in Slots : WorkerCommit(t)
    BY <1>5
  <2> DEFINE named == [version |-> calls[t].version, content |-> calls[t].content]
  <2>2. named \in Metas
    BY DEF CallsT, Metas
  <2>3. CASE Committable(calls[t])
    <3>1. PICK gone \in SUBSET Prunable(named) :
            d1' = [d1 EXCEPT !.meta = named, !.chunks = Without(gone)]
      BY <2>1, <2>3 DEF WorkerCommit
    <3>2. /\ saved' = [meta |-> d1.meta, chunks |-> d1.chunks]
          /\ history' = history \cup {<<d1.epoch, calls[t].version, calls[t].content>>}
      BY <2>1, <2>3 DEF WorkerCommit
    <3>3. Present(named.content, d1.chunks) /\ named.content \in Contents
      BY <2>2, <2>3 DEF Committable, Metas
    <3> HIDE DEF named
    <3>4. Present(named.content, Without(gone))
      BY <3>3, PruneKeeps
    <3>5. d1'.epoch = d1.epoch /\ d1'.meta = named /\ d1'.chunks = Without(gone)
      BY <3>1
    <3>6. <<d1.epoch, named.version, named.content>> \in history'
      BY <3>2 DEF named
    <3>7. (Readable(d1.meta, d1.chunks))'
      BY <3>4, <3>5, <3>6 DEF Readable
    <3>8. (Readable(saved.meta, saved.chunks))'
      BY <3>2, <3>5 DEF StoredOK, Readable
    <3> QED BY <3>7, <3>8 DEF StoredOK
  <2>4. CASE ~Committable(calls[t])
    <3>1. PICK gone \in SUBSET Prunable(d1.meta) :
            d1' = [d1 EXCEPT !.chunks = Without(gone)]
      <4>1. PICK own : \E gone \in SUBSET (IF own THEN Prunable(d1.meta) ELSE {}) :
               d1' = [d1 EXCEPT !.meta = d1.meta, !.chunks = Without(gone)]
        BY <2>1, <2>4 DEF WorkerCommit
      <4> QED BY <4>1
    <3>2. UNCHANGED <<saved, history>>
      BY <2>1, <2>4 DEF WorkerCommit
    <3>3. d1'.meta = d1.meta /\ d1'.epoch = d1.epoch /\ d1'.chunks = Without(gone)
      BY <3>1
    <3>4. d1.meta.version > 0 => Present(d1.meta.content, Without(gone))
      BY PruneKeeps DEF StoredOK, Readable, Metas
    <3> QED BY <3>2, <3>3, <3>4 DEF StoredOK, Readable
  <2> QED BY <2>3, <2>4
<1>6. CASE Restore
  BY <1>6 DEF Restore, Spend, desktop, viewers, StoredOK, Readable, Present
<1>7. CASE Rotate
  BY <1>7 DEF Rotate, Spend, desktop, viewers, StoredOK, Readable, Present, NoMeta
<1>8. CASE Bootstrap \/ Woken \/ Hourly
          \/ (\E failed \in SUBSET rep.trigger.refs : Assemble(failed)) \/ AssembleFails
          \/ Attempt \/ Post \/ Reduce \/ ReduceFails \/ Published \/ Conflict \/ Missing
          \/ Superseded \/ Rejected \/ EpochFatal \/ Restart \/ Change
          \/ (\E q \in Requests : Show(q)) \/ (\E q \in Requests : Lapse(q))
          \/ (\E q \in Requests : Ask(q)) \/ (\E rs \in SUBSET Requests : Hide(rs))
          \/ (\E ch \in Chunks : Forget(ch)) \/ (\E t \in Slots : WorkerRead(t) \/ WorkerProbe(t))
          \/ (\E t \in Slots : WorkerReread(t)) \/ Vanish \/ Refuse \/ Timeout \/ Crash
          \/ LoseCounter
  <2>1. UNCHANGED <<d1, history, saved>>
    BY <1>8 DEF Bootstrap, Begin, Spend, Woken, Hourly, Assemble, AssembleFails, Attempt,
       Post, Reduce, GiveUp, Answered, ReduceFails, Published, Conflict, Missing,
       Superseded, Rejected, EpochFatal, Down, Restart, Change, Show, Lapse, Ask, Hide,
       Forget, WorkerRead, WorkerProbe, Reply, Proceed, WorkerReread, Vanish, Refuse,
       Timeout, Crash,
       LoseCounter, desktop, cloud, viewers
  <2> QED BY <2>1 DEF StoredOK, Readable
<1> QED BY <1>1, <1>2, <1>3, <1>4, <1>5, <1>6, <1>7, <1>8, Cases

\* A restore of D1 is not forgotten.
LEMMA LostIsKept ==
  ASSUME Next, lost' # "d1"
  PROVE  lost # "d1" /\ ~Restore
<1>0. ~Restore
  BY DEF Restore
<1>1. CASE LoseCounter
  BY <1>1, <1>0 DEF LoseCounter, Spend, viewers
<1>2. CASE Restore
  BY <1>0, <1>2 DEF Restore, Spend, desktop, viewers
<1>3. CASE Bootstrap \/ Woken \/ Hourly
          \/ (\E failed \in SUBSET rep.trigger.refs : Assemble(failed)) \/ AssembleFails
          \/ Attempt \/ Post \/ Reduce \/ ReduceFails \/ (\E ch \in Chunks : Upload(ch))
          \/ Published \/ Conflict \/ Missing \/ Superseded \/ Rejected \/ EpochFatal
          \/ Restart \/ Change \/ (\E q \in Requests : Show(q))
          \/ (\E q \in Requests : Lapse(q)) \/ (\E q \in Requests : Ask(q))
          \/ (\E rs \in SUBSET Requests : Hide(rs))
          \/ (\E ch \in Chunks, written \in BOOLEAN : UploadFails(ch, written))
          \/ (\E ch \in Chunks : Age(ch)) \/ (\E ch \in Chunks : Forget(ch))
          \/ (\E t \in Slots : WorkerRead(t) \/ WorkerProbe(t))
          \/ (\E t \in Slots : WorkerReread(t))
          \/ (\E t \in Slots : WorkerBeat(t)) \/ (\E t \in Slots : WorkerCommit(t))
          \/ Vanish \/ Refuse \/ Timeout \/ Crash \/ Rotate
  <2>1. UNCHANGED <<lost>>
    BY <1>3 DEF Bootstrap, Begin, Spend, Woken, Hourly, Assemble, AssembleFails, Attempt,
       Post, Reduce, GiveUp, Answered, ReduceFails, Upload, Published, Conflict, Missing,
       Superseded, Rejected, EpochFatal, Down, Restart, Change, Show, Lapse, Ask, Hide,
       UploadFails, Age, Forget, WorkerRead, WorkerProbe, Reply, Proceed, WorkerReread,
       WorkerBeat,
       WorkerCommit, Vanish, Refuse, Timeout, Crash, Rotate, desktop, cloud, viewers
  <2> QED BY <1>0, <2>1
<1> QED BY <1>0, <1>1, <1>2, <1>3, Cases

\* The stored version grows within an epoch, except in a restore.
LEMMA StoredGrows ==
  ASSUME CloudT, CallsT, Next, d1'.epoch = d1.epoch, ~Restore
  PROVE  d1'.meta.version >= d1.meta.version
<1> USE PublicationAssumption
<1> USE DEF CloudT
<1>1. CASE \E ch \in Chunks : Upload(ch)
  BY <1>1 DEF Upload, Uploading, viewers, Metas
<1>2. CASE \E ch \in Chunks, written \in BOOLEAN : UploadFails(ch, written)
  BY <1>2 DEF UploadFails, Uploading, Spend, viewers, Metas
<1>3. CASE \E ch \in Chunks : Age(ch)
  BY <1>3 DEF Age, Spend, desktop, viewers, Metas
<1>4. CASE \E t \in Slots : WorkerBeat(t)
  BY <1>4 DEF WorkerBeat, Reply, Proceed, desktop, viewers, Metas
<1>5. CASE \E t \in Slots : WorkerCommit(t)
  <2>1. PICK s \in Slots : WorkerCommit(s)
    BY <1>5
  <2> DEFINE named == [version |-> calls[s].version, content |-> calls[s].content]
  <2>2. CASE Committable(calls[s])
    <3>1. PICK gone : d1' = [d1 EXCEPT !.meta = named, !.chunks = Without(gone)]
      BY <2>1, <2>2 DEF WorkerCommit
    <3>2. d1'.meta.version = calls[s].version
      BY <3>1
    <3> QED BY <2>2, <3>2 DEF Committable, CallsT, Metas
  <2>3. CASE ~Committable(calls[s])
    <3>1. PICK gone : d1' = [d1 EXCEPT !.meta = d1.meta, !.chunks = Without(gone)]
      BY <2>1, <2>3 DEF WorkerCommit
    <3> QED BY <3>1 DEF Metas
  <2> QED BY <2>2, <2>3
<1>6. CASE Restore
  BY <1>6 DEF Restore, Spend, desktop, viewers, Metas
<1>7. CASE Rotate
  <2>1. d1'.epoch = d1.epoch + 1
    BY <1>7 DEF Rotate
  <2> QED BY <2>1
<1>8. CASE Bootstrap \/ Woken \/ Hourly
          \/ (\E failed \in SUBSET rep.trigger.refs : Assemble(failed)) \/ AssembleFails
          \/ Attempt \/ Post \/ Reduce \/ ReduceFails \/ Published \/ Conflict \/ Missing
          \/ Superseded \/ Rejected \/ EpochFatal \/ Restart \/ Change
          \/ (\E q \in Requests : Show(q)) \/ (\E q \in Requests : Lapse(q))
          \/ (\E q \in Requests : Ask(q)) \/ (\E rs \in SUBSET Requests : Hide(rs))
          \/ (\E ch \in Chunks : Forget(ch)) \/ (\E t \in Slots : WorkerRead(t) \/ WorkerProbe(t))
          \/ (\E t \in Slots : WorkerReread(t)) \/ Vanish \/ Refuse \/ Timeout \/ Crash
          \/ LoseCounter
  <2>1. UNCHANGED <<d1>>
    BY <1>8 DEF Bootstrap, Begin, Spend, Woken, Hourly, Assemble, AssembleFails, Attempt,
       Post, Reduce, GiveUp, Answered, ReduceFails, Published, Conflict, Missing,
       Superseded, Rejected, EpochFatal, Down, Restart, Change, Show, Lapse, Ask, Hide,
       Forget, WorkerRead, WorkerProbe, Reply, Proceed, WorkerReread, Vanish, Refuse,
       Timeout, Crash,
       LoseCounter, desktop, cloud, viewers
  <2> QED BY <2>1 DEF Metas
<1> QED BY <1>1, <1>2, <1>3, <1>4, <1>5, <1>6, <1>7, <1>8, Cases

\* Every action keeps HistoryOK: a commit is of a higher version, and an epoch
\* that begins has committed nothing.
LEMMA HistoryStep ==
  ASSUME StoreT, CallsT, CloudT, StoreT', CloudT', CallsOK, HistoryOK, Next
  PROVE  HistoryOK'
<1>0. /\ bound \in Int /\ bound' \in Int /\ d1.epoch \in Int /\ d1'.epoch \in Int
      /\ d1.meta.version \in Int /\ d1'.meta.version \in Int
      /\ \A h \in history : h[1] \in Int /\ h[2] \in Int
      /\ \A s \in Slots : calls[s].version \in Int
  BY PublicationAssumption DEF StoreT, CloudT, CallsT, Metas, Versions
<1>1. bound' >= bound
  <2>1. CASE bound' = d1.epoch
    BY <1>0, <2>1 DEF CallsOK
  <2> QED BY <1>0, <2>1, BoundMoves DEF BoundFrom, LoseCounter
<1>2. CASE history' = history
  <2>1. \A h \in history' : h[1] <= bound'
    BY <1>0, <1>1, <1>2 DEF HistoryOK
  <2>2. ASSUME lost' # "d1", NEW h \in history', h[1] = d1'.epoch
        PROVE  h[2] <= d1'.meta.version
    <3>1. lost # "d1" /\ ~Restore
      BY <2>2, LostIsKept DEF Restore
    <3>2. CASE d1'.epoch = d1.epoch
      <4>1. d1'.meta.version >= d1.meta.version
        BY <3>1, <3>2, StoredGrows
      <4> QED BY <1>0, <1>2, <2>2, <3>1, <3>2, <4>1 DEF HistoryOK
    <3>3. CASE d1'.epoch # d1.epoch
      <4>1. d1'.epoch > bound
        BY <1>0, <3>3, EpochMoves DEF CallsOK
      <4> QED BY <1>0, <1>2, <2>2, <4>1 DEF HistoryOK
    <3> QED BY <3>2, <3>3
  <2> QED BY <2>1, <2>2 DEF HistoryOK
<1>3. CASE history' # history
  <2>1. PICK s \in Slots :
          /\ InFlight(s) /\ Committable(calls[s]) /\ lost' = lost
          /\ history' = history \cup {Named(s)}
          /\ d1'.epoch = d1.epoch /\ d1'.meta.version = calls[s].version
    BY <1>3, HistoryComes DEF HistoryFrom
  <2>2. /\ Named(s)[1] = d1.epoch /\ Named(s)[1] <= bound
        /\ Named(s)[2] = d1'.meta.version /\ d1.meta.version < d1'.meta.version
    BY <2>1 DEF Named, Committable, CallsOK
  <2>3. Named(s)[1] \in Int /\ Named(s)[2] \in Int
    BY <1>0, <2>2
  <2>4. \A h \in history' : h[1] <= bound'
    BY <1>0, <1>1, <2>1, <2>2, <2>3 DEF HistoryOK
  <2>5. lost' # "d1" => \A h \in history' : h[1] = d1'.epoch => h[2] <= d1'.meta.version
    BY <1>0, <2>1, <2>2, <2>3 DEF HistoryOK
  <2> QED BY <2>4, <2>5 DEF HistoryOK
<1> QED BY <1>2, <1>3

\* What is given was given, or is the publication under way with a version
\* above the counter.
LEMMA GivenComes ==
  ASSUME StoreT, RepT, CallsT, CloudT, CallsOK, Next, ~LoseCounter, bound' = bound,
         NEW g \in Given'
  PROVE  \/ g \in Given
         \/ /\ Working' /\ counter' > counter
            /\ g = <<bound, counter', rep'.pending.content>>
            /\ rep'.pending.version = counter'
<1>1. CASE g \in history'
  BY <1>1, HistoryComes DEF HistoryFrom, Given
<1>2. CASE g \in {(Named(s))' : s \in {t \in Slots : (InFlight(t))'}}
  <2>1. PICK s \in Slots : (InFlight(s))' /\ g = (Named(s))'
    BY <1>2
  <2> QED BY <2>1, CallsCome DEF CallFrom, Given, Working, Slots
<1>3. CASE Working' /\ g = <<bound', rep'.pending.version, rep'.pending.content>>
  <2>1. CASE Working /\ rep'.pending = rep.pending
    BY <1>3, <2>1 DEF Given
  <2>2. CASE rep'.pending.version = counter' /\ counter' > counter
    BY <1>3, <2>2
  <2> QED BY <1>3, <2>1, <2>2, PendingComes DEF PendingFrom
<1> QED BY <1>1, <1>2, <1>3 DEF Given, Slots

\* What is given has an epoch and a version, the epoch at most the desktop's.
LEMMA GivenTyped ==
  ASSUME StoreT, RepT, CallsT, CloudT, CallsOK, HistoryOK, NEW g \in Given
  PROVE  /\ g[1] \in Int /\ g[2] \in Int /\ g[1] <= bound
<1>1. bound \in Int
  BY DEF StoreT
<1>2. CASE g \in history
  BY <1>2 DEF CloudT, HistoryOK, Versions
<1>3. CASE g \in {Named(s) : s \in {t \in Slots : InFlight(t)}}
  BY <1>3 DEF Named, CallsT, CallsOK
<1>4. CASE g = <<bound, rep.pending.version, rep.pending.content>>
  BY <1>1, <1>4 DEF RepT, Metas
<1> QED BY <1>2, <1>3, <1>4 DEF Given

\* Every action keeps NamesOK.
LEMMA NamesStep ==
  ASSUME StoreT, RepT, CallsT, CloudT, StoreT', CallsOK, HistoryOK, NamesOK, Next
  PROVE  NamesOK'
<1>1. SUFFICES ASSUME lost' # "counter"
      PROVE  /\ \A g \in Given' : g[1] = bound' => g[2] <= counter'
             /\ \A g, h \in Given' : g[1] = h[1] /\ g[2] = h[2] => g[3] = h[3]
  BY DEF NamesOK
<1>2. ~LoseCounter /\ lost # "counter"
  BY <1>1, LostMoves DEF LoseCounter
<1>3. /\ \A g \in Given : g[1] = bound => g[2] <= counter
      /\ \A g, h \in Given : g[1] = h[1] /\ g[2] = h[2] => g[3] = h[3]
  BY <1>2 DEF NamesOK
<1>4. /\ counter \in Int /\ counter' \in Int /\ bound \in Int
      /\ \A g \in Given : g[1] \in Int /\ g[2] \in Int /\ g[1] <= bound
  BY GivenTyped, PublicationAssumption DEF StoreT
<1>5. CASE bound' = bound /\ counter' >= counter
  <2> DEFINE new == <<bound, counter', rep'.pending.content>>
  <2>1. \A g \in Given' : g \in Given \/ (counter' > counter /\ g = new)
    BY <1>2, <1>5, GivenComes
  <2>2. \A g \in Given' : g[1] = bound' => g[2] <= counter'
    BY <1>3, <1>4, <1>5, <2>1
  <2>3. ASSUME NEW g \in Given', NEW h \in Given', g[1] = h[1], g[2] = h[2]
        PROVE  g[3] = h[3]
    BY <1>3, <1>4, <2>1, <2>3
  <2> QED BY <2>2, <2>3
<1>6. CASE /\ bound' = d1.epoch /\ bound' # bound /\ counter' = 0
           /\ rep'.pc = "wait" /\ UNCHANGED <<calls, history, d1, lost>>
  <2>1. ~Working'
    BY <1>6 DEF Working
  <2>2. Given' \subseteq Given
    BY <1>6, <2>1 DEF Given, InFlight, Named
  <2>3. \A g \in Given : g[1] # bound'
    BY <1>4, <1>6, PublicationAssumption DEF CallsOK, CloudT
  <2> QED BY <1>3, <2>2, <2>3
<1> QED BY <1>2, <1>5, <1>6, BoundMoves DEF BoundFrom

\* Every action keeps VersionNamesOneContent: what is committed was given, and
\* if the counter was set back it is of a version above every committed one.
LEMMA VersionStep ==
  ASSUME StoreT, CallsT, CloudT, RepT, CallsOK, HistoryOK, NamesOK,
         VersionNamesOneContent, Next
  PROVE  VersionNamesOneContent'
<1>1. CASE history' = history
  BY <1>1 DEF VersionNamesOneContent
<1>2. ASSUME NEW s \in Slots, InFlight(s), Committable(calls[s]),
             history' = history \cup {Named(s)}
      PROVE  VersionNamesOneContent'
  <2>1. SUFFICES ASSUME NEW h \in history, h[1] = Named(s)[1], h[2] = Named(s)[2]
                 PROVE  h[3] = Named(s)[3]
    BY <1>2 DEF VersionNamesOneContent
  <2>2. CASE lost # "counter"
    BY <1>2, <2>1, <2>2 DEF NamesOK, Given
  <2>3. CASE lost = "counter"
    <3>1. h[2] <= d1.meta.version
      BY <1>2, <2>1, <2>3 DEF HistoryOK, Committable, Named
    <3>2. d1.meta.version < h[2]
      BY <1>2, <2>1 DEF Committable, Named
    <3>3. d1.meta.version \in Int /\ h[2] \in Int
      BY PublicationAssumption DEF CloudT, Metas, Versions
    <3> QED BY <3>1, <3>2, <3>3
  <2> QED BY <2>2, <2>3
<1> QED BY <1>1, <1>2, HistoryComes DEF HistoryFrom

\* An idle reporter holds no requests.
LEMMA IdleRefs ==
  ASSUME NEW due, NEW refused
  PROVE  Idle(due, refused).trigger.refs = {}
BY DEF Idle, NoTrigger

\* The requests of a publication were on it or on the queue.
LEMMA RefsCome ==
  ASSUME RepT, Next
  PROVE  rep'.trigger.refs \subseteq rep.trigger.refs \cup queue
<1> USE DEF RepT, Triggers
<1>1. CASE Bootstrap
  BY <1>1 DEF Bootstrap, Begin, Spend, Answer, cloud, Idle, NoTrigger, Taken, Live
<1>2. CASE Woken
  BY <1>2 DEF Woken, Begin, Spend, Answer, cloud, Idle, NoTrigger, Taken, Live
<1>3. CASE Hourly
  BY <1>3 DEF Hourly, Begin, Spend, Answer, cloud, Idle, NoTrigger, Taken, Live
<1>4. CASE \E failed \in SUBSET rep.trigger.refs : Assemble(failed)
  <2>1. PICK failed \in SUBSET rep.trigger.refs : Assemble(failed)
    BY <1>4
  <2> DEFINE t == Pruned(rep.trigger)
  <2>2. t.refs \subseteq rep.trigger.refs
    BY DEF Pruned, Live, Triggers
  <2>3. CASE rep' = Idle(rep.boot, rep.rejected)
    BY <2>3, IdleRefs
  <2>4. CASE rep' # Idle(rep.boot, rep.rejected)
    <3>1. rep' = [rep EXCEPT !.pc = "attempt", !.trigger = t, !.failed = failed,
                      !.pending = [version |-> counter',
                                   content |-> [build |-> source, trimmed |-> FALSE]],
                      !.boot = @ /\ ~t.boot]
      BY <2>1, <2>4 DEF Assemble
    <3> HIDE DEF t
    <3>2. rep'.trigger = t
      BY <3>1
    <3> QED BY <2>2, <3>2
  <2> QED BY <2>3, <2>4
<1>5. CASE AssembleFails
  BY <1>5 DEF AssembleFails, Spend, Idle, cloud, NoTrigger
<1>6. CASE Attempt
  <2> DEFINE t == Pruned(rep.trigger)
  <2>1. t.refs \subseteq rep.trigger.refs
    BY DEF Pruned, Live, Triggers
  <2>2. CASE rep' = Idle(rep.boot, rep.rejected)
    BY <2>2, IdleRefs
  <2>3. CASE rep' # Idle(rep.boot, rep.rejected)
    <3>1. PICK todo : rep' = [rep EXCEPT !.pc = "upload", !.trigger = t, !.todo = todo]
      BY <1>6, <2>3 DEF Attempt
    <3> HIDE DEF t
    <3>2. rep'.trigger = t
      BY <3>1
    <3> QED BY <2>1, <3>2
  <2> QED BY <2>2, <2>3
<1>7. CASE Post
  BY <1>7 DEF Post, Uploading, cloud, viewers, Idle, NoTrigger
<1>8. CASE Reduce
  <2>1. CASE rep' = Idle(rep.boot, rep.pending.content.build)
    BY <2>1, IdleRefs
  <2>2. CASE rep' # Idle(rep.boot, rep.pending.content.build)
    <3>1. rep'.trigger = rep.trigger
      BY <1>8, <2>2 DEF Reduce, GiveUp
    <3> QED BY <3>1
  <2> QED BY <2>1, <2>2
<1>9. CASE ReduceFails
  BY <1>9 DEF ReduceFails, GiveUp, Answered, Answer, Refused413, Idle, Spend, cloud,
     NoTrigger
<1>10. CASE \E ch \in Chunks : Upload(ch)
  BY <1>10 DEF Upload, Uploading, viewers, Idle, NoTrigger
<1>11. CASE Published
  BY <1>11 DEF Published, Replied, Answered, Idle, cloud, NoTrigger
<1>12. CASE Conflict
  BY <1>12 DEF Conflict, Replied, Answered, Spend, cloud, viewers, Idle, NoTrigger
<1>13. CASE Missing
  BY <1>13 DEF Missing, Replied, Answered, Cleared, cloud, viewers, Idle, NoTrigger
<1>14. CASE Superseded
  BY <1>14 DEF Superseded, Replied, Answered, cloud, viewers, Idle, NoTrigger
<1>15. CASE Rejected
  BY <1>15 DEF Rejected, Replied, Answered, GiveUp, Answer, Idle, cloud, NoTrigger
<1>16. CASE EpochFatal
  BY <1>16 DEF EpochFatal, Replied, Answered, Uploading, Down, Idle, cloud, NoTrigger
<1>17. CASE Restart
  BY <1>17 DEF Restart, Idle, cloud, viewers, NoTrigger
<1>18. CASE \E ch \in Chunks, written \in BOOLEAN : UploadFails(ch, written)
  BY <1>18 DEF UploadFails, Uploading, Spend, viewers, Idle, NoTrigger
<1>19. CASE Timeout
  BY <1>19 DEF Timeout, Spend, cloud, viewers, Idle, NoTrigger
<1>20. CASE Crash
  BY <1>20 DEF Crash, Spend, Down, Idle, cloud, NoTrigger
<1>21. CASE Change \/ (\E q \in Requests : Show(q)) \/ (\E q \in Requests : Lapse(q))
          \/ (\E q \in Requests : Ask(q)) \/ (\E rs \in SUBSET Requests : Hide(rs))
          \/ (\E ch \in Chunks : Age(ch)) \/ (\E ch \in Chunks : Forget(ch))
          \/ (\E t \in Slots : WorkerRead(t) \/ WorkerProbe(t))
          \/ (\E t \in Slots : WorkerReread(t))
          \/ (\E t \in Slots : WorkerBeat(t)) \/ (\E t \in Slots : WorkerCommit(t))
          \/ Vanish \/ Refuse \/ LoseCounter \/ Restore \/ Rotate
  <2>1. UNCHANGED <<rep>>
    BY <1>21 DEF Change, Show, Lapse, Spend, Ask, Hide, Age, Forget, WorkerRead,
       WorkerProbe, Reply,
       Proceed, WorkerReread, WorkerBeat, WorkerCommit, Vanish, Refuse, LoseCounter,
       Restore, Rotate, desktop, cloud, viewers
  <2> QED BY <2>1
<1> QED BY <1>1, <1>2, <1>3, <1>4, <1>5, <1>6, <1>7, <1>8, <1>9, <1>10, <1>11, <1>12,
   <1>13, <1>14, <1>15, <1>16, <1>17, <1>18, <1>19, <1>20, <1>21, Cases

\* A request comes to the queue when it is asked.
LEMMA QueueComes ==
  ASSUME NEW r \in queue', Next
  PROVE  r \in queue \/ Ask(r)
<1>1. CASE Bootstrap
  BY <1>1 DEF Bootstrap, Begin, Spend, Answer, cloud
<1>2. CASE Woken
  BY <1>2 DEF Woken, Begin, Spend, Answer, cloud
<1>3. CASE Hourly
  BY <1>3 DEF Hourly, Begin, Spend, Answer, cloud
<1>4. CASE EpochFatal
  BY <1>4 DEF EpochFatal, Replied, Answered, Uploading, Down, Idle, cloud
<1>5. CASE \E q \in Requests : Ask(q)
  <2>1. PICK q \in Requests : Ask(q)
    BY <1>5
  <2>2. r \in queue \cup {q}
    BY <2>1 DEF Ask, Unlapsed
  <2> QED BY <2>1, <2>2
<1>6. CASE \E rs \in SUBSET Requests : Hide(rs)
  BY <1>6 DEF Hide, Answer, cloud
<1>7. CASE Crash
  BY <1>7 DEF Crash, Spend, Down, Idle, cloud
<1>8. CASE (\E failed \in SUBSET rep.trigger.refs : Assemble(failed)) \/ AssembleFails
          \/ Attempt \/ Post \/ Reduce \/ ReduceFails \/ (\E ch \in Chunks : Upload(ch))
          \/ Published \/ Conflict \/ Missing \/ Superseded \/ Rejected \/ Restart
          \/ Change \/ (\E q \in Requests : Show(q)) \/ (\E q \in Requests : Lapse(q))
          \/ (\E ch \in Chunks, written \in BOOLEAN : UploadFails(ch, written))
          \/ (\E ch \in Chunks : Age(ch)) \/ (\E ch \in Chunks : Forget(ch))
          \/ (\E t \in Slots : WorkerRead(t) \/ WorkerProbe(t))
          \/ (\E t \in Slots : WorkerReread(t))
          \/ (\E t \in Slots : WorkerBeat(t)) \/ (\E t \in Slots : WorkerCommit(t))
          \/ Vanish \/ Refuse \/ Timeout \/ LoseCounter \/ Restore \/ Rotate
  <2>1. UNCHANGED <<queue>>
    BY <1>8 DEF Assemble, Spend, AssembleFails, Attempt, Post, Reduce, GiveUp, Answered,
       ReduceFails, Upload, Published, Conflict, Missing, Superseded, Rejected, Restart,
       Change, Show, Lapse, UploadFails, Age, Forget, WorkerRead, WorkerProbe, Reply,
       Proceed,
       WorkerReread, WorkerBeat, WorkerCommit, Vanish, Refuse, Timeout, LoseCounter,
       Restore, Rotate, desktop, cloud, viewers
  <2> QED BY <2>1
<1> QED BY <1>1, <1>2, <1>3, <1>4, <1>5, <1>6, <1>7, <1>8, Cases

\* What a request has to see is set once, when it is asked.
LEMMA AskedComes ==
  ASSUME ViewersT, Next, NEW r \in Requests
  PROVE  \/ asked'[r] = asked[r]
         \/ Ask(r) /\ asked'[r] = source /\ asked[r] = -1 /\ result[r] = "none"
<1>1. CASE \E q \in Requests : Ask(q)
  <2>1. PICK q \in Requests : Ask(q)
    BY <1>1
  <2>2. CASE asked' = asked
    BY <2>2
  <2>3. CASE asked' # asked
    <3>1. asked' = [asked EXCEPT ![q] = source] /\ asked[q] = -1 /\ result[q] = "none"
      BY <2>1, <2>3 DEF Ask
    <3> QED BY <2>1, <3>1 DEF ViewersT
  <2> QED BY <2>2, <2>3
<1>2. CASE Bootstrap \/ Woken \/ Hourly
          \/ (\E failed \in SUBSET rep.trigger.refs : Assemble(failed)) \/ AssembleFails
          \/ Attempt \/ Post \/ Reduce \/ ReduceFails \/ (\E ch \in Chunks : Upload(ch))
          \/ Published \/ Conflict \/ Missing \/ Superseded \/ Rejected \/ EpochFatal
          \/ Restart \/ Change \/ (\E q \in Requests : Show(q))
          \/ (\E q \in Requests : Lapse(q)) \/ (\E rs \in SUBSET Requests : Hide(rs))
          \/ (\E ch \in Chunks, written \in BOOLEAN : UploadFails(ch, written))
          \/ (\E ch \in Chunks : Age(ch)) \/ (\E ch \in Chunks : Forget(ch))
          \/ (\E t \in Slots : WorkerRead(t) \/ WorkerProbe(t))
          \/ (\E t \in Slots : WorkerReread(t))
          \/ (\E t \in Slots : WorkerBeat(t)) \/ (\E t \in Slots : WorkerCommit(t))
          \/ Vanish \/ Refuse \/ Timeout \/ Crash \/ LoseCounter \/ Restore \/ Rotate
  <2>1. UNCHANGED <<asked>>
    BY <1>2 DEF Bootstrap, Begin, Spend, Woken, Hourly, Assemble, AssembleFails, Attempt,
       Post, Reduce, GiveUp, Answered, ReduceFails, Upload, Published, Conflict, Missing,
       Superseded, Rejected, EpochFatal, Down, Restart, Change, Show, Lapse, Hide,
       UploadFails, Age, Forget, WorkerRead, WorkerProbe, Reply, Proceed, WorkerReread,
       WorkerBeat,
       WorkerCommit, Vanish, Refuse, Timeout, Crash, LoseCounter, Restore, Rotate,
       desktop, cloud, viewers
  <2> QED BY <2>1
<1> QED BY <1>1, <1>2, Cases

\* The state the desktop shows only becomes newer.
LEMMA SourceGrows ==
  ASSUME ViewersT, Next
  PROVE  source' >= source
<1> USE DEF ViewersT, Builds
<1>1. CASE Change
  BY <1>1 DEF Change, cloud, viewers
<1>2. CASE Bootstrap \/ Woken \/ Hourly
          \/ (\E failed \in SUBSET rep.trigger.refs : Assemble(failed)) \/ AssembleFails
          \/ Attempt \/ Post \/ Reduce \/ ReduceFails \/ (\E ch \in Chunks : Upload(ch))
          \/ Published \/ Conflict \/ Missing \/ Superseded \/ Rejected \/ EpochFatal
          \/ Restart \/ (\E q \in Requests : Show(q)) \/ (\E q \in Requests : Lapse(q))
          \/ (\E q \in Requests : Ask(q)) \/ (\E rs \in SUBSET Requests : Hide(rs))
          \/ (\E ch \in Chunks, written \in BOOLEAN : UploadFails(ch, written))
          \/ (\E ch \in Chunks : Age(ch)) \/ (\E ch \in Chunks : Forget(ch))
          \/ (\E t \in Slots : WorkerRead(t) \/ WorkerProbe(t))
          \/ (\E t \in Slots : WorkerReread(t))
          \/ (\E t \in Slots : WorkerBeat(t)) \/ (\E t \in Slots : WorkerCommit(t))
          \/ Vanish \/ Refuse \/ Timeout \/ Crash \/ LoseCounter \/ Restore \/ Rotate
  <2>1. UNCHANGED <<source>>
    BY <1>2 DEF Bootstrap, Begin, Spend, Woken, Hourly, Assemble, AssembleFails, Attempt,
       Post, Reduce, GiveUp, Answered, ReduceFails, Upload, Published, Conflict, Missing,
       Superseded, Rejected, EpochFatal, Down, Restart, Show, Lapse, Ask, Hide,
       UploadFails, Age, Forget, WorkerRead, WorkerProbe, Reply, Proceed, WorkerReread,
       WorkerBeat,
       WorkerCommit, Vanish, Refuse, Timeout, Crash, LoseCounter, Restore, Rotate,
       desktop, cloud, viewers
  <2> QED BY <2>1
<1> QED BY <1>1, <1>2, Cases

\* Who is put on the queue has asked.
LEMMA QueuedHasAsked ==
  ASSUME ViewersT, NEW r \in queue', r \notin queue, Ask(r), r \in Requests
  PROVE  asked'[r] = source
BY DEF Ask, Unlapsed, ViewersT

\* Every action keeps AskedOK.
LEMMA AskedStep ==
  ASSUME ViewersT, QueueT, StoreT, RepT, CallsT, ViewersT', QueueT', AskedOK, Next
  PROVE  AskedOK'
<1>0. /\ source \in Int /\ source' \in Int /\ source >= 0 /\ source' >= source
      /\ \A r \in Requests : asked[r] \in Int /\ asked'[r] \in Int
  BY SourceGrows, PublicationAssumption DEF ViewersT, Builds
<1>1. rep.trigger.refs \subseteq Requests /\ queue \subseteq Requests
  BY DEF RepT, Triggers, QueueT
<1>2. ASSUME NEW r \in Requests
      PROVE  asked'[r] <= source'
  BY <1>0, AskedComes DEF AskedOK
<1>3. ASSUME NEW r \in queue \cup rep.trigger.refs
      PROVE  asked'[r] = asked[r] /\ asked'[r] # -1 /\ r \in Requests
  BY <1>1, AskedComes DEF AskedOK
<1>4. ASSUME NEW r \in queue' \cup rep'.trigger.refs
      PROVE  asked'[r] # -1
  <2>1. CASE r \in queue \cup rep.trigger.refs
    BY <1>3, <2>1
  <2>2. CASE r \notin queue \cup rep.trigger.refs
    <3>1. r \in queue' /\ Ask(r) /\ r \notin queue
      BY <2>2, RefsCome, QueueComes
    <3>2. r \in Requests
      BY <3>1 DEF QueueT
    <3> QED BY <1>0, <3>1, <3>2, QueuedHasAsked
  <2> QED BY <2>1, <2>2
<1>5. ASSUME Working', NEW r \in rep'.trigger.refs
      PROVE  asked'[r] <= rep'.pending.content.build
  <2>1. PendingFrom
    BY <1>5, PendingComes
  <2>2. r \in rep.trigger.refs
    BY <1>5, <2>1 DEF PendingFrom
  <2>3. asked'[r] = asked[r] /\ r \in Requests
    BY <1>3, <2>2
  <2>4. CASE Working /\ rep'.pending.content.build = rep.pending.content.build
    BY <2>2, <2>3, <2>4 DEF AskedOK
  <2>5. CASE rep'.pending.content.build = source
    BY <2>3, <2>5 DEF AskedOK
  <2> QED BY <2>1, <2>4, <2>5 DEF PendingFrom
<1> QED BY <1>2, <1>4, <1>5 DEF AskedOK

\* Serving another manifest leaves the awaited one alone.
LEMMA OthersKept ==
  ASSUME CallsT,
         (\E how, hint : Reply("stale", how, hint)) \/ (\E at : Proceed("stale", at))
  PROVE  calls'["own"] = calls["own"]
BY DEF Reply, Proceed, CallsT, Slots

\* Only a favourable reply acknowledges.
LEMMA ServedUnfavourably ==
  ASSUME CallsT, \/ \E how, hint : how # "ok" /\ Reply("own", how, hint)
                 \/ \E at : at # "done" /\ Proceed("own", at)
  PROVE  calls'["own"].at # "done" \/ calls'["own"].reply # "ok"
<1>1. ASSUME NEW how, NEW hint, how # "ok", Reply("own", how, hint)
      PROVE  calls'["own"].reply # "ok"
  BY <1>1 DEF Reply, CallsT, Slots
<1>2. ASSUME NEW at, at # "done", Proceed("own", at)
      PROVE  calls'["own"].at # "done"
  BY <1>2 DEF Proceed, CallsT, Slots
<1> QED BY <1>1, <1>2

\* Every action keeps RepliesOK: what is acknowledged was read back from D1.
LEMMA RepliesStep ==
  ASSUME CallsT, CloudT, CallsOK, StoredOK, RepliesOK, Next
  PROVE  RepliesOK'
<1>1. CASE Post
  BY <1>1 DEF Post, Uploading, cloud, viewers, RepliesOK, CallsT, Slots, InFlight, Named,
     NoCall
<1>2. CASE Reduce
  BY <1>2 DEF Reduce, GiveUp, Answered, Answer, Refused413, Idle, cloud, RepliesOK,
     CallsT, Slots, InFlight, Named, NoCall
<1>3. CASE ReduceFails
  BY <1>3 DEF ReduceFails, GiveUp, Answered, Answer, Refused413, Idle, Spend, cloud,
     RepliesOK, CallsT, Slots, InFlight, Named, NoCall
<1>4. CASE Published
  BY <1>4 DEF Published, Replied, Answered, Idle, cloud, RepliesOK, CallsT, Slots,
     InFlight, Named, NoCall
<1>5. CASE Conflict
  BY <1>5 DEF Conflict, Replied, Answered, Spend, cloud, viewers, RepliesOK, CallsT,
     Slots, InFlight, Named, NoCall
<1>6. CASE Missing
  BY <1>6 DEF Missing, Replied, Answered, Cleared, cloud, viewers, RepliesOK, CallsT,
     Slots, InFlight, Named, NoCall
<1>7. CASE Superseded
  BY <1>7 DEF Superseded, Replied, Answered, cloud, viewers, RepliesOK, CallsT, Slots,
     InFlight, Named, NoCall
<1>8. CASE Rejected
  BY <1>8 DEF Rejected, Replied, Answered, GiveUp, Answer, Idle, cloud, RepliesOK, CallsT,
     Slots, InFlight, Named, NoCall
<1>9. CASE EpochFatal
  BY <1>9 DEF EpochFatal, Replied, Answered, Uploading, Down, Idle, cloud, RepliesOK,
     CallsT, Slots, InFlight, Named, NoCall
<1>10. CASE \E t \in Slots : WorkerRead(t) \/ WorkerProbe(t)
  <2>1. PICK t \in Slots : WorkerRead(t) \/ WorkerProbe(t)
    BY <1>10
  <2>2. CASE t = "own"
    <3>1. \/ \E how, hint : how # "ok" /\ Reply("own", how, hint)
          \/ \E at : at # "done" /\ Proceed("own", at)
      BY <2>1, <2>2 DEF WorkerRead, WorkerProbe
    <3> QED BY <3>1, ServedUnfavourably DEF RepliesOK
  <2>3. CASE t = "stale"
    <3>1. (\E how, hint : Reply("stale", how, hint)) \/ (\E at : Proceed("stale", at))
      BY <2>1, <2>3 DEF WorkerRead, WorkerProbe
    <3>2. calls'["own"] = calls["own"]
      BY <3>1, OthersKept
    <3> QED BY <3>2, HistoryGrows DEF RepliesOK, InFlight, Named
  <2> QED BY <2>2, <2>3 DEF Slots
<1>11. CASE \E t \in Slots : WorkerReread(t)
  <2>1. PICK t \in Slots : WorkerReread(t)
    BY <1>11
  <2>2. CASE t = "own"
    <3>1. SUFFICES ASSUME calls'["own"].reply = "ok"
                   PROVE  (Named("own"))' \in history'
      BY DEF RepliesOK
    <3>2. PICK how, hint : calls' = [calls EXCEPT !["own"] =
                             [@ EXCEPT !.at = "done", !.reply = how, !.hint = hint]]
      BY <2>1, <2>2 DEF WorkerReread, Reply
    <3>3. /\ calls'["own"].reply = how /\ calls'["own"].epoch = calls["own"].epoch
          /\ calls'["own"].version = calls["own"].version
          /\ calls'["own"].content = calls["own"].content
      BY <3>2 DEF CallsT, Slots
    <3>6. how = "ok" /\ InFlight("own") /\ history' = history
      BY <2>1, <2>2, <3>1, <3>3 DEF WorkerReread, InFlight, cloud
    <3>7. calls["own"].epoch = d1.epoch /\ IsStored(calls["own"])
      <4>1. ASSUME NEW h, NEW x, Reply("own", h, x)
            PROVE  h = "ok"
        <5>1. calls'["own"].reply = h
          BY <4>1 DEF Reply, CallsT, Slots
        <5> QED BY <5>1, <3>1
      <4> QED BY <2>1, <2>2, <4>1 DEF WorkerReread
    <3>4. calls["own"].version > 0
      BY <3>6, PublicationAssumption DEF CallsOK, Versions, Slots
    <3>5. Named("own") \in history
      BY <3>7, <3>4 DEF StoredOK, Readable, IsStored, Named
    <3> QED BY <3>3, <3>5, <3>6 DEF Named
  <2>3. CASE t = "stale"
    <3>1. (\E how, hint : Reply("stale", how, hint)) \/ (\E at : Proceed("stale", at))
      BY <2>1, <2>3 DEF WorkerReread
    <3>2. calls'["own"] = calls["own"]
      BY <3>1, OthersKept
    <3> QED BY <3>2, HistoryGrows DEF RepliesOK, InFlight, Named
  <2> QED BY <2>2, <2>3 DEF Slots
<1>12. CASE \E t \in Slots : WorkerBeat(t)
  <2>1. PICK t \in Slots : WorkerBeat(t)
    BY <1>12
  <2>2. CASE t = "own"
    <3>1. \/ \E how, hint : how # "ok" /\ Reply("own", how, hint)
          \/ \E at : at # "done" /\ Proceed("own", at)
      BY <2>1, <2>2 DEF WorkerBeat
    <3> QED BY <3>1, ServedUnfavourably DEF RepliesOK
  <2>3. CASE t = "stale"
    <3>1. (\E how, hint : Reply("stale", how, hint)) \/ (\E at : Proceed("stale", at))
      BY <2>1, <2>3 DEF WorkerBeat
    <3>2. calls'["own"] = calls["own"]
      BY <3>1, OthersKept
    <3> QED BY <3>2, HistoryGrows DEF RepliesOK, InFlight, Named
  <2> QED BY <2>2, <2>3 DEF Slots
<1>13. CASE \E t \in Slots : WorkerCommit(t)
  <2>1. PICK t \in Slots : WorkerCommit(t)
    BY <1>13
  <2>2. CASE t = "own"
    <3>1. \/ \E how, hint : how # "ok" /\ Reply("own", how, hint)
          \/ \E at : at # "done" /\ Proceed("own", at)
      BY <2>1, <2>2 DEF WorkerCommit
    <3> QED BY <3>1, ServedUnfavourably DEF RepliesOK
  <2>3. CASE t = "stale"
    <3>1. (\E how, hint : Reply("stale", how, hint)) \/ (\E at : Proceed("stale", at))
      BY <2>1, <2>3 DEF WorkerCommit
    <3>2. calls'["own"] = calls["own"]
      BY <3>1, OthersKept
    <3> QED BY <3>2, HistoryGrows DEF RepliesOK, InFlight, Named
  <2> QED BY <2>2, <2>3 DEF Slots
<1>14. CASE Vanish
  BY <1>14 DEF Vanish, desktop, cloud, viewers, RepliesOK, CallsT, Slots, InFlight, Named,
     NoCall
<1>15. CASE Refuse
  BY <1>15 DEF Refuse, Reply, Spend, desktop, cloud, viewers, RepliesOK, CallsT, Slots,
     InFlight, Named, NoCall
<1>16. CASE Timeout
  BY <1>16 DEF Timeout, Spend, cloud, viewers, RepliesOK, CallsT, Slots, InFlight, Named,
     NoCall
<1>17. CASE Crash
  BY <1>17 DEF Crash, Spend, Down, Idle, cloud, RepliesOK, CallsT, Slots, InFlight, Named,
     NoCall
<1>18. CASE Bootstrap \/ Woken \/ Hourly
          \/ (\E failed \in SUBSET rep.trigger.refs : Assemble(failed)) \/ AssembleFails
          \/ Attempt \/ (\E ch \in Chunks : Upload(ch)) \/ Restart \/ Change
          \/ (\E q \in Requests : Show(q)) \/ (\E q \in Requests : Lapse(q))
          \/ (\E q \in Requests : Ask(q)) \/ (\E rs \in SUBSET Requests : Hide(rs))
          \/ (\E ch \in Chunks, written \in BOOLEAN : UploadFails(ch, written))
          \/ (\E ch \in Chunks : Age(ch)) \/ (\E ch \in Chunks : Forget(ch))
          \/ LoseCounter \/ Restore \/ Rotate
  <2>1. UNCHANGED <<calls, history>>
    BY <1>18 DEF Bootstrap, Begin, Spend, Woken, Hourly, Assemble, AssembleFails, Attempt,
       Upload, Restart, Change, Show, Lapse, Ask, Hide, UploadFails, Age, Forget,
       LoseCounter, Restore, Rotate, desktop, cloud, viewers
  <2> QED BY <2>1 DEF RepliesOK, InFlight, Named
<1> QED BY <1>1, <1>2, <1>3, <1>4, <1>5, <1>6, <1>7, <1>8, <1>9, <1>10, <1>11, <1>12,
   <1>13, <1>14, <1>15, <1>16, <1>17, <1>18, Cases

\* Whether a build was committed.
WasCommitted(build) == \E h \in history : h[3].build = build

\* The recorded fingerprint is of a committed state, or there is none.
LEMMA WatchedComes ==
  ASSUME CloudT, RepT, CallsT, CallsOK, RepliesOK, Next
  PROVE  watched' = watched \/ watched' = -1 \/ (WasCommitted(watched'))
<1>1. CASE Published
  <2>1. Named("own") \in history /\ watched' = rep.pending.content.build
    BY <1>1 DEF Published, Replied, RepliesOK, InFlight
  <2>2. Named("own")[3] = rep.pending.content
    BY <1>1 DEF Published, Replied, CallsOK, InFlight
  <2> QED BY <2>1, <2>2 DEF WasCommitted
<1>2. CASE Restart
  BY <1>2 DEF Restart, Idle, cloud, viewers
<1>3. CASE LoseCounter
  BY <1>3 DEF LoseCounter, Spend, viewers
<1>4. CASE Bootstrap \/ Woken \/ Hourly
          \/ (\E failed \in SUBSET rep.trigger.refs : Assemble(failed)) \/ AssembleFails
          \/ Attempt \/ Post \/ Reduce \/ ReduceFails \/ (\E ch \in Chunks : Upload(ch))
          \/ Conflict \/ Missing \/ Superseded \/ Rejected \/ EpochFatal \/ Change
          \/ (\E q \in Requests : Show(q)) \/ (\E q \in Requests : Lapse(q))
          \/ (\E q \in Requests : Ask(q)) \/ (\E rs \in SUBSET Requests : Hide(rs))
          \/ (\E ch \in Chunks, written \in BOOLEAN : UploadFails(ch, written))
          \/ (\E ch \in Chunks : Age(ch)) \/ (\E ch \in Chunks : Forget(ch))
          \/ (\E t \in Slots : WorkerRead(t) \/ WorkerProbe(t))
          \/ (\E t \in Slots : WorkerReread(t))
          \/ (\E t \in Slots : WorkerBeat(t)) \/ (\E t \in Slots : WorkerCommit(t))
          \/ Vanish \/ Refuse \/ Timeout \/ Crash \/ Restore \/ Rotate
  <2>1. UNCHANGED <<watched>>
    BY <1>4 DEF Bootstrap, Begin, Spend, Woken, Hourly, Assemble, AssembleFails, Attempt,
       Post, Reduce, GiveUp, Answered, ReduceFails, Upload, Conflict, Missing, Superseded,
       Rejected, EpochFatal, Down, Change, Show, Lapse, Ask, Hide, UploadFails, Age,
       Forget, WorkerRead, WorkerProbe, Reply, Proceed, WorkerReread, WorkerBeat,
       WorkerCommit, Vanish,
       Refuse, Timeout, Crash, Restore, Rotate, desktop, cloud, viewers
  <2> QED BY <2>1
<1> QED BY <1>1, <1>2, <1>3, <1>4, Cases

\* A request is answered with "published" by a publication that holds it.
LEMMA AnswersCome ==
  ASSUME ViewersT, RepT, Next, NEW r \in Requests, result'[r] = "published"
  PROVE  \/ result[r] = "published" /\ shown'[r] = shown[r]
         \/ Published /\ r \in rep.trigger.refs /\ shown'[r] = rep.pending.content.build
<1>1. CASE Bootstrap
  BY <1>1 DEF Bootstrap, Begin, Spend, Answer, cloud, ViewersT
<1>2. CASE Woken
  BY <1>2 DEF Woken, Begin, Spend, Answer, cloud, ViewersT
<1>3. CASE Hourly
  BY <1>3 DEF Hourly, Begin, Spend, Answer, cloud, ViewersT
<1>4. CASE \E failed \in SUBSET rep.trigger.refs : Assemble(failed)
  BY <1>4 DEF Assemble, Spend, Answer, Idle, cloud, ViewersT
<1>5. CASE AssembleFails
  BY <1>5 DEF AssembleFails, Spend, Idle, cloud, ViewersT
<1>6. CASE Attempt
  BY <1>6 DEF Attempt, Answer, Idle, cloud, ViewersT
<1>7. CASE Reduce
  BY <1>7 DEF Reduce, GiveUp, Answered, Answer, Refused413, Idle, cloud, ViewersT
<1>8. CASE ReduceFails
  BY <1>8 DEF ReduceFails, GiveUp, Answered, Answer, Refused413, Idle, Spend, cloud,
     ViewersT
<1>9. CASE Published
  <2>1. Pruned(rep.trigger).refs \subseteq rep.trigger.refs
    BY DEF RepT, Triggers, Pruned, Live
  <2> DEFINE t == Pruned(rep.trigger)
  <2>2. /\ result' = [q \in Requests |->
              IF q \in t.refs THEN IF q \in rep.failed THEN "failed" ELSE "published"
              ELSE IF q \in Gone(rep.trigger) THEN "unavailable" ELSE result[q]]
        /\ shown' = [q \in Requests |-> IF q \in t.refs \ rep.failed
                                          THEN rep.pending.content.build ELSE shown[q]]
    BY <1>9 DEF Published
  <2> HIDE DEF t
  <2>3. CASE r \in t.refs
    BY <1>9, <2>1, <2>2, <2>3 DEF t
  <2>4. CASE r \notin t.refs
    BY <2>2, <2>4
  <2> QED BY <2>3, <2>4
<1>10. CASE Rejected
  BY <1>10 DEF Rejected, Replied, Answered, GiveUp, Answer, Idle, cloud, ViewersT
<1>11. CASE \E q \in Requests : Ask(q)
  BY <1>11 DEF Ask, Answer, Notified, cloud, ViewersT
<1>12. CASE \E rs \in SUBSET Requests : Hide(rs)
  BY <1>12 DEF Hide, Answer, cloud, ViewersT
<1>13. CASE Post \/ (\E ch \in Chunks : Upload(ch)) \/ Conflict \/ Missing \/ Superseded
          \/ EpochFatal \/ Restart \/ Change \/ (\E q \in Requests : Show(q))
          \/ (\E q \in Requests : Lapse(q))
          \/ (\E ch \in Chunks, written \in BOOLEAN : UploadFails(ch, written))
          \/ (\E ch \in Chunks : Age(ch)) \/ (\E ch \in Chunks : Forget(ch))
          \/ (\E t \in Slots : WorkerRead(t) \/ WorkerProbe(t))
          \/ (\E t \in Slots : WorkerReread(t))
          \/ (\E t \in Slots : WorkerBeat(t)) \/ (\E t \in Slots : WorkerCommit(t))
          \/ Vanish \/ Refuse \/ Timeout \/ Crash \/ LoseCounter \/ Restore \/ Rotate
  <2>1. UNCHANGED <<result, shown>>
    BY <1>13 DEF Post, Upload, Conflict, Answered, Spend, Missing, Superseded, EpochFatal,
       Down, Restart, Change, Show, Lapse, UploadFails, Age, Forget, WorkerRead,
       WorkerProbe, Reply,
       Proceed, WorkerReread, WorkerBeat, WorkerCommit, Vanish, Refuse, Timeout, Crash,
       LoseCounter, Restore, Rotate, desktop, cloud, viewers
  <2> QED BY <2>1
<1> QED BY <1>1, <1>2, <1>3, <1>4, <1>5, <1>6, <1>7, <1>8, <1>9, <1>10, <1>11, <1>12,
   <1>13, Cases

\* What was committed stays so.
LEMMA CommittedStays ==
  ASSUME CloudT, Next, NEW b, WasCommitted(b)
  PROVE  (\E h \in history' : h[3].build = b)
BY HistoryGrows DEF WasCommitted

\* Every action keeps PublishedIsFresh.
LEMMA PublishedStep ==
  ASSUME ViewersT, QueueT, RepT, CallsT, CloudT, StoreT, CallsOK, AskedOK, RepliesOK,
         PublishedIsFresh, Next
  PROVE  PublishedIsFresh'
<1>1. ASSUME watched' >= 0
      PROVE  \E h \in history' : h[3].build = watched'
  <2>1. CASE watched' = watched
    BY <1>1, <2>1, CommittedStays DEF PublishedIsFresh, WasCommitted
  <2>2. CASE watched' # watched
    BY <1>1, <2>2, WatchedComes, HistoryGrows DEF WasCommitted
  <2> QED BY <2>1, <2>2
<1>2. ASSUME NEW r \in Requests, result'[r] = "published"
      PROVE  shown'[r] >= asked'[r] /\ \E h \in history' : h[3].build = shown'[r]
  <2>1. CASE result[r] = "published" /\ shown'[r] = shown[r]
    <3>1. asked'[r] = asked[r]
      BY <2>1, AskedComes
    <3>2. shown[r] >= asked[r] /\ WasCommitted(shown[r])
      BY <2>1 DEF PublishedIsFresh, WasCommitted
    <3> QED BY <2>1, <3>1, <3>2, CommittedStays
  <2>2. CASE Published /\ r \in rep.trigger.refs /\ shown'[r] = rep.pending.content.build
    <3>1. asked' = asked /\ Working
      BY <2>2 DEF Published, Replied, Working
    <3>2. asked[r] <= rep.pending.content.build
      BY <2>2, <3>1 DEF AskedOK
    <3>3. Named("own") \in history
      BY <2>2 DEF Published, Replied, RepliesOK, InFlight
    <3>4. Named("own")[3] = rep.pending.content
      BY <2>2 DEF Published, Replied, CallsOK, InFlight
    <3>5. WasCommitted(rep.pending.content.build)
      BY <3>3, <3>4 DEF WasCommitted
    <3>6. asked[r] \in Int /\ rep.pending.content.build \in Int
      BY PublicationAssumption DEF ViewersT, RepT, Metas, Contents, Builds
    <3> QED BY <2>2, <3>1, <3>2, <3>5, <3>6, CommittedStays
  <2> QED BY <1>2, <2>1, <2>2, AnswersCome
<1> QED BY <1>1, <1>2 DEF PublishedIsFresh

-----------------------------------------------------------------------------
\* The initial states satisfy the strengthened invariant.
LEMMA InitInv == Init => IInv
<1> SUFFICES ASSUME Init PROVE IInv
  OBVIOUS
<1>1. IsFiniteSet(queue) /\ Cardinality(queue) = 0
  BY FS_EmptySet DEF Init
<1>2. ViewersT /\ QueueT /\ StoreT /\ CacheT /\ RestT
  <2>1. ViewersT
    BY PublicationAssumption DEF Init, ViewersT, Builds
  <2>2. QueueT
    BY <1>1, PublicationAssumption DEF Init, QueueT
  <2>3. StoreT
    BY PublicationAssumption DEF Init, StoreT
  <2>4. CacheT
    BY DEF Init, CacheT
  <2>5. RestT
    <3>1. wake \in BOOLEAN /\ lost \in {"none", "d1", "counter"}
      BY DEF Init
    <3>2. budget \in 0 .. MaxBudget
      BY PublicationAssumption DEF Init
    <3> QED BY <3>1, <3>2 DEF RestT
  <2> QED BY <2>1, <2>2, <2>3, <2>4, <2>5
<1>3. RepT
  BY IdleTyped DEF Init, RepT
<1>4. CallsT
  BY NoCallTyped DEF Init, CallsT, Slots
<1>5. CloudT
  <2>1. NoMeta \in Metas /\ [ch \in Chunks |-> "absent"] \in Ages
    BY Constants
  <2> QED BY <2>1, PublicationAssumption DEF Init, CloudT
<1>6. ~Working /\ \A s \in Slots : ~InFlight(s)
  BY DEF Init, Working, Idle, InFlight, Slots, NoCall
<1>7. rep.trigger.refs = {}
  BY IdleRefs DEF Init
<1>8. CallsOK
  <2>1. bound = 1 /\ d1.epoch = 1
    BY DEF Init
  <2> QED BY <1>6, <2>1 DEF CallsOK, Slots
<1>9. StoredOK
  BY DEF Init, StoredOK, Readable, NoMeta
<1>10. HistoryOK /\ VersionNamesOneContent
  BY DEF Init, HistoryOK, VersionNamesOneContent
<1>11. NamesOK
  BY <1>6 DEF Init, NamesOK, Given
<1>12. AskedOK
  <2>1. source = 0 /\ queue = {} /\ \A r \in Requests : asked[r] = -1
    BY DEF Init
  <2> QED BY <1>6, <1>7, <2>1 DEF AskedOK
<1>13. RepliesOK
  BY <1>6 DEF RepliesOK, Slots
<1>14. PublishedIsFresh
  BY DEF Init, PublishedIsFresh
<1> QED BY <1>2, <1>3, <1>4, <1>5, <1>8, <1>9, <1>10, <1>11, <1>12, <1>13, <1>14, TypeParts
    DEF IInv

\* Every step keeps the strengthened invariant.
LEMMA InvStep ==
  ASSUME IInv, Next
  PROVE  IInv'
<1>1. ViewersT /\ QueueT /\ StoreT /\ RepT /\ CacheT /\ CallsT /\ CloudT /\ RestT
  BY TypeParts DEF IInv
<1>2. ViewersT' /\ QueueT' /\ StoreT' /\ CloudT'
  BY <1>1, ViewersTyped, QueueTyped, StoreTyped, CloudTyped
<1>3. /\ CallsOK /\ StoredOK /\ HistoryOK /\ NamesOK /\ AskedOK /\ RepliesOK
      /\ VersionNamesOneContent /\ PublishedIsFresh
  BY DEF IInv
<1>4. TypeOK' /\ IsFiniteSet(queue')
  BY TypeStep DEF IInv
<1>5. CallsOK' /\ StoredOK' /\ HistoryOK'
  BY <1>1, <1>2, <1>3, CallsStep, StoredStep, HistoryStep
<1>6. NamesOK' /\ VersionNamesOneContent'
  BY <1>1, <1>2, <1>3, NamesStep, VersionStep
<1>7. AskedOK' /\ RepliesOK' /\ PublishedIsFresh'
  BY <1>1, <1>2, <1>3, AskedStep, RepliesStep, PublishedStep
<1> QED BY <1>4, <1>5, <1>6, <1>7 DEF IInv

\* A step that changes nothing keeps it.
LEMMA StutterInv ==
  ASSUME IInv, UNCHANGED vars
  PROVE  IInv'
<1> USE DEF IInv, vars
<1>1. TypeOK' /\ IsFiniteSet(queue')
  BY DEF TypeOK
<1>2. CallsOK' /\ StoredOK' /\ HistoryOK' /\ RepliesOK'
  BY DEF CallsOK, StoredOK, HistoryOK, RepliesOK, Readable, InFlight, Named, Working
<1>3. NamesOK' /\ AskedOK'
  BY DEF NamesOK, Given, InFlight, Named, Working, AskedOK
<1>4. VersionNamesOneContent' /\ PublishedIsFresh'
  BY DEF VersionNamesOneContent, PublishedIsFresh
<1> QED BY <1>1, <1>2, <1>3, <1>4

\* The strengthened invariant holds of every behaviour: what is stored, under
\* way or remembered of a publication agrees, through faults, crashes, a lost
\* counter and a restored D1.
THEOREM SnapshotInvariant == Spec => []IInv
<1>1. Init => IInv
  BY InitInv
<1>2. IInv /\ [Next]_vars => IInv'
  BY InvStep, StutterInv
<1> QED BY <1>1, <1>2, PTL DEF Spec

\* The desktop's, the Worker's and D1's state keep their types, and the refresh
\* queue its limit.
THEOREM SnapshotTypeCorrect == Spec => []TypeOK
<1>1. IInv => TypeOK
  BY DEF IInv
<1> QED BY <1>1, SnapshotInvariant, PTL

\* Every chunk that the stored manifest names is stored: storeChunkedSnapshot
\* checks them in the transaction that commits, pruneOrphanSnapshotChunks
\* spares them, and what a restore brings back was committed so.
THEOREM StoredIsCompleteCorrect == Spec => []StoredIsComplete
<1>1. IInv => StoredIsComplete
  BY DEF IInv, StoredOK, Readable, StoredIsComplete
<1> QED BY <1>1, SnapshotInvariant, PTL

\* No version of an epoch is committed with two contents, whatever crashed
\* between next_state_version_after and the commit, and whichever one of the
\* counter and D1 was set back.
THEOREM VersionNamesOneContentCorrect == Spec => []VersionNamesOneContent
<1>1. IInv => VersionNamesOneContent
  BY DEF IInv
<1> QED BY <1>1, SnapshotInvariant, PTL

\* A refresh answered with "published" shows a committed state that is no older
\* than the request, and the recorded fingerprint is of a committed state.
THEOREM PublishedIsFreshCorrect == Spec => []PublishedIsFresh
<1>1. IInv => PublishedIsFresh
  BY DEF IInv
<1> QED BY <1>1, SnapshotInvariant, PTL

\* Within an epoch the stored version only grows, except in a restore of D1:
\* neither an abandoned request nor a retry takes it back.
THEOREM StoredNeverRegressesCorrect == Spec => StoredNeverRegresses
<1>1. ASSUME IInv, [Next]_vars, d1'.epoch = d1.epoch, lost' = lost
      PROVE  d1'.meta.version >= d1.meta.version
  <2>1. CloudT /\ CallsT
    BY <1>1, TypeParts DEF IInv
  <2>2. CASE Next
    <3>1. ~Restore
      BY <1>1 DEF Restore
    <3> QED BY <1>1, <2>1, <2>2, <3>1, StoredGrows
  <2>3. CASE UNCHANGED vars
    BY <2>1, <2>3 DEF vars, CloudT, Metas
  <2> QED BY <1>1, <2>2, <2>3
<1>2. IInv /\ [Next]_vars =>
        [d1'.epoch = d1.epoch /\ lost' = lost => d1'.meta.version >= d1.meta.version]_vars
  BY <1>1
<1> QED BY <1>2, SnapshotInvariant, PTL DEF Spec, StoredNeverRegresses
=============================================================================

