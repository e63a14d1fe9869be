---------------------- MODULE LibraryMigration_proofs ----------------------
(* Theorems of LibraryMigration, for any number of jobs, tokens,            *)
(* generations and stops.                                                   *)
EXTENDS LibraryMigration, FiniteSetTheorems, TLAPS

-----------------------------------------------------------------------------
(* The strengthening of the invariants.                                     *)

S == store["source"]
T == store["target"]

\* Where the record is, and what the durable job knows of it.
RecordsOK ==
  /\ Has("source") \/ Has("target")
  /\ Has("source") /\ Has("target") =>
       /\ at = "installed" /\ S.handover = "copying" /\ S.transfer.planned
       /\ T.status = S.status /\ T.gen = S.gen /\ T.cancel = S.cancel
       /\ T.transfer = S.transfer /\ T.handover = "installed"
  /\ Has("source") => S.handover \in {"none", "copying"}
  /\ Has("target") => job.plan /\ T.handover # "copying"
  /\ Has("target") /\ T.handover = "none" => job.final /\ Cleaned /\ GivenBack
  /\ Has("target") /\ T.handover \in {"receipt", "none"} => job.committed
JobOK ==
  /\ job.impact < MaxGen
  /\ job.committed => ~Has("source") /\ ~job.awaiting
  /\ ~job.payload \/ job.media = "complete" => job.committed
  /\ job.final => job.committed /\ Has("target") /\ T.handover \in {"receipt", "none"}
  /\ job.status = "none" => ~job.plan /\ at = "off"
  /\ job.plan /\ Has("source") =>
       \/ S.handover = "none" /\ job.status = "Stopped"
       \/ S.handover = "copying" /\ S.transfer.planned
AtOK ==
  /\ at \in {"wait", "attach", "attaching", "step", "commit"} /\ Has("source") =>
       S.handover = "copying"
  /\ at \in {"attaching", "step", "commit"} /\ Has("source") => S.transfer.planned
  /\ at \in {"step", "commit", "installed", "committed"} => job.plan
  /\ at \in {"commit", "installed", "committed"} => job.awaiting
  /\ at \in {"installed", "committed"} => Has("target") /\ T.handover = "installed"
  /\ at = "committed" => ~Has("source")

\* The parts of TypeOK.
StoreT == store \in [Libraries -> Records \cup {NoRecord}]
JobsT  == jobs \in [Jobs -> [pc : {"off"} \cup Before \cup Inside \cup After, gen : 0 .. MaxGen,
                             token : Tokens \cup {NoToken}]]
TokenT == /\ reg \in [gen : 0 .. MaxGen, token : Tokens \cup {NoToken}]
          /\ permits \subseteq Tokens /\ calls \subseteq Tokens
JobT   == job \in [status : Held \cup Runnable \cup {"none"}, impact : 0 .. MaxGen, media : Media,
              plan : BOOLEAN, awaiting : BOOLEAN, committed : BOOLEAN, final : BOOLEAN,
              payload : BOOLEAN, controls : BOOLEAN, latched : BOOLEAN]
Here   == Has("source") \/ Has("target")

\* TypeOK, variable by variable.
LEMMA TypeParts ==
  TypeOK <=> StoreT /\ JobsT /\ TokenT /\ JobT /\ at \in Places /\ budget \in 0 .. MaxBudget
BY DEF TypeOK, QueueTypeOK, StoreT, JobsT, TokenT, JobT

\* The same after a step.
LEMMA TypePartsNext ==
  StoreT' /\ JobsT' /\ TokenT' /\ JobT' /\ at' \in Places /\ budget' \in 0 .. MaxBudget => TypeOK'
BY DEF TypeOK, QueueTypeOK, StoreT, JobsT, TokenT, JobT

-----------------------------------------------------------------------------
(* Records and libraries.                                                   *)

\* A record is told by its five fields, and is not the absence of one.
LEMMA RecordsAre ==
  /\ NoRecord \notin Records
  /\ \A r \in Records :
       /\ r = [status |-> r.status, gen |-> r.gen, cancel |-> r.cancel,
               handover |-> r.handover, transfer |-> r.transfer]
       /\ r.status \in Statuses /\ r.gen \in Generations /\ r.cancel \in BOOLEAN
       /\ r.handover \in Handovers /\ r.transfer \in Transfers
  /\ \A s \in Statuses, g \in Generations, c \in BOOLEAN, h \in Handovers, t \in Transfers :
       [status |-> s, gen |-> g, cancel |-> c, handover |-> h, transfer |-> t] \in Records
<1>1. \A r \in Records : r.status \in Statuses
  BY DEF Records
<1>2. "none" \notin Statuses
  BY DEF Statuses, Unfinished
<1>3. NoRecord \notin Records
  BY <1>1, <1>2 DEF NoRecord
<1> QED BY <1>3 DEF Records

\* The operations work on a record that is there.
LEMMA HomeIs ==
  ASSUME StoreT, Here
  PROVE  /\ Home \in Libraries /\ Has(Home) /\ Rec \in Records /\ Present
         /\ Rec.gen \in 1 .. MaxGen /\ Rec.status \in Statuses /\ Rec.cancel \in BOOLEAN
         /\ ~Has("target") => Home = "source" /\ Rec = S
         /\ ~Has("source") => Home = "target" /\ Rec = T
         /\ Has("source") => S \in Records
         /\ Has("target") => T \in Records
         /\ (Home = "source" /\ Rec = S) \/ (Home = "target" /\ Rec = T)
<1>1. Home \in Libraries /\ Has(Home)
  BY QueueAssumption DEF Here, Home, Has, Other, Libraries
<1>2. Rec \in Records
  BY <1>1 DEF StoreT, Rec, Has
<1>3. ~Has("target") => Home = "source"
  BY <1>1 DEF Libraries
<1>4. ~Has("source") => Home = "target"
  BY <1>1 DEF Libraries
<1>5. (Has("source") => S \in Records) /\ (Has("target") => T \in Records)
  BY DEF StoreT, Has, S, T, Libraries
<1>6. (Home = "source" /\ Rec = S) \/ (Home = "target" /\ Rec = T)
  BY <1>1 DEF Libraries, Rec, S, T
<1>7. Present
  BY <1>1 DEF Present
<1>8. Rec.gen \in 1 .. MaxGen /\ Rec.status \in Statuses /\ Rec.cancel \in BOOLEAN
  BY <1>2, RecordsAre DEF Generations
<1>9. (Home = "source" => Rec = S) /\ (Home = "target" => Rec = T)
  BY DEF Rec, S, T
<1> QED BY <1>1, <1>2, <1>3, <1>4, <1>5, <1>6, <1>7, <1>8, <1>9

\* What saving a record changes.
LEMMA Saved ==
  ASSUME StoreT, Here, NEW r \in Records, Save(r)
  PROVE  /\ StoreT' /\ Here' /\ Home' = Home /\ Rec' = r
         /\ \A l \in Libraries : /\ Has(l)' <=> Has(l)
                                 /\ l # Home => store'[l] = store[l]
<1>1. Home \in Libraries /\ Has(Home)
  BY HomeIs
<1>2. store' = [store EXCEPT ![Home] = r] /\ store'[Home] = r
  BY <1>1 DEF Save, StoreT
<1>3. StoreT'
  BY <1>1, <1>2 DEF StoreT
<1>4. \A l \in Libraries : l # Home => store'[l] = store[l]
  BY <1>1, <1>2 DEF StoreT
<1>5. ASSUME NEW l \in Libraries PROVE Has(l)' <=> Has(l)
  <2>1. CASE l = Home
    BY <1>1, <1>2, <2>1, RecordsAre DEF Has
  <2>2. CASE l # Home
    BY <1>4, <2>2 DEF Has
  <2> QED BY <2>1, <2>2
<1>6. Here' /\ Home' = Home
  BY <1>5, QueueAssumption DEF Here, Home, Libraries
<1>7. Rec' = r
  BY <1>2, <1>6 DEF Rec
<1> QED BY <1>3, <1>4, <1>5, <1>6, <1>7

\* A step that saves none leaves it where it is.
LEMMA Unsaved ==
  ASSUME Here, UNCHANGED store
  PROVE  /\ Here' /\ Home' = Home /\ Rec' = Rec /\ (StoreT => StoreT')
         /\ \A l \in Libraries : Has(l)' <=> Has(l)
BY DEF Here, Home, Rec, Has, StoreT

Copying == Has("source") /\ S.handover = "copying"

\* The queue has no record but one while a record may be used.
LEMMA Alone ==
  ASSUME TypeOK, RecordsOK
  PROVE  /\ StoreT /\ Here
         /\ ~Pending => ~(Has("source") /\ Has("target"))
         /\ Copying => Pending /\ Rec.gen = S.gen /\ Rec.transfer = S.transfer
         /\ Rec.handover = "copying" => Copying /\ Home = "source"
<1>1. StoreT /\ Here
  BY TypeParts DEF RecordsOK, Here
<1>2. ASSUME Has("source"), Has("target")
      PROVE  /\ S.handover = "copying" /\ T.handover = "installed" /\ S \in Records
             /\ T.gen = S.gen /\ T.transfer = S.transfer
  BY <1>1, <1>2, HomeIs DEF RecordsOK, Records
<1>3. ~Pending => ~(Has("source") /\ Has("target"))
  BY <1>1, <1>2, HomeIs DEF Pending
<1>4. Copying => Pending /\ Rec.gen = S.gen /\ Rec.transfer = S.transfer
  BY <1>1, <1>2, HomeIs DEF Pending, Copying
<1>5. Rec.handover = "copying" => Copying /\ Home = "source"
  <2>1. CASE Home = "source"
    BY <1>1, <2>1, HomeIs DEF Copying
  <2>2. CASE Home = "target"
    BY <1>1, <2>2, HomeIs DEF Copying, RecordsOK
  <2> QED BY <2>1, <2>2, <1>1, HomeIs DEF Libraries
<1> QED BY <1>1, <1>3, <1>4, <1>5

\* What an operation of the queue leaves alone in the store.
Inert ==
  /\ StoreT' /\ Here' /\ Home' = Home
  /\ \A l \in Libraries :
       /\ Has(l)' <=> Has(l)
       /\ store'[l].handover = store[l].handover /\ store'[l].transfer = store[l].transfer
  /\ Has("source") /\ Has("target") => store' = store

\* It saves a record with another status, generation or flag, ...
Wrote(s, g, c) ==
  /\ ~Pending /\ Inert /\ Rec' \in Records
  /\ Rec'.status = s /\ Rec'.gen = g /\ Rec'.cancel = c
  /\ Rec'.handover = Rec.handover /\ Rec'.transfer = Rec.transfer

\* ... or none.
Keeps == UNCHANGED store /\ Inert /\ Rec' = Rec

\* A saved record that keeps its handover is one of Wrote, whichever fields
\* change.
LEMMA WroteIs ==
  ASSUME TypeOK, RecordsOK, ~Pending, NEW r \in Records, Save(r),
         r.handover = Rec.handover, r.transfer = Rec.transfer
  PROVE  Wrote(r.status, r.gen, r.cancel)
<1>1. StoreT /\ Here /\ ~(Has("source") /\ Has("target"))
  BY Alone
<1>2. /\ StoreT' /\ Here' /\ Home' = Home /\ Rec' = r
      /\ \A l \in Libraries : (Has(l)' <=> Has(l)) /\ (l # Home => store'[l] = store[l])
  BY <1>1, Saved
<1>3. ASSUME NEW l \in Libraries
      PROVE  store'[l].handover = store[l].handover /\ store'[l].transfer = store[l].transfer
  <2>1. CASE l = Home
    <3>1. store'[l] = r /\ store[l] = Rec
      BY <2>1, <1>2 DEF Rec
    <3> QED BY <3>1
  <2>2. CASE l # Home
    BY <2>2, <1>2
  <2> QED BY <2>1, <2>2
<1> QED BY <1>1, <1>2, <1>3 DEF Wrote, Inert

\* A step that does not save keeps the record.
LEMMA KeepsIs ==
  ASSUME TypeOK, RecordsOK, UNCHANGED store
  PROVE  Keeps
BY Alone, Unsaved DEF Keeps, Inert

\* Only the status is saved.
LEMMA WroteStatus ==
  ASSUME TypeOK, RecordsOK, ~Pending, NEW s \in Statuses, Save([Rec EXCEPT !.status = s])
  PROVE  Wrote(s, Rec.gen, Rec.cancel)
<1>1. Rec \in Records
  BY Alone, HomeIs
<1> DEFINE r == [Rec EXCEPT !.status = s]
<1>2. /\ r \in Records /\ r.status = s /\ r.gen = Rec.gen /\ r.cancel = Rec.cancel
      /\ r.handover = Rec.handover /\ r.transfer = Rec.transfer
  BY <1>1 DEF Records
<1> HIDE DEF r
<1>3. Save(r)
  BY DEF r
<1> QED BY <1>2, <1>3, WroteIs

\* Only the cancellation is saved.
LEMMA WroteFlag ==
  ASSUME TypeOK, RecordsOK, ~Pending, NEW c \in BOOLEAN, Save([Rec EXCEPT !.cancel = c])
  PROVE  Wrote(Rec.status, Rec.gen, c)
<1>1. Rec \in Records
  BY Alone, HomeIs
<1> DEFINE r == [Rec EXCEPT !.cancel = c]
<1>2. /\ r \in Records /\ r.status = Rec.status /\ r.gen = Rec.gen /\ r.cancel = c
      /\ r.handover = Rec.handover /\ r.transfer = Rec.transfer
  BY <1>1 DEF Records
<1> HIDE DEF r
<1>3. Save(r)
  BY DEF r
<1> QED BY <1>2, <1>3, WroteIs

\* The status and the cancellation are saved.
LEMMA WroteBoth ==
  ASSUME TypeOK, RecordsOK, ~Pending, NEW s \in Statuses, NEW c \in BOOLEAN,
         Save([Rec EXCEPT !.status = s, !.cancel = c])
  PROVE  Wrote(s, Rec.gen, c)
<1>1. Rec \in Records
  BY Alone, HomeIs
<1> DEFINE r == [Rec EXCEPT !.status = s, !.cancel = c]
<1>2. /\ r \in Records /\ r.status = s /\ r.gen = Rec.gen /\ r.cancel = c
      /\ r.handover = Rec.handover /\ r.transfer = Rec.transfer
  BY <1>1 DEF Records
<1> HIDE DEF r
<1>3. Save(r)
  BY DEF r
<1> QED BY <1>2, <1>3, WroteIs

\* The generation is saved with them.
LEMMA WroteAll ==
  ASSUME TypeOK, RecordsOK, ~Pending, NEW g \in Generations, NEW s \in Statuses,
         NEW c \in BOOLEAN, Save([Rec EXCEPT !.gen = g, !.status = s, !.cancel = c])
  PROVE  Wrote(s, g, c)
<1>1. Rec \in Records
  BY Alone, HomeIs
<1> DEFINE r == [Rec EXCEPT !.gen = g, !.status = s, !.cancel = c]
<1>2. /\ r \in Records /\ r.status = s /\ r.gen = g /\ r.cancel = c
      /\ r.handover = Rec.handover /\ r.transfer = Rec.transfer
  BY <1>1 DEF Records
<1> HIDE DEF r
<1>3. Save(r)
  BY DEF r
<1> QED BY <1>2, <1>3, WroteIs

\* What Is asks of the record.
LEMMA IsIs ==
  ASSUME TypeOK, RecordsOK, NEW g, NEW s
  PROVE  /\ Is(g, s) <=> ~Pending /\ Rec.gen = g /\ Rec.status \in s
         /\ Present
BY Alone, HomeIs DEF Is, Current

-----------------------------------------------------------------------------
(* What an operation does to the jobs.                                      *)

Pcs == {"off"} \cup Before \cup Inside \cup After

Same(j) == \A k \in Jobs : k # j => jobs'[k] = jobs[k]

\* a job goes on, ends, is started
Turns(j, pc) ==
  jobs'[j].pc = pc /\ jobs'[j].gen = jobs[j].gen /\ jobs'[j].token = jobs[j].token /\ Same(j)
Finishes(j) ==
  jobs'[j].pc = "off" /\ jobs'[j].gen = 0 /\ jobs'[j].token = NoToken /\ Same(j)
Starts(pc, g) ==
  \E j \in Jobs : /\ jobs[j].pc = "off" /\ Same(j)
                  /\ jobs'[j].pc = pc /\ jobs'[j].gen = g /\ jobs'[j].token = NoToken

\* The fields of a job.
LEMMA JobIs ==
  ASSUME JobsT, NEW j \in Jobs
  PROVE  jobs[j].pc \in Pcs /\ jobs[j].gen \in 0 .. MaxGen /\ jobs[j].token \in Tokens \cup {NoToken}
BY DEF JobsT, Pcs

\* A job goes on.
LEMMA GoIs ==
  ASSUME JobsT, NEW j \in Jobs, NEW pc \in Pcs, Go(j, pc)
  PROVE  JobsT' /\ Turns(j, pc)
<1>1. \A k \in Jobs : jobs'[k] = IF k = j THEN [jobs[j] EXCEPT !.pc = pc] ELSE jobs[k]
  BY DEF Go, JobsT
<1>2. Turns(j, pc)
  BY <1>1 DEF Turns, Same, JobsT
<1>3. JobsT'
  BY DEF JobsT, Pcs, Go
<1> QED BY <1>2, <1>3

\* A job ends.
LEMMA EndIs ==
  ASSUME JobsT, NEW j \in Jobs, End(j)
  PROVE  JobsT' /\ Finishes(j)
<1>1. \A k \in Jobs : jobs'[k] = IF k = j THEN Idle ELSE jobs[k]
  BY DEF End, JobsT
<1>2. Finishes(j)
  BY <1>1 DEF Finishes, Same, Idle
<1>3. JobsT'
  BY QueueAssumption DEF JobsT, Pcs, End, Idle
<1> QED BY <1>2, <1>3

\* A job starts in a free slot.
LEMMA SpawnIs ==
  ASSUME JobsT, NEW pc \in Pcs, NEW g \in 0 .. MaxGen, Spawn(pc, g)
  PROVE  JobsT' /\ Starts(pc, g)
<1>1. PICK j \in Jobs : /\ jobs[j].pc = "off"
                        /\ jobs' = [jobs EXCEPT ![j] = [pc |-> pc, gen |-> g, token |-> NoToken]]
  BY DEF Spawn, Room
<1>2. \A k \in Jobs : jobs'[k] = IF k = j THEN [pc |-> pc, gen |-> g, token |-> NoToken] ELSE jobs[k]
  BY <1>1 DEF JobsT
<1>3. Starts(pc, g)
  BY <1>1, <1>2 DEF Starts, Same
<1>4. JobsT'
  BY <1>1 DEF JobsT, Pcs
<1> QED BY <1>3, <1>4

-----------------------------------------------------------------------------
(* The operations of the queue, effect by effect.                           *)

\* Resume starts a generation, and its job.
LEMMA ResumeIs ==
  ASSUME TypeOK, RecordsOK, NEW g \in Generations, Resume(g)
  PROVE  /\ Rec.gen = g /\ Rec.status \in Resumable /\ g + 1 \in Generations
         /\ Wrote("Preparing", g + 1, FALSE) /\ Starts("prepare", g + 1) /\ JobsT'
         /\ UNCHANGED <<reg, permits, calls>>
<1>1. ~Pending /\ Rec.gen = g /\ Rec.status \in Resumable
  BY IsIs DEF Resume
<1>2. g + 1 \in Generations
  BY QueueAssumption DEF Resume, Generations
<1>3. Wrote("Preparing", g + 1, FALSE)
  BY <1>1, <1>2, WroteAll DEF Resume, Statuses, Unfinished
<1>4. g + 1 \in 0 .. MaxGen /\ "prepare" \in Pcs
  BY <1>2, QueueAssumption DEF Generations, Pcs, Before
<1>5. Starts("prepare", g + 1) /\ JobsT'
  BY <1>4, SpawnIs, TypeParts DEF Resume
<1> QED BY <1>1, <1>2, <1>3, <1>5 DEF Resume

\* Accept starts another job of the generation.
LEMMA AcceptIs ==
  ASSUME TypeOK, RecordsOK, NEW g \in Generations, Accept(g)
  PROVE  /\ Rec.gen = g /\ Rec.status = "AwaitingConfirmation"
         /\ Wrote("Preparing", g, FALSE) /\ Starts("prepare", g) /\ JobsT'
         /\ reg' = IF reg.gen = g THEN Unregistered ELSE reg
         /\ UNCHANGED <<permits, calls>>
<1>1. ~Pending /\ Rec.gen = g /\ Rec.status = "AwaitingConfirmation"
  BY IsIs DEF Accept
<1>3. Wrote("Preparing", g, FALSE)
  BY <1>1, WroteBoth DEF Accept, Statuses, Unfinished
<1>4. Starts("prepare", g) /\ JobsT'
  BY SpawnIs, TypeParts DEF Accept, Pcs, Before, Generations
<1> QED BY <1>1, <1>3, <1>4 DEF Accept

\* Cancel captures the registered token.
LEMMA CancelIs ==
  ASSUME TypeOK, RecordsOK, NEW g \in Generations, Cancel(g)
  PROVE  /\ Rec.gen = g /\ Rec.status \in Unfinished \ {"Verifying"}
         /\ \/ Rec.status = "Running" /\ Wrote("Running", g, TRUE)
            \/ Rec.status # "Running" /\ Wrote("Cancelled", g, FALSE)
         /\ calls' = Captured /\ UNCHANGED <<reg, permits, jobs>>
<1>1. ~Pending /\ Rec.gen = g /\ Rec.status \in Unfinished \ {"Verifying"}
  BY IsIs DEF Cancel
<1>2. CASE Rec.status = "Running"
  <2>1. Save([Rec EXCEPT !.cancel = TRUE])
    BY <1>2 DEF Cancel
  <2> QED BY <1>1, <1>2, <2>1, WroteFlag DEF Cancel
<1>3. CASE Rec.status # "Running"
  <2>1. Save([Rec EXCEPT !.status = "Cancelled", !.cancel = FALSE])
    BY <1>3 DEF Cancel
  <2> QED BY <1>1, <1>3, <2>1, WroteBoth DEF Cancel, Statuses
<1> QED BY <1>2, <1>3

\* Deliver moves a token from calls to permits.
LEMMA DeliverIs ==
  ASSUME TypeOK, RecordsOK, NEW t \in Tokens, Deliver(t)
  PROVE  /\ Keeps /\ t \in calls /\ calls' = calls \ {t}
         /\ permits' = permits \cup ({t} \cap Referenced(Jobs, reg))
         /\ UNCHANGED <<reg, jobs>>
BY KeepsIs DEF Deliver, Woken

\* What Prepare does.
LEMMA PrepareIs ==
  ASSUME TypeOK, RecordsOK, NEW j \in Jobs, Prepare(j)
  PROVE  /\ jobs[j].pc = "prepare" /\ JobsT'
         /\ \/ /\ Rec.gen = jobs[j].gen /\ Rec.status \in {"Received", "Preparing"}
               /\ Wrote("Preparing", Rec.gen, FALSE) /\ Turns(j, "probing")
            \/ Keeps /\ Finishes(j)
         /\ UNCHANGED <<reg, permits, calls>>
<1>1. CASE Is(jobs[j].gen, {"Received", "Preparing"})
  <2>1. ~Pending /\ Rec.gen = jobs[j].gen /\ Rec.status \in {"Received", "Preparing"}
    BY <1>1, IsIs
  <2>2. Save([Rec EXCEPT !.status = "Preparing", !.cancel = FALSE]) /\ Go(j, "probing")
    BY <1>1 DEF Prepare
  <2>3. Wrote("Preparing", Rec.gen, FALSE)
    BY <2>1, <2>2, WroteBoth DEF Statuses, Unfinished
  <2>4. JobsT' /\ Turns(j, "probing")
    BY <2>2, GoIs, TypeParts DEF Pcs, Before
  <2> QED BY <2>1, <2>3, <2>4 DEF Prepare
<1>2. CASE ~Is(jobs[j].gen, {"Received", "Preparing"})
  BY <1>2, KeepsIs, EndIs, TypeParts DEF Prepare
<1> QED BY <1>1, <1>2

\* What Probe does.
LEMMA ProbeIs ==
  ASSUME TypeOK, RecordsOK, NEW j \in Jobs, Probe(j)
  PROVE  /\ jobs[j].pc = "probing" /\ JobsT'
         /\ \/ /\ Rec.gen = jobs[j].gen /\ Rec.status = "Preparing"
               /\ \/ Wrote("AwaitingChoice", Rec.gen, FALSE) /\ Turns(j, "choice")
                  \/ Wrote("Queued", Rec.gen, FALSE) /\ Turns(j, "queued")
                  \/ Wrote("Failed", Rec.gen, FALSE) /\ Finishes(j)
            \/ Keeps /\ Finishes(j)
         /\ UNCHANGED <<reg, permits, calls>>
<1>1. CASE Is(jobs[j].gen, {"Preparing"})
  <2>1. ~Pending /\ Rec.gen = jobs[j].gen /\ Rec.status = "Preparing"
    BY <1>1, IsIs
  <2>2. CASE Save([Rec EXCEPT !.status = "AwaitingChoice", !.cancel = FALSE]) /\ Go(j, "choice")
    <3>1. Wrote("AwaitingChoice", Rec.gen, FALSE)
      BY <2>1, <2>2, WroteBoth DEF Statuses, Unfinished
    <3>2. JobsT' /\ Turns(j, "choice")
      BY <2>2, GoIs, TypeParts DEF Pcs, Before
    <3> QED BY <2>1, <3>1, <3>2 DEF Probe
  <2>3. CASE Save([Rec EXCEPT !.status = "Queued", !.cancel = FALSE]) /\ Go(j, "queued")
    <3>1. Wrote("Queued", Rec.gen, FALSE)
      BY <2>1, <2>3, WroteBoth DEF Statuses, Unfinished
    <3>2. JobsT' /\ Turns(j, "queued")
      BY <2>3, GoIs, TypeParts DEF Pcs, Before
    <3> QED BY <2>1, <3>1, <3>2 DEF Probe
  <2>4. CASE Save([Rec EXCEPT !.status = "Failed", !.cancel = FALSE]) /\ End(j)
    <3>1. Wrote("Failed", Rec.gen, FALSE)
      BY <2>1, <2>4, WroteBoth DEF Statuses, Unfinished
    <3>2. JobsT' /\ Finishes(j)
      BY <2>4, EndIs, TypeParts
    <3> QED BY <2>1, <3>1, <3>2 DEF Probe
  <2> QED BY <1>1, <2>2, <2>3, <2>4 DEF Probe
<1>2. CASE ~Is(jobs[j].gen, {"Preparing"})
  BY <1>2, KeepsIs, EndIs, TypeParts DEF Probe
<1> QED BY <1>1, <1>2

\* What Choose does.
LEMMA ChooseIs ==
  ASSUME TypeOK, RecordsOK, NEW j \in Jobs, Choose(j)
  PROVE  /\ jobs[j].pc = "choice" /\ JobsT'
         /\ \/ /\ Rec.gen = jobs[j].gen /\ Rec.status = "AwaitingChoice"
               /\ \/ Wrote("Queued", Rec.gen, Rec.cancel) /\ Turns(j, "queued") /\ UNCHANGED calls
                  \/ Wrote("Cancelled", Rec.gen, Rec.cancel) /\ Finishes(j) /\ calls' = Captured
            \/ Keeps /\ Finishes(j) /\ UNCHANGED calls
         /\ UNCHANGED <<reg, permits>>
<1>1. ASSUME Is(jobs[j].gen, {"AwaitingChoice"})
      PROVE  ~Pending /\ Rec.gen = jobs[j].gen /\ Rec.status = "AwaitingChoice"
  BY <1>1, IsIs
<1>2. CASE /\ Is(jobs[j].gen, {"AwaitingChoice"})
           /\ Save([Rec EXCEPT !.status = "Queued"]) /\ Go(j, "queued") /\ UNCHANGED calls
  <2>1. Wrote("Queued", Rec.gen, Rec.cancel)
    BY <1>1, <1>2, WroteStatus DEF Statuses, Unfinished
  <2>2. JobsT' /\ Turns(j, "queued")
    BY <1>2, GoIs, TypeParts DEF Pcs, Before
  <2> QED BY <1>1, <1>2, <2>1, <2>2 DEF Choose
<1>3. CASE /\ Is(jobs[j].gen, {"AwaitingChoice"})
           /\ Save([Rec EXCEPT !.status = "Cancelled"]) /\ End(j) /\ calls' = Captured
  <2>1. Wrote("Cancelled", Rec.gen, Rec.cancel)
    BY <1>1, <1>3, WroteStatus DEF Statuses, Unfinished
  <2>2. JobsT' /\ Finishes(j)
    BY <1>3, EndIs, TypeParts
  <2> QED BY <1>1, <1>3, <2>1, <2>2 DEF Choose
<1>4. CASE End(j) /\ UNCHANGED <<store, calls>>
  BY <1>4, KeepsIs, EndIs, TypeParts DEF Choose
<1> QED BY <1>2, <1>3, <1>4 DEF Choose

\* A job registers with the token of its generation, or a new one.
LEMMA RegisterIs ==
  ASSUME TypeOK, RecordsOK, NEW j \in Jobs, Register(j)
  PROVE  /\ jobs[j].pc = "queued" /\ JobsT' /\ Keeps /\ UNCHANGED calls
         /\ \/ /\ Rec.gen = jobs[j].gen /\ Rec.status = "Queued" /\ ~Pending
               /\ \E t \in Tokens \cup {NoToken} :
                    /\ reg' = [gen |-> jobs[j].gen, token |-> t]
                    /\ jobs'[j].pc = "waiting" /\ jobs'[j].gen = jobs[j].gen
                    /\ jobs'[j].token = t /\ Same(j)
                    /\ \/ reg.gen = jobs[j].gen /\ t = reg.token /\ UNCHANGED permits
                       \/ reg.gen # jobs[j].gen /\ t \in Fresh /\ permits' = permits \ {t}
            \/ Finishes(j) /\ UNCHANGED <<reg, permits>>
<1>0. JobsT /\ TokenT
  BY TypeParts
<1>1. Keeps /\ jobs[j].pc = "queued" /\ UNCHANGED calls
  BY KeepsIs DEF Register
<1>2. CASE Is(jobs[j].gen, {"Queued"}) /\ jobs' # [jobs EXCEPT ![j] = Idle]
  <2> DEFINE g == jobs[j].gen
             t == IF reg.gen = g THEN reg.token ELSE CHOOSE x \in Fresh : TRUE
  <2>1. /\ Is(g, {"Queued"}) /\ (reg.gen = g \/ Fresh # {})
        /\ reg' = [gen |-> g, token |-> t]
        /\ permits' = IF reg.gen = g THEN permits ELSE permits \ {t}
        /\ jobs' = [jobs EXCEPT ![j] = [pc |-> "waiting", gen |-> g, token |-> t]]
    BY <1>2 DEF Register, End
  <2>2. ~Pending /\ Rec.gen = g /\ Rec.status = "Queued"
    BY <2>1, IsIs
  <2>3. /\ reg.gen = g => t = reg.token /\ permits' = permits
        /\ reg.gen # g => t \in Fresh /\ permits' = permits \ {t}
    BY <2>1
  <2>4. t \in Tokens \cup {NoToken}
    BY <2>3, <1>0 DEF Fresh, TokenT
  <2> HIDE DEF t
  <2>5. \A k \in Jobs : jobs'[k] = IF k = j THEN [pc |-> "waiting", gen |-> g, token |-> t] ELSE jobs[k]
    BY <2>1, <1>0 DEF JobsT
  <2>6. jobs'[j].pc = "waiting" /\ jobs'[j].gen = g /\ jobs'[j].token = t /\ Same(j)
    BY <2>5 DEF Same
  <2>7. g \in 0 .. MaxGen
    BY <1>0 DEF JobsT
  <2> HIDE DEF g
  <2>8. JobsT'
    BY <2>1, <2>4, <2>7, <1>0 DEF JobsT, Before
  <2> QED BY <1>1, <2>1, <2>2, <2>3, <2>4, <2>6, <2>8 DEF g
<1>3. CASE ~(Is(jobs[j].gen, {"Queued"}) /\ jobs' # [jobs EXCEPT ![j] = Idle])
  <2>1. CASE ~Is(jobs[j].gen, {"Queued"})
    BY <2>1, <1>0, <1>1, EndIs DEF Register
  <2>2. CASE Is(jobs[j].gen, {"Queued"}) /\ jobs' = [jobs EXCEPT ![j] = Idle]
    <3>1. jobs'[j].pc = "off"
      BY <2>2, <1>0 DEF Idle, JobsT
    <3>2. jobs'[j].pc = "waiting"
      BY <2>2, <1>0 DEF Register, JobsT
    <3> QED BY <3>1, <3>2
  <2> QED BY <1>3, <2>1, <2>2
<1> QED BY <1>2, <1>3

\* GiveUp consumes a permit and withdraws the token.
LEMMA GiveUpIs ==
  ASSUME TypeOK, RecordsOK, NEW j \in Jobs, GiveUp(j)
  PROVE  /\ jobs[j].pc = "waiting" /\ JobsT' /\ Keeps /\ Finishes(j)
         /\ jobs[j].token \in permits /\ permits' = permits \ {jobs[j].token}
         /\ reg' = Withdrawn(jobs[j].token) /\ UNCHANGED calls
BY KeepsIs, EndIs, TypeParts DEF GiveUp

\* Begin starts the run of a queued task.
LEMMA BeginIs ==
  ASSUME TypeOK, RecordsOK, NEW j \in Jobs, Begin(j)
  PROVE  /\ jobs[j].pc = "waiting" /\ JobsT'
         /\ \/ /\ Rec.gen = jobs[j].gen /\ Rec.status = "Queued"
               /\ Wrote("Running", Rec.gen, FALSE) /\ Turns(j, "inspecting")
            \/ Keeps /\ Turns(j, "leaving")
         /\ UNCHANGED <<reg, permits, calls>>
<1>1. CASE Is(jobs[j].gen, Startable)
  <2>1. ~Pending /\ Rec.gen = jobs[j].gen /\ Rec.status = "Queued"
    BY <1>1, IsIs DEF Startable
  <2>2. Save([Rec EXCEPT !.status = "Running", !.cancel = FALSE]) /\ Go(j, "inspecting")
    BY <1>1 DEF Begin
  <2>3. Wrote("Running", Rec.gen, FALSE)
    BY <2>1, <2>2, WroteBoth DEF Statuses, Unfinished
  <2>4. JobsT' /\ Turns(j, "inspecting")
    BY <2>2, GoIs, TypeParts DEF Pcs, Inside
  <2> QED BY <2>1, <2>3, <2>4 DEF Begin
<1>2. CASE ~Is(jobs[j].gen, Startable)
  BY <1>2, KeepsIs, GoIs, TypeParts DEF Begin, Pcs, After
<1> QED BY <1>1, <1>2

\* Observe consumes a permit.
LEMMA ObserveIs ==
  ASSUME TypeOK, RecordsOK, NEW j \in Jobs, Observe(j)
  PROVE  /\ jobs[j].pc \in {"inspecting", "working"} /\ JobsT' /\ Keeps /\ Turns(j, "stopping")
         /\ jobs[j].token \in permits /\ permits' = permits \ {jobs[j].token}
         /\ UNCHANGED <<reg, calls>>
BY KeepsIs, GoIs, TypeParts DEF Observe, Pcs, After

\* When a cancellation is pending.
LEMMA CancellableIs ==
  ASSUME TypeOK, RecordsOK, NEW g
  PROVE  Cancellable(g) <=> /\ ~Pending /\ Rec.gen = g /\ Rec.cancel
                            /\ Rec.status \in {"Running", "AwaitingConfirmation"}
BY IsIs DEF Cancellable

\* It is carried out.
LEMMA CancelledIs ==
  ASSUME TypeOK, RecordsOK, ~Pending, Save(Cancelled)
  PROVE  Wrote("Cancelled", Rec.gen, FALSE)
<1>1. Save([Rec EXCEPT !.status = "Cancelled", !.cancel = FALSE])
  BY DEF Cancelled
<1> QED BY <1>1, WroteBoth DEF Statuses

\* What Stop does.
LEMMA StopIs ==
  ASSUME TypeOK, RecordsOK, NEW j \in Jobs, Stop(j)
  PROVE  /\ jobs[j].pc = "stopping" /\ JobsT' /\ Turns(j, "leaving")
         /\ \/ Cancellable(jobs[j].gen) /\ Wrote("Cancelled", Rec.gen, FALSE)
            \/ ~Cancellable(jobs[j].gen) /\ Keeps
         /\ UNCHANGED <<reg, permits, calls>>
<1>1. JobsT' /\ Turns(j, "leaving")
  BY GoIs, TypeParts DEF Stop, Pcs, After
<1>2. CASE Cancellable(jobs[j].gen)
  BY <1>1, <1>2, CancellableIs, CancelledIs DEF Stop
<1>3. CASE ~Cancellable(jobs[j].gen)
  BY <1>1, <1>3, KeepsIs DEF Stop
<1> QED BY <1>2, <1>3

\* What SetPlan does.
LEMMA SetPlanIs ==
  ASSUME TypeOK, RecordsOK, NEW j \in Jobs, SetPlan(j)
  PROVE  /\ jobs[j].pc = "inspecting" /\ JobsT'
         /\ \/ /\ Rec.gen = jobs[j].gen /\ Rec.status = "Running" /\ ~Pending
               /\ \/ Keeps /\ Turns(j, "planned")
                  \/ Wrote("AwaitingConfirmation", Rec.gen, Rec.cancel) /\ Turns(j, "changed")
            \/ /\ ~Is(jobs[j].gen, {"Running"}) /\ Keeps /\ Turns(j, "leaving")
         /\ UNCHANGED <<reg, permits, calls>>
<1>1. CASE Is(jobs[j].gen, {"Running"})
  <2>1. ~Pending /\ Rec.gen = jobs[j].gen /\ Rec.status = "Running"
    BY <1>1, IsIs
  <2>2. CASE Go(j, "planned") /\ UNCHANGED store
    BY <2>1, <2>2, KeepsIs, GoIs, TypeParts DEF SetPlan, Pcs, Inside
  <2>3. CASE Save([Rec EXCEPT !.status = "AwaitingConfirmation"]) /\ Go(j, "changed")
    <3>1. Wrote("AwaitingConfirmation", Rec.gen, Rec.cancel)
      BY <2>1, <2>3, WroteStatus DEF Statuses, Unfinished
    <3>2. JobsT' /\ Turns(j, "changed")
      BY <2>3, GoIs, TypeParts DEF Pcs, Inside
    <3> QED BY <2>1, <3>1, <3>2 DEF SetPlan
  <2> QED BY <1>1, <2>2, <2>3 DEF SetPlan
<1>2. CASE ~Is(jobs[j].gen, {"Running"})
  BY <1>2, KeepsIs, GoIs, TypeParts DEF SetPlan, Pcs, After
<1> QED BY <1>1, <1>2

\* What InspectFails does.
LEMMA InspectFailsIs ==
  ASSUME TypeOK, RecordsOK, NEW j \in Jobs, InspectFails(j)
  PROVE  /\ jobs[j].pc = "inspecting" /\ JobsT' /\ Turns(j, "leaving")
         /\ \/ /\ Rec.gen = jobs[j].gen /\ Rec.status \notin {"Cancelled", "Completed"}
               /\ \E s \in {"Failed", "Interrupted"} : Wrote(s, Rec.gen, FALSE)
            \/ ~Is(jobs[j].gen, Statuses \ {"Cancelled", "Completed"}) /\ Keeps
         /\ UNCHANGED <<reg, permits, calls>>
<1>1. JobsT' /\ Turns(j, "leaving")
  BY GoIs, TypeParts DEF InspectFails, Pcs, After
<1>2. CASE Is(jobs[j].gen, Statuses \ {"Cancelled", "Completed"})
  <2>1. ~Pending /\ Rec.gen = jobs[j].gen /\ Rec.status \notin {"Cancelled", "Completed"}
    BY <1>2, IsIs
  <2>2. PICK s \in {"Failed", "Interrupted"} : Save([Rec EXCEPT !.status = s, !.cancel = FALSE])
    BY <1>2 DEF InspectFails
  <2>3. Wrote(s, Rec.gen, FALSE)
    BY <2>1, <2>2, WroteBoth DEF Statuses, Unfinished
  <2> QED BY <1>1, <2>1, <2>3 DEF InspectFails
<1>3. CASE ~Is(jobs[j].gen, Statuses \ {"Cancelled", "Completed"})
  BY <1>1, <1>3, KeepsIs DEF InspectFails
<1> QED BY <1>2, <1>3

\* What Recheck does.
LEMMA RecheckIs ==
  ASSUME TypeOK, RecordsOK, NEW j \in Jobs, Recheck(j)
  PROVE  /\ jobs[j].pc \in {"planned", "changed"} /\ JobsT'
         /\ \/ /\ Cancellable(jobs[j].gen) /\ Wrote("Cancelled", Rec.gen, FALSE)
               /\ Turns(j, "leaving")
            \/ /\ ~Cancellable(jobs[j].gen) /\ Keeps
               /\ \/ Rec.gen = jobs[j].gen /\ Rec.status = "Cancelled" /\ Turns(j, "leaving")
                  \/ jobs[j].pc = "planned" /\ Turns(j, "working")
                  \/ jobs[j].pc = "changed" /\ Turns(j, "asking")
         /\ UNCHANGED <<reg, permits, calls>>
<1>1. CASE Cancellable(jobs[j].gen)
  <2>1. JobsT' /\ Turns(j, "leaving")
    BY <1>1, GoIs, TypeParts DEF Recheck, Pcs, After
  <2>2. Wrote("Cancelled", Rec.gen, FALSE)
    BY <1>1, CancellableIs, CancelledIs DEF Recheck
  <2> QED BY <1>1, <2>1, <2>2 DEF Recheck
<1>2. CASE ~Cancellable(jobs[j].gen)
  <2>1. Keeps
    BY <1>2, KeepsIs DEF Recheck
  <2>2. CASE Rec.gen = jobs[j].gen /\ Rec.status = "Cancelled"
    <3>1. Go(j, "leaving")
      BY <1>2, <2>2, IsIs DEF Recheck
    <3> QED BY <1>2, <2>1, <2>2, <3>1, GoIs, TypeParts DEF Recheck, Pcs, After
  <2>3. CASE ~(Rec.gen = jobs[j].gen /\ Rec.status = "Cancelled")
    <3>1. CASE jobs[j].pc = "planned"
      <4>1. Go(j, "working")
        BY <1>2, <2>3, <3>1 DEF Recheck
      <4> QED BY <1>2, <2>1, <3>1, <4>1, GoIs, TypeParts DEF Recheck, Pcs, Inside
    <3>2. CASE jobs[j].pc # "planned"
      <4>1. Go(j, "asking") /\ jobs[j].pc = "changed"
        BY <1>2, <2>3, <3>2 DEF Recheck
      <4> QED BY <1>2, <2>1, <3>2, <4>1, GoIs, TypeParts DEF Recheck, Pcs, After
    <3> QED BY <3>1, <3>2
  <2> QED BY <2>2, <2>3
<1> QED BY <1>1, <1>2

\* What Ask does.
LEMMA AskIs ==
  ASSUME TypeOK, RecordsOK, NEW j \in Jobs, Ask(j)
  PROVE  /\ jobs[j].pc = "asking" /\ JobsT' /\ Keeps
         /\ Turns(j, "leaving") \/ Finishes(j)
         /\ UNCHANGED <<reg, permits, calls>>
<1>1. jobs[j].pc = "asking" /\ Keeps /\ UNCHANGED <<reg, permits, calls>>
  BY KeepsIs DEF Ask
<1>2. CASE Go(j, "leaving")
  BY <1>1, <1>2, GoIs, TypeParts DEF Pcs, After
<1>3. CASE End(j)
  BY <1>1, <1>3, EndIs, TypeParts
<1> QED BY <1>2, <1>3 DEF Ask

\* What Fail does.
LEMMA FailIs ==
  ASSUME TypeOK, RecordsOK, NEW j \in Jobs, Fail(j)
  PROVE  /\ jobs[j].pc \in {"working", "verifying"} /\ JobsT' /\ Turns(j, "leaving")
         /\ \/ Cancellable(jobs[j].gen) /\ Wrote("Cancelled", Rec.gen, FALSE)
            \/ /\ ~Cancellable(jobs[j].gen)
               /\ Rec.gen = jobs[j].gen /\ Rec.status \in Unfinished \ {"Interrupted"}
               /\ \E s \in {"Failed", "Interrupted"} : Wrote(s, Rec.gen, FALSE)
            \/ /\ ~Cancellable(jobs[j].gen) /\ ~Is(jobs[j].gen, Unfinished \ {"Interrupted"})
               /\ Keeps
         /\ UNCHANGED <<reg, permits, calls>>
<1>1. JobsT' /\ Turns(j, "leaving")
  BY GoIs, TypeParts DEF Fail, Pcs, After
<1>2. CASE Cancellable(jobs[j].gen)
  <2>1. Save(Cancelled)
    BY <1>2 DEF Fail, Failing
  <2> QED BY <1>1, <1>2, <2>1, CancellableIs, CancelledIs DEF Fail
<1>3. CASE ~Cancellable(jobs[j].gen) /\ Is(jobs[j].gen, Unfinished \ {"Interrupted"})
  <2>1. ~Pending /\ Rec.gen = jobs[j].gen /\ Rec.status \in Unfinished \ {"Interrupted"}
    BY <1>3, IsIs
  <2>2. PICK s \in {"Failed", "Interrupted"} : Save([Rec EXCEPT !.status = s, !.cancel = FALSE])
    BY <1>3 DEF Fail, Failing
  <2>3. Wrote(s, Rec.gen, FALSE)
    BY <2>1, <2>2, WroteBoth DEF Statuses, Unfinished
  <2> QED BY <1>1, <1>3, <2>1, <2>3 DEF Fail
<1>4. CASE ~Cancellable(jobs[j].gen) /\ ~Is(jobs[j].gen, Unfinished \ {"Interrupted"})
  <2>1. Keeps
    BY <1>4, KeepsIs DEF Fail, Failing
  <2> QED BY <1>1, <1>4, <2>1 DEF Fail
<1> QED BY <1>2, <1>3, <1>4

\* What Verify does.
LEMMA VerifyIs ==
  ASSUME TypeOK, RecordsOK, NEW j \in Jobs, Verify(j)
  PROVE  /\ jobs[j].pc = "working" /\ JobsT'
         /\ \/ /\ Rec.gen = jobs[j].gen /\ Rec.status = "Running"
               /\ Wrote("Verifying", Rec.gen, FALSE) /\ Turns(j, "verifying")
            \/ ~Is(jobs[j].gen, {"Running"}) /\ Keeps /\ Turns(j, "leaving")
         /\ UNCHANGED <<reg, permits, calls>>
<1>1. CASE Is(jobs[j].gen, {"Running"})
  <2>1. ~Pending /\ Rec.gen = jobs[j].gen /\ Rec.status = "Running"
    BY <1>1, IsIs
  <2>2. Save([Rec EXCEPT !.status = "Verifying", !.cancel = FALSE]) /\ Go(j, "verifying")
    BY <1>1 DEF Verify
  <2>3. Wrote("Verifying", Rec.gen, FALSE)
    BY <2>1, <2>2, WroteBoth DEF Statuses, Unfinished
  <2>4. JobsT' /\ Turns(j, "verifying")
    BY <2>2, GoIs, TypeParts DEF Pcs, Inside
  <2> QED BY <2>1, <2>3, <2>4 DEF Verify
<1>2. CASE ~Is(jobs[j].gen, {"Running"})
  BY <1>2, KeepsIs, GoIs, TypeParts DEF Verify, Pcs, After
<1> QED BY <1>1, <1>2

\* What Complete does.
LEMMA CompleteIs ==
  ASSUME TypeOK, RecordsOK, NEW j \in Jobs, Complete(j)
  PROVE  /\ jobs[j].pc = "verifying" /\ JobsT' /\ Turns(j, "leaving")
         /\ \/ /\ Rec.gen = jobs[j].gen /\ Rec.status = "Verifying"
               /\ Wrote("Completed", Rec.gen, Rec.cancel)
            \/ ~Is(jobs[j].gen, {"Verifying"}) /\ Keeps
         /\ UNCHANGED <<reg, permits, calls>>
<1>1. JobsT' /\ Turns(j, "leaving")
  BY GoIs, TypeParts DEF Complete, Pcs, After
<1>2. CASE Is(jobs[j].gen, {"Verifying"})
  <2>1. ~Pending /\ Rec.gen = jobs[j].gen /\ Rec.status = "Verifying"
    BY <1>2, IsIs
  <2>2. Save([Rec EXCEPT !.status = "Completed"])
    BY <1>2 DEF Complete
  <2> QED BY <1>1, <2>1, <2>2, WroteStatus DEF Complete, Statuses
<1>3. CASE ~Is(jobs[j].gen, {"Verifying"})
  BY <1>1, <1>3, KeepsIs DEF Complete
<1> QED BY <1>2, <1>3

\* Leave withdraws the token; its permit goes unless somebody else has it.
LEMMA LeaveIs ==
  ASSUME TypeOK, RecordsOK, NEW j \in Jobs, Leave(j)
  PROVE  /\ jobs[j].pc = "leaving" /\ JobsT' /\ Keeps /\ Finishes(j)
         /\ reg' = Withdrawn(jobs[j].token)
         /\ permits' = permits \cap Referenced(Jobs \ {j}, reg') /\ UNCHANGED calls
BY KeepsIs, EndIs, TypeParts DEF Leave

\* The operations of the queue, one by one.
LEMMA QueueCases ==
  QueueNext =>
    \/ \E g \in Generations : Resume(g)
    \/ \E g \in Generations : Accept(g)
    \/ \E g \in Generations : Cancel(g)
    \/ \E t \in Tokens : Deliver(t)
    \/ \E j \in Jobs : Prepare(j)
    \/ \E j \in Jobs : Probe(j)
    \/ \E j \in Jobs : Choose(j)
    \/ \E j \in Jobs : Register(j)
    \/ \E j \in Jobs : GiveUp(j)
    \/ \E j \in Jobs : Begin(j)
    \/ \E j \in Jobs : Observe(j)
    \/ \E j \in Jobs : Stop(j)
    \/ \E j \in Jobs : SetPlan(j)
    \/ \E j \in Jobs : InspectFails(j)
    \/ \E j \in Jobs : Recheck(j)
    \/ \E j \in Jobs : Ask(j)
    \/ \E j \in Jobs : Fail(j)
    \/ \E j \in Jobs : Verify(j)
    \/ \E j \in Jobs : Complete(j)
    \/ \E j \in Jobs : Leave(j)
BY DEF QueueNext, Polled, Works

\* An operation of the queue leaves the handover alone.
LEMMA QueueInert ==
  ASSUME TypeOK, RecordsOK, QueueNext
  PROVE  Inert /\ JobsT'
<1>1. CASE \E g \in Generations : Resume(g)
  BY <1>1, ResumeIs DEF Wrote, Keeps
<1>2. CASE \E g \in Generations : Accept(g)
  BY <1>2, AcceptIs DEF Wrote, Keeps
<1>3. CASE \E g \in Generations : Cancel(g)
  BY <1>3, CancelIs, TypeParts DEF Wrote, Keeps, JobsT
<1>4. CASE \E t \in Tokens : Deliver(t)
  BY <1>4, DeliverIs, TypeParts DEF Keeps, JobsT
<1>5. CASE \E j \in Jobs : Prepare(j)
  BY <1>5, PrepareIs DEF Wrote, Keeps
<1>6. CASE \E j \in Jobs : Probe(j)
  BY <1>6, ProbeIs DEF Wrote, Keeps
<1>7. CASE \E j \in Jobs : Choose(j)
  BY <1>7, ChooseIs DEF Wrote, Keeps
<1>8. CASE \E j \in Jobs : Register(j)
  BY <1>8, RegisterIs DEF Keeps
<1>9. CASE \E j \in Jobs : GiveUp(j)
  BY <1>9, GiveUpIs DEF Keeps
<1>10. CASE \E j \in Jobs : Begin(j)
  BY <1>10, BeginIs DEF Wrote, Keeps
<1>11. CASE \E j \in Jobs : Observe(j)
  BY <1>11, ObserveIs DEF Keeps
<1>12. CASE \E j \in Jobs : Stop(j)
  BY <1>12, StopIs DEF Wrote, Keeps
<1>13. CASE \E j \in Jobs : SetPlan(j)
  BY <1>13, SetPlanIs DEF Wrote, Keeps
<1>14. CASE \E j \in Jobs : InspectFails(j)
  BY <1>14, InspectFailsIs DEF Wrote, Keeps
<1>15. CASE \E j \in Jobs : Recheck(j)
  BY <1>15, RecheckIs DEF Wrote, Keeps
<1>16. CASE \E j \in Jobs : Ask(j)
  BY <1>16, AskIs DEF Keeps
<1>17. CASE \E j \in Jobs : Fail(j)
  BY <1>17, FailIs DEF Wrote, Keeps
<1>18. CASE \E j \in Jobs : Verify(j)
  BY <1>18, VerifyIs DEF Wrote, Keeps
<1>19. CASE \E j \in Jobs : Complete(j)
  BY <1>19, CompleteIs DEF Wrote, Keeps
<1>20. CASE \E j \in Jobs : Leave(j)
  BY <1>20, LeaveIs DEF Keeps
<1> QED BY <1>1, <1>2, <1>3, <1>4, <1>5, <1>6, <1>7, <1>8, <1>9, <1>10, <1>11, <1>12,
       <1>13, <1>14, <1>15, <1>16, <1>17, <1>18, <1>19, <1>20, QueueCases

\* It keeps the tokens typed.
LEMMA QueueTokens ==
  ASSUME TypeOK, RecordsOK, QueueNext
  PROVE  TokenT'
<1>0. TokenT /\ JobsT /\ (\A j \in Jobs : jobs[j].gen \in 0 .. MaxGen)
  BY TypeParts, JobIs
<1>r. Unregistered \in [gen : 0 .. MaxGen, token : Tokens \cup {NoToken}]
  BY QueueAssumption DEF Unregistered
<1> USE <1>0, QueueAssumption
<1>1. CASE \E g \in Generations : Accept(g)
  <2>1. reg' = reg \/ reg' = Unregistered
    BY <1>1, AcceptIs
  <2>2. permits' \subseteq permits /\ calls' = calls
    BY <1>1, AcceptIs
  <2> QED BY <2>1, <2>2, <1>r DEF TokenT
<1>2. CASE \E g \in Generations : Cancel(g)
  BY <1>2, CancelIs DEF TokenT, Captured
<1>3. CASE \E t \in Tokens : Deliver(t)
  BY <1>3, DeliverIs DEF TokenT, Referenced
<1>4. CASE \E j \in Jobs : Choose(j)
  BY <1>4, ChooseIs DEF TokenT, Captured
<1>5. CASE \E j \in Jobs : Register(j)
  BY <1>5, RegisterIs DEF TokenT, JobsT
<1>6. CASE \E j \in Jobs : GiveUp(j)
  <2>1. reg' = reg \/ reg' = Unregistered
    BY <1>6, GiveUpIs DEF Withdrawn
  <2>2. permits' \subseteq permits /\ calls' = calls
    BY <1>6, GiveUpIs
  <2> QED BY <2>1, <2>2, <1>r DEF TokenT
<1>7. CASE \E j \in Jobs : Observe(j)
  BY <1>7, ObserveIs DEF TokenT
<1>8. CASE \E j \in Jobs : Leave(j)
  <2>1. reg' = reg \/ reg' = Unregistered
    BY <1>8, LeaveIs DEF Withdrawn
  <2>2. permits' \subseteq permits /\ calls' = calls
    BY <1>8, LeaveIs
  <2> QED BY <2>1, <2>2, <1>r DEF TokenT
<1>9. CASE \E g \in Generations : Resume(g)
  BY <1>9, ResumeIs DEF TokenT
<1>10. CASE \E j \in Jobs : Prepare(j)
  BY <1>10, PrepareIs DEF TokenT
<1>11. CASE \E j \in Jobs : Probe(j)
  BY <1>11, ProbeIs DEF TokenT
<1>12. CASE \E j \in Jobs : Begin(j)
  BY <1>12, BeginIs DEF TokenT
<1>13. CASE \E j \in Jobs : Stop(j)
  BY <1>13, StopIs DEF TokenT
<1>14. CASE \E j \in Jobs : SetPlan(j)
  BY <1>14, SetPlanIs DEF TokenT
<1>15. CASE \E j \in Jobs : InspectFails(j)
  BY <1>15, InspectFailsIs DEF TokenT
<1>16. CASE \E j \in Jobs : Recheck(j)
  BY <1>16, RecheckIs DEF TokenT
<1>17. CASE \E j \in Jobs : Ask(j)
  BY <1>17, AskIs DEF TokenT
<1>18. CASE \E j \in Jobs : Fail(j)
  BY <1>18, FailIs DEF TokenT
<1>19. CASE \E j \in Jobs : Verify(j)
  BY <1>19, VerifyIs DEF TokenT
<1>20. CASE \E j \in Jobs : Complete(j)
  BY <1>20, CompleteIs DEF TokenT
<1> QED BY <1>1, <1>2, <1>3, <1>4, <1>5, <1>6, <1>7, <1>8, <1>9, <1>10, <1>11, <1>12,
       <1>13, <1>14, <1>15, <1>16, <1>17, <1>18, <1>19, <1>20, QueueCases

-----------------------------------------------------------------------------
(* The steps of the migration, effect by effect.                            *)

HandoverOK == TypeOK /\ RecordsOK /\ JobOK /\ AtOK

Queues == <<reg, permits, calls, jobs>>

\* The fields of the migration's job.
LEMMA JobIsT ==
  ASSUME JobT
  PROVE  /\ job.status \in Held \cup Runnable \cup {"none"} /\ job.impact \in 0 .. MaxGen
         /\ job.media \in Media /\ job.plan \in BOOLEAN /\ job.awaiting \in BOOLEAN
         /\ job.committed \in BOOLEAN /\ job.final \in BOOLEAN /\ job.payload \in BOOLEAN
         /\ job.controls \in BOOLEAN /\ job.latched \in BOOLEAN
BY DEF JobT

\* What a step of the engine, or the user, does to the job.
Goes ==
  /\ JobT' /\ job'.impact = job.impact /\ job'.plan = job.plan
  /\ job'.committed = job.committed /\ job'.final = job.final
  /\ job'.controls = job.controls
  /\ job'.awaiting => job.awaiting \/ ~job.committed
  /\ job'.payload = job.payload \/ (job.committed /\ ~job'.payload)
  /\ job'.media = "complete" => job.media = "complete" \/ job.committed
  /\ job.status # "none" /\ job'.status # "none"
  /\ GivenBack => GivenBack'
  /\ job.status = "Stopped" => job'.status = "Stopped"

\* The user's controls do not change what the job knows of the record.
LEMMA ControlIs ==
  ASSUME HandoverOK, Control
  PROVE  Goes /\ Keeps /\ UNCHANGED <<Queues, at, store>> /\ budget' \in 0 .. MaxBudget
<1>0. JobT /\ Keeps /\ budget \in 0 .. MaxBudget
  BY TypeParts, KeepsIs DEF HandoverOK, Control, queueSame, queueVars
<1>1. CASE Pause
  <2>1. Goes
    BY <1>0, <1>1, JobIsT DEF Pause, Goes, JobT, GivenBack, Ended, Runnable, Held, Media
  <2> QED BY <1>0, <1>1, <2>1, MigrationAssumption
        DEF Pause, Spend, Control, queueSame, queueVars, Queues
<1>2. CASE Resumed
  <2>1. Goes
    BY <1>0, <1>2, JobIsT DEF Resumed, Goes, JobT, GivenBack, Ended, Runnable, Held, Media
  <2> QED BY <1>0, <1>2, <2>1 DEF Resumed, Control, queueSame, queueVars, Queues
<1>3. CASE StopRemaining
  <2> DEFINE m == IF job.media \in {"copying", "cleaning"} THEN "skipped" ELSE job.media
  <2>1. m \in Media /\ (m = "complete" => job.media = "complete")
    BY <1>0, JobIsT DEF Media
  <2>2. job' = [job EXCEPT !.status = "Stopped", !.latched = TRUE, !.media = m]
    BY <1>3 DEF StopRemaining
  <2>3. job.status \in Runnable \cup {"Paused", "Partial", "Failed"}
    BY <1>3 DEF StopRemaining
  <2> HIDE DEF m
  <2>4. Goes
    BY <1>0, <2>1, <2>2, <2>3, JobIsT DEF Goes, JobT, GivenBack, Ended, Runnable, Held
  <2> QED BY <1>0, <1>3, <2>4 DEF StopRemaining, Control, queueSame, queueVars, Queues
<1>4. CASE RetryFailed
  <2> DEFINE m == IF job.media # "failed" THEN job.media
                  ELSE IF job.committed THEN "cleaning" ELSE "copying"
  <2>1. m \in Media /\ (m = "complete" => job.media = "complete")
    BY <1>0, JobIsT DEF Media
  <2>2. \/ job' = [job EXCEPT !.status = "Stopped"]
        \/ job' = [job EXCEPT !.status = "Queued", !.media = m]
    BY <1>4 DEF RetryFailed
  <2>3. job.status \in {"Partial", "Failed"}
    BY <1>4 DEF RetryFailed
  <2> HIDE DEF m
  <2>4. \E t \in Held \cup Runnable, n \in Media :
          /\ job' = [job EXCEPT !.status = t, !.media = n] /\ t # "none"
          /\ (n = "complete" => job.media = "complete")
    <3>1. CASE job' = [job EXCEPT !.status = "Stopped"]
      <4>1. job' = [job EXCEPT !.status = "Stopped", !.media = job.media]
        BY <3>1, <1>0 DEF JobT
      <4> QED BY <4>1, <1>0, JobIsT DEF Held
    <3>2. CASE job' = [job EXCEPT !.status = "Queued", !.media = m]
      BY <3>2, <2>1 DEF Runnable
    <3> QED BY <3>1, <3>2, <2>2
  <2>5. PICK t \in Held \cup Runnable, n \in Media :
          /\ job' = [job EXCEPT !.status = t, !.media = n] /\ t # "none"
          /\ (n = "complete" => job.media = "complete")
    BY <2>4
  <2>6. JobT' /\ job'.impact = job.impact /\ job'.plan = job.plan
        /\ job'.committed = job.committed /\ job'.final = job.final
        /\ job'.controls = job.controls /\ job'.awaiting = job.awaiting
        /\ job'.payload = job.payload /\ job'.media = n /\ job'.status = t
    BY <1>0, <2>5 DEF JobT
  <2>7. job.status # "none" /\ ~GivenBack /\ job.status # "Stopped"
    BY <2>3 DEF GivenBack, Ended
  <2>8. Goes
    BY <2>5, <2>6, <2>7 DEF Goes
  <2> QED BY <2>8, <1>0, <1>4 DEF RetryFailed, Control, queueSame, queueVars, Queues
<1> QED BY <1>1, <1>2, <1>3, <1>4 DEF Control

\* A confirmed migration is new.
LEMMA ConfirmIs ==
  ASSUME HandoverOK, Confirm
  PROVE  /\ Keeps /\ UNCHANGED <<Queues, at, store, budget>> /\ JobT'
         /\ job.status = "none" /\ Has("source") /\ ~Pending
         /\ job'.impact < MaxGen /\ job'.status = "Queued" /\ job'.media = "copying"
         /\ ~job'.plan /\ ~job'.awaiting /\ ~job'.committed /\ ~job'.final /\ job'.payload
         /\ job'.controls
<1>1. Rec.gen \in 1 .. MaxGen /\ Rec.gen < MaxGen
  BY Alone, HomeIs DEF HandoverOK, Confirm
<1>2. job' = [status |-> "Queued", impact |-> Rec.gen, media |-> "copying", plan |-> FALSE,
              awaiting |-> FALSE, committed |-> FALSE, final |-> FALSE, payload |-> TRUE,
              controls |-> TRUE, latched |-> FALSE]
  BY DEF Confirm, NoJob
<1>3. JobT'
  BY <1>1, <1>2 DEF JobT, Runnable, Media
<1>4. Keeps
  BY KeepsIs DEF HandoverOK, Confirm, queueSame, queueVars
<1>5. /\ job'.impact < MaxGen /\ job'.status = "Queued" /\ job'.media = "copying"
      /\ ~job'.plan /\ ~job'.awaiting /\ ~job'.committed /\ ~job'.final /\ job'.payload
      /\ job'.controls
  BY <1>1, <1>2
<1> QED BY <1>3, <1>4, <1>5 DEF Confirm, queueSame, queueVars, Queues

\* An error holds the job.
LEMMA AbandonedIs ==
  ASSUME HandoverOK, Abandoned, job.status \in Runnable, queueSame
  PROVE  Goes /\ Keeps /\ UNCHANGED <<Queues, store>> /\ at' = "off"
<1>0. JobT /\ Keeps
  BY TypeParts, KeepsIs DEF HandoverOK, queueSame, queueVars
<1>1. job' = [job EXCEPT !.status = "Paused"]
  BY DEF Abandoned
<1>2. Goes
  BY <1>0, <1>1, JobIsT DEF Goes, JobT, GivenBack, Ended, Runnable, Held
<1> QED BY <1>0, <1>2 DEF Abandoned, queueSame, queueVars, Queues

\* A step of the engine only takes the job further.
LEMMA StepIs ==
  ASSUME HandoverOK, Step
  PROVE  /\ Goes /\ Keeps /\ UNCHANGED <<Queues, store>> /\ budget' \in 0 .. MaxBudget
         /\ at = "step" /\ at' \in {"commit", "step", "off"} /\ (at' = "commit" => job'.awaiting)
<1>0. JobT /\ Keeps /\ budget \in 0 .. MaxBudget /\ at = "step" /\ job.status # "none"
  BY TypeParts, KeepsIs DEF HandoverOK, Step, queueSame, queueVars, JobOK
<1>1. at' \in {"commit", "step", "off"} /\ (at' = "commit" => job'.awaiting)
  BY DEF Step
<1>2. ASSUME Spend PROVE budget' \in 0 .. MaxBudget
  BY <1>0, <1>2, MigrationAssumption DEF Spend
<1>3. UNCHANGED <<Queues, store>>
  BY DEF Step, queueSame, queueVars, Queues
<1>4. CASE job' = job /\ UNCHANGED budget
  BY <1>0, <1>1, <1>3, <1>4, JobIsT DEF Goes, JobT, GivenBack
<1>5. CASE job.status \in Runnable /\ Copies
  <2>1. \E m \in {"cleaning", "failed"} : job' = [job EXCEPT !.status = "Running", !.media = m]
    BY <1>5 DEF Copies
  <2>2. Goes
    BY <1>0, <1>5, <2>1, JobIsT DEF Goes, JobT, GivenBack, Ended, Runnable, Media
  <2> QED BY <1>0, <1>1, <1>2, <1>3, <1>5, <2>2 DEF Copies
<1>6. CASE job.status \in Runnable /\ CopiesTask
  <2>1. \/ job' = job
        \/ job' = [job EXCEPT !.status = "Running", !.awaiting = TRUE]
        \/ job' = [job EXCEPT !.status = "Failed"]
    BY <1>6 DEF CopiesTask
  <2>2. ~job.committed
    BY <1>6 DEF CopiesTask, Acked
  <2>3. Goes
    BY <1>0, <1>6, <2>1, <2>2, JobIsT DEF Goes, JobT, GivenBack, Ended, Runnable, Held
  <2> QED BY <1>0, <1>1, <1>2, <1>3, <1>6, <2>3 DEF CopiesTask
<1>7. CASE job.status \in Runnable /\ RemovesPayload
  <2>1. \/ job' = [job EXCEPT !.status = "Running", !.payload = FALSE]
        \/ job' = [job EXCEPT !.status = "Partial"]
    BY <1>7 DEF RemovesPayload
  <2>2. job.committed
    BY <1>7 DEF RemovesPayload, Acked
  <2>3. Goes
    BY <1>0, <1>7, <2>1, <2>2, JobIsT DEF Goes, JobT, GivenBack, Ended, Runnable, Held
  <2> QED BY <1>0, <1>1, <1>2, <1>3, <1>7, <2>3 DEF RemovesPayload
<1>8. CASE job.status \in Runnable /\ CleansMedia
  <2> DEFINE m == IF job.media = "cleaning" THEN "complete" ELSE job.media
  <2>0. m \in Media
    BY <1>0, JobIsT DEF Media
  <2>1. \/ job' = [job EXCEPT !.status = "Completed", !.media = m]
        \/ job' = [job EXCEPT !.status = "Failed", !.media = "failed"]
    BY <1>8 DEF CleansMedia
  <2>2. job.committed
    BY <1>8 DEF CleansMedia, Acked
  <2> HIDE DEF m
  <2>3. Goes
    BY <1>0, <1>8, <2>0, <2>1, <2>2, JobIsT DEF Goes, JobT, GivenBack, Ended, Runnable,
       Held, Media
  <2> QED BY <1>0, <1>1, <1>2, <1>3, <1>8, <2>3 DEF CleansMedia
<1>9. CASE job.status \in Runnable /\ job' = [job EXCEPT !.status = "Failed"] /\ UNCHANGED budget
  <2>1. Goes
    BY <1>0, <1>9, JobIsT DEF Goes, JobT, GivenBack, Ended, Runnable, Held
  <2> QED BY <1>0, <1>1, <1>3, <1>9, <2>1
<1> QED BY <1>4, <1>5, <1>6, <1>7, <1>8, <1>9 DEF Step

\* So does a step of the cleanup.
LEMMA CleanupIs ==
  ASSUME HandoverOK, Cleanup, job.final, queueSame
  PROVE  /\ Keeps /\ UNCHANGED <<Queues, store>> /\ budget' \in 0 .. MaxBudget
         /\ JobT' /\ job'.impact = job.impact /\ job'.plan = job.plan
         /\ job'.committed = job.committed /\ job'.final = job.final
         /\ job'.awaiting = job.awaiting /\ job'.media = job.media /\ job'.status # "none"
         /\ (GivenBack => GivenBack') \/ job'.status = "Partial"
<1>0. JobT /\ Keeps /\ budget \in 0 .. MaxBudget
  BY TypeParts, KeepsIs DEF HandoverOK, queueSame, queueVars
<1>1. UNCHANGED <<Queues, store>> /\ job.status # "none" /\ job.committed
  <2>1. job.committed /\ Has("target")
    BY DEF HandoverOK, JobOK
  <2>2. job.plan
    BY <2>1 DEF HandoverOK, RecordsOK
  <2> QED BY <2>1, <2>2 DEF queueSame, queueVars, Queues, HandoverOK, JobOK
<1>2. CASE /\ \/ job' = [job EXCEPT !.payload = FALSE] \/ job' = [job EXCEPT !.controls = FALSE]
           /\ UNCHANGED budget
  BY <1>0, <1>1, <1>2, JobIsT DEF JobT, GivenBack
<1>3. CASE Spend /\ \E l \in BOOLEAN : job' = [job EXCEPT !.status = "Partial", !.latched = l]
  <2>1. PICK l \in BOOLEAN : job' = [job EXCEPT !.status = "Partial", !.latched = l]
    BY <1>3
  <2>2. budget' \in 0 .. MaxBudget
    BY <1>0, <1>3, MigrationAssumption DEF Spend
  <2> QED BY <1>0, <1>1, <2>1, <2>2, JobIsT DEF JobT, Held
<1>4. (job.latched \/ job.status = "Stopped") \in BOOLEAN
  OBVIOUS
<1> QED BY <1>2, <1>3, <1>4 DEF Cleanup

PRV == {"Preparing", "Running", "Verifying"}

\* Where the record is stays as it is.
Stays ==
  /\ StoreT' /\ Here' /\ Home' = Home /\ Rec' \in Records
  /\ (Has("source")' <=> Has("source")) /\ (Has("target")' <=> Has("target"))
  /\ Home = "source" => S' = Rec' /\ T' = T
  /\ Home = "target" => T' = Rec' /\ S' = S

\* A saved record stays in its library.
LEMMA StaysIs ==
  ASSUME StoreT, Here, NEW r \in Records, Save(r)
  PROVE  Stays /\ Rec' = r
<1>1. /\ StoreT' /\ Here' /\ Home' = Home /\ Rec' = r
      /\ \A l \in Libraries : (Has(l)' <=> Has(l)) /\ (l # Home => store'[l] = store[l])
  BY Saved
<1>2. "source" \in Libraries /\ "target" \in Libraries
  BY DEF Libraries
<1>3. Home = "source" => S' = Rec' /\ T' = T
  BY <1>1, <1>2 DEF S, T, Rec
<1>4. Home = "target" => T' = Rec' /\ S' = S
  BY <1>1, <1>2 DEF S, T, Rec
<1> QED BY <1>1, <1>2, <1>3, <1>4 DEF Stays

\* What the begin of a handover does: a task at work, or whose token is
\* registered, is paused in a new generation.
LEMMA BegunIs ==
  ASSUME HandoverOK, job.status \in Runnable, Begun
  PROVE  /\ Home = "source" /\ Has("source") /\ ~Has("target")
         /\ ~Pending /\ ~GivenBack /\ ~job.plan /\ Stays
         /\ Rec'.handover = "copying" /\ ~Rec'.transfer.planned
         /\ Rec'.transfer.status = Rec.status /\ Rec.status \notin {"Completed", "Cancelled"}
         /\ \/ /\ Rec.status \in PRV \/ reg.gen = Rec.gen
               /\ Rec'.gen = Rec.gen + 1 /\ Rec'.status = "Interrupted"
               /\ Rec'.transfer.pause = Rec.gen
            \/ /\ Rec.status \notin PRV /\ reg.gen # Rec.gen
               /\ Rec'.gen = Rec.gen /\ Rec'.status = Rec.status /\ Rec'.transfer.pause = 0
         /\ calls' = (IF reg.gen = Rec.gen THEN Captured ELSE calls)
         /\ UNCHANGED <<job, reg, permits, jobs>> /\ at' = "wait"
<1>0. StoreT /\ Here /\ Rec \in Records /\ ~Pending /\ TokenT
  BY Alone, HomeIs, TypeParts DEF HandoverOK, Begun, Pending
<1>1. ~GivenBack
  BY DEF GivenBack, Ended, Runnable
<1>2. ~Has("target")
  <2>1. CASE Has("source")
    BY <1>0, <2>1, Alone DEF HandoverOK
  <2>2. CASE ~Has("source") /\ Has("target")
    <3>1. Rec = T
      BY <1>0, <2>2, HomeIs
    <3>2. T.handover # "none"
      BY <1>1, <2>2 DEF HandoverOK, RecordsOK
    <3> QED BY <3>1, <3>2, <1>0 DEF Pending
  <2> QED BY <2>1, <2>2
<1>3. Home = "source" /\ Has("source") /\ Rec = S
  BY <1>0, <1>2, HomeIs DEF Here
<1>4. ~job.plan
  BY <1>0, <1>3 DEF HandoverOK, JobOK, Runnable, Pending
<1> DEFINE g == Rec.gen
           pause == Rec.status \in PRV \/ reg.gen = g
           t == [pause |-> IF pause THEN g ELSE 0, status |-> Rec.status, cancel |-> Rec.cancel,
                 planned |-> FALSE]
<1>5. /\ g \in Generations /\ g + 1 \in Generations /\ g = job.impact
      /\ Rec.status \in Statuses /\ Rec.cancel \in BOOLEAN /\ Rec.transfer \in Transfers
  <2>1. g = job.impact /\ job.impact < MaxGen
    BY DEF HandoverOK, JobOK, Begun
  <2>2. g \in 1 .. MaxGen
    BY <1>0, HomeIs
  <2> QED BY <2>1, <2>2, <1>0, QueueAssumption, RecordsAre DEF Generations
<1>6. t \in Transfers /\ t.status = Rec.status /\ ~t.planned
  BY <1>5, QueueAssumption DEF Transfers, Generations
<1>7. (pause => t.pause = g) /\ (~pause => t.pause = 0)
  OBVIOUS
<1>8. Save(Handed)
  BY DEF Begun
<1>9. Handed = IF pause
               THEN [Rec EXCEPT !.gen = g + 1, !.status = "Interrupted", !.cancel = FALSE,
                                !.handover = "copying", !.transfer = t]
               ELSE [Rec EXCEPT !.handover = "copying", !.transfer = t]
  BY DEF Handed, PRV
<1> HIDE DEF t, pause, g
<1>10. CASE pause
  <2> DEFINE r == [Rec EXCEPT !.gen = g + 1, !.status = "Interrupted", !.cancel = FALSE,
                              !.handover = "copying", !.transfer = t]
  <2>1. /\ r \in Records /\ r.gen = g + 1 /\ r.status = "Interrupted" /\ r.handover = "copying"
        /\ r.transfer = t
    BY <1>0, <1>5, <1>6 DEF Records, Statuses, Unfinished, Handovers
  <2> HIDE DEF r
  <2>2. Save(r)
    BY <1>8, <1>9, <1>10 DEF r
  <2>3. Stays /\ Rec' = r
    BY <1>0, <2>1, <2>2, StaysIs
  <2> QED BY <1>0, <1>1, <1>2, <1>3, <1>4, <1>6, <1>7, <1>10, <2>1, <2>3 DEF Begun, g, pause
<1>11. CASE ~pause
  <2> DEFINE r == [Rec EXCEPT !.handover = "copying", !.transfer = t]
  <2>1. /\ r \in Records /\ r.gen = g /\ r.status = Rec.status /\ r.handover = "copying"
        /\ r.transfer = t
    BY <1>0, <1>5, <1>6 DEF Records, Handovers, g
  <2> HIDE DEF r
  <2>2. Save(r)
    BY <1>8, <1>9, <1>11 DEF r
  <2>3. Stays /\ Rec' = r
    BY <1>0, <2>1, <2>2, StaysIs
  <2> QED BY <1>0, <1>1, <1>2, <1>3, <1>4, <1>6, <1>7, <1>11, <2>1, <2>3 DEF Begun, g, pause
<1> QED BY <1>10, <1>11

\* The exact plan is attached to the record.
Plans ==
  /\ ~job.plan /\ ~Writing(Rec.transfer) /\ Save([Rec EXCEPT !.transfer.planned = TRUE])
  /\ UNCHANGED <<reg, permits, calls, jobs>>

\* Attaching the plan changes nothing else.
LEMMA PlansIs ==
  ASSUME HandoverOK, at = "attach", Plans
  PROVE  /\ Home = "source" /\ Has("source") /\ ~Has("target") /\ Stays
         /\ Rec.handover = "copying" /\ Rec'.handover = "copying" /\ Rec'.transfer.planned
         /\ Rec'.gen = Rec.gen /\ Rec'.status = Rec.status
         /\ Rec'.transfer.pause = Rec.transfer.pause
         /\ Rec'.transfer.status = Rec.transfer.status
<1>0. StoreT /\ Here /\ Rec \in Records
  BY Alone, HomeIs DEF HandoverOK
<1>1. ~Has("target")
  BY DEF HandoverOK, RecordsOK, Plans
<1>2. Home = "source" /\ Has("source") /\ Rec = S
  BY <1>0, <1>1, HomeIs DEF Here
<1>3. Rec.handover = "copying"
  BY <1>2 DEF HandoverOK, AtOK
<1> DEFINE r == [Rec EXCEPT !.transfer.planned = TRUE]
<1>4. Rec.transfer \in Transfers
  BY <1>0, RecordsAre
<1>5. /\ r \in Records /\ r.gen = Rec.gen /\ r.status = Rec.status /\ r.handover = Rec.handover
      /\ r.transfer.planned /\ r.transfer.pause = Rec.transfer.pause
      /\ r.transfer.status = Rec.transfer.status
  <2> DEFINE t == [Rec.transfer EXCEPT !.planned = TRUE]
  <2>1. t \in Transfers /\ t.planned /\ t.pause = Rec.transfer.pause
        /\ t.status = Rec.transfer.status
    BY <1>4 DEF Transfers
  <2>2. r = [Rec EXCEPT !.transfer = t]
    BY <1>0 DEF Records
  <2> HIDE DEF t, r
  <2> QED BY <2>1, <2>2, <1>0 DEF Records
<1> HIDE DEF r
<1>6. Save(r)
  BY DEF Plans, r
<1>7. Stays /\ Rec' = r
  BY <1>0, <1>5, <1>6, StaysIs
<1> QED BY <1>1, <1>2, <1>3, <1>5, <1>7

\* The two steps of the commit change neither the task nor its generation.
Moves ==
  /\ StoreT' /\ Here' /\ Rec.handover # "none" /\ Rec'.handover # "none"
  /\ Rec'.status = Rec.status /\ Rec'.gen = Rec.gen /\ Rec'.transfer = Rec.transfer
  /\ Rec'.handover # "receipt" /\ Rec.handover # "receipt"
  /\ Has("target")' /\ T'.handover = "installed"

\* What the install does.
LEMMA InstallIs ==
  ASSUME HandoverOK, Install
  PROVE  /\ Moves /\ at = "commit" /\ at' = "installed"
         /\ Has("source")' <=> Has("source")
         /\ S' = S
         /\ ~Has("target") => /\ Has("source") /\ S.handover = "copying" /\ S.transfer.planned
                              /\ T'.status = S.status /\ T'.gen = S.gen /\ T'.cancel = S.cancel
                              /\ T'.transfer = S.transfer
         /\ Has("target") => ~Has("source")
         /\ job.plan /\ UNCHANGED <<Queues, job, budget>>
<1>0. StoreT /\ Here /\ Rec \in Records /\ at = "commit" /\ at' = "installed" /\ job.plan
      /\ ~job.committed
  BY Alone, HomeIs DEF HandoverOK, Install, AtOK, JobOK
<1>1. CASE Has("target")
  <2>1. store' = store
    BY <1>1 DEF Install
  <2>2. ~Has("source")
    BY <1>0, <1>1 DEF HandoverOK, RecordsOK
  <2>3. T.handover = "installed"
    <3>1. T \in Records /\ T.handover \in Handovers
      BY <1>0, <1>1, HomeIs, RecordsAre
    <3> QED BY <3>1, <1>0, <1>1 DEF HandoverOK, RecordsOK, Handovers
  <2>4. Rec = T
    BY <1>0, <2>2, HomeIs
  <2>5. Rec' = Rec /\ S' = S /\ T' = T /\ StoreT' /\ Here' /\ (Has("source")' <=> Has("source"))
        /\ Has("target")'
    BY <2>1, <1>0, <1>1, Unsaved DEF S, T, Libraries
  <2> QED BY <1>0, <1>1, <2>2, <2>3, <2>4, <2>5 DEF Moves, Install, Queues
<1>2. CASE ~Has("target")
  <2>1. Has("source") /\ S.handover = "copying" /\ S.transfer.planned /\ S \in Records /\ Rec = S
    BY <1>0, <1>2, HomeIs DEF Here, HandoverOK, AtOK
  <2> DEFINE r == [S EXCEPT !.handover = "installed"]
  <2>2. /\ r \in Records /\ r.handover = "installed" /\ r.status = S.status /\ r.gen = S.gen
        /\ r.cancel = S.cancel /\ r.transfer = S.transfer
    BY <2>1 DEF Records, Handovers
  <2>3. store' = [store EXCEPT !["target"] = r]
    BY <1>2 DEF Install, S
  <2> HIDE DEF r
  <2>4. store'["source"] = store["source"] /\ store'["target"] = r
    BY <2>3, <1>0 DEF StoreT, Libraries
  <2>5. S' = S /\ T' = r /\ Has("target")' /\ (Has("source")' <=> Has("source"))
    BY <2>4, <2>2, RecordsAre DEF S, T, Has
  <2>6. StoreT' /\ Here'
    BY <2>3, <2>2, <2>5, <1>0 DEF StoreT, Here
  <2>7. Rec' = S' \/ Rec' = T'
    BY QueueAssumption DEF Rec, S, T, Home, Other, Libraries
  <2>8. Moves
    BY <2>1, <2>2, <2>5, <2>6, <2>7 DEF Moves
  <2>9. UNCHANGED <<Queues, job, budget>>
    BY DEF Install, Queues
  <2> QED BY <1>0, <1>2, <2>1, <2>2, <2>5, <2>8, <2>9
<1> QED BY <1>1, <1>2

\* What the removal does.
LEMMA RemoveIs ==
  ASSUME HandoverOK, Remove
  PROVE  /\ Moves /\ at = "installed" /\ at' = "committed"
         /\ ~Has("source")' /\ T' = T
         /\ UNCHANGED <<Queues, job, budget>>
<1>0. StoreT /\ Here /\ Rec \in Records /\ at = "installed" /\ at' = "committed"
      /\ Has("target") /\ T.handover = "installed"
  BY Alone, HomeIs DEF HandoverOK, Remove, AtOK
<1>1. store'["source"] = NoRecord /\ store'["target"] = store["target"] /\ StoreT'
  BY <1>0 DEF Remove, Removed, StoreT, Libraries
<1>2. ~Has("source")' /\ Has("target")' /\ T' = T /\ Here'
  BY <1>0, <1>1 DEF Has, T, Here
<1>3. Rec' = T'
  BY <1>2, QueueAssumption DEF Rec, Home, Other, Libraries, T
<1>4. Rec = T \/ (Has("source") /\ Rec = S)
  BY <1>0, HomeIs
<1>5. /\ T.status = Rec.status /\ T.gen = Rec.gen /\ T.transfer = Rec.transfer
      /\ Rec.handover \in {"copying", "installed"}
  BY <1>0, <1>4 DEF HandoverOK, RecordsOK
<1> QED BY <1>0, <1>1, <1>2, <1>3, <1>5 DEF Moves, Remove, Queues

\* A task that was at work is queued again, any other is as it was.
Back == /\ Rec.transfer.pause # 0 /\ Rec.transfer.status \in PRV => Rec'.status = "Queued"
        /\ ~(Rec.transfer.pause # 0 /\ Rec.transfer.status \in PRV) =>
             Rec'.status = Rec.transfer.status

\* What giving a task back does.
LEMMA RestoredIs ==
  ASSUME HandoverOK, NEW h \in Handovers, Save([Restored EXCEPT !.handover = h])
  PROVE  /\ Stays /\ Back /\ Rec'.gen = Rec.gen /\ Rec'.handover = h
         /\ Rec' = [Restored EXCEPT !.handover = h]
<1>0. StoreT /\ Here /\ Rec \in Records /\ Rec.transfer \in Transfers /\ NoTransfer \in Transfers
      /\ Rec.transfer.status \in Statuses /\ Rec.transfer.cancel \in BOOLEAN
  BY Alone, HomeIs, RecordsAre, QueueAssumption
  DEF HandoverOK, Transfers, NoTransfer, Statuses, Unfinished
<1> DEFINE t == Rec.transfer
<1>1. CASE t.pause # 0 /\ t.status \in PRV
  <2> DEFINE r == [[Rec EXCEPT !.status = "Queued", !.cancel = FALSE, !.transfer = NoTransfer]
                   EXCEPT !.handover = h]
  <2>1. r \in Records /\ r.gen = Rec.gen /\ r.handover = h /\ r.status = "Queued"
    BY <1>0 DEF Records, Statuses, Unfinished
  <2>2. r = [Restored EXCEPT !.handover = h]
    BY <1>1 DEF Restored, PRV
  <2> HIDE DEF r
  <2>3. Save(r)
    BY <2>2
  <2>4. Stays /\ Rec' = r
    BY <1>0, <2>1, <2>3, StaysIs
  <2> QED BY <1>1, <2>1, <2>2, <2>4 DEF Back
<1>2. CASE ~(t.pause # 0 /\ t.status \in PRV)
  <2> DEFINE r == [[Rec EXCEPT !.status = t.status, !.cancel = t.cancel, !.transfer = NoTransfer]
                   EXCEPT !.handover = h]
  <2>1. r \in Records /\ r.gen = Rec.gen /\ r.handover = h /\ r.status = t.status
    BY <1>0 DEF Records
  <2>2. r = [Restored EXCEPT !.handover = h]
    BY <1>2 DEF Restored, PRV
  <2> HIDE DEF r
  <2>3. Save(r)
    BY <2>2
  <2>4. Stays /\ Rec' = r
    BY <1>0, <2>1, <2>3, StaysIs
  <2> QED BY <1>2, <2>1, <2>2, <2>4 DEF Back
<1> QED BY <1>1, <1>2

\* A queued task gets a job, any other none.
Requeues(g) == JobsT' /\ (Starts("queued", g) \/ UNCHANGED jobs)

\* restore_task starts at most one job.
LEMMA RequeueIs ==
  ASSUME JobsT, NEW r, r.gen \in 0 .. MaxGen, Requeue(r)
  PROVE  Requeues(r.gen)
<1>1. CASE r.status = "Queued"
  <2>1. Spawn("queued", r.gen) /\ "queued" \in Pcs
    BY <1>1 DEF Requeue, Pcs, Before
  <2> QED BY <2>1, SpawnIs DEF Requeues
<1>2. CASE r.status # "Queued"
  BY <1>2 DEF Requeue, Requeues, JobsT
<1> QED BY <1>1, <1>2

\* What undoing a handover does.
LEMMA AbortsIs ==
  ASSUME HandoverOK, at = "off", Aborts
  PROVE  /\ Home = "source" /\ Has("source") /\ ~Has("target") /\ Rec.handover = "copying"
         /\ Stays /\ Back /\ Rec'.gen = Rec.gen /\ Rec'.handover = "none"
         /\ GivenBack /\ job.status = "Stopped" /\ Requeues(Rec.gen)
         /\ UNCHANGED <<reg, permits, calls, job>>
<1>1. StoreT /\ Here /\ JobsT /\ Has("source") /\ ~Has("target") /\ Rec.gen \in 0 .. MaxGen
  BY Alone, HomeIs, TypeParts DEF HandoverOK, RecordsOK, Aborts
<1>2. /\ Save([Restored EXCEPT !.handover = "none"])
      /\ Requeue([Restored EXCEPT !.handover = "none"])
  BY DEF Aborts
<1>3. /\ Stays /\ Back /\ Rec'.gen = Rec.gen /\ Rec'.handover = "none"
      /\ Rec' = [Restored EXCEPT !.handover = "none"]
  BY <1>2, RestoredIs DEF Handovers
<1>4. Requeue(Rec')
  BY <1>2, <1>3
<1>5. Requeues(Rec'.gen)
  BY <1>1, <1>3, <1>4, RequeueIs
<1> QED BY <1>1, <1>3, <1>5 DEF Aborts, GivenBack, Ended

\* The task is closed at the target while both sides still know of it.
LEMMA ReceiptIs ==
  ASSUME HandoverOK, Rec.handover = "installed", Save([Restored EXCEPT !.handover =
         Receipt])
  PROVE  Stays /\ Back /\ Rec'.gen = Rec.gen /\ Rec'.handover = "receipt"
BY RestoredIs DEF Receipt, Handovers

\* What clearing the receipt does.
LEMMA ClearIs ==
  ASSUME HandoverOK, Clear
  PROVE  /\ Rec.handover = "receipt" /\ Stays /\ Rec'.status = Rec.status /\ Rec'.gen = Rec.gen
         /\ Rec'.handover = "none" /\ Rec'.transfer = Rec.transfer
         /\ Requeues(Rec.gen) /\ UNCHANGED <<reg, permits, calls, job, budget>>
<1>1. StoreT /\ Here /\ JobsT /\ Rec \in Records /\ Rec.gen \in 0 .. MaxGen
  BY Alone, HomeIs, TypeParts DEF HandoverOK
<1> DEFINE r == [Rec EXCEPT !.handover = "none"]
<1>2. /\ r \in Records /\ r.status = Rec.status /\ r.gen = Rec.gen /\ r.handover = "none"
      /\ r.transfer = Rec.transfer
  BY <1>1 DEF Records, Handovers
<1>3. Save(r) /\ Requeue(Rec)
  BY DEF Clear
<1> HIDE DEF r
<1>4. Stays /\ Rec' = r
  BY <1>1, <1>2, <1>3, StaysIs
<1>5. Requeues(Rec.gen)
  BY <1>1, <1>3, RequeueIs
<1> QED BY <1>2, <1>4, <1>5 DEF Clear

\* A record that is handed over, or that a migration waits to give back, is at
\* the target.
LEMMA AtTarget ==
  ASSUME HandoverOK, Rec.handover \in {"installed", "receipt"}, at # "installed"
  PROVE  Home = "target" /\ Has("target") /\ ~Has("source") /\ Rec = T
<1>1. StoreT /\ Here /\ ~(Has("source") /\ Has("target"))
  BY Alone DEF HandoverOK, RecordsOK
<1>2. Has("source") => Rec = S /\ S.handover \in {"none", "copying"}
  BY <1>1, HomeIs DEF HandoverOK, RecordsOK
<1> QED BY <1>1, <1>2, HomeIs DEF Here

\* A stop of the process.
LEMMA CrashIs ==
  ASSUME HandoverOK, Crash
  PROVE  /\ StoreT' /\ Here' /\ at' = "off" /\ UNCHANGED job /\ budget' \in 0 .. MaxBudget
         /\ Has("target")' <=> Has("target")
         /\ Has("source")' <=> Has("source") /\ ~Has("target")
         /\ Has("source")' => S'.handover = S.handover /\ S'.transfer = S.transfer
         /\ Has("target") => T'.handover = T.handover /\ T'.transfer = T.transfer
         /\ Pending' <=> Pending
         /\ Rec'.gen = Rec.gen /\ Rec'.transfer = Rec.transfer
         /\ Rec'.handover = "receipt" <=> Rec.handover = "receipt"
         /\ Pending => Rec'.status = Rec.status
         /\ ~Pending => /\ Rec'.status \notin Unfinished \ {"Interrupted"}
                        /\ Rec'.cancel => Rec.cancel /\ Rec.status \notin Unfinished \ {"Interrupted"}
         /\ ~Pending /\ Rec.status \in Unfinished \ {"Interrupted"} => store' # store
         /\ reg' = Unregistered /\ permits' = {} /\ calls' = {}
         /\ \A j \in Jobs : jobs'[j] = Idle
<1>0. StoreT /\ Here /\ budget \in 0 .. MaxBudget
  BY Alone, TypeParts DEF HandoverOK
<1>1. /\ store'["source"] = IF Has("source") /\ Has("target") THEN Recovered(NoRecord)
                            ELSE Recovered(store["source"])
      /\ store'["target"] = Recovered(store["target"])
      /\ store' = [l \in Libraries |-> store'[l]]
  BY DEF Crash, Reconciled, Libraries
<1>2. Recovered(NoRecord) = NoRecord
  BY DEF Recovered
<1>3. ASSUME NEW r \in Records
      PROVE  /\ Recovered(r) \in Records /\ Recovered(r) # NoRecord
             /\ Recovered(r).gen = r.gen /\ Recovered(r).handover = r.handover
             /\ Recovered(r).transfer = r.transfer
             /\ r.handover # "none" => Recovered(r) = r
             /\ r.handover = "none" =>
                  /\ Recovered(r).status \notin Unfinished \ {"Interrupted"}
                  /\ Recovered(r).cancel => r.cancel /\ r.status \notin Unfinished \ {"Interrupted"}
             /\ r.handover = "none" /\ r.status \in Unfinished \ {"Interrupted"} => Recovered(r) # r
  <2>0. r # NoRecord
    BY RecordsAre
  <2>1. CASE r.handover # "none" \/ r.status \notin Unfinished \ {"Interrupted"}
    BY <2>0, <2>1 DEF Recovered
  <2>2. CASE r.handover = "none" /\ r.status \in Unfinished \ {"Interrupted"}
    <3> DEFINE s == IF r.cancel THEN "Cancelled" ELSE "Interrupted"
               n == [r EXCEPT !.status = s, !.cancel = FALSE]
    <3>1. Recovered(r) = n
      BY <2>0, <2>2 DEF Recovered
    <3>2. s \in Statuses /\ s \notin Unfinished \ {"Interrupted"}
      BY DEF Statuses, Unfinished
    <3> HIDE DEF s
    <3>3. /\ n \in Records /\ n.gen = r.gen /\ n.handover = r.handover /\ n.transfer = r.transfer
          /\ n.status = s /\ ~n.cancel
      BY <3>2 DEF Records
    <3> HIDE DEF n
    <3> QED BY <3>1, <3>2, <3>3, <2>2, RecordsAre
  <2> QED BY <2>1, <2>2
<1>4. /\ Has("source") => S \in Records
      /\ Has("target") => T \in Records
      /\ ~Has("source") => store["source"] = NoRecord
      /\ ~Has("target") => store["target"] = NoRecord
  BY <1>0, HomeIs DEF Has
<1>5. /\ Has("target")' <=> Has("target")
      /\ Has("source")' <=> Has("source") /\ ~Has("target")
      /\ Has("source")' => S' = Recovered(S)
      /\ Has("target") => T' = Recovered(T)
  BY <1>1, <1>2, <1>3, <1>4 DEF Has, S, T
<1>6. StoreT' /\ Here'
  <2>1. store'["source"] \in Records \cup {NoRecord} /\ store'["target"] \in Records \cup {NoRecord}
    BY <1>1, <1>2, <1>3, <1>4 DEF S, T
  <2>2. StoreT'
    BY <2>1, <1>1 DEF StoreT, Libraries
  <2> QED BY <2>2, <1>5, <1>0 DEF Here
<1>7. ~Has("source") \/ ~Has("target") => Rec' = Recovered(Rec) /\ Rec \in Records
  <2>1. CASE ~Has("target")
    <3>1. Rec = S /\ Has("source")
      BY <2>1, <1>0, HomeIs DEF Here
    <3>2. ~Has("target")' /\ Has("source")' /\ Rec' = S'
      BY <2>1, <3>1, <1>5, QueueAssumption DEF Rec, Home, Other, Libraries, S
    <3> QED BY <3>1, <3>2, <1>4, <1>5
  <2>2. CASE ~Has("source")
    <3>1. Rec = T /\ Has("target")
      BY <2>2, <1>0, HomeIs DEF Here
    <3>2. ~Has("source")' /\ Has("target")' /\ Rec' = T'
      BY <2>2, <3>1, <1>5, QueueAssumption DEF Rec, Home, Other, Libraries, T
    <3> QED BY <3>1, <3>2, <1>4, <1>5
  <2> QED BY <2>1, <2>2
<1>8. /\ reg' = Unregistered /\ permits' = {} /\ calls' = {} /\ (\A j \in Jobs : jobs'[j] = Idle)
      /\ at' = "off" /\ UNCHANGED job /\ budget' \in 0 .. MaxBudget
  BY <1>0, MigrationAssumption DEF Crash, Gone, Spend
<1>9. CASE Has("source") /\ Has("target")
  <2>1. /\ S.handover = "copying" /\ T.handover = "installed"
        /\ T.status = S.status /\ T.gen = S.gen /\ T.transfer = S.transfer
    BY <1>9 DEF HandoverOK, RecordsOK
  <2>2. Rec = S \/ Rec = T
    BY <1>0, HomeIs
  <2>3. Rec' = T' /\ T' = T
    BY <1>3, <1>4, <1>5, <1>9, <2>1, QueueAssumption DEF Rec, Home, Other, Libraries, T
  <2> QED BY <1>5, <1>6, <1>8, <1>9, <2>1, <2>2, <2>3 DEF Pending
<1>10. CASE ~Has("source") \/ ~Has("target")
  <2>1. Rec' = Recovered(Rec) /\ Rec \in Records
    BY <1>7, <1>10
  <2>2. /\ Has("source")' => S'.handover = S.handover /\ S'.transfer = S.transfer
        /\ Has("target") => T'.handover = T.handover /\ T'.transfer = T.transfer
    BY <1>3, <1>4, <1>5
  <2>3. /\ Rec'.gen = Rec.gen /\ Rec'.handover = Rec.handover /\ Rec'.transfer = Rec.transfer
        /\ (Rec.handover # "none" => Rec' = Rec)
        /\ (Rec.handover = "none" =>
              /\ Rec'.status \notin Unfinished \ {"Interrupted"}
              /\ Rec'.cancel => Rec.cancel /\ Rec.status \notin Unfinished \ {"Interrupted"})
        /\ (Rec.handover = "none" /\ Rec.status \in Unfinished \ {"Interrupted"} => Rec' # Rec)
    BY <1>3, <2>1
  <2>4. store' = store => Rec' = Rec
    BY <1>0, Unsaved
  <2> QED BY <1>5, <1>6, <1>8, <2>2, <2>3, <2>4 DEF Pending
<1> QED BY <1>9, <1>10

-----------------------------------------------------------------------------
(* Where the record is, and what both sides know of it, stays consistent.   *)

\* A step that leaves the store alone.
LEMMA StillIs ==
  ASSUME UNCHANGED store
  PROVE  /\ S' = S /\ T' = T
         /\ Has("source")' <=> Has("source")
         /\ Has("target")' <=> Has("target")
BY DEF S, T, Has

\* A step that leaves the store alone and moves the job on.
LEMMA GoesKeeps ==
  ASSUME HandoverOK, Goes, UNCHANGED store, at' = at \/ at # "installed"
  PROVE  RecordsOK' /\ JobOK'
<1>0. RecordsOK /\ JobOK /\ JobT
  BY TypeParts DEF HandoverOK
<1>1. RecordsOK'
  BY <1>0, StillIs, JobIsT DEF RecordsOK, Goes, Cleaned
<1>2. JobOK'
  BY <1>0, StillIs, JobIsT DEF JobOK, Goes
<1> QED BY <1>1, <1>2

\* The operations of the queue keep the facts of the handover.
LEMMA QueueHandover ==
  ASSUME HandoverOK, QueueNext, UNCHANGED <<job, at, budget>>
  PROVE  HandoverOK'
<1>0. RecordsOK /\ JobOK /\ AtOK /\ TypeOK
  BY DEF HandoverOK
<1>1. Inert /\ JobsT' /\ TokenT'
  BY <1>0, QueueInert, QueueTokens
<1>2. /\ Has("source")' <=> Has("source")
      /\ Has("target")' <=> Has("target")
      /\ S'.handover = S.handover /\ S'.transfer = S.transfer
      /\ T'.handover = T.handover /\ T'.transfer = T.transfer
      /\ Has("source") /\ Has("target") => S' = S /\ T' = T
  BY <1>1 DEF Inert, S, T, Libraries
<1>3. RecordsOK' /\ JobOK' /\ AtOK'
  BY <1>0, <1>2 DEF RecordsOK, JobOK, AtOK, Cleaned, GivenBack
<1>4. TypeOK'
  BY <1>0, <1>1, TypeParts, TypePartsNext DEF Inert, JobT
<1> QED BY <1>3, <1>4 DEF HandoverOK

\* TypeOK' of a step that leaves the tokens alone.
LEMMA TypeKept ==
  ASSUME TypeOK, StoreT', JobsT', JobT', UNCHANGED <<reg, permits>>, calls' \subseteq
         Tokens,
         at' \in Places, budget' \in 0 .. MaxBudget
  PROVE  TypeOK'
<1>1. TokenT'
  BY TypeParts DEF TokenT
<1> QED BY <1>1, TypeParts, TypePartsNext

\* The same of a step that leaves the store and the jobs alone, too.
LEMMA TypeQuiet ==
  ASSUME TypeOK, UNCHANGED <<store, Queues>>, JobT', at' \in Places, budget' \in 0 ..
         MaxBudget
  PROVE  TypeOK'
<1>1. StoreT /\ JobsT /\ TokenT
  BY TypeParts
<1>2. StoreT' /\ JobsT' /\ TokenT'
  BY <1>1 DEF StoreT, JobsT, TokenT, Queues
<1> QED BY <1>2, TypeParts, TypePartsNext

\* So do the user's, ...
LEMMA UserHandover ==
  ASSUME HandoverOK, Confirm \/ Control
  PROVE  HandoverOK'
<1>0. RecordsOK /\ JobOK /\ AtOK /\ TypeOK /\ JobT /\ at \in Places /\ budget \in 0 .. MaxBudget
  BY TypeParts DEF HandoverOK
<1>1. CASE Confirm
  <2>1. at = "off" /\ ~job.plan /\ ~Has("target") /\ Rec = S /\ S.handover = "none"
    <3>1. at = "off" /\ ~job.plan /\ ~Has("target")
      BY <1>0, <1>1, ConfirmIs DEF JobOK, RecordsOK
    <3> QED BY <3>1, <1>1, ConfirmIs, Alone, HomeIs DEF HandoverOK, Pending
  <2>2. RecordsOK'
    BY <1>0, <1>1, <2>1, ConfirmIs, StillIs DEF RecordsOK
  <2>3. JobOK'
    BY <1>0, <1>1, <2>1, ConfirmIs, StillIs DEF JobOK
  <2>4. AtOK'
    BY <1>1, <2>1, ConfirmIs DEF AtOK
  <2>5. TypeOK'
    BY <1>0, <1>1, ConfirmIs, TypeQuiet
  <2> QED BY <2>2, <2>3, <2>4, <2>5 DEF HandoverOK
<1>2. CASE Control
  <2>1. Goes /\ UNCHANGED <<store, at>>
    BY <1>2, ControlIs
  <2>2. RecordsOK' /\ JobOK'
    BY <2>1, GoesKeeps
  <2>3. AtOK'
    <3>1. job'.plan = job.plan /\ (at \in {"commit", "installed", "committed"} => job'.awaiting)
      BY <1>0, <1>2 DEF Control, Pause, Resumed, StopRemaining, RetryFailed, AtOK, JobT
    <3> QED BY <1>0, <2>1, <3>1, StillIs DEF AtOK
  <2>4. TypeOK'
    BY <1>0, <1>2, ControlIs, TypeQuiet DEF Goes
  <2> QED BY <2>2, <2>3, <2>4 DEF HandoverOK
<1> QED BY <1>1, <1>2

\* A step of the coordinator that only takes it further.
LEMMA AtHandover ==
  ASSUME HandoverOK, UNCHANGED <<store, Queues, job, budget>>, AtOK', at' \in Places,
         at # "installed", job.status # "none"
  PROVE  HandoverOK'
<1>0. RecordsOK /\ JobOK /\ TypeOK /\ JobT /\ budget \in 0 .. MaxBudget
  BY TypeParts DEF HandoverOK
<1>1. RecordsOK' /\ JobOK'
  BY <1>0, StillIs DEF RecordsOK, JobOK, Cleaned, GivenBack
<1>2. TypeOK'
  BY <1>0, TypeQuiet DEF JobT
<1> QED BY <1>1, <1>2 DEF HandoverOK

\* ... the begin of a handover, ...
LEMMA PrepareHandover ==
  ASSUME HandoverOK, PrepareTransfer
  PROVE  HandoverOK'
<1>0. /\ RecordsOK /\ JobOK /\ AtOK /\ TypeOK /\ at = "off" /\ job.status \in Runnable
      /\ job.status # "none" /\ UNCHANGED budget /\ budget \in 0 .. MaxBudget
      /\ JobT /\ StoreT /\ Here /\ JobsT /\ TokenT
  BY TypeParts, Alone DEF HandoverOK, PrepareTransfer, Runnable
<1>1. CASE /\ job.plan /\ Home = "target" /\ Pending
           /\ at' = "attach" /\ queueSame /\ UNCHANGED job
  <2>1. ~Has("source")
    BY <1>0, <1>1, HomeIs DEF RecordsOK
  <2>2. AtOK'
    BY <1>1, <2>1, StillIs DEF AtOK, queueSame, queueVars
  <2> QED BY <1>0, <1>1, <2>2, AtHandover DEF Places, queueSame, queueVars, Queues
<1>2. CASE /\ Home = "source" /\ Rec.handover = "copying"
           /\ at' = "wait" /\ queueSame /\ UNCHANGED job
  <2>1. Has("source") /\ S.handover = "copying"
    BY <1>0, <1>2, Alone DEF Copying
  <2>2. AtOK'
    BY <1>2, <2>1, StillIs DEF AtOK, queueSame, queueVars
  <2> QED BY <1>0, <1>2, <2>2, AtHandover DEF Places, queueSame, queueVars, Queues
<1>3. CASE Begun
  <2>1. /\ Has("source")' /\ ~Has("target")' /\ S' = Rec' /\ Rec'.handover = "copying"
        /\ StoreT' /\ ~job.plan /\ UNCHANGED <<job, reg, permits, jobs>> /\ at' = "wait"
    BY <1>0, <1>3, BegunIs DEF Stays
  <2>2. calls' \subseteq Tokens
    BY <1>0, <1>3, BegunIs DEF TokenT, Captured
  <2>3. JobT' /\ JobsT'
    BY <1>0, <2>1 DEF JobT, JobsT
  <2>4. TypeOK'
    BY <1>0, <2>1, <2>2, <2>3, TypeKept DEF Places
  <2>5. ~job.committed /\ ~job.final
    BY <1>0, <1>3, BegunIs DEF JobOK
  <2>6. RecordsOK' /\ JobOK' /\ AtOK'
    BY <1>0, <2>1, <2>5 DEF RecordsOK, JobOK, AtOK
  <2> QED BY <2>4, <2>6 DEF HandoverOK
<1>4. CASE ~Pending /\ Abandoned /\ queueSame
  <2>1. Goes /\ UNCHANGED <<Queues, store>> /\ at' = "off"
    BY <1>0, <1>4, AbandonedIs
  <2>2. RecordsOK' /\ JobOK'
    BY <1>0, <2>1, GoesKeeps
  <2>3. AtOK'
    BY <2>1 DEF AtOK
  <2>4. TypeOK'
    BY <1>0, <2>1, TypeQuiet DEF Goes, Places
  <2> QED BY <2>2, <2>3, <2>4 DEF HandoverOK
<1> QED BY <1>1, <1>2, <1>3, <1>4 DEF PrepareTransfer

\* ... the attaching of the plan, ...
LEMMA PlanHandover ==
  ASSUME HandoverOK, WaitForWriter \/ AttachPlan \/ Attach
  PROVE  HandoverOK'
<1>0. /\ RecordsOK /\ JobOK /\ AtOK /\ TypeOK /\ budget \in 0 .. MaxBudget
      /\ JobT /\ StoreT /\ Here /\ JobsT /\ TokenT
  BY TypeParts, Alone DEF HandoverOK
<1>1. CASE WaitForWriter
  <2>1. /\ at = "wait" /\ at' \in {"attach", "off"} /\ UNCHANGED <<store, Queues, job, budget>>
        /\ job.status # "none"
    BY <1>0, <1>1 DEF WaitForWriter, queueSame, queueVars, Queues, JobOK
  <2>2. AtOK'
    BY <1>0, <2>1, StillIs DEF AtOK
  <2> QED BY <2>1, <2>2, AtHandover DEF Places
<1>2. CASE AttachPlan
  <2>0. at = "attach" /\ UNCHANGED <<job, budget>> /\ job.status # "none"
    BY <1>0, <1>2 DEF AttachPlan, JobOK
  <2>1. CASE queueSame /\ at' = "off"
    <3>1. AtOK'
      BY <2>1 DEF AtOK
    <3> QED BY <2>0, <2>1, <3>1, AtHandover DEF Places, queueSame, queueVars, Queues
  <2>2. CASE queueSame /\ at' = "step" /\ job.plan
    <3>1. Has("source") => S.handover = "copying" /\ S.transfer.planned
      BY <1>0, <2>0, <2>2 DEF JobOK, AtOK
    <3>2. AtOK'
      BY <2>0, <2>2, <3>1, StillIs DEF AtOK, queueSame, queueVars
    <3> QED BY <2>0, <2>2, <3>2, AtHandover DEF Places, queueSame, queueVars, Queues
  <2>3. CASE Plans /\ at' = "attaching"
    <3>1. /\ Has("source")' /\ ~Has("target")' /\ S' = Rec' /\ Rec'.handover = "copying"
          /\ Rec'.transfer.planned /\ StoreT' /\ ~job.plan
      BY <2>0, <2>3, PlansIs DEF Stays, Plans
    <3>2. JobT' /\ JobsT' /\ UNCHANGED <<reg, permits>> /\ calls' \subseteq Tokens
      BY <1>0, <2>0, <2>3 DEF JobT, JobsT, TokenT, Plans
    <3>3. TypeOK'
      BY <1>0, <2>0, <2>3, <3>1, <3>2, TypeKept DEF Places
    <3>4. ~job.committed /\ ~job.final
      BY <1>0, <2>0, <2>3, PlansIs DEF JobOK
    <3>5. RecordsOK' /\ JobOK' /\ AtOK'
      BY <1>0, <2>0, <2>3, <3>1, <3>4 DEF RecordsOK, JobOK, AtOK
    <3> QED BY <3>3, <3>5 DEF HandoverOK
  <2>4. \/ queueSame /\ at' = "off"
        \/ queueSame /\ at' = "step" /\ job.plan
        \/ Plans /\ at' = "attaching"
    BY <1>2 DEF AttachPlan, Plans
  <2> QED BY <2>1, <2>2, <2>3, <2>4
<1>3. CASE Attach
  <2>1. /\ at = "attaching" /\ at' = "step" /\ UNCHANGED <<store, Queues, budget>>
        /\ job' = [job EXCEPT !.plan = TRUE] /\ job.status # "none"
    BY <1>0, <1>3 DEF Attach, queueSame, queueVars, Queues, JobOK
  <2>2. /\ JobT' /\ job'.plan /\ job'.status = job.status /\ job'.impact = job.impact
        /\ job'.media = job.media /\ job'.awaiting = job.awaiting
        /\ job'.committed = job.committed /\ job'.final = job.final
        /\ job'.payload = job.payload /\ job'.controls = job.controls
    BY <1>0, <2>1 DEF JobT
  <2>3. RecordsOK' /\ JobOK' /\ AtOK'
    BY <1>0, <2>1, <2>2, StillIs DEF RecordsOK, JobOK, AtOK, Cleaned, GivenBack
  <2>4. TypeOK'
    BY <1>0, <2>1, <2>2, TypeQuiet DEF Places
  <2> QED BY <2>3, <2>4 DEF HandoverOK
<1> QED BY <1>1, <1>2, <1>3

\* ... the engine's steps and the commit, ...
LEMMA CommitHandover ==
  ASSUME HandoverOK, Step \/ Install \/ Remove \/ AckCommit
  PROVE  HandoverOK'
<1>0. /\ RecordsOK /\ JobOK /\ AtOK /\ TypeOK /\ budget \in 0 .. MaxBudget
      /\ JobT /\ StoreT /\ Here /\ JobsT /\ TokenT
  BY TypeParts, Alone DEF HandoverOK
<1>1. CASE Step
  <2>1. Goes /\ UNCHANGED <<Queues, store>> /\ at = "step" /\ at' \in {"commit", "step", "off"}
        /\ (at' = "commit" => job'.awaiting) /\ budget' \in 0 .. MaxBudget
    BY <1>1, StepIs
  <2>2. RecordsOK' /\ JobOK'
    BY <2>1, GoesKeeps
  <2>3. AtOK'
    BY <1>0, <2>1, StillIs DEF AtOK, Goes
  <2>4. TypeOK'
    BY <1>0, <2>1, TypeQuiet DEF Goes, Places
  <2> QED BY <2>2, <2>3, <2>4 DEF HandoverOK
<1>2. CASE Install
  <2>0. JobT' /\ JobsT' /\ UNCHANGED <<reg, permits>> /\ calls' \subseteq Tokens /\ UNCHANGED budget
    BY <1>0, <1>2 DEF Install, JobT, JobsT, TokenT
  <2>1. TypeOK'
    BY <1>0, <1>2, <2>0, InstallIs, TypeKept DEF Moves, Places
  <2>2. job' = job /\ job.status # "none" /\ job.awaiting /\ ~job.committed
    BY <1>0, <1>2, InstallIs DEF JobOK, AtOK
  <2>3. RecordsOK'
    BY <1>0, <1>2, <2>2, InstallIs DEF RecordsOK, Moves
  <2>4. JobOK'
    BY <1>0, <1>2, <2>2, InstallIs DEF JobOK
  <2>5. AtOK'
    BY <1>0, <1>2, <2>2, InstallIs DEF AtOK, Moves
  <2> QED BY <2>1, <2>3, <2>4, <2>5 DEF HandoverOK
<1>3. CASE Remove
  <2>0. JobT' /\ JobsT' /\ UNCHANGED <<reg, permits>> /\ calls' \subseteq Tokens /\ UNCHANGED budget
    BY <1>0, <1>3 DEF Remove, JobT, JobsT, TokenT
  <2>1. TypeOK'
    BY <1>0, <1>3, <2>0, RemoveIs, TypeKept DEF Moves, Places
  <2>2. job' = job /\ job.status # "none" /\ job.awaiting /\ ~job.committed /\ job.plan /\ ~job.final
    BY <1>0, <1>3, RemoveIs DEF JobOK, AtOK
  <2>3. RecordsOK'
    BY <1>0, <1>3, <2>2, RemoveIs DEF RecordsOK, Moves
  <2>4. JobOK'
    BY <1>0, <1>3, <2>2, RemoveIs DEF JobOK
  <2>5. AtOK'
    BY <1>0, <1>3, <2>2, RemoveIs DEF AtOK, Moves
  <2> QED BY <2>1, <2>3, <2>4, <2>5 DEF HandoverOK
<1>4. CASE AckCommit
  <2>1. /\ at = "committed" /\ at' \in {"step", "off"} /\ UNCHANGED <<store, Queues, budget>>
        /\ job' = [job EXCEPT !.committed = TRUE, !.awaiting = FALSE] /\ job.status # "none"
    BY <1>0, <1>4 DEF AckCommit, queueSame, queueVars, Queues, JobOK
  <2>2. /\ JobT' /\ job'.plan = job.plan /\ job'.status = job.status /\ job'.impact = job.impact
        /\ job'.media = job.media /\ ~job'.awaiting
        /\ job'.committed /\ job'.final = job.final
        /\ job'.payload = job.payload /\ job'.controls = job.controls
    BY <1>0, <2>1 DEF JobT
  <2>3. ~Has("source") /\ job.plan /\ ~job.final
    BY <1>0, <2>1 DEF AtOK, JobOK
  <2>4. RecordsOK' /\ JobOK' /\ AtOK'
    BY <1>0, <2>1, <2>2, <2>3, StillIs DEF RecordsOK, JobOK, AtOK, Cleaned, GivenBack
  <2>5. TypeOK'
    BY <1>0, <2>1, <2>2, TypeQuiet DEF Places
  <2> QED BY <2>4, <2>5 DEF HandoverOK
<1> QED BY <1>1, <1>2, <1>3, <1>4

\* The parts of Finish, when the coordinator is off.
Acks     == /\ Rec.handover = "installed" /\ ~job.committed /\ queueSame
            /\ job' = [job EXCEPT !.committed = TRUE, !.awaiting = FALSE]
Receipts == /\ Rec.handover = "installed" /\ job.committed
            /\ Save([Restored EXCEPT !.handover = Receipt])
            /\ UNCHANGED <<reg, permits, calls, jobs, job>>
Finals   == Rec.handover = "receipt" /\ job' = [job EXCEPT !.final = TRUE] /\ queueSame
Again    == /\ job.plan /\ ~Pending /\ Rec.status = "Queued" /\ Requeue(Rec)
            /\ UNCHANGED <<store, reg, permits, calls, job>>

\* What Finish may do.
LEMMA FinishIs ==
  ASSUME Finish
  PROVE  /\ at = "off" /\ at' = "off" /\ GivenBack
         /\ \/ UNCHANGED budget /\ ~job.final /\ ~job.committed /\ Aborts
            \/ UNCHANGED budget /\ ~job.final /\ Acks
            \/ UNCHANGED budget /\ ~job.final /\ Receipts
            \/ UNCHANGED budget /\ ~job.final /\ Finals
            \/ UNCHANGED budget /\ ~job.final /\ Again
            \/ job.final /\ ~Cleaned /\ Cleanup /\ queueSame
            \/ job.final /\ Cleaned /\ Clear
BY DEF Finish, Settle, Acks, Receipts, Finals, Again, GivenBack

\* ... the conclusion, ...
LEMMA FinishHandover ==
  ASSUME HandoverOK, Finish
  PROVE  HandoverOK'
<1>0. /\ RecordsOK /\ JobOK /\ AtOK /\ TypeOK /\ budget \in 0 .. MaxBudget
      /\ JobT /\ StoreT /\ Here /\ JobsT /\ TokenT
      /\ at = "off" /\ at' = "off" /\ GivenBack /\ job.status # "none"
  BY TypeParts, Alone, FinishIs DEF HandoverOK, GivenBack, Ended
<1>a. AtOK'
  BY <1>0 DEF AtOK
<1>1. CASE UNCHANGED budget /\ ~job.final /\ ~job.committed /\ Aborts
  <2>1. /\ Has("source")' /\ ~Has("target")' /\ S' = Rec' /\ Rec'.handover = "none"
        /\ StoreT' /\ UNCHANGED <<reg, permits, calls, job>> /\ job.status = "Stopped" /\ JobsT'
    BY <1>0, <1>1, AbortsIs DEF Stays, Requeues
  <2>2. JobT' /\ calls' \subseteq Tokens
    BY <1>0, <2>1 DEF JobT, TokenT
  <2>3. TypeOK'
    BY <1>0, <1>1, <2>1, <2>2, TypeKept DEF Places
  <2>4. RecordsOK' /\ JobOK'
    BY <1>0, <1>1, <2>1 DEF RecordsOK, JobOK
  <2> QED BY <1>a, <2>3, <2>4 DEF HandoverOK
<1>2. CASE UNCHANGED budget /\ ~job.final /\ Acks
  <2>0. Has("target") /\ ~Has("source")
    BY <1>0, <1>2, AtTarget DEF Acks
  <2>1. UNCHANGED <<store, Queues>> /\ job' = [job EXCEPT !.committed = TRUE, !.awaiting = FALSE]
    BY <1>2 DEF Acks, queueSame, queueVars, Queues
  <2>2. /\ JobT' /\ job'.plan = job.plan /\ job'.status = job.status /\ job'.impact = job.impact
        /\ job'.media = job.media /\ ~job'.awaiting
        /\ job'.committed /\ job'.final = job.final
        /\ job'.payload = job.payload /\ job'.controls = job.controls
    BY <1>0, <2>1 DEF JobT
  <2>4. RecordsOK' /\ JobOK'
    BY <1>0, <2>0, <2>1, <2>2, StillIs DEF RecordsOK, JobOK, Cleaned, GivenBack
  <2>5. TypeOK'
    BY <1>0, <1>2, <2>1, <2>2, TypeQuiet DEF Places
  <2> QED BY <1>a, <2>4, <2>5 DEF HandoverOK
<1>3. CASE UNCHANGED budget /\ ~job.final /\ Receipts
  <2>0. Home = "target" /\ Has("target") /\ ~Has("source") /\ job.committed
    BY <1>0, <1>3, AtTarget DEF Receipts
  <2>1. /\ Has("target")' /\ ~Has("source")' /\ T' = Rec' /\ Rec'.handover = "receipt"
        /\ StoreT' /\ UNCHANGED <<reg, permits, calls, jobs, job>>
    BY <1>0, <1>3, <2>0, ReceiptIs DEF Stays, Receipts
  <2>2. JobT' /\ calls' \subseteq Tokens /\ JobsT'
    BY <1>0, <2>1 DEF JobT, TokenT, JobsT
  <2>3. TypeOK'
    BY <1>0, <1>3, <2>1, <2>2, TypeKept DEF Places
  <2>4. RecordsOK' /\ JobOK'
    BY <1>0, <1>3, <2>0, <2>1 DEF RecordsOK, JobOK
  <2> QED BY <1>a, <2>3, <2>4 DEF HandoverOK
<1>4. CASE UNCHANGED budget /\ ~job.final /\ Finals
  <2>0. Has("target") /\ ~Has("source") /\ T.handover = "receipt" /\ job.committed
    BY <1>0, <1>4, AtTarget DEF Finals, RecordsOK
  <2>1. UNCHANGED <<store, Queues>> /\ job' = [job EXCEPT !.final = TRUE]
    BY <1>4 DEF Finals, queueSame, queueVars, Queues
  <2>2. /\ JobT' /\ job'.plan = job.plan /\ job'.status = job.status /\ job'.impact = job.impact
        /\ job'.media = job.media /\ job'.awaiting = job.awaiting
        /\ job'.committed = job.committed /\ job'.final
        /\ job'.payload = job.payload /\ job'.controls = job.controls
    BY <1>0, <2>1 DEF JobT
  <2>4. RecordsOK' /\ JobOK'
    BY <1>0, <2>0, <2>1, <2>2, StillIs DEF RecordsOK, JobOK, Cleaned, GivenBack
  <2>5. TypeOK'
    BY <1>0, <1>4, <2>1, <2>2, TypeQuiet DEF Places
  <2> QED BY <1>a, <2>4, <2>5 DEF HandoverOK
<1>5. CASE UNCHANGED budget /\ ~job.final /\ Again
  <2>1. UNCHANGED <<store, reg, permits, calls, job>>
    BY <1>5 DEF Again
  <2>2. JobsT' /\ StoreT' /\ JobT' /\ calls' \subseteq Tokens
    <3>1. Requeue(Rec) /\ Rec.gen \in 0 .. MaxGen
      BY <1>0, <1>5, HomeIs DEF Again
    <3> QED BY <1>0, <2>1, <3>1, RequeueIs DEF Requeues, StoreT, JobT, TokenT
  <2>3. TypeOK'
    BY <1>0, <1>5, <2>1, <2>2, TypeKept DEF Places
  <2>4. RecordsOK' /\ JobOK'
    BY <1>0, <2>1, StillIs DEF RecordsOK, JobOK, Cleaned, GivenBack
  <2> QED BY <1>a, <2>3, <2>4 DEF HandoverOK
<1>6. CASE job.final /\ ~Cleaned /\ Cleanup /\ queueSame
  <2>1. /\ UNCHANGED <<store, Queues>> /\ budget' \in 0 .. MaxBudget
        /\ JobT' /\ job'.impact = job.impact /\ job'.plan = job.plan
        /\ job'.committed = job.committed /\ job'.final = job.final
        /\ job'.awaiting = job.awaiting /\ job'.media = job.media /\ job'.status # "none"
    BY <1>6, CleanupIs
  <2>2. job.committed /\ ~Has("source") /\ T.handover = "receipt"
    BY <1>0, <1>6 DEF JobOK, RecordsOK
  <2>4. RecordsOK' /\ JobOK'
    BY <1>0, <1>6, <2>1, <2>2, StillIs DEF RecordsOK, JobOK
  <2>5. TypeOK'
    BY <1>0, <2>1, TypeQuiet DEF Places
  <2> QED BY <1>a, <2>4, <2>5 DEF HandoverOK
<1>7. CASE job.final /\ Cleaned /\ Clear
  <2>0. Home = "target" /\ Has("target") /\ ~Has("source") /\ job.committed
    BY <1>0, <1>7, ClearIs, AtTarget DEF JobOK
  <2>1. /\ Has("target")' /\ ~Has("source")' /\ T' = Rec' /\ Rec'.handover = "none"
        /\ StoreT' /\ UNCHANGED <<reg, permits, calls, job, budget>> /\ JobsT'
    BY <1>0, <1>7, <2>0, ClearIs DEF Stays, Requeues
  <2>2. JobT' /\ calls' \subseteq Tokens
    BY <1>0, <2>1 DEF JobT, TokenT
  <2>3. TypeOK'
    BY <1>0, <2>1, <2>2, TypeKept DEF Places
  <2>4. RecordsOK' /\ JobOK'
    BY <1>0, <1>7, <2>0, <2>1 DEF RecordsOK, JobOK, Cleaned, GivenBack
  <2> QED BY <1>a, <2>3, <2>4 DEF HandoverOK
<1> QED BY <1>1, <1>2, <1>3, <1>4, <1>5, <1>6, <1>7, FinishIs

\* ... and a stop of the process.
LEMMA CrashHandover ==
  ASSUME HandoverOK, Crash
  PROVE  HandoverOK'
<1>0. RecordsOK /\ JobOK /\ TypeOK /\ JobT
  BY TypeParts DEF HandoverOK
<1>1. JobsT' /\ TokenT'
  <2>1. jobs' = [j \in Jobs |-> Idle] /\ Idle \in [pc : {"off"} \cup Before \cup Inside \cup After,
                                           gen : 0 .. MaxGen, token : Tokens \cup {NoToken}]
    BY QueueAssumption DEF Crash, Gone, Idle
  <2>2. JobsT'
    BY <2>1 DEF JobsT
  <2>3. TokenT'
    BY QueueAssumption DEF Crash, Gone, TokenT, Unregistered
  <2> QED BY <2>2, <2>3
<1>2. TypeOK'
  BY <1>0, <1>1, CrashIs, TypePartsNext DEF JobT, Places
<1>3. RecordsOK' /\ JobOK' /\ AtOK'
  BY <1>0, CrashIs DEF RecordsOK, JobOK, AtOK, Cleaned, GivenBack
<1> QED BY <1>2, <1>3 DEF HandoverOK

\* Every step keeps the facts of the handover.
LEMMA HandoverStep ==
  ASSUME HandoverOK, [Next]_vars
  PROVE  HandoverOK'
<1>1. CASE UNCHANGED vars
  BY <1>1 DEF HandoverOK, TypeOK, QueueTypeOK, RecordsOK, JobOK, AtOK, vars, Has, S, T,
     Cleaned,
    GivenBack
<1>2. CASE Next
  BY <1>2, QueueHandover, UserHandover, PrepareHandover, PlanHandover, CommitHandover,
     FinishHandover, CrashHandover
  DEF Next, Coordinate
<1> QED BY <1>1, <1>2

-----------------------------------------------------------------------------
(* The jobs, their tokens and the cancellations.                            *)

Early   == {"prepare", "probing", "choice", "queued"}
Writers == {"inspecting", "planned", "working"}
Told    == permits \cup calls

\* A token belongs to one generation, and no generation is to come.
TokensOK ==
  /\ \A j \in Jobs : jobs[j].token = NoToken <=> jobs[j].pc \in {"off"} \cup Early
  /\ \A j \in Jobs : jobs[j].gen = 0 <=> jobs[j].pc = "off"
  /\ reg.gen = 0 <=> reg.token = NoToken
  /\ \A j \in Jobs : jobs[j].gen <= Rec.gen
  /\ reg.gen <= Rec.gen
  /\ \A j \in Jobs : jobs[j].token # NoToken /\ jobs[j].token = reg.token => jobs[j].gen = reg.gen
  /\ \A j, k \in Jobs : jobs[j].token # NoToken /\ jobs[j].token = jobs[k].token =>
       jobs[j].gen = jobs[k].gen

\* What is known in every step of the queue.
LEMMA QueueTyped ==
  ASSUME HandoverOK, HandoverOK'
  PROVE  /\ TypeOK /\ RecordsOK /\ JobsT /\ TokenT /\ JobsT' /\ TokenT'
         /\ Rec \in Records /\ Rec' \in Records
         /\ Rec.gen \in 1 .. MaxGen /\ Rec.status \in Statuses /\ Rec.cancel \in BOOLEAN
         /\ Rec'.gen \in 1 .. MaxGen /\ Rec'.status \in Statuses /\ Rec'.cancel \in BOOLEAN
         /\ MaxGen \in Nat
         /\ \A j \in Jobs : /\ jobs[j].pc \in Pcs /\ jobs[j].gen \in 0 .. MaxGen
                            /\ jobs[j].token \in Tokens \cup {NoToken}
                            /\ jobs'[j].pc \in Pcs /\ jobs'[j].gen \in 0 .. MaxGen
                            /\ jobs'[j].token \in Tokens \cup {NoToken}
         /\ reg.gen \in 0 .. MaxGen /\ reg.token \in Tokens \cup {NoToken}
         /\ reg'.gen \in 0 .. MaxGen /\ reg'.token \in Tokens \cup {NoToken}
<1>1. TypeOK /\ RecordsOK /\ JobsT /\ TokenT
  BY TypeParts DEF HandoverOK
<1>2. JobsT' /\ TokenT' /\ StoreT' /\ Here'
  BY DEF HandoverOK, TypeOK, QueueTypeOK, JobsT, TokenT, StoreT, RecordsOK, Here
<1>3. StoreT /\ Here
  BY <1>1, Alone
<1>4. Rec \in Records /\ Rec.gen \in 1 .. MaxGen /\ Rec.status \in Statuses /\ Rec.cancel \in BOOLEAN
  BY <1>3, HomeIs
<1>5. Rec' \in Records
  <2>1. Home' \in Libraries /\ Has(Home)'
    BY <1>2, QueueAssumption DEF Here, Home, Has, Other, Libraries
  <2> QED BY <1>2, <2>1 DEF StoreT, Rec, Has
<1>6. Rec'.gen \in 1 .. MaxGen /\ Rec'.status \in Statuses /\ Rec'.cancel \in BOOLEAN
  BY <1>5, RecordsAre DEF Generations
<1>7. \A j \in Jobs : /\ jobs[j].pc \in Pcs /\ jobs[j].gen \in 0 .. MaxGen
                      /\ jobs[j].token \in Tokens \cup {NoToken}
                      /\ jobs'[j].pc \in Pcs /\ jobs'[j].gen \in 0 .. MaxGen
                      /\ jobs'[j].token \in Tokens \cup {NoToken}
  BY <1>1, <1>2 DEF JobsT, Pcs
<1> QED BY <1>1, <1>2, <1>4, <1>5, <1>6, <1>7, QueueAssumption DEF TokenT

\* What a step of the queue does to each job.
Continues(k) == /\ jobs'[k].gen = jobs[k].gen /\ jobs'[k].token = jobs[k].token
                /\ jobs'[k].pc = "off" <=> jobs[k].pc = "off"
                /\ jobs'[k].pc \in Early <=> jobs[k].pc \in Early
Ends(k)      == jobs'[k].pc = "off" /\ jobs'[k].gen = 0 /\ jobs'[k].token = NoToken
Arrives(k)   == /\ jobs[k].pc = "off" /\ jobs'[k].pc \in Early /\ jobs'[k].token = NoToken
                /\ jobs'[k].gen = Rec'.gen
Registers(k) == /\ jobs[k].pc = "queued" /\ jobs'[k].pc = "waiting" /\ Keeps /\ ~Pending
                /\ jobs'[k].gen = jobs[k].gen /\ Rec.gen = jobs[k].gen /\ Rec.status = "Queued"
                /\ reg' = [gen |-> jobs[k].gen, token |-> jobs'[k].token] /\ Same(k)
                /\ calls' = calls
                /\ \/ reg.gen = jobs[k].gen /\ jobs'[k].token = reg.token /\ permits' = permits
                   \/ /\ reg.gen # jobs[k].gen /\ jobs'[k].token \in Fresh
                      /\ permits' = permits \ {jobs'[k].token}

\* Every operation of the queue does one of these to each job.
LEMMA QueueJobs ==
  ASSUME HandoverOK, HandoverOK', NEW k \in Jobs, QueueNext
  PROVE  Continues(k) \/ Ends(k) \/ Arrives(k) \/ Registers(k)
<1>0. TypeOK /\ RecordsOK
  BY DEF HandoverOK
<1>1. CASE \E g \in Generations : Resume(g)
  <2>1. PICK g \in Generations : Resume(g)
    BY <1>1
  <2> QED BY <1>0, <2>1, ResumeIs DEF Continues, Ends, Arrives, Registers, Early, Starts,
         Same, Wrote
<1>2. CASE \E g \in Generations : Accept(g)
  <2>1. PICK g \in Generations : Accept(g)
    BY <1>2
  <2> QED BY <1>0, <2>1, AcceptIs DEF Continues, Ends, Arrives, Registers, Early, Starts,
         Same, Wrote
<1>3. CASE \E g \in Generations : Cancel(g)
  <2>1. PICK g \in Generations : Cancel(g)
    BY <1>3
  <2> QED BY <1>0, <2>1, CancelIs DEF Continues, Ends, Arrives, Registers, Early, Same,
         Wrote
<1>4. CASE \E t \in Tokens : Deliver(t)
  <2>1. PICK t \in Tokens : Deliver(t)
    BY <1>4
  <2> QED BY <1>0, <2>1, DeliverIs DEF Continues, Ends, Arrives, Registers, Early, Same,
         Keeps
<1>5. CASE \E j \in Jobs : Prepare(j)
  <2>1. PICK j \in Jobs : Prepare(j)
    BY <1>5
  <2>2. CASE k = j
    BY <1>0, <2>1, <2>2, PrepareIs DEF Continues, Ends, Arrives, Registers, Early, Turns,
       Finishes, Same, Wrote
  <2>3. CASE k # j
    BY <1>0, <2>1, <2>3, PrepareIs DEF Continues, Ends, Arrives, Registers, Early, Turns,
       Finishes, Same, Wrote
  <2> QED BY <2>2, <2>3
<1>6. CASE \E j \in Jobs : Probe(j)
  <2>1. PICK j \in Jobs : Probe(j)
    BY <1>6
  <2>2. CASE k = j
    BY <1>0, <2>1, <2>2, ProbeIs DEF Continues, Ends, Arrives, Registers, Early, Turns,
       Finishes, Same, Wrote
  <2>3. CASE k # j
    BY <1>0, <2>1, <2>3, ProbeIs DEF Continues, Ends, Arrives, Registers, Early, Turns,
       Finishes, Same, Wrote
  <2> QED BY <2>2, <2>3
<1>7. CASE \E j \in Jobs : Choose(j)
  <2>1. PICK j \in Jobs : Choose(j)
    BY <1>7
  <2>2. CASE k = j
    BY <1>0, <2>1, <2>2, ChooseIs DEF Continues, Ends, Arrives, Registers, Early, Turns,
       Finishes, Same, Wrote
  <2>3. CASE k # j
    BY <1>0, <2>1, <2>3, ChooseIs DEF Continues, Ends, Arrives, Registers, Early, Turns,
       Finishes, Same, Wrote
  <2> QED BY <2>2, <2>3
<1>8. CASE \E j \in Jobs : Register(j)
  <2>1. PICK j \in Jobs : Register(j)
    BY <1>8
  <2>2. CASE k = j
    BY <1>0, <2>1, <2>2, RegisterIs DEF Continues, Ends, Arrives, Registers, Early,
       Finishes, Same
  <2>3. CASE k # j
    BY <1>0, <2>1, <2>3, RegisterIs DEF Continues, Ends, Arrives, Registers, Early,
       Finishes, Same
  <2> QED BY <2>2, <2>3
<1>9. CASE \E j \in Jobs : GiveUp(j)
  <2>1. PICK j \in Jobs : GiveUp(j)
    BY <1>9
  <2>2. CASE k = j
    BY <1>0, <2>1, <2>2, GiveUpIs DEF Continues, Ends, Arrives, Registers, Early,
       Finishes, Same
  <2>3. CASE k # j
    BY <1>0, <2>1, <2>3, GiveUpIs DEF Continues, Ends, Arrives, Registers, Early,
       Finishes, Same
  <2> QED BY <2>2, <2>3
<1>10. CASE \E j \in Jobs : Begin(j)
  <2>1. PICK j \in Jobs : Begin(j)
    BY <1>10
  <2>2. CASE k = j
    BY <1>0, <2>1, <2>2, BeginIs DEF Continues, Ends, Arrives, Registers, Early, Turns,
       Same, Wrote
  <2>3. CASE k # j
    BY <1>0, <2>1, <2>3, BeginIs DEF Continues, Ends, Arrives, Registers, Early, Turns,
       Same, Wrote
  <2> QED BY <2>2, <2>3
<1>11. CASE \E j \in Jobs : Observe(j)
  <2>1. PICK j \in Jobs : Observe(j)
    BY <1>11
  <2>2. CASE k = j
    BY <1>0, <2>1, <2>2, ObserveIs DEF Continues, Ends, Arrives, Registers, Early, Turns,
       Same
  <2>3. CASE k # j
    BY <1>0, <2>1, <2>3, ObserveIs DEF Continues, Ends, Arrives, Registers, Early, Turns,
       Same
  <2> QED BY <2>2, <2>3
<1>12. CASE \E j \in Jobs : Stop(j)
  <2>1. PICK j \in Jobs : Stop(j)
    BY <1>12
  <2>2. CASE k = j
    BY <1>0, <2>1, <2>2, StopIs DEF Continues, Ends, Arrives, Registers, Early, Turns,
       Same, Wrote
  <2>3. CASE k # j
    BY <1>0, <2>1, <2>3, StopIs DEF Continues, Ends, Arrives, Registers, Early, Turns,
       Same, Wrote
  <2> QED BY <2>2, <2>3
<1>13. CASE \E j \in Jobs : SetPlan(j)
  <2>1. PICK j \in Jobs : SetPlan(j)
    BY <1>13
  <2>2. CASE k = j
    BY <1>0, <2>1, <2>2, SetPlanIs DEF Continues, Ends, Arrives, Registers, Early, Turns,
       Same, Wrote
  <2>3. CASE k # j
    BY <1>0, <2>1, <2>3, SetPlanIs DEF Continues, Ends, Arrives, Registers, Early, Turns,
       Same, Wrote
  <2> QED BY <2>2, <2>3
<1>14. CASE \E j \in Jobs : InspectFails(j)
  <2>1. PICK j \in Jobs : InspectFails(j)
    BY <1>14
  <2>2. CASE k = j
    BY <1>0, <2>1, <2>2, InspectFailsIs DEF Continues, Ends, Arrives, Registers, Early,
       Turns, Same, Wrote
  <2>3. CASE k # j
    BY <1>0, <2>1, <2>3, InspectFailsIs DEF Continues, Ends, Arrives, Registers, Early,
       Turns, Same, Wrote
  <2> QED BY <2>2, <2>3
<1>15. CASE \E j \in Jobs : Recheck(j)
  <2>1. PICK j \in Jobs : Recheck(j)
    BY <1>15
  <2>2. CASE k = j
    BY <1>0, <2>1, <2>2, RecheckIs DEF Continues, Ends, Arrives, Registers, Early, Turns,
       Same, Wrote
  <2>3. CASE k # j
    BY <1>0, <2>1, <2>3, RecheckIs DEF Continues, Ends, Arrives, Registers, Early, Turns,
       Same, Wrote
  <2> QED BY <2>2, <2>3
<1>16. CASE \E j \in Jobs : Ask(j)
  <2>1. PICK j \in Jobs : Ask(j)
    BY <1>16
  <2>2. CASE k = j
    BY <1>0, <2>1, <2>2, AskIs DEF Continues, Ends, Arrives, Registers, Early, Turns,
       Finishes, Same
  <2>3. CASE k # j
    BY <1>0, <2>1, <2>3, AskIs DEF Continues, Ends, Arrives, Registers, Early, Turns,
       Finishes, Same
  <2> QED BY <2>2, <2>3
<1>17. CASE \E j \in Jobs : Fail(j)
  <2>1. PICK j \in Jobs : Fail(j)
    BY <1>17
  <2>2. CASE k = j
    BY <1>0, <2>1, <2>2, FailIs DEF Continues, Ends, Arrives, Registers, Early, Turns,
       Same, Wrote
  <2>3. CASE k # j
    BY <1>0, <2>1, <2>3, FailIs DEF Continues, Ends, Arrives, Registers, Early, Turns,
       Same, Wrote
  <2> QED BY <2>2, <2>3
<1>18. CASE \E j \in Jobs : Verify(j)
  <2>1. PICK j \in Jobs : Verify(j)
    BY <1>18
  <2>2. CASE k = j
    BY <1>0, <2>1, <2>2, VerifyIs DEF Continues, Ends, Arrives, Registers, Early, Turns,
       Same, Wrote
  <2>3. CASE k # j
    BY <1>0, <2>1, <2>3, VerifyIs DEF Continues, Ends, Arrives, Registers, Early, Turns,
       Same, Wrote
  <2> QED BY <2>2, <2>3
<1>19. CASE \E j \in Jobs : Complete(j)
  <2>1. PICK j \in Jobs : Complete(j)
    BY <1>19
  <2>2. CASE k = j
    BY <1>0, <2>1, <2>2, CompleteIs DEF Continues, Ends, Arrives, Registers, Early, Turns,
       Same, Wrote
  <2>3. CASE k # j
    BY <1>0, <2>1, <2>3, CompleteIs DEF Continues, Ends, Arrives, Registers, Early, Turns,
       Same, Wrote
  <2> QED BY <2>2, <2>3
<1>20. CASE \E j \in Jobs : Leave(j)
  <2>1. PICK j \in Jobs : Leave(j)
    BY <1>20
  <2>2. CASE k = j
    BY <1>0, <2>1, <2>2, LeaveIs DEF Continues, Ends, Arrives, Registers, Early, Finishes,
       Same
  <2>3. CASE k # j
    BY <1>0, <2>1, <2>3, LeaveIs DEF Continues, Ends, Arrives, Registers, Early, Finishes,
       Same
  <2> QED BY <2>2, <2>3
<1> QED BY <1>1, <1>2, <1>3, <1>4, <1>5, <1>6, <1>7, <1>8, <1>9, <1>10, <1>11, <1>12,
       <1>13, <1>14, <1>15, <1>16, <1>17, <1>18, <1>19, <1>20, QueueCases

\* Only Resume starts a generation.
LEMMA QueueGens ==
  ASSUME HandoverOK, HandoverOK', QueueNext
  PROVE  Rec'.gen = Rec.gen \/ (Rec'.gen = Rec.gen + 1 /\ Rec.status \in Resumable /\ ~Pending)
<1>0. TypeOK /\ RecordsOK
  BY DEF HandoverOK
<1>1. CASE \E g \in Generations : Resume(g)
  <2>1. PICK g \in Generations : Resume(g)
    BY <1>1
  <2> QED BY <1>0, <2>1, ResumeIs DEF Keeps, Wrote
<1>2. CASE \E g \in Generations : Accept(g)
  <2>1. PICK g \in Generations : Accept(g)
    BY <1>2
  <2> QED BY <1>0, <2>1, AcceptIs DEF Keeps, Wrote
<1>3. CASE \E g \in Generations : Cancel(g)
  <2>1. PICK g \in Generations : Cancel(g)
    BY <1>3
  <2> QED BY <1>0, <2>1, CancelIs DEF Keeps, Wrote
<1>4. CASE \E t \in Tokens : Deliver(t)
  <2>1. PICK t \in Tokens : Deliver(t)
    BY <1>4
  <2> QED BY <1>0, <2>1, DeliverIs DEF Keeps
<1>5. CASE \E j \in Jobs : Prepare(j)
  <2>1. PICK j \in Jobs : Prepare(j)
    BY <1>5
  <2> QED BY <1>0, <2>1, PrepareIs DEF Keeps, Wrote
<1>6. CASE \E j \in Jobs : Probe(j)
  <2>1. PICK j \in Jobs : Probe(j)
    BY <1>6
  <2> QED BY <1>0, <2>1, ProbeIs DEF Keeps, Wrote
<1>7. CASE \E j \in Jobs : Choose(j)
  <2>1. PICK j \in Jobs : Choose(j)
    BY <1>7
  <2> QED BY <1>0, <2>1, ChooseIs DEF Keeps, Wrote
<1>8. CASE \E j \in Jobs : Register(j)
  <2>1. PICK j \in Jobs : Register(j)
    BY <1>8
  <2> QED BY <1>0, <2>1, RegisterIs DEF Keeps
<1>9. CASE \E j \in Jobs : GiveUp(j)
  <2>1. PICK j \in Jobs : GiveUp(j)
    BY <1>9
  <2> QED BY <1>0, <2>1, GiveUpIs DEF Keeps
<1>10. CASE \E j \in Jobs : Begin(j)
  <2>1. PICK j \in Jobs : Begin(j)
    BY <1>10
  <2> QED BY <1>0, <2>1, BeginIs DEF Keeps, Wrote
<1>11. CASE \E j \in Jobs : Observe(j)
  <2>1. PICK j \in Jobs : Observe(j)
    BY <1>11
  <2> QED BY <1>0, <2>1, ObserveIs DEF Keeps
<1>12. CASE \E j \in Jobs : Stop(j)
  <2>1. PICK j \in Jobs : Stop(j)
    BY <1>12
  <2> QED BY <1>0, <2>1, StopIs DEF Keeps, Wrote
<1>13. CASE \E j \in Jobs : SetPlan(j)
  <2>1. PICK j \in Jobs : SetPlan(j)
    BY <1>13
  <2> QED BY <1>0, <2>1, SetPlanIs DEF Keeps, Wrote
<1>14. CASE \E j \in Jobs : InspectFails(j)
  <2>1. PICK j \in Jobs : InspectFails(j)
    BY <1>14
  <2> QED BY <1>0, <2>1, InspectFailsIs DEF Keeps, Wrote
<1>15. CASE \E j \in Jobs : Recheck(j)
  <2>1. PICK j \in Jobs : Recheck(j)
    BY <1>15
  <2> QED BY <1>0, <2>1, RecheckIs DEF Keeps, Wrote
<1>16. CASE \E j \in Jobs : Ask(j)
  <2>1. PICK j \in Jobs : Ask(j)
    BY <1>16
  <2> QED BY <1>0, <2>1, AskIs DEF Keeps
<1>17. CASE \E j \in Jobs : Fail(j)
  <2>1. PICK j \in Jobs : Fail(j)
    BY <1>17
  <2> QED BY <1>0, <2>1, FailIs DEF Keeps, Wrote
<1>18. CASE \E j \in Jobs : Verify(j)
  <2>1. PICK j \in Jobs : Verify(j)
    BY <1>18
  <2> QED BY <1>0, <2>1, VerifyIs DEF Keeps, Wrote
<1>19. CASE \E j \in Jobs : Complete(j)
  <2>1. PICK j \in Jobs : Complete(j)
    BY <1>19
  <2> QED BY <1>0, <2>1, CompleteIs DEF Keeps, Wrote
<1>20. CASE \E j \in Jobs : Leave(j)
  <2>1. PICK j \in Jobs : Leave(j)
    BY <1>20
  <2> QED BY <1>0, <2>1, LeaveIs DEF Keeps
<1> QED BY <1>1, <1>2, <1>3, <1>4, <1>5, <1>6, <1>7, <1>8, <1>9, <1>10, <1>11, <1>12,
       <1>13, <1>14, <1>15, <1>16, <1>17, <1>18, <1>19, <1>20, QueueCases

\* A registration is kept, withdrawn, or a job's own.
LEMMA QueueRegs ==
  ASSUME HandoverOK, HandoverOK', QueueNext
  PROVE  reg' = reg \/ reg' = Unregistered \/ \E k \in Jobs : Registers(k)
<1>0. TypeOK /\ RecordsOK
  BY DEF HandoverOK
<1>1. CASE \E g \in Generations : Resume(g)
  <2>1. PICK g \in Generations : Resume(g)
    BY <1>1
  <2> QED BY <1>0, <2>1, ResumeIs DEF Wrote
<1>2. CASE \E g \in Generations : Accept(g)
  <2>1. PICK g \in Generations : Accept(g)
    BY <1>2
  <2> QED BY <1>0, <2>1, AcceptIs DEF Wrote
<1>3. CASE \E g \in Generations : Cancel(g)
  <2>1. PICK g \in Generations : Cancel(g)
    BY <1>3
  <2> QED BY <1>0, <2>1, CancelIs DEF Wrote
<1>4. CASE \E t \in Tokens : Deliver(t)
  <2>1. PICK t \in Tokens : Deliver(t)
    BY <1>4
  <2> QED BY <1>0, <2>1, DeliverIs
<1>5. CASE \E j \in Jobs : Prepare(j)
  <2>1. PICK j \in Jobs : Prepare(j)
    BY <1>5
  <2> QED BY <1>0, <2>1, PrepareIs DEF Wrote
<1>6. CASE \E j \in Jobs : Probe(j)
  <2>1. PICK j \in Jobs : Probe(j)
    BY <1>6
  <2> QED BY <1>0, <2>1, ProbeIs DEF Wrote
<1>7. CASE \E j \in Jobs : Choose(j)
  <2>1. PICK j \in Jobs : Choose(j)
    BY <1>7
  <2> QED BY <1>0, <2>1, ChooseIs DEF Wrote
<1>8. CASE \E j \in Jobs : Register(j)
  <2>1. PICK j \in Jobs : Register(j)
    BY <1>8
  <2> QED BY <1>0, <2>1, RegisterIs DEF Registers, Same, Keeps
<1>9. CASE \E j \in Jobs : GiveUp(j)
  <2>1. PICK j \in Jobs : GiveUp(j)
    BY <1>9
  <2> QED BY <1>0, <2>1, GiveUpIs DEF Withdrawn
<1>10. CASE \E j \in Jobs : Begin(j)
  <2>1. PICK j \in Jobs : Begin(j)
    BY <1>10
  <2> QED BY <1>0, <2>1, BeginIs DEF Wrote
<1>11. CASE \E j \in Jobs : Observe(j)
  <2>1. PICK j \in Jobs : Observe(j)
    BY <1>11
  <2> QED BY <1>0, <2>1, ObserveIs
<1>12. CASE \E j \in Jobs : Stop(j)
  <2>1. PICK j \in Jobs : Stop(j)
    BY <1>12
  <2> QED BY <1>0, <2>1, StopIs DEF Wrote
<1>13. CASE \E j \in Jobs : SetPlan(j)
  <2>1. PICK j \in Jobs : SetPlan(j)
    BY <1>13
  <2> QED BY <1>0, <2>1, SetPlanIs DEF Wrote
<1>14. CASE \E j \in Jobs : InspectFails(j)
  <2>1. PICK j \in Jobs : InspectFails(j)
    BY <1>14
  <2> QED BY <1>0, <2>1, InspectFailsIs DEF Wrote
<1>15. CASE \E j \in Jobs : Recheck(j)
  <2>1. PICK j \in Jobs : Recheck(j)
    BY <1>15
  <2> QED BY <1>0, <2>1, RecheckIs DEF Wrote
<1>16. CASE \E j \in Jobs : Ask(j)
  <2>1. PICK j \in Jobs : Ask(j)
    BY <1>16
  <2> QED BY <1>0, <2>1, AskIs
<1>17. CASE \E j \in Jobs : Fail(j)
  <2>1. PICK j \in Jobs : Fail(j)
    BY <1>17
  <2> QED BY <1>0, <2>1, FailIs DEF Wrote
<1>18. CASE \E j \in Jobs : Verify(j)
  <2>1. PICK j \in Jobs : Verify(j)
    BY <1>18
  <2> QED BY <1>0, <2>1, VerifyIs DEF Wrote
<1>19. CASE \E j \in Jobs : Complete(j)
  <2>1. PICK j \in Jobs : Complete(j)
    BY <1>19
  <2> QED BY <1>0, <2>1, CompleteIs DEF Wrote
<1>20. CASE \E j \in Jobs : Leave(j)
  <2>1. PICK j \in Jobs : Leave(j)
    BY <1>20
  <2> QED BY <1>0, <2>1, LeaveIs DEF Withdrawn
<1> QED BY <1>1, <1>2, <1>3, <1>4, <1>5, <1>6, <1>7, <1>8, <1>9, <1>10, <1>11, <1>12,
       <1>13, <1>14, <1>15, <1>16, <1>17, <1>18, <1>19, <1>20, QueueCases

\* A migration that has not ended leaves a record that may be used, ...
Virgin == ~Pending /\ ~GivenBack

\* ... and what a step that is none of the queue's does to the task.
Quiet   == Keeps /\ UNCHANGED Queues /\ (Virgin' => Virgin)
Begins_ == Begun /\ job.status \in Runnable
Planned == Plans /\ at = "attach" /\ UNCHANGED job
Shifted == Moves /\ UNCHANGED Queues /\ (Copying' => Copying /\ S' = S)
Undone  == Aborts /\ at = "off"
Closed  == Receipts /\ at = "off"
Renewed == Again /\ Keeps /\ GivenBack
Cleared == Clear /\ GivenBack

\* Every step of the migration is one of these.
LEMMA MigrationCases ==
  ASSUME HandoverOK, Next
  PROVE  \/ QueueNext /\ UNCHANGED job
         \/ Quiet \/ Begins_ \/ Planned \/ Shifted \/ Undone \/ Closed \/ Renewed \/ Cleared
         \/ Crash
<1>0. RecordsOK /\ JobOK /\ AtOK /\ TypeOK /\ JobT
  BY TypeParts DEF HandoverOK
<1>a. ASSUME Goes, Keeps, UNCHANGED Queues PROVE Quiet
  BY <1>a DEF Quiet, Goes, Virgin, Pending, Keeps, GivenBack
<1>b. ASSUME UNCHANGED <<store, Queues, job>> PROVE Quiet
  <2>1. Keeps
    BY <1>0, <1>b, KeepsIs
  <2> QED BY <1>b, <2>1 DEF Quiet, Virgin, Keeps, Pending, GivenBack
<1>1. CASE Confirm
  <2>1. Keeps /\ UNCHANGED Queues /\ job.status = "none" /\ ~Pending
    BY <1>1, ConfirmIs
  <2> QED BY <2>1 DEF Quiet, Virgin, GivenBack, Ended
<1>2. CASE Control
  BY <1>2, <1>a, ControlIs
<1>3. CASE PrepareTransfer
  <2>1. CASE Begun
    BY <1>3, <2>1 DEF Begins_, PrepareTransfer
  <2>2. CASE queueSame /\ UNCHANGED job
    BY <2>2, <1>b DEF queueSame, queueVars, Queues
  <2>3. CASE Abandoned /\ queueSame
    BY <1>3, <2>3, <1>a, AbandonedIs DEF PrepareTransfer
  <2> QED BY <1>3, <2>1, <2>2, <2>3 DEF PrepareTransfer
<1>4. CASE WaitForWriter
  BY <1>4, <1>b DEF WaitForWriter, queueSame, queueVars, Queues
<1>5. CASE AttachPlan
  BY <1>5, <1>b DEF AttachPlan, queueSame, queueVars, Queues, Planned, Plans
<1>6. CASE Attach
  <2>1. UNCHANGED <<store, Queues>> /\ job' = [job EXCEPT !.plan = TRUE]
    BY <1>6 DEF Attach, queueSame, queueVars, Queues
  <2>2. job'.status = job.status
    BY <2>1, <1>0 DEF JobT
  <2>3. Keeps
    BY <2>1, <1>0, KeepsIs
  <2> QED BY <2>1, <2>2, <2>3 DEF Quiet, Virgin, Keeps, Pending, GivenBack
<1>7. CASE Step
  BY <1>7, <1>a, StepIs
<1>8. CASE Install
  BY <1>8, InstallIs DEF Shifted, Copying
<1>9. CASE Remove
  BY <1>9, RemoveIs DEF Shifted, Copying
<1>10. CASE AckCommit
  <2>1. UNCHANGED <<store, Queues>> /\ job' = [job EXCEPT !.committed = TRUE, !.awaiting = FALSE]
    BY <1>10 DEF AckCommit, queueSame, queueVars, Queues
  <2>2. job'.status = job.status
    BY <2>1, <1>0 DEF JobT
  <2>3. Keeps
    BY <2>1, <1>0, KeepsIs
  <2> QED BY <2>1, <2>2, <2>3 DEF Quiet, Virgin, Keeps, Pending, GivenBack
<1>11. CASE Finish
  <2>0. at = "off" /\ GivenBack
    BY <1>11, FinishIs
  <2>1. CASE Aborts
    BY <2>0, <2>1 DEF Undone
  <2>2. CASE Acks
    <3>1. UNCHANGED <<store, Queues>> /\ job' = [job EXCEPT !.committed = TRUE, !.awaiting = FALSE]
      BY <2>2 DEF Acks, queueSame, queueVars, Queues
    <3>2. job'.status = job.status
      BY <3>1, <1>0 DEF JobT
    <3>3. Keeps
      BY <3>1, <1>0, KeepsIs
    <3> QED BY <3>1, <3>2, <3>3 DEF Quiet, Virgin, Keeps, Pending, GivenBack
  <2>3. CASE Receipts
    BY <2>0, <2>3 DEF Closed
  <2>4. CASE Finals
    <3>1. UNCHANGED <<store, Queues>> /\ job' = [job EXCEPT !.final = TRUE]
      BY <2>4 DEF Finals, queueSame, queueVars, Queues
    <3>2. job'.status = job.status
      BY <3>1, <1>0 DEF JobT
    <3>3. Keeps
      BY <3>1, <1>0, KeepsIs
    <3> QED BY <3>1, <3>2, <3>3 DEF Quiet, Virgin, Keeps, Pending, GivenBack
  <2>5. CASE Again
    <3>1. Keeps
      BY <1>0, <2>5, KeepsIs DEF Again
    <3> QED BY <2>0, <2>5, <3>1 DEF Renewed
  <2>6. CASE job.final /\ ~Cleaned /\ Cleanup /\ queueSame
    <3>1. Keeps /\ UNCHANGED Queues
      BY <2>6, CleanupIs
    <3>2. T.handover = "receipt" /\ Rec = T
      <4>1. job.committed /\ Has("target") /\ ~Has("source") /\ T.handover = "receipt"
        BY <1>0, <2>6 DEF JobOK, RecordsOK
      <4> QED BY <4>1, <1>0, Alone, HomeIs
    <3>3. ~Virgin'
      BY <3>1, <3>2 DEF Virgin, Pending, Keeps
    <3> QED BY <3>1, <3>3 DEF Quiet
  <2>7. CASE Clear
    BY <2>0, <2>7 DEF Cleared
  <2> QED BY <1>11, <2>1, <2>2, <2>3, <2>4, <2>5, <2>6, <2>7, FinishIs
<1> QED BY <1>1, <1>2, <1>3, <1>4, <1>5, <1>6, <1>7, <1>8, <1>9, <1>10, <1>11 DEF Next,
       Coordinate

\* A job is started, the others are left alone.
LEMMA StartsIs ==
  ASSUME NEW g, Starts("queued", g), Rec'.gen = g, NEW k \in Jobs
  PROVE  Continues(k) \/ (Arrives(k) /\ jobs'[k].pc = "queued")
BY DEF Starts, Same, Continues, Arrives, Early

\* The same of restore_task.
LEMMA RequeuesIs ==
  ASSUME Requeues(Rec.gen), Rec'.gen = Rec.gen, NEW k \in Jobs
  PROVE  Continues(k) \/ (Arrives(k) /\ jobs'[k].pc = "queued")
<1>1. CASE Starts("queued", Rec.gen)
  BY <1>1, StartsIs
<1>2. CASE UNCHANGED jobs
  BY <1>2 DEF Continues
<1> QED BY <1>1, <1>2 DEF Requeues

\* The same of every step; those of a migration start at most one job.
LEMMA MigrationMoves ==
  ASSUME HandoverOK, Next
  PROVE  \/ QueueNext /\ UNCHANGED job
         \/ Crash
         \/ /\ UNCHANGED <<reg, permits>> /\ calls \subseteq calls'
            /\ \/ UNCHANGED jobs
               \/ UNCHANGED calls /\ GivenBack /\ ~Pending' /\ Requeues(Rec.gen)
            /\ Rec'.gen = Rec.gen \/ (Begins_ /\ Rec'.gen = Rec.gen + 1)
<1>1. CASE Quiet
  BY <1>1 DEF Quiet, Keeps, Queues
<1>2. CASE Begins_
  BY <1>2, BegunIs DEF Begins_, Captured
<1>3. CASE Planned
  BY <1>3, PlansIs DEF Planned, Plans
<1>4. CASE Shifted
  BY <1>4 DEF Shifted, Moves, Queues
<1>5. CASE Undone
  BY <1>5, AbortsIs DEF Undone, Pending
<1>6. CASE Closed
  BY <1>6, ReceiptIs DEF Closed, Receipts
<1>7. CASE Renewed
  <2>1. TypeOK /\ RecordsOK /\ JobsT
    BY TypeParts DEF HandoverOK
  <2>2. Rec.gen \in 0 .. MaxGen
    BY <2>1, Alone, HomeIs
  <2>3. Requeues(Rec.gen)
    BY <1>7, <2>1, <2>2, RequeueIs DEF Renewed, Again
  <2> QED BY <1>7, <2>3 DEF Renewed, Again, Keeps, Pending
<1>8. CASE Cleared
  BY <1>8, ClearIs DEF Cleared, Pending
<1> QED BY <1>1, <1>2, <1>3, <1>4, <1>5, <1>6, <1>7, <1>8, MigrationCases

\* What any step does to each job.
LEMMA JobMoves ==
  ASSUME HandoverOK, HandoverOK', Next, NEW k \in Jobs
  PROVE  Continues(k) \/ Ends(k) \/ Arrives(k) \/ Registers(k)
<1>1. CASE QueueNext
  BY <1>1, QueueJobs
<1>2. CASE Crash
  BY <1>2, CrashIs DEF Ends, Idle
<1>3. CASE UNCHANGED jobs
  BY <1>3 DEF Continues
<1>4. CASE Requeues(Rec.gen) /\ Rec'.gen = Rec.gen
  BY <1>4, RequeuesIs
<1>5. CASE Begins_
  BY <1>5, BegunIs DEF Begins_, Continues
<1> QED BY <1>1, <1>2, <1>3, <1>4, <1>5, MigrationMoves

\* Only a resumption, or a handover that pauses the task, starts a generation.
LEMMA GenMoves ==
  ASSUME HandoverOK, HandoverOK', Next
  PROVE  \/ Rec'.gen = Rec.gen
         \/ Rec'.gen = Rec.gen + 1 /\ (Begins_ \/ (Rec.status \in Resumable /\ ~Pending))
BY QueueGens, CrashIs, MigrationMoves

\* What any step does to the registration.
LEMMA RegMoves ==
  ASSUME HandoverOK, HandoverOK', Next
  PROVE  reg' = reg \/ reg' = Unregistered \/ \E k \in Jobs : Registers(k)
BY QueueRegs, CrashIs, MigrationMoves

\* Every step keeps TokensOK.
LEMMA TokensStep ==
  ASSUME HandoverOK, HandoverOK', TokensOK, Next
  PROVE  TokensOK'
<1>1. ASSUME NEW j \in Jobs
      PROVE  /\ jobs'[j].token = NoToken <=> jobs'[j].pc \in {"off"} \cup Early
             /\ jobs'[j].gen = 0 <=> jobs'[j].pc = "off"
             /\ jobs'[j].gen <= Rec'.gen
  <2>1. CASE Continues(j)
    BY <2>1, GenMoves, QueueTyped DEF TokensOK, Continues
  <2>2. CASE Ends(j)
    BY <2>2, QueueTyped DEF Ends
  <2>3. CASE Arrives(j)
    BY <2>3, QueueTyped DEF Arrives, Early
  <2>4. CASE Registers(j)
    <3>1. /\ jobs[j].pc = "queued" /\ jobs'[j].pc = "waiting" /\ jobs'[j].gen = jobs[j].gen
          /\ Rec.gen = jobs[j].gen
          /\ \/ reg.gen = jobs[j].gen /\ jobs'[j].token = reg.token
             \/ jobs'[j].token \in Tokens
      BY <2>4 DEF Registers, Fresh
    <3>2. jobs'[j].token # NoToken
      BY <3>1, QueueAssumption, QueueTyped DEF TokensOK
    <3>3. Rec'.gen >= Rec.gen
      BY GenMoves, QueueTyped
    <3> QED BY <3>1, <3>2, <3>3, QueueTyped DEF TokensOK, Early
  <2> QED BY <2>1, <2>2, <2>3, <2>4, JobMoves
<1>2. (reg'.gen = 0 <=> reg'.token = NoToken) /\ reg'.gen <= Rec'.gen
  <2>1. CASE reg' = reg
    BY <2>1, GenMoves, QueueTyped DEF TokensOK
  <2>2. CASE reg' = Unregistered
    BY <2>2, QueueTyped DEF Unregistered
  <2>3. CASE \E k \in Jobs : Registers(k)
    <3>1. PICK k \in Jobs : Registers(k)
      BY <2>3
    <3>2. /\ reg'.gen = jobs'[k].gen /\ reg'.token = jobs'[k].token /\ jobs'[k].pc = "waiting"
      BY <3>1 DEF Registers
    <3> QED BY <1>1, <3>2 DEF Early
  <2> QED BY <2>1, <2>2, <2>3, RegMoves
<1>3. ASSUME NEW j \in Jobs, jobs'[j].token # NoToken, jobs'[j].token = reg'.token
      PROVE  jobs'[j].gen = reg'.gen
  <2>1. CASE Registers(j)
    BY <2>1 DEF Registers
  <2>2. CASE ~Registers(j)
    <3>1. jobs'[j].gen = jobs[j].gen /\ jobs'[j].token = jobs[j].token
      BY <1>3, <2>2, JobMoves DEF Continues, Ends, Arrives
    <3>2. CASE reg' = reg
      BY <1>3, <3>1, <3>2 DEF TokensOK
    <3>3. CASE reg' = Unregistered
      BY <1>3, <3>3 DEF Unregistered
    <3>4. CASE \E k \in Jobs : Registers(k)
      <4>1. PICK k \in Jobs : Registers(k)
        BY <3>4
      <4>2. jobs[j].token = jobs'[k].token /\ reg'.gen = jobs[k].gen
        BY <1>3, <3>1, <4>1 DEF Registers
      <4>3. jobs'[k].token = reg.token /\ reg.gen = jobs[k].gen
        BY <4>1, <4>2 DEF Registers, Fresh
      <4> QED BY <1>3, <3>1, <4>2, <4>3 DEF TokensOK
    <3> QED BY <3>2, <3>3, <3>4, RegMoves
  <2> QED BY <2>1, <2>2
<1>4. ASSUME NEW j \in Jobs, NEW k \in Jobs, jobs'[j].token # NoToken,
             jobs'[j].token = jobs'[k].token
      PROVE  jobs'[j].gen = jobs'[k].gen
  <2>1. CASE Registers(j) \/ Registers(k)
    BY <2>1, <1>3, <1>4 DEF Registers
  <2>2. CASE ~Registers(j) /\ ~Registers(k)
    <3>1. /\ jobs'[j].gen = jobs[j].gen /\ jobs'[j].token = jobs[j].token
          /\ jobs'[k].gen = jobs[k].gen /\ jobs'[k].token = jobs[k].token
      BY <1>4, <2>2, JobMoves DEF Continues, Ends, Arrives
    <3> QED BY <1>4, <3>1 DEF TokensOK
  <2> QED BY <2>1, <2>2
<1> QED BY <1>1, <1>2, <1>3, <1>4 DEF TokensOK

\* A record that is handed over is not at work, and gives the task back.
PendingOK ==
  Pending =>
    /\ Rec.status \notin {"Running", "Verifying"}
    /\ Rec.handover # "receipt" => Rec.transfer.pause # 0 \/ Rec.transfer.status \notin PRV

\* A generation whose token is registered is past its preparation.
RegOK ==
  reg.gen = Rec.gen => ~Pending /\ Rec.status \notin {"Received", "Preparing", "AwaitingChoice"}

\* A task that is given back is not at work.
LEMMA BackIs ==
  ASSUME PendingOK, Pending, Rec.handover # "receipt", Back
  PROVE  Rec'.status \notin PRV
BY DEF PendingOK, Back, PRV

\* The queue leaves a record that is handed over alone.
LEMMA QueueKept ==
  ASSUME HandoverOK, HandoverOK', QueueNext
  PROVE  /\ Rec'.handover = Rec.handover /\ Rec'.transfer = Rec.transfer
         /\ Pending => Rec'.status = Rec.status /\ Rec'.cancel = Rec.cancel
<1>0. TypeOK /\ RecordsOK
  BY DEF HandoverOK
<1>1. CASE \E g \in Generations : Resume(g)
  <2>1. PICK g \in Generations : Resume(g)
    BY <1>1
  <2> QED BY <1>0, <2>1, ResumeIs DEF Keeps, Wrote, Pending
<1>2. CASE \E g \in Generations : Accept(g)
  <2>1. PICK g \in Generations : Accept(g)
    BY <1>2
  <2> QED BY <1>0, <2>1, AcceptIs DEF Keeps, Wrote, Pending
<1>3. CASE \E g \in Generations : Cancel(g)
  <2>1. PICK g \in Generations : Cancel(g)
    BY <1>3
  <2> QED BY <1>0, <2>1, CancelIs DEF Keeps, Wrote, Pending
<1>4. CASE \E t \in Tokens : Deliver(t)
  <2>1. PICK t \in Tokens : Deliver(t)
    BY <1>4
  <2> QED BY <1>0, <2>1, DeliverIs DEF Keeps, Pending
<1>5. CASE \E j \in Jobs : Prepare(j)
  <2>1. PICK j \in Jobs : Prepare(j)
    BY <1>5
  <2> QED BY <1>0, <2>1, PrepareIs DEF Keeps, Wrote, Pending
<1>6. CASE \E j \in Jobs : Probe(j)
  <2>1. PICK j \in Jobs : Probe(j)
    BY <1>6
  <2> QED BY <1>0, <2>1, ProbeIs DEF Keeps, Wrote, Pending
<1>7. CASE \E j \in Jobs : Choose(j)
  <2>1. PICK j \in Jobs : Choose(j)
    BY <1>7
  <2> QED BY <1>0, <2>1, ChooseIs DEF Keeps, Wrote, Pending
<1>8. CASE \E j \in Jobs : Register(j)
  <2>1. PICK j \in Jobs : Register(j)
    BY <1>8
  <2> QED BY <1>0, <2>1, RegisterIs DEF Keeps, Pending
<1>9. CASE \E j \in Jobs : GiveUp(j)
  <2>1. PICK j \in Jobs : GiveUp(j)
    BY <1>9
  <2> QED BY <1>0, <2>1, GiveUpIs DEF Keeps, Pending
<1>10. CASE \E j \in Jobs : Begin(j)
  <2>1. PICK j \in Jobs : Begin(j)
    BY <1>10
  <2> QED BY <1>0, <2>1, BeginIs DEF Keeps, Wrote, Pending
<1>11. CASE \E j \in Jobs : Observe(j)
  <2>1. PICK j \in Jobs : Observe(j)
    BY <1>11
  <2> QED BY <1>0, <2>1, ObserveIs DEF Keeps, Pending
<1>12. CASE \E j \in Jobs : Stop(j)
  <2>1. PICK j \in Jobs : Stop(j)
    BY <1>12
  <2> QED BY <1>0, <2>1, StopIs DEF Keeps, Wrote, Pending
<1>13. CASE \E j \in Jobs : SetPlan(j)
  <2>1. PICK j \in Jobs : SetPlan(j)
    BY <1>13
  <2> QED BY <1>0, <2>1, SetPlanIs DEF Keeps, Wrote, Pending
<1>14. CASE \E j \in Jobs : InspectFails(j)
  <2>1. PICK j \in Jobs : InspectFails(j)
    BY <1>14
  <2> QED BY <1>0, <2>1, InspectFailsIs DEF Keeps, Wrote, Pending
<1>15. CASE \E j \in Jobs : Recheck(j)
  <2>1. PICK j \in Jobs : Recheck(j)
    BY <1>15
  <2> QED BY <1>0, <2>1, RecheckIs DEF Keeps, Wrote, Pending
<1>16. CASE \E j \in Jobs : Ask(j)
  <2>1. PICK j \in Jobs : Ask(j)
    BY <1>16
  <2> QED BY <1>0, <2>1, AskIs DEF Keeps, Pending
<1>17. CASE \E j \in Jobs : Fail(j)
  <2>1. PICK j \in Jobs : Fail(j)
    BY <1>17
  <2> QED BY <1>0, <2>1, FailIs DEF Keeps, Wrote, Pending
<1>18. CASE \E j \in Jobs : Verify(j)
  <2>1. PICK j \in Jobs : Verify(j)
    BY <1>18
  <2> QED BY <1>0, <2>1, VerifyIs DEF Keeps, Wrote, Pending
<1>19. CASE \E j \in Jobs : Complete(j)
  <2>1. PICK j \in Jobs : Complete(j)
    BY <1>19
  <2> QED BY <1>0, <2>1, CompleteIs DEF Keeps, Wrote, Pending
<1>20. CASE \E j \in Jobs : Leave(j)
  <2>1. PICK j \in Jobs : Leave(j)
    BY <1>20
  <2> QED BY <1>0, <2>1, LeaveIs DEF Keeps, Pending
<1> QED BY <1>1, <1>2, <1>3, <1>4, <1>5, <1>6, <1>7, <1>8, <1>9, <1>10, <1>11, <1>12,
       <1>13, <1>14, <1>15, <1>16, <1>17, <1>18, <1>19, <1>20, QueueCases

\* The operations of the queue keep RegOK.
LEMMA RegQueue ==
  ASSUME HandoverOK, HandoverOK', TokensOK, RegOK, QueueNext
  PROVE  RegOK'
<1>0. TypeOK /\ RecordsOK
  BY DEF HandoverOK
<1>1. CASE \E g \in Generations : Resume(g)
  <2>1. PICK g \in Generations : Resume(g)
    BY <1>1
  <2>2. Rec'.gen = Rec.gen + 1 /\ reg' = reg
    BY <1>0, <2>1, ResumeIs DEF Wrote
  <2>3. reg'.gen # Rec'.gen
    BY <2>2, QueueTyped DEF TokensOK
  <2> QED BY <2>3 DEF RegOK
<1>2. CASE \E g \in Generations : Accept(g)
  <2>1. PICK g \in Generations : Accept(g)
    BY <1>2
  <2>2. reg' = Unregistered \/ reg' = reg
    BY <1>0, <2>1, AcceptIs DEF Withdrawn
  <2>6. Rec'.gen = g /\ reg' = (IF reg.gen = g THEN Unregistered ELSE reg)
    BY <1>0, <2>1, AcceptIs DEF Wrote
  <2>3. reg'.gen # Rec'.gen
    BY <2>6 DEF Unregistered, Generations
  <2>4. CASE reg' = Unregistered
    BY <2>4, QueueTyped DEF RegOK, Unregistered
  <2>5. CASE reg' = reg
    BY <2>3 DEF RegOK
  <2> QED BY <2>2, <2>4, <2>5
<1>3. CASE \E g \in Generations : Cancel(g)
  <2>1. PICK g \in Generations : Cancel(g)
    BY <1>3
  <2> QED BY <1>0, <2>1, CancelIs, QueueTyped DEF Keeps, Wrote, RegOK, Pending, Unfinished
<1>4. CASE \E t \in Tokens : Deliver(t)
  <2>1. PICK t \in Tokens : Deliver(t)
    BY <1>4
  <2> QED BY <1>0, <2>1, DeliverIs, QueueTyped DEF Keeps, RegOK, Pending
<1>5. CASE \E j \in Jobs : Prepare(j)
  <2>1. PICK j \in Jobs : Prepare(j)
    BY <1>5
  <2> QED BY <1>0, <2>1, PrepareIs, QueueTyped DEF Keeps, Wrote, RegOK, Pending
<1>6. CASE \E j \in Jobs : Probe(j)
  <2>1. PICK j \in Jobs : Probe(j)
    BY <1>6
  <2> QED BY <1>0, <2>1, ProbeIs, QueueTyped DEF Keeps, Wrote, RegOK, Pending
<1>7. CASE \E j \in Jobs : Choose(j)
  <2>1. PICK j \in Jobs : Choose(j)
    BY <1>7
  <2> QED BY <1>0, <2>1, ChooseIs, QueueTyped DEF Keeps, Wrote, RegOK, Pending
<1>8. CASE \E j \in Jobs : Register(j)
  <2>1. PICK j \in Jobs : Register(j)
    BY <1>8
  <2> QED BY <1>0, <2>1, RegisterIs, QueueTyped DEF Keeps, RegOK, Pending
<1>9. CASE \E j \in Jobs : GiveUp(j)
  <2>1. PICK j \in Jobs : GiveUp(j)
    BY <1>9
  <2> QED BY <1>0, <2>1, GiveUpIs, QueueTyped DEF Keeps, Withdrawn, Unregistered, RegOK,
         Pending
<1>10. CASE \E j \in Jobs : Begin(j)
  <2>1. PICK j \in Jobs : Begin(j)
    BY <1>10
  <2> QED BY <1>0, <2>1, BeginIs, QueueTyped DEF Keeps, Wrote, RegOK, Pending
<1>11. CASE \E j \in Jobs : Observe(j)
  <2>1. PICK j \in Jobs : Observe(j)
    BY <1>11
  <2> QED BY <1>0, <2>1, ObserveIs, QueueTyped DEF Keeps, RegOK, Pending
<1>12. CASE \E j \in Jobs : Stop(j)
  <2>1. PICK j \in Jobs : Stop(j)
    BY <1>12
  <2> QED BY <1>0, <2>1, StopIs, QueueTyped DEF Keeps, Wrote, RegOK, Pending
<1>13. CASE \E j \in Jobs : SetPlan(j)
  <2>1. PICK j \in Jobs : SetPlan(j)
    BY <1>13
  <2> QED BY <1>0, <2>1, SetPlanIs, QueueTyped DEF Keeps, Wrote, RegOK, Pending
<1>14. CASE \E j \in Jobs : InspectFails(j)
  <2>1. PICK j \in Jobs : InspectFails(j)
    BY <1>14
  <2> QED BY <1>0, <2>1, InspectFailsIs, QueueTyped DEF Keeps, Wrote, RegOK, Pending
<1>15. CASE \E j \in Jobs : Recheck(j)
  <2>1. PICK j \in Jobs : Recheck(j)
    BY <1>15
  <2> QED BY <1>0, <2>1, RecheckIs, QueueTyped DEF Keeps, Wrote, RegOK, Pending
<1>16. CASE \E j \in Jobs : Ask(j)
  <2>1. PICK j \in Jobs : Ask(j)
    BY <1>16
  <2> QED BY <1>0, <2>1, AskIs, QueueTyped DEF Keeps, RegOK, Pending
<1>17. CASE \E j \in Jobs : Fail(j)
  <2>1. PICK j \in Jobs : Fail(j)
    BY <1>17
  <2> QED BY <1>0, <2>1, FailIs, QueueTyped DEF Keeps, Wrote, RegOK, Pending, Unfinished
<1>18. CASE \E j \in Jobs : Verify(j)
  <2>1. PICK j \in Jobs : Verify(j)
    BY <1>18
  <2> QED BY <1>0, <2>1, VerifyIs, QueueTyped DEF Keeps, Wrote, RegOK, Pending
<1>19. CASE \E j \in Jobs : Complete(j)
  <2>1. PICK j \in Jobs : Complete(j)
    BY <1>19
  <2> QED BY <1>0, <2>1, CompleteIs, QueueTyped DEF Keeps, Wrote, RegOK, Pending
<1>20. CASE \E j \in Jobs : Leave(j)
  <2>1. PICK j \in Jobs : Leave(j)
    BY <1>20
  <2>2. reg' = Unregistered \/ reg' = reg
    BY <1>0, <2>1, LeaveIs DEF Withdrawn
  <2>3. Rec' = Rec
    BY <1>0, <2>1, LeaveIs DEF Keeps
  <2>4. CASE reg' = Unregistered
    BY <2>4, QueueTyped DEF RegOK, Unregistered
  <2>5. CASE reg' = reg
    BY <2>3, <2>5 DEF RegOK, Pending
  <2> QED BY <2>2, <2>4, <2>5
<1> QED BY <1>1, <1>2, <1>3, <1>4, <1>5, <1>6, <1>7, <1>8, <1>9, <1>10, <1>11, <1>12,
       <1>13, <1>14, <1>15, <1>16, <1>17, <1>18, <1>19, <1>20, QueueCases

\* Every step keeps PendingOK.
LEMMA PendingStep ==
  ASSUME HandoverOK, HandoverOK', PendingOK, Next
  PROVE  PendingOK'
<1>0. TypeOK /\ RecordsOK
  BY DEF HandoverOK
<1>1. CASE QueueNext
  <2>1. /\ Rec'.handover = Rec.handover /\ Rec'.transfer = Rec.transfer
        /\ Pending => Rec'.status = Rec.status
    BY <1>0, <1>1, QueueKept
  <2> QED BY <2>1 DEF PendingOK, Pending
<1>2. CASE Quiet \/ Renewed
  BY <1>2 DEF Quiet, Renewed, Keeps, PendingOK, Pending
<1>3. CASE Begins_
  BY <1>3, BegunIs, QueueTyped DEF Begins_, PendingOK, PRV, Pending, Statuses, Unfinished
<1>4. CASE Planned
  BY <1>4, PlansIs DEF Planned, PendingOK, Pending
<1>5. CASE Shifted
  BY <1>5 DEF Shifted, Moves, PendingOK, Pending
<1>6. CASE Undone
  BY <1>6, AbortsIs DEF Undone, PendingOK, Pending
<1>7. CASE Closed
  <2>1. Back /\ Rec'.handover = "receipt" /\ Rec.handover = "installed"
    BY <1>7, ReceiptIs DEF Closed, Receipts
  <2> QED BY <2>1, BackIs DEF PendingOK, Pending, PRV
<1>8. CASE Cleared
  BY <1>8, ClearIs DEF Cleared, PendingOK, Pending
<1>9. CASE Crash
  BY <1>9, CrashIs DEF PendingOK
<1> QED BY <1>1, <1>2, <1>3, <1>4, <1>5, <1>6, <1>7, <1>8, <1>9, MigrationCases

\* Every step keeps RegOK.
LEMMA RegStep ==
  ASSUME HandoverOK, HandoverOK', TokensOK, PendingOK, RegOK, Next
  PROVE  RegOK'
<1>0. TypeOK /\ RecordsOK
  BY DEF HandoverOK
<1>1. CASE QueueNext
  BY <1>1, RegQueue
<1>2. CASE Quiet \/ Renewed
  BY <1>2 DEF Quiet, Renewed, Again, Queues, Keeps, RegOK, Pending
<1>3. CASE Begins_
  BY <1>3, BegunIs, QueueTyped DEF Begins_, RegOK, TokensOK
<1>4. CASE Planned
  BY <1>4, PlansIs DEF Planned, Plans, RegOK, Pending
<1>5. CASE Shifted
  BY <1>5 DEF Shifted, Moves, Queues, RegOK, Pending
<1>6. CASE Undone
  BY <1>6, AbortsIs DEF Undone, RegOK, Pending
<1>7. CASE Closed
  BY <1>7, ReceiptIs DEF Closed, Receipts, RegOK, Pending
<1>8. CASE Cleared
  BY <1>8, ClearIs DEF Cleared, RegOK, Pending
<1>9. CASE Crash
  BY <1>9, CrashIs, QueueTyped DEF RegOK, Unregistered
<1> QED BY <1>1, <1>2, <1>3, <1>4, <1>5, <1>6, <1>7, <1>8, <1>9, MigrationCases

-----------------------------------------------------------------------------
(* At most one job is at work.                                              *)

\* Of the task's generation at most one job is at work.
WorkingOK ==
  /\ \A j, k \in Working : j = k
  /\ Working # {} => ~Pending /\ Rec.status \in {"Running", "Verifying", "Cancelled"}
  /\ \A j \in Working : jobs[j].pc = "verifying" => Rec.status = "Verifying"
  /\ Rec.status = "Verifying" => \E j \in Working : jobs[j].pc = "verifying"

\* A job that waits starts to run.
Opens(k) == /\ jobs[k].pc = "waiting" /\ jobs'[k].pc = "inspecting" /\ Same(k)
            /\ jobs'[k].gen = jobs[k].gen /\ jobs'[k].token = jobs[k].token
            /\ Rec.gen = jobs[k].gen /\ Rec.status = "Queued"
            /\ Wrote("Running", Rec.gen, FALSE) /\ UNCHANGED <<reg, permits, calls>>

AtW(k) == jobs[k].gen = Rec.gen /\ jobs[k].pc \in AtWork

\* The jobs of Working.
LEMMA AtWIs ==
  /\ \A k \in Jobs : k \in Working <=> AtW(k)
  /\ \A k : k \in Working => k \in Jobs
BY DEF Working, AtW

\* The same after a step.
LEMMA AtWNext ==
  /\ \A k \in Jobs : k \in Working' <=> AtW(k)'
  /\ \A k : k \in Working' => k \in Jobs
BY DEF Working, AtW

\* A job at work was at work, or has just been started.
LEMMA QueueOpens ==
  ASSUME HandoverOK, HandoverOK', NEW k \in Jobs, QueueNext
  PROVE  jobs'[k].pc \in AtWork \cup Writers =>
           \/ /\ jobs[k].pc \in AtWork /\ (jobs'[k].pc \in Writers => jobs[k].pc \in Writers)
              /\ jobs'[k].gen = jobs[k].gen /\ jobs'[k].token = jobs[k].token
           \/ Opens(k)
<1>0. TypeOK /\ RecordsOK
  BY DEF HandoverOK
<1>1. CASE \E g \in Generations : Resume(g)
  <2>1. PICK g \in Generations : Resume(g)
    BY <1>1
  <2> QED BY <1>0, <2>1, ResumeIs DEF Opens, Writers, Inside, AtWork, Starts, Same
<1>2. CASE \E g \in Generations : Accept(g)
  <2>1. PICK g \in Generations : Accept(g)
    BY <1>2
  <2> QED BY <1>0, <2>1, AcceptIs DEF Opens, Writers, Inside, AtWork, Starts, Same
<1>3. CASE \E g \in Generations : Cancel(g)
  <2>1. PICK g \in Generations : Cancel(g)
    BY <1>3
  <2> QED BY <1>0, <2>1, CancelIs DEF Opens, Writers, Inside, AtWork, Same
<1>4. CASE \E t \in Tokens : Deliver(t)
  <2>1. PICK t \in Tokens : Deliver(t)
    BY <1>4
  <2> QED BY <1>0, <2>1, DeliverIs DEF Opens, Writers, Inside, AtWork, Same
<1>5. CASE \E j \in Jobs : Prepare(j)
  <2>1. PICK j \in Jobs : Prepare(j)
    BY <1>5
  <2>2. CASE k = j
    BY <1>0, <2>1, <2>2, PrepareIs DEF Opens, Writers, Inside, AtWork, Turns, Finishes, Same
  <2>3. CASE k # j
    BY <1>0, <2>1, <2>3, PrepareIs DEF Opens, Writers, Inside, AtWork, Turns, Finishes, Same
  <2> QED BY <2>2, <2>3
<1>6. CASE \E j \in Jobs : Probe(j)
  <2>1. PICK j \in Jobs : Probe(j)
    BY <1>6
  <2>2. CASE k = j
    BY <1>0, <2>1, <2>2, ProbeIs DEF Opens, Writers, Inside, AtWork, Turns, Finishes, Same
  <2>3. CASE k # j
    BY <1>0, <2>1, <2>3, ProbeIs DEF Opens, Writers, Inside, AtWork, Turns, Finishes, Same
  <2> QED BY <2>2, <2>3
<1>7. CASE \E j \in Jobs : Choose(j)
  <2>1. PICK j \in Jobs : Choose(j)
    BY <1>7
  <2>2. CASE k = j
    BY <1>0, <2>1, <2>2, ChooseIs DEF Opens, Writers, Inside, AtWork, Turns, Finishes, Same
  <2>3. CASE k # j
    BY <1>0, <2>1, <2>3, ChooseIs DEF Opens, Writers, Inside, AtWork, Turns, Finishes, Same
  <2> QED BY <2>2, <2>3
<1>8. CASE \E j \in Jobs : Register(j)
  <2>1. PICK j \in Jobs : Register(j)
    BY <1>8
  <2>2. CASE k = j
    BY <1>0, <2>1, <2>2, RegisterIs DEF Opens, Writers, Inside, AtWork, Finishes, Same
  <2>3. CASE k # j
    BY <1>0, <2>1, <2>3, RegisterIs DEF Opens, Writers, Inside, AtWork, Finishes, Same
  <2> QED BY <2>2, <2>3
<1>9. CASE \E j \in Jobs : GiveUp(j)
  <2>1. PICK j \in Jobs : GiveUp(j)
    BY <1>9
  <2>2. CASE k = j
    BY <1>0, <2>1, <2>2, GiveUpIs DEF Opens, Writers, Inside, AtWork, Finishes, Same
  <2>3. CASE k # j
    BY <1>0, <2>1, <2>3, GiveUpIs DEF Opens, Writers, Inside, AtWork, Finishes, Same
  <2> QED BY <2>2, <2>3
<1>10. CASE \E j \in Jobs : Begin(j)
  <2>1. PICK j \in Jobs : Begin(j)
    BY <1>10
  <2>2. CASE k = j
    BY <1>0, <2>1, <2>2, BeginIs DEF Opens, Writers, Inside, AtWork, Turns, Same, Wrote
  <2>3. CASE k # j
    BY <1>0, <2>1, <2>3, BeginIs DEF Opens, Writers, Inside, AtWork, Turns, Same, Wrote
  <2> QED BY <2>2, <2>3
<1>11. CASE \E j \in Jobs : Observe(j)
  <2>1. PICK j \in Jobs : Observe(j)
    BY <1>11
  <2>2. CASE k = j
    BY <1>0, <2>1, <2>2, ObserveIs DEF Opens, Writers, Inside, AtWork, Turns, Same
  <2>3. CASE k # j
    BY <1>0, <2>1, <2>3, ObserveIs DEF Opens, Writers, Inside, AtWork, Turns, Same
  <2> QED BY <2>2, <2>3
<1>12. CASE \E j \in Jobs : Stop(j)
  <2>1. PICK j \in Jobs : Stop(j)
    BY <1>12
  <2>2. CASE k = j
    BY <1>0, <2>1, <2>2, StopIs DEF Opens, Writers, Inside, AtWork, Turns, Same
  <2>3. CASE k # j
    BY <1>0, <2>1, <2>3, StopIs DEF Opens, Writers, Inside, AtWork, Turns, Same
  <2> QED BY <2>2, <2>3
<1>13. CASE \E j \in Jobs : SetPlan(j)
  <2>1. PICK j \in Jobs : SetPlan(j)
    BY <1>13
  <2>2. CASE k = j
    BY <1>0, <2>1, <2>2, SetPlanIs DEF Opens, Writers, Inside, AtWork, Turns, Same
  <2>3. CASE k # j
    BY <1>0, <2>1, <2>3, SetPlanIs DEF Opens, Writers, Inside, AtWork, Turns, Same
  <2> QED BY <2>2, <2>3
<1>14. CASE \E j \in Jobs : InspectFails(j)
  <2>1. PICK j \in Jobs : InspectFails(j)
    BY <1>14
  <2>2. CASE k = j
    BY <1>0, <2>1, <2>2, InspectFailsIs DEF Opens, Writers, Inside, AtWork, Turns, Same
  <2>3. CASE k # j
    BY <1>0, <2>1, <2>3, InspectFailsIs DEF Opens, Writers, Inside, AtWork, Turns, Same
  <2> QED BY <2>2, <2>3
<1>15. CASE \E j \in Jobs : Recheck(j)
  <2>1. PICK j \in Jobs : Recheck(j)
    BY <1>15
  <2>2. CASE k = j
    BY <1>0, <2>1, <2>2, RecheckIs DEF Opens, Writers, Inside, AtWork, Turns, Same
  <2>3. CASE k # j
    BY <1>0, <2>1, <2>3, RecheckIs DEF Opens, Writers, Inside, AtWork, Turns, Same
  <2> QED BY <2>2, <2>3
<1>16. CASE \E j \in Jobs : Ask(j)
  <2>1. PICK j \in Jobs : Ask(j)
    BY <1>16
  <2>2. CASE k = j
    BY <1>0, <2>1, <2>2, AskIs DEF Opens, Writers, Inside, AtWork, Turns, Finishes, Same
  <2>3. CASE k # j
    BY <1>0, <2>1, <2>3, AskIs DEF Opens, Writers, Inside, AtWork, Turns, Finishes, Same
  <2> QED BY <2>2, <2>3
<1>17. CASE \E j \in Jobs : Fail(j)
  <2>1. PICK j \in Jobs : Fail(j)
    BY <1>17
  <2>2. CASE k = j
    BY <1>0, <2>1, <2>2, FailIs DEF Opens, Writers, Inside, AtWork, Turns, Same
  <2>3. CASE k # j
    BY <1>0, <2>1, <2>3, FailIs DEF Opens, Writers, Inside, AtWork, Turns, Same
  <2> QED BY <2>2, <2>3
<1>18. CASE \E j \in Jobs : Verify(j)
  <2>1. PICK j \in Jobs : Verify(j)
    BY <1>18
  <2>2. CASE k = j
    BY <1>0, <2>1, <2>2, VerifyIs DEF Opens, Writers, Inside, AtWork, Turns, Same
  <2>3. CASE k # j
    BY <1>0, <2>1, <2>3, VerifyIs DEF Opens, Writers, Inside, AtWork, Turns, Same
  <2> QED BY <2>2, <2>3
<1>19. CASE \E j \in Jobs : Complete(j)
  <2>1. PICK j \in Jobs : Complete(j)
    BY <1>19
  <2>2. CASE k = j
    BY <1>0, <2>1, <2>2, CompleteIs DEF Opens, Writers, Inside, AtWork, Turns, Same
  <2>3. CASE k # j
    BY <1>0, <2>1, <2>3, CompleteIs DEF Opens, Writers, Inside, AtWork, Turns, Same
  <2> QED BY <2>2, <2>3
<1>20. CASE \E j \in Jobs : Leave(j)
  <2>1. PICK j \in Jobs : Leave(j)
    BY <1>20
  <2>2. CASE k = j
    BY <1>0, <2>1, <2>2, LeaveIs DEF Opens, Writers, Inside, AtWork, Finishes, Same
  <2>3. CASE k # j
    BY <1>0, <2>1, <2>3, LeaveIs DEF Opens, Writers, Inside, AtWork, Finishes, Same
  <2> QED BY <2>2, <2>3
<1> QED BY <1>1, <1>2, <1>3, <1>4, <1>5, <1>6, <1>7, <1>8, <1>9, <1>10, <1>11, <1>12,
       <1>13, <1>14, <1>15, <1>16, <1>17, <1>18, <1>19, <1>20, QueueCases

\* What WorkingOK says of one job.
LEMMA WorkingIs ==
  ASSUME WorkingOK, NEW k \in Jobs, AtW(k)
  PROVE  /\ ~Pending /\ Rec.status \in {"Running", "Verifying", "Cancelled"}
         /\ jobs[k].pc = "verifying" <=> Rec.status = "Verifying"
         /\ \A j \in Jobs : AtW(j) => j = k
<1>1. k \in Working
  BY AtWIs
<1>2. \A j \in Jobs : AtW(j) => j = k
  BY <1>1, AtWIs DEF WorkingOK
<1>3. ~Pending /\ Rec.status \in {"Running", "Verifying", "Cancelled"}
  BY <1>1 DEF WorkingOK
<1>4. jobs[k].pc = "verifying" => Rec.status = "Verifying"
  BY <1>1 DEF WorkingOK
<1>5. ASSUME Rec.status = "Verifying" PROVE jobs[k].pc = "verifying"
  <2>1. PICK j \in Working : jobs[j].pc = "verifying"
    BY <1>5 DEF WorkingOK
  <2> QED BY <2>1, <1>1 DEF WorkingOK
<1> QED BY <1>2, <1>3, <1>4, <1>5

\* A job that stays at work keeps the status it fits.
LEMMA QueueWork ==
  ASSUME HandoverOK, HandoverOK', NEW k \in Jobs, TokensOK, WorkingOK, QueueNext
  PROVE  AtW(k) /\ AtW(k)' =>
           /\ ~Pending' /\ Rec'.status \in {"Running", "Verifying", "Cancelled"}
           /\ jobs'[k].pc = "verifying" => Rec'.status = "Verifying"
<1>0. TypeOK /\ RecordsOK
  BY DEF HandoverOK
<1>1. CASE \E g \in Generations : Resume(g)
  <2>1. PICK g \in Generations : Resume(g)
    BY <1>1
  <2> QED BY <1>0, <2>1, ResumeIs, QueueTyped, WorkingIs DEF Starts, Same, Wrote, Keeps,
         Pending, AtW, AtWork, Inside, Resumable, Unfinished, TokensOK
<1>2. CASE \E g \in Generations : Accept(g)
  <2>1. PICK g \in Generations : Accept(g)
    BY <1>2
  <2> QED BY <1>0, <2>1, AcceptIs, QueueTyped, WorkingIs DEF Starts, Same, Wrote, Keeps,
         Pending, AtW, AtWork, Inside, Resumable, Unfinished, TokensOK
<1>3. CASE \E g \in Generations : Cancel(g)
  <2>1. PICK g \in Generations : Cancel(g)
    BY <1>3
  <2> QED BY <1>0, <2>1, CancelIs, QueueTyped, WorkingIs DEF Same, Wrote, Keeps, Pending,
         AtW, AtWork, Inside, Resumable, Unfinished, TokensOK
<1>4. CASE \E t \in Tokens : Deliver(t)
  <2>1. PICK t \in Tokens : Deliver(t)
    BY <1>4
  <2> QED BY <1>0, <2>1, DeliverIs, QueueTyped, WorkingIs DEF Same, Keeps, Pending, AtW,
         AtWork, Inside, Resumable, Unfinished, TokensOK
<1>5. CASE \E j \in Jobs : Prepare(j)
  <2>1. PICK j \in Jobs : Prepare(j)
    BY <1>5
  <2>2. CASE k = j
    BY <1>0, <2>1, <2>2, PrepareIs, QueueTyped, WorkingIs DEF Turns, Finishes, Same,
       Wrote, Keeps, Pending, AtW, AtWork, Inside, Resumable, Unfinished, TokensOK
  <2>3. CASE k # j
    BY <1>0, <2>1, <2>3, PrepareIs, QueueTyped, WorkingIs DEF Turns, Finishes, Same,
       Wrote, Keeps, Pending, AtW, AtWork, Inside, Resumable, Unfinished, TokensOK
  <2> QED BY <2>2, <2>3
<1>6. CASE \E j \in Jobs : Probe(j)
  <2>1. PICK j \in Jobs : Probe(j)
    BY <1>6
  <2>2. CASE k = j
    BY <1>0, <2>1, <2>2, ProbeIs, QueueTyped, WorkingIs DEF Turns, Finishes, Same, Wrote,
       Keeps, Pending, AtW, AtWork, Inside, Resumable, Unfinished, TokensOK
  <2>3. CASE k # j
    BY <1>0, <2>1, <2>3, ProbeIs, QueueTyped, WorkingIs DEF Turns, Finishes, Same, Wrote,
       Keeps, Pending, AtW, AtWork, Inside, Resumable, Unfinished, TokensOK
  <2> QED BY <2>2, <2>3
<1>7. CASE \E j \in Jobs : Choose(j)
  <2>1. PICK j \in Jobs : Choose(j)
    BY <1>7
  <2>2. CASE k = j
    BY <1>0, <2>1, <2>2, ChooseIs, QueueTyped, WorkingIs DEF Turns, Finishes, Same, Wrote,
       Keeps, Pending, AtW, AtWork, Inside, Resumable, Unfinished, TokensOK
  <2>3. CASE k # j
    BY <1>0, <2>1, <2>3, ChooseIs, QueueTyped, WorkingIs DEF Turns, Finishes, Same, Wrote,
       Keeps, Pending, AtW, AtWork, Inside, Resumable, Unfinished, TokensOK
  <2> QED BY <2>2, <2>3
<1>8. CASE \E j \in Jobs : Register(j)
  <2>1. PICK j \in Jobs : Register(j)
    BY <1>8
  <2>2. CASE k = j
    BY <1>0, <2>1, <2>2, RegisterIs, QueueTyped, WorkingIs DEF Finishes, Same, Keeps,
       Pending, AtW, AtWork, Inside, Resumable, Unfinished, TokensOK
  <2>3. CASE k # j
    BY <1>0, <2>1, <2>3, RegisterIs, QueueTyped, WorkingIs DEF Finishes, Same, Keeps,
       Pending, AtW, AtWork, Inside, Resumable, Unfinished, TokensOK
  <2> QED BY <2>2, <2>3
<1>9. CASE \E j \in Jobs : GiveUp(j)
  <2>1. PICK j \in Jobs : GiveUp(j)
    BY <1>9
  <2>2. CASE k = j
    BY <1>0, <2>1, <2>2, GiveUpIs, QueueTyped, WorkingIs DEF Finishes, Same, Keeps,
       Pending, AtW, AtWork, Inside, Resumable, Unfinished, TokensOK
  <2>3. CASE k # j
    BY <1>0, <2>1, <2>3, GiveUpIs, QueueTyped, WorkingIs DEF Finishes, Same, Keeps,
       Pending, AtW, AtWork, Inside, Resumable, Unfinished, TokensOK
  <2> QED BY <2>2, <2>3
<1>10. CASE \E j \in Jobs : Begin(j)
  <2>1. PICK j \in Jobs : Begin(j)
    BY <1>10
  <2>2. CASE k = j
    BY <1>0, <2>1, <2>2, BeginIs, QueueTyped, WorkingIs DEF Turns, Same, Wrote, Keeps,
       Pending, AtW, AtWork, Inside, Resumable, Unfinished, TokensOK
  <2>3. CASE k # j
    BY <1>0, <2>1, <2>3, BeginIs, QueueTyped, WorkingIs DEF Turns, Same, Wrote, Keeps,
       Pending, AtW, AtWork, Inside, Resumable, Unfinished, TokensOK
  <2> QED BY <2>2, <2>3
<1>11. CASE \E j \in Jobs : Observe(j)
  <2>1. PICK j \in Jobs : Observe(j)
    BY <1>11
  <2>2. CASE k = j
    BY <1>0, <2>1, <2>2, ObserveIs, QueueTyped, WorkingIs DEF Turns, Same, Keeps, Pending,
       AtW, AtWork, Inside, Resumable, Unfinished, TokensOK
  <2>3. CASE k # j
    BY <1>0, <2>1, <2>3, ObserveIs, QueueTyped, WorkingIs DEF Turns, Same, Keeps, Pending,
       AtW, AtWork, Inside, Resumable, Unfinished, TokensOK
  <2> QED BY <2>2, <2>3
<1>12. CASE \E j \in Jobs : Stop(j)
  <2>1. PICK j \in Jobs : Stop(j)
    BY <1>12
  <2>2. CASE k = j
    BY <1>0, <2>1, <2>2, StopIs, QueueTyped, WorkingIs DEF Turns, Same, Wrote, Keeps,
       Pending, AtW, AtWork, Inside, Unfinished
  <2>3. CASE k # j
    <3>1. ASSUME AtW(k) PROVE Rec' = Rec
      <4>1. ~AtW(j) /\ Rec.status \in {"Running", "Verifying", "Cancelled"}
        BY <2>3, <3>1, WorkingIs
      <4>2. jobs[j].gen # Rec.gen
        BY <1>0, <2>1, <4>1, StopIs DEF AtW, AtWork, Inside
      <4> QED BY <1>0, <2>1, <4>1, <4>2, StopIs, CancellableIs DEF Keeps
    <3> QED BY <1>0, <2>1, <2>3, <3>1, StopIs, WorkingIs DEF Turns, Same, AtW, Pending
  <2> QED BY <2>2, <2>3
<1>13. CASE \E j \in Jobs : SetPlan(j)
  <2>1. PICK j \in Jobs : SetPlan(j)
    BY <1>13
  <2>2. CASE k = j
    BY <1>0, <2>1, <2>2, SetPlanIs, QueueTyped, WorkingIs DEF Turns, Same, Wrote, Keeps,
       Pending, AtW, AtWork, Inside, Resumable, Unfinished, TokensOK
  <2>3. CASE k # j
    BY <1>0, <2>1, <2>3, SetPlanIs, QueueTyped, WorkingIs DEF Turns, Same, Wrote, Keeps,
       Pending, AtW, AtWork, Inside, Resumable, Unfinished, TokensOK
  <2> QED BY <2>2, <2>3
<1>14. CASE \E j \in Jobs : InspectFails(j)
  <2>1. PICK j \in Jobs : InspectFails(j)
    BY <1>14
  <2>2. CASE k = j
    BY <1>0, <2>1, <2>2, InspectFailsIs, QueueTyped, WorkingIs DEF Turns, Same, Wrote,
       Keeps, Pending, AtW, AtWork, Inside, Unfinished
  <2>3. CASE k # j
    <3>1. ASSUME AtW(k) PROVE Rec' = Rec
      <4>1. ~AtW(j) /\ Rec.status \in {"Running", "Verifying", "Cancelled"}
        BY <2>3, <3>1, WorkingIs
      <4>2. jobs[j].gen # Rec.gen
        BY <1>0, <2>1, <4>1, InspectFailsIs DEF AtW, AtWork, Inside
      <4> QED BY <1>0, <2>1, <4>1, <4>2, InspectFailsIs, CancellableIs DEF Keeps
    <3> QED BY <1>0, <2>1, <2>3, <3>1, InspectFailsIs, WorkingIs DEF Turns, Same, AtW,
           Pending
  <2> QED BY <2>2, <2>3
<1>15. CASE \E j \in Jobs : Recheck(j)
  <2>1. PICK j \in Jobs : Recheck(j)
    BY <1>15
  <2>2. CASE k = j
    BY <1>0, <2>1, <2>2, RecheckIs, QueueTyped, WorkingIs DEF Turns, Same, Wrote, Keeps,
       Pending, AtW, AtWork, Inside, Unfinished
  <2>3. CASE k # j
    <3>1. /\ Rec'.status = "Cancelled" /\ Rec.status # "Verifying" /\ ~Pending'
          \/ Rec' = Rec
      BY <1>0, <2>1, RecheckIs, CancellableIs DEF Wrote, Keeps, Pending
    <3>2. jobs'[k] = jobs[k]
      BY <1>0, <2>1, <2>3, RecheckIs DEF Turns, Same
    <3> QED BY <3>1, <3>2, WorkingIs DEF AtW, Pending
  <2> QED BY <2>2, <2>3
<1>16. CASE \E j \in Jobs : Ask(j)
  <2>1. PICK j \in Jobs : Ask(j)
    BY <1>16
  <2>2. CASE k = j
    BY <1>0, <2>1, <2>2, AskIs, QueueTyped, WorkingIs DEF Turns, Finishes, Same, Keeps,
       Pending, AtW, AtWork, Inside, Resumable, Unfinished, TokensOK
  <2>3. CASE k # j
    BY <1>0, <2>1, <2>3, AskIs, QueueTyped, WorkingIs DEF Turns, Finishes, Same, Keeps,
       Pending, AtW, AtWork, Inside, Resumable, Unfinished, TokensOK
  <2> QED BY <2>2, <2>3
<1>17. CASE \E j \in Jobs : Fail(j)
  <2>1. PICK j \in Jobs : Fail(j)
    BY <1>17
  <2>2. CASE k = j
    BY <1>0, <2>1, <2>2, FailIs, QueueTyped, WorkingIs DEF Turns, Same, Wrote, Keeps,
       Pending, AtW, AtWork, Inside, Unfinished
  <2>3. CASE k # j
    <3>1. ASSUME AtW(k) PROVE Rec' = Rec
      <4>1. ~AtW(j) /\ Rec.status \in {"Running", "Verifying", "Cancelled"}
        BY <2>3, <3>1, WorkingIs
      <4>2. jobs[j].gen # Rec.gen
        BY <1>0, <2>1, <4>1, FailIs DEF AtW, AtWork, Inside
      <4> QED BY <1>0, <2>1, <4>1, <4>2, FailIs, CancellableIs DEF Keeps
    <3> QED BY <1>0, <2>1, <2>3, <3>1, FailIs, WorkingIs DEF Turns, Same, AtW, Pending
  <2> QED BY <2>2, <2>3
<1>18. CASE \E j \in Jobs : Verify(j)
  <2>1. PICK j \in Jobs : Verify(j)
    BY <1>18
  <2>2. CASE k = j
    BY <1>0, <2>1, <2>2, VerifyIs, QueueTyped, WorkingIs DEF Turns, Same, Wrote, Keeps,
       Pending, AtW, AtWork, Inside, Resumable, Unfinished, TokensOK
  <2>3. CASE k # j
    BY <1>0, <2>1, <2>3, VerifyIs, QueueTyped, WorkingIs DEF Turns, Same, Wrote, Keeps,
       Pending, AtW, AtWork, Inside, Resumable, Unfinished, TokensOK
  <2> QED BY <2>2, <2>3
<1>19. CASE \E j \in Jobs : Complete(j)
  <2>1. PICK j \in Jobs : Complete(j)
    BY <1>19
  <2>2. CASE k = j
    BY <1>0, <2>1, <2>2, CompleteIs, QueueTyped, WorkingIs DEF Turns, Same, Wrote, Keeps,
       Pending, AtW, AtWork, Inside, Resumable, Unfinished, TokensOK
  <2>3. CASE k # j
    BY <1>0, <2>1, <2>3, CompleteIs, QueueTyped, WorkingIs DEF Turns, Same, Wrote, Keeps,
       Pending, AtW, AtWork, Inside, Resumable, Unfinished, TokensOK
  <2> QED BY <2>2, <2>3
<1>20. CASE \E j \in Jobs : Leave(j)
  <2>1. PICK j \in Jobs : Leave(j)
    BY <1>20
  <2>2. CASE k = j
    BY <1>0, <2>1, <2>2, LeaveIs, QueueTyped, WorkingIs DEF Finishes, Same, Keeps,
       Pending, AtW, AtWork, Inside, Resumable, Unfinished, TokensOK
  <2>3. CASE k # j
    BY <1>0, <2>1, <2>3, LeaveIs, QueueTyped, WorkingIs DEF Finishes, Same, Keeps,
       Pending, AtW, AtWork, Inside, Resumable, Unfinished, TokensOK
  <2> QED BY <2>2, <2>3
<1> QED BY <1>1, <1>2, <1>3, <1>4, <1>5, <1>6, <1>7, <1>8, <1>9, <1>10, <1>11, <1>12,
       <1>13, <1>14, <1>15, <1>16, <1>17, <1>18, <1>19, <1>20, QueueCases

\* The status Verifying has its job behind it.
LEMMA QueueVerifies ==
  ASSUME HandoverOK, HandoverOK', WorkingOK, QueueNext
  PROVE  Rec'.status = "Verifying" =>
           \/ Rec.status = "Verifying" /\ Rec'.gen = Rec.gen
              /\ \A k \in Jobs : AtW(k) /\ jobs[k].pc = "verifying" => AtW(k)' /\ jobs'[k].pc = "verifying"
           \/ \E k \in Jobs : AtW(k)' /\ jobs'[k].pc = "verifying"
<1>0. TypeOK /\ RecordsOK
  BY DEF HandoverOK
<1>1. CASE \E g \in Generations : Resume(g)
  <2>1. PICK g \in Generations : Resume(g)
    BY <1>1
  <2> QED BY <1>0, <2>1, ResumeIs, WorkingIs, QueueTyped DEF Starts, Same, Wrote, Keeps,
         AtW, AtWork, Inside, Is, Current, Unfinished, Resumable
<1>2. CASE \E g \in Generations : Accept(g)
  <2>1. PICK g \in Generations : Accept(g)
    BY <1>2
  <2> QED BY <1>0, <2>1, AcceptIs, WorkingIs, QueueTyped DEF Starts, Same, Wrote, Keeps,
         AtW, AtWork, Inside, Is, Current, Unfinished
<1>3. CASE \E g \in Generations : Cancel(g)
  <2>1. PICK g \in Generations : Cancel(g)
    BY <1>3
  <2> QED BY <1>0, <2>1, CancelIs, WorkingIs, QueueTyped DEF Same, Wrote, Keeps, AtW,
         AtWork, Inside, Is, Current, Unfinished
<1>4. CASE \E t \in Tokens : Deliver(t)
  <2>1. PICK t \in Tokens : Deliver(t)
    BY <1>4
  <2> QED BY <1>0, <2>1, DeliverIs, WorkingIs, QueueTyped DEF Same, Keeps, AtW, AtWork,
         Inside, Is, Current, Unfinished
<1>5. CASE \E j \in Jobs : Prepare(j)
  <2>1. PICK j \in Jobs : Prepare(j)
    BY <1>5
  <2> QED BY <1>0, <2>1, PrepareIs, WorkingIs, QueueTyped DEF Turns, Finishes, Same,
         Wrote, Keeps, AtW, AtWork, Inside, Is, Current, Unfinished
<1>6. CASE \E j \in Jobs : Probe(j)
  <2>1. PICK j \in Jobs : Probe(j)
    BY <1>6
  <2> QED BY <1>0, <2>1, ProbeIs, WorkingIs, QueueTyped DEF Turns, Finishes, Same, Wrote,
         Keeps, AtW, AtWork, Inside, Is, Current, Unfinished
<1>7. CASE \E j \in Jobs : Choose(j)
  <2>1. PICK j \in Jobs : Choose(j)
    BY <1>7
  <2> QED BY <1>0, <2>1, ChooseIs, WorkingIs, QueueTyped DEF Turns, Finishes, Same, Wrote,
         Keeps, AtW, AtWork, Inside, Is, Current, Unfinished
<1>8. CASE \E j \in Jobs : Register(j)
  <2>1. PICK j \in Jobs : Register(j)
    BY <1>8
  <2> QED BY <1>0, <2>1, RegisterIs, WorkingIs, QueueTyped DEF Finishes, Same, Keeps, AtW,
         AtWork, Inside, Is, Current, Unfinished
<1>9. CASE \E j \in Jobs : GiveUp(j)
  <2>1. PICK j \in Jobs : GiveUp(j)
    BY <1>9
  <2> QED BY <1>0, <2>1, GiveUpIs, WorkingIs, QueueTyped DEF Finishes, Same, Keeps, AtW,
         AtWork, Inside, Is, Current, Unfinished
<1>10. CASE \E j \in Jobs : Begin(j)
  <2>1. PICK j \in Jobs : Begin(j)
    BY <1>10
  <2> QED BY <1>0, <2>1, BeginIs, WorkingIs, QueueTyped DEF Turns, Same, Wrote, Keeps,
         AtW, AtWork, Inside, Is, Current, Unfinished
<1>11. CASE \E j \in Jobs : Observe(j)
  <2>1. PICK j \in Jobs : Observe(j)
    BY <1>11
  <2> QED BY <1>0, <2>1, ObserveIs, WorkingIs, QueueTyped DEF Turns, Same, Keeps, AtW,
         AtWork, Inside, Is, Current, Unfinished
<1>12. CASE \E j \in Jobs : Stop(j)
  <2>1. PICK j \in Jobs : Stop(j)
    BY <1>12
  <2> QED BY <1>0, <2>1, StopIs, WorkingIs, QueueTyped DEF Turns, Same, Wrote, Keeps, AtW,
         AtWork, Inside, Is, Current, Unfinished
<1>13. CASE \E j \in Jobs : SetPlan(j)
  <2>1. PICK j \in Jobs : SetPlan(j)
    BY <1>13
  <2> QED BY <1>0, <2>1, SetPlanIs, WorkingIs, QueueTyped DEF Turns, Same, Wrote, Keeps,
         AtW, AtWork, Inside, Is, Current, Unfinished
<1>14. CASE \E j \in Jobs : InspectFails(j)
  <2>1. PICK j \in Jobs : InspectFails(j)
    BY <1>14
  <2> QED BY <1>0, <2>1, InspectFailsIs, WorkingIs, QueueTyped DEF Turns, Same, Wrote,
         Keeps, AtW, AtWork, Inside, Is, Current, Unfinished
<1>15. CASE \E j \in Jobs : Recheck(j)
  <2>1. PICK j \in Jobs : Recheck(j)
    BY <1>15
  <2> QED BY <1>0, <2>1, RecheckIs, WorkingIs, QueueTyped DEF Turns, Same, Wrote, Keeps,
         AtW, AtWork, Inside, Is, Current, Unfinished
<1>16. CASE \E j \in Jobs : Ask(j)
  <2>1. PICK j \in Jobs : Ask(j)
    BY <1>16
  <2> QED BY <1>0, <2>1, AskIs, WorkingIs, QueueTyped DEF Turns, Finishes, Same, Keeps,
         AtW, AtWork, Inside, Is, Current, Unfinished
<1>17. CASE \E j \in Jobs : Fail(j)
  <2>1. PICK j \in Jobs : Fail(j)
    BY <1>17
  <2>2. ASSUME Rec'.status = "Verifying"
        PROVE  Keeps /\ Rec.status = "Verifying"
    BY <1>0, <2>1, <2>2, FailIs DEF Wrote, Keeps, Unfinished
  <2>3. ASSUME Rec.status = "Verifying", Keeps
        PROVE  ~AtW(j)
    <3>1. ~Pending \/ ~AtW(j)
      BY WorkingIs
    <3>2. CASE AtW(j)
      <4>1. Is(jobs[j].gen, {"Verifying"}) /\ Is(jobs[j].gen, Unfinished \ {"Interrupted"})
        BY <1>0, <2>3, <3>1, <3>2, IsIs DEF AtW, Unfinished
      <4> QED BY <1>0, <2>1, <2>3, <4>1, <3>1, <3>2, FailIs, CancellableIs DEF Wrote,
             Keeps, Unfinished
    <3> QED BY <3>2
  <2>4. \A k \in Jobs : k # j => jobs'[k] = jobs[k]
    BY <1>0, <2>1, FailIs DEF Turns, Same
  <2> QED BY <2>2, <2>3, <2>4 DEF AtW, Keeps
<1>18. CASE \E j \in Jobs : Verify(j)
  <2>1. PICK j \in Jobs : Verify(j)
    BY <1>18
  <2> QED BY <1>0, <2>1, VerifyIs, WorkingIs, QueueTyped DEF Turns, Same, Wrote, Keeps,
         AtW, AtWork, Inside, Is, Current, Unfinished
<1>19. CASE \E j \in Jobs : Complete(j)
  <2>1. PICK j \in Jobs : Complete(j)
    BY <1>19
  <2>2. ASSUME Rec'.status = "Verifying"
        PROVE  Keeps /\ Rec.status = "Verifying"
    BY <1>0, <2>1, <2>2, CompleteIs DEF Wrote, Keeps, Unfinished
  <2>3. ASSUME Rec.status = "Verifying", Keeps
        PROVE  ~AtW(j)
    <3>1. ~Pending \/ ~AtW(j)
      BY WorkingIs
    <3>2. CASE AtW(j)
      <4>1. Is(jobs[j].gen, {"Verifying"}) /\ Is(jobs[j].gen, Unfinished \ {"Interrupted"})
        BY <1>0, <2>3, <3>1, <3>2, IsIs DEF AtW, Unfinished
      <4> QED BY <1>0, <2>1, <2>3, <4>1, <3>1, <3>2, CompleteIs, CancellableIs DEF Wrote,
             Keeps, Unfinished
    <3> QED BY <3>2
  <2>4. \A k \in Jobs : k # j => jobs'[k] = jobs[k]
    BY <1>0, <2>1, CompleteIs DEF Turns, Same
  <2> QED BY <2>2, <2>3, <2>4 DEF AtW, Keeps
<1>20. CASE \E j \in Jobs : Leave(j)
  <2>1. PICK j \in Jobs : Leave(j)
    BY <1>20
  <2> QED BY <1>0, <2>1, LeaveIs, WorkingIs, QueueTyped DEF Finishes, Same, Keeps, AtW,
         AtWork, Inside, Is, Current, Unfinished
<1> QED BY <1>1, <1>2, <1>3, <1>4, <1>5, <1>6, <1>7, <1>8, <1>9, <1>10, <1>11, <1>12,
       <1>13, <1>14, <1>15, <1>16, <1>17, <1>18, <1>19, <1>20, QueueCases

\* The operations of the queue keep WorkingOK.
LEMMA WorkingQueue ==
  ASSUME HandoverOK, HandoverOK', TokensOK, WorkingOK, QueueNext
  PROVE  WorkingOK'
<1>1. ASSUME NEW k \in Jobs, AtW(k)'
      PROVE  AtW(k) \/ Opens(k)
  <2>1. CASE Opens(k)
    BY <2>1
  <2>2. CASE /\ jobs[k].pc \in AtWork
             /\ jobs'[k].gen = jobs[k].gen /\ jobs'[k].token = jobs[k].token
    <3>1. jobs[k].gen <= Rec.gen /\ jobs[k].gen = Rec'.gen
      BY <1>1, <2>2 DEF TokensOK, AtW
    <3>2. Rec.gen = Rec'.gen
      BY <3>1, QueueGens, QueueTyped
    <3> QED BY <2>2, <3>1, <3>2 DEF AtW
  <2> QED BY <1>1, <2>1, <2>2, QueueOpens DEF AtW
<1>2. ASSUME NEW k \in Jobs, NEW j \in Jobs, Opens(k)
      PROVE  ~AtW(j) /\ (Opens(j) => j = k)
  <2>1. ~AtW(j)
    BY <1>2, WorkingIs DEF Opens
  <2>2. Opens(j) => j = k
    BY <1>2 DEF Opens, Same
  <2> QED BY <2>1, <2>2
<1>3. \A j, k \in Working' : j = k
  <2> SUFFICES ASSUME NEW j \in Jobs, NEW k \in Jobs, AtW(j)', AtW(k)'
               PROVE  j = k
    BY AtWNext
  <2> QED BY <1>1, <1>2, WorkingIs
<1>4. ASSUME NEW k \in Jobs, AtW(k)'
      PROVE  /\ ~Pending' /\ Rec'.status \in {"Running", "Verifying", "Cancelled"}
             /\ jobs'[k].pc = "verifying" => Rec'.status = "Verifying"
  <2>1. CASE AtW(k)
    BY <1>4, <2>1, QueueWork
  <2>2. CASE Opens(k)
    BY <2>2 DEF Opens, Wrote, Pending
  <2> QED BY <1>1, <1>4, <2>1, <2>2
<1>5. ASSUME Rec'.status = "Verifying"
      PROVE  \E k \in Jobs : AtW(k)' /\ jobs'[k].pc = "verifying"
  <2>1. CASE Rec.status = "Verifying"
    <3>1. PICK k \in Working : jobs[k].pc = "verifying"
      BY <2>1 DEF WorkingOK
    <3> QED BY <1>5, <3>1, AtWIs, QueueVerifies
  <2>2. CASE Rec.status # "Verifying"
    BY <1>5, <2>2, QueueVerifies
  <2> QED BY <2>1, <2>2
<1>6. Rec'.status = "Verifying" => \E j \in Working' : jobs'[j].pc = "verifying"
  BY <1>5, AtWNext
<1>7. /\ Working' # {} => ~Pending' /\ Rec'.status \in {"Running", "Verifying", "Cancelled"}
      /\ \A j \in Working' : jobs'[j].pc = "verifying" => Rec'.status = "Verifying"
  BY <1>4, AtWNext
<1> QED BY <1>3, <1>6, <1>7 DEF WorkingOK

\* Nothing of the task's generation is at work, and its status says so.
Still == (\A k \in Jobs : ~AtW(k)') /\ Rec'.status # "Verifying"

\* Then WorkingOK holds.
LEMMA StillWorks ==
  ASSUME Still
  PROVE  WorkingOK'
<1>1. Working' = {}
  BY AtWNext DEF Still
<1> QED BY <1>1 DEF Still, WorkingOK

\* A step that only starts jobs for a task at which nothing is at work.
LEMMA StillStarts ==
  ASSUME WorkingOK, Rec'.gen = Rec.gen, Requeues(Rec.gen) \/ UNCHANGED jobs,
         Pending \/ Rec.status \notin {"Running", "Verifying", "Cancelled"},
         Rec'.status # "Verifying"
  PROVE  WorkingOK'
<1>1. ASSUME NEW k \in Jobs PROVE ~AtW(k)'
  <2>1. ~AtW(k)
    BY WorkingIs
  <2>2. (Continues(k) /\ jobs'[k].pc = jobs[k].pc) \/ jobs'[k].pc = "queued"
    BY DEF Requeues, Starts, Same, Continues
  <2> QED BY <2>1, <2>2 DEF AtW, AtWork, Inside, Continues
<1> QED BY <1>1, StillWorks DEF Still

\* Every step keeps WorkingOK.
LEMMA WorkingStep ==
  ASSUME HandoverOK, HandoverOK', TokensOK, PendingOK, PendingOK', WorkingOK, Next
  PROVE  WorkingOK'
<1>0. TypeOK /\ RecordsOK
  BY DEF HandoverOK
<1>1. CASE QueueNext
  BY <1>1, WorkingQueue
<1>2. CASE Quiet
  BY <1>2 DEF Quiet, Queues, Keeps, WorkingOK, Working, Pending
<1>3. CASE Begins_
  <2>0. Begun /\ job.status \in Runnable
    BY <1>3 DEF Begins_
  <2>1. \/ Rec'.gen = Rec.gen + 1
        \/ Rec.status \notin PRV /\ Rec'.gen = Rec.gen
    BY <2>0, BegunIs, Zenon
  <2>2. Rec.status # "Cancelled" /\ UNCHANGED jobs /\ Pending'
    BY <1>3, BegunIs DEF Begins_, Pending
  <2>3. Rec'.status # "Verifying"
    BY <2>2 DEF PendingOK
  <2>4. CASE Rec'.gen = Rec.gen + 1
    <3>1. ASSUME NEW k \in Jobs PROVE ~AtW(k)'
      BY <2>2, <2>4, QueueTyped DEF AtW, TokensOK
    <3> QED BY <3>1, <2>3, StillWorks DEF Still
  <2>5. CASE Rec.status \notin PRV /\ Rec'.gen = Rec.gen
    BY <2>2, <2>3, <2>5, StillStarts DEF PRV
  <2> QED BY <2>1, <2>4, <2>5
<1>4. CASE Planned \/ Shifted
  <2>1. Rec'.gen = Rec.gen /\ Pending /\ Pending' /\ UNCHANGED jobs
    BY <1>4, PlansIs DEF Planned, Plans, Shifted, Moves, Queues, Pending
  <2> QED BY <2>1, StillStarts DEF PendingOK
<1>5. CASE Undone
  <2>1. /\ Rec'.gen = Rec.gen /\ Pending /\ Requeues(Rec.gen) /\ Back
        /\ Rec.handover = "copying"
    BY <1>5, AbortsIs DEF Undone, Pending
  <2>2. Rec'.status # "Verifying"
    BY <2>1, BackIs DEF PRV
  <2> QED BY <2>1, <2>2, StillStarts
<1>6. CASE Closed
  <2>1. /\ Rec'.gen = Rec.gen /\ Pending /\ Pending' /\ UNCHANGED jobs
    BY <1>6, ReceiptIs DEF Closed, Receipts, Pending
  <2> QED BY <2>1, StillStarts DEF PendingOK
<1>7. CASE Renewed
  <2>1. /\ Rec' = Rec /\ Requeues(Rec.gen) /\ Rec.status = "Queued"
    BY <1>7, <1>0, RequeueIs, QueueTyped DEF Renewed, Again, Keeps
  <2> QED BY <2>1, StillStarts
<1>8. CASE Cleared
  <2>1. /\ Rec'.gen = Rec.gen /\ Rec'.status = Rec.status /\ Requeues(Rec.gen) /\ Pending
    BY <1>8, ClearIs DEF Cleared, Pending
  <2> QED BY <2>1, StillStarts DEF PendingOK
<1>9. CASE Crash
  <2>1. \A k \in Jobs : ~AtW(k)'
    BY <1>9, CrashIs DEF AtW, Idle, AtWork, Inside
  <2>2. Rec'.status # "Verifying"
    BY <1>9, CrashIs DEF PendingOK, Unfinished
  <2> QED BY <2>1, <2>2, StillWorks DEF Still
<1> QED BY <1>1, <1>2, <1>3, <1>4, <1>5, <1>6, <1>7, <1>8, <1>9, MigrationCases

-----------------------------------------------------------------------------
(* The first owner of a generation.                                         *)

\* The states that a job of the task's generation may be in.
Live    == Before \cup AtWork
Mine(j) == jobs[j].gen = Rec.gen /\ jobs[j].pc \in Live

\* The record's status is the one that the job has given it.
Fits(j) ==
  \/ Rec.status = "Cancelled"
  \/ jobs[j].pc = "prepare" /\ Rec.status \in {"Received", "Preparing"}
  \/ jobs[j].pc = "probing" /\ Rec.status = "Preparing"
  \/ jobs[j].pc = "choice" /\ Rec.status = "AwaitingChoice"
  \/ jobs[j].pc \in {"queued", "waiting"} /\ Rec.status = "Queued"
  \/ jobs[j].pc \in AtWork /\ Rec.status \in {"Running", "Verifying"}

\* Until a migration ends, a generation has one job, whose token is registered
\* and notified only once nobody wants the job.
Owned(j) ==
  /\ \A k \in Jobs : Mine(k) => k = j
  /\ Fits(j)
  /\ jobs[j].pc \in Early => reg.gen # Rec.gen
  /\ jobs[j].pc \notin Early => reg.gen = Rec.gen /\ reg.token = jobs[j].token
  /\ jobs[j].pc = "stopping" => Rec.cancel \/ Rec.status = "Cancelled"
  /\ jobs[j].pc \in {"waiting", "inspecting", "working", "planned"} /\ jobs[j].token \in Told
       => ~Wanted(j)
FirstOK ==
  Virgin =>
    /\ \A j \in Jobs : Mine(j) => Owned(j)
    /\ \A j \in Jobs : jobs[j].pc \in Writers => jobs[j].gen = Rec.gen
    /\ Rec.status = "Running" => \E j \in Jobs : AtW(j)
    /\ Rec.cancel => Rec.status \in {"Running", "AwaitingConfirmation"}

\* Until then, or while the task is handed over, no two jobs share a token.
AloneOK ==
  Virgin \/ Copying =>
    \A j, k \in Jobs : jobs[j].token # NoToken /\ jobs[j].token = jobs[k].token => j = k

\* What FirstOK says of one job.
LEMMA MineIs ==
  ASSUME FirstOK, Virgin, NEW k \in Jobs, Mine(k)
  PROVE  /\ Owned(k) /\ Fits(k) /\ \A j \in Jobs : Mine(j) => j = k
         /\ Rec.cancel => Rec.status \in {"Running", "AwaitingConfirmation"}
BY DEF FirstOK, Owned

\* A job that arrives has the generation for itself.
Alone1(k) == Arrives(k) /\ Same(k) /\ reg'.gen # Rec'.gen /\ jobs'[k].pc = "prepare"
             /\ Rec'.status = "Preparing" /\ ~Rec'.cancel
             /\ \A j \in Jobs : j # k => ~Mine(j)'

\* A job of the generation had it before, or has it for itself.
LEMMA QueueMine ==
  ASSUME HandoverOK, HandoverOK', NEW k \in Jobs, TokensOK, FirstOK, Virgin, QueueNext
  PROVE  Mine(k)' =>
           \/ Mine(k) /\ Rec'.gen = Rec.gen
           \/ Alone1(k)
<1>0. TypeOK /\ RecordsOK
  BY DEF HandoverOK
<1>1. CASE \E g \in Generations : Resume(g)
  <2>1. PICK g \in Generations : Resume(g)
    BY <1>1
  <2>2. /\ Rec'.gen = Rec.gen + 1 /\ reg' = reg /\ Rec'.status = "Preparing" /\ ~Rec'.cancel
        /\ Starts("prepare", Rec'.gen)
    BY <1>0, <2>1, ResumeIs DEF Wrote
  <2>3. PICK j \in Jobs : /\ jobs[j].pc = "off" /\ Same(j)
                          /\ jobs'[j].pc = "prepare" /\ jobs'[j].gen = Rec'.gen
                          /\ jobs'[j].token = NoToken
    BY <2>2 DEF Starts
  <2>4. \A i \in Jobs : i # j => jobs'[i].gen # Rec'.gen
    BY <2>2, <2>3, QueueTyped DEF Same, TokensOK
  <2>5. reg'.gen # Rec'.gen
    BY <2>2, QueueTyped DEF TokensOK
  <2>6. Alone1(j)
    BY <2>2, <2>3, <2>4, <2>5 DEF Alone1, Arrives, Early, Mine
  <2> QED BY <2>4, <2>6 DEF Mine
<1>2. CASE \E g \in Generations : Accept(g)
  <2>1. PICK g \in Generations : Accept(g)
    BY <1>2
  <2>2. /\ Rec'.gen = Rec.gen /\ Rec'.status = "Preparing" /\ ~Rec'.cancel
        /\ Rec.status = "AwaitingConfirmation" /\ Rec.gen = g
        /\ reg' = (IF reg.gen = g THEN Unregistered ELSE reg)
        /\ Starts("prepare", Rec'.gen)
    BY <1>0, <2>1, AcceptIs DEF Wrote
  <2>3. PICK j \in Jobs : /\ jobs[j].pc = "off" /\ Same(j)
                          /\ jobs'[j].pc = "prepare" /\ jobs'[j].gen = Rec'.gen
                          /\ jobs'[j].token = NoToken
    BY <2>2 DEF Starts
  <2>4. \A i \in Jobs : ~Mine(i)
    BY <2>2, MineIs DEF Fits
  <2>5. \A i \in Jobs : i # j => ~Mine(i)'
    BY <2>2, <2>3, <2>4 DEF Mine, Same
  <2>6. reg'.gen # Rec'.gen
    BY <2>2, QueueTyped DEF Unregistered
  <2>7. Alone1(j)
    BY <2>2, <2>3, <2>5, <2>6 DEF Alone1, Arrives, Early
  <2> QED BY <2>5, <2>7
<1>3. CASE \E g \in Generations : Cancel(g)
  <2>1. PICK g \in Generations : Cancel(g)
    BY <1>3
  <2> QED BY <1>0, <2>1, CancelIs DEF Mine, Live, Before, AtWork, Inside, Early, Same,
         Wrote, Keeps
<1>4. CASE \E t \in Tokens : Deliver(t)
  <2>1. PICK t \in Tokens : Deliver(t)
    BY <1>4
  <2> QED BY <1>0, <2>1, DeliverIs DEF Mine, Live, Before, AtWork, Inside, Early, Same,
         Keeps
<1>5. CASE \E j \in Jobs : Prepare(j)
  <2>1. PICK j \in Jobs : Prepare(j)
    BY <1>5
  <2>2. CASE k = j
    BY <1>0, <2>1, <2>2, PrepareIs DEF Mine, Live, Before, AtWork, Inside, Early, Turns,
       Finishes, Same, Wrote, Keeps
  <2>3. CASE k # j
    BY <1>0, <2>1, <2>3, PrepareIs DEF Mine, Live, Before, AtWork, Inside, Early, Turns,
       Finishes, Same, Wrote, Keeps
  <2> QED BY <2>2, <2>3
<1>6. CASE \E j \in Jobs : Probe(j)
  <2>1. PICK j \in Jobs : Probe(j)
    BY <1>6
  <2>2. CASE k = j
    BY <1>0, <2>1, <2>2, ProbeIs DEF Mine, Live, Before, AtWork, Inside, Early, Turns,
       Finishes, Same, Wrote, Keeps
  <2>3. CASE k # j
    BY <1>0, <2>1, <2>3, ProbeIs DEF Mine, Live, Before, AtWork, Inside, Early, Turns,
       Finishes, Same, Wrote, Keeps
  <2> QED BY <2>2, <2>3
<1>7. CASE \E j \in Jobs : Choose(j)
  <2>1. PICK j \in Jobs : Choose(j)
    BY <1>7
  <2>2. CASE k = j
    BY <1>0, <2>1, <2>2, ChooseIs DEF Mine, Live, Before, AtWork, Inside, Early, Turns,
       Finishes, Same, Wrote, Keeps
  <2>3. CASE k # j
    BY <1>0, <2>1, <2>3, ChooseIs DEF Mine, Live, Before, AtWork, Inside, Early, Turns,
       Finishes, Same, Wrote, Keeps
  <2> QED BY <2>2, <2>3
<1>8. CASE \E j \in Jobs : Register(j)
  <2>1. PICK j \in Jobs : Register(j)
    BY <1>8
  <2>2. CASE k = j
    BY <1>0, <2>1, <2>2, RegisterIs DEF Mine, Live, Before, AtWork, Inside, Early,
       Finishes, Same, Keeps
  <2>3. CASE k # j
    BY <1>0, <2>1, <2>3, RegisterIs DEF Mine, Live, Before, AtWork, Inside, Early,
       Finishes, Same, Keeps
  <2> QED BY <2>2, <2>3
<1>9. CASE \E j \in Jobs : GiveUp(j)
  <2>1. PICK j \in Jobs : GiveUp(j)
    BY <1>9
  <2>2. CASE k = j
    BY <1>0, <2>1, <2>2, GiveUpIs DEF Mine, Live, Before, AtWork, Inside, Early, Finishes,
       Same, Keeps
  <2>3. CASE k # j
    BY <1>0, <2>1, <2>3, GiveUpIs DEF Mine, Live, Before, AtWork, Inside, Early, Finishes,
       Same, Keeps
  <2> QED BY <2>2, <2>3
<1>10. CASE \E j \in Jobs : Begin(j)
  <2>1. PICK j \in Jobs : Begin(j)
    BY <1>10
  <2>2. CASE k = j
    BY <1>0, <2>1, <2>2, BeginIs DEF Mine, Live, Before, AtWork, Inside, Early, Turns,
       Same, Wrote, Keeps
  <2>3. CASE k # j
    BY <1>0, <2>1, <2>3, BeginIs DEF Mine, Live, Before, AtWork, Inside, Early, Turns,
       Same, Wrote, Keeps
  <2> QED BY <2>2, <2>3
<1>11. CASE \E j \in Jobs : Observe(j)
  <2>1. PICK j \in Jobs : Observe(j)
    BY <1>11
  <2>2. CASE k = j
    BY <1>0, <2>1, <2>2, ObserveIs DEF Mine, Live, Before, AtWork, Inside, Early, Turns,
       Same, Keeps
  <2>3. CASE k # j
    BY <1>0, <2>1, <2>3, ObserveIs DEF Mine, Live, Before, AtWork, Inside, Early, Turns,
       Same, Keeps
  <2> QED BY <2>2, <2>3
<1>12. CASE \E j \in Jobs : Stop(j)
  <2>1. PICK j \in Jobs : Stop(j)
    BY <1>12
  <2>2. CASE k = j
    BY <1>0, <2>1, <2>2, StopIs DEF Mine, Live, Before, AtWork, Inside, Early, Turns,
       Same, Wrote, Keeps
  <2>3. CASE k # j
    BY <1>0, <2>1, <2>3, StopIs DEF Mine, Live, Before, AtWork, Inside, Early, Turns,
       Same, Wrote, Keeps
  <2> QED BY <2>2, <2>3
<1>13. CASE \E j \in Jobs : SetPlan(j)
  <2>1. PICK j \in Jobs : SetPlan(j)
    BY <1>13
  <2>2. CASE k = j
    BY <1>0, <2>1, <2>2, SetPlanIs DEF Mine, Live, Before, AtWork, Inside, Early, Turns,
       Same, Wrote, Keeps
  <2>3. CASE k # j
    BY <1>0, <2>1, <2>3, SetPlanIs DEF Mine, Live, Before, AtWork, Inside, Early, Turns,
       Same, Wrote, Keeps
  <2> QED BY <2>2, <2>3
<1>14. CASE \E j \in Jobs : InspectFails(j)
  <2>1. PICK j \in Jobs : InspectFails(j)
    BY <1>14
  <2>2. CASE k = j
    BY <1>0, <2>1, <2>2, InspectFailsIs DEF Mine, Live, Before, AtWork, Inside, Early,
       Turns, Same, Wrote, Keeps
  <2>3. CASE k # j
    BY <1>0, <2>1, <2>3, InspectFailsIs DEF Mine, Live, Before, AtWork, Inside, Early,
       Turns, Same, Wrote, Keeps
  <2> QED BY <2>2, <2>3
<1>15. CASE \E j \in Jobs : Recheck(j)
  <2>1. PICK j \in Jobs : Recheck(j)
    BY <1>15
  <2>2. CASE k = j
    BY <1>0, <2>1, <2>2, RecheckIs DEF Mine, Live, Before, AtWork, Inside, Early, Turns,
       Same, Wrote, Keeps
  <2>3. CASE k # j
    BY <1>0, <2>1, <2>3, RecheckIs DEF Mine, Live, Before, AtWork, Inside, Early, Turns,
       Same, Wrote, Keeps
  <2> QED BY <2>2, <2>3
<1>16. CASE \E j \in Jobs : Ask(j)
  <2>1. PICK j \in Jobs : Ask(j)
    BY <1>16
  <2>2. CASE k = j
    BY <1>0, <2>1, <2>2, AskIs DEF Mine, Live, Before, AtWork, Inside, Early, Turns,
       Finishes, Same, Keeps
  <2>3. CASE k # j
    BY <1>0, <2>1, <2>3, AskIs DEF Mine, Live, Before, AtWork, Inside, Early, Turns,
       Finishes, Same, Keeps
  <2> QED BY <2>2, <2>3
<1>17. CASE \E j \in Jobs : Fail(j)
  <2>1. PICK j \in Jobs : Fail(j)
    BY <1>17
  <2>2. CASE k = j
    BY <1>0, <2>1, <2>2, FailIs DEF Mine, Live, Before, AtWork, Inside, Early, Turns,
       Same, Wrote, Keeps
  <2>3. CASE k # j
    BY <1>0, <2>1, <2>3, FailIs DEF Mine, Live, Before, AtWork, Inside, Early, Turns,
       Same, Wrote, Keeps
  <2> QED BY <2>2, <2>3
<1>18. CASE \E j \in Jobs : Verify(j)
  <2>1. PICK j \in Jobs : Verify(j)
    BY <1>18
  <2>2. CASE k = j
    BY <1>0, <2>1, <2>2, VerifyIs DEF Mine, Live, Before, AtWork, Inside, Early, Turns,
       Same, Wrote, Keeps
  <2>3. CASE k # j
    BY <1>0, <2>1, <2>3, VerifyIs DEF Mine, Live, Before, AtWork, Inside, Early, Turns,
       Same, Wrote, Keeps
  <2> QED BY <2>2, <2>3
<1>19. CASE \E j \in Jobs : Complete(j)
  <2>1. PICK j \in Jobs : Complete(j)
    BY <1>19
  <2>2. CASE k = j
    BY <1>0, <2>1, <2>2, CompleteIs DEF Mine, Live, Before, AtWork, Inside, Early, Turns,
       Same, Wrote, Keeps
  <2>3. CASE k # j
    BY <1>0, <2>1, <2>3, CompleteIs DEF Mine, Live, Before, AtWork, Inside, Early, Turns,
       Same, Wrote, Keeps
  <2> QED BY <2>2, <2>3
<1>20. CASE \E j \in Jobs : Leave(j)
  <2>1. PICK j \in Jobs : Leave(j)
    BY <1>20
  <2>2. CASE k = j
    BY <1>0, <2>1, <2>2, LeaveIs DEF Mine, Live, Before, AtWork, Inside, Early, Finishes,
       Same, Keeps
  <2>3. CASE k # j
    BY <1>0, <2>1, <2>3, LeaveIs DEF Mine, Live, Before, AtWork, Inside, Early, Finishes,
       Same, Keeps
  <2> QED BY <2>2, <2>3
<1> QED BY <1>1, <1>2, <1>3, <1>4, <1>5, <1>6, <1>7, <1>8, <1>9, <1>10, <1>11, <1>12,
       <1>13, <1>14, <1>15, <1>16, <1>17, <1>18, <1>19, <1>20, QueueCases

\* What a step of the queue does to a job that has its generation to itself.
Runs(k) ==
  \/ /\ jobs'[k] = jobs[k]
     /\ \/ Rec' = Rec \/ Rec'.status = "Cancelled"
        \/ Rec.status = "Running" /\ Rec'.status = "Running" /\ Rec'.cancel
  \/ jobs'[k].pc = "probing" /\ jobs[k].pc \in Early /\ Rec'.status = "Preparing"
  \/ jobs'[k].pc = "choice" /\ jobs[k].pc \in Early /\ Rec'.status = "AwaitingChoice"
  \/ jobs'[k].pc = "queued" /\ jobs[k].pc \in Early /\ Rec'.status = "Queued"
  \/ Opens(k) \/ Registers(k)
  \/ jobs'[k].pc = "verifying" /\ jobs[k].pc = "working" /\ Rec'.status = "Verifying"
  \/ jobs[k].pc = "inspecting" /\ jobs'[k].pc = "planned" /\ Rec' = Rec
  \/ jobs[k].pc = "planned" /\ jobs'[k].pc = "working" /\ Rec' = Rec
  \/ /\ jobs[k].pc \in {"inspecting", "working"} /\ jobs'[k].pc = "stopping" /\ Rec' = Rec
     /\ jobs[k].token \in permits

\* Every operation of the queue does one of these to it.
LEMMA QueueRuns ==
  ASSUME HandoverOK, HandoverOK', NEW k \in Jobs, FirstOK, Virgin, QueueNext
  PROVE  Mine(k) /\ Mine(k)' => Runs(k)
<1>0. TypeOK /\ RecordsOK
  BY DEF HandoverOK
<1>1. CASE \E g \in Generations : Resume(g)
  <2>1. PICK g \in Generations : Resume(g)
    BY <1>1
  <2>2. /\ Rec'.gen = Rec.gen + 1
    BY <1>0, <2>1, ResumeIs DEF Wrote
  <2>3. ASSUME Mine(k) PROVE ~Mine(k)'
    <3>1. jobs[k].pc # "off" /\ jobs[k].gen = Rec.gen
      BY <2>3 DEF Mine, Live, Before, AtWork, Inside
    <3>2. jobs'[k] = jobs[k]
      BY <1>0, <2>1, <3>1, ResumeIs DEF Starts, Same
    <3> QED BY <2>2, <3>1, <3>2, QueueTyped DEF Mine
  <2> QED BY <2>3
<1>2. CASE \E g \in Generations : Accept(g)
  <2>1. PICK g \in Generations : Accept(g)
    BY <1>2
  <2>2. Rec.status = "AwaitingConfirmation"
    BY <1>0, <2>1, AcceptIs
  <2> QED BY <2>2, MineIs DEF Fits
<1>3. CASE \E g \in Generations : Cancel(g)
  <2>1. PICK g \in Generations : Cancel(g)
    BY <1>3
  <2> QED BY <1>0, <2>1, CancelIs DEF Wrote, Keeps, Runs
<1>4. CASE \E t \in Tokens : Deliver(t)
  <2>1. PICK t \in Tokens : Deliver(t)
    BY <1>4
  <2> QED BY <1>0, <2>1, DeliverIs DEF Keeps, Runs
<1>5. CASE \E j \in Jobs : Prepare(j)
  <2>1. PICK j \in Jobs : Prepare(j)
    BY <1>5
  <2>2. CASE k = j
    BY <1>0, <2>1, <2>2, PrepareIs DEF Turns, Finishes, Same, Wrote, Keeps, Runs, Opens,
       Registers, Early, Mine, Live, Before, AtWork, Inside
  <2>3. CASE k # j
    <3>1. jobs'[k] = jobs[k]
      BY <1>0, <2>1, <2>3, PrepareIs DEF Turns, Finishes, Same
    <3>2. Rec' = Rec \/ Rec'.status = "Cancelled" \/ Mine(j)
      BY <1>0, <2>1, PrepareIs, CancellableIs DEF Wrote, Keeps, Mine, Live, Before,
         AtWork, Inside
    <3>3. Mine(k) => ~Mine(j)
      BY <2>3, MineIs
    <3> QED BY <3>1, <3>2, <3>3 DEF Runs
  <2> QED BY <2>2, <2>3
<1>6. CASE \E j \in Jobs : Probe(j)
  <2>1. PICK j \in Jobs : Probe(j)
    BY <1>6
  <2>2. CASE k = j
    BY <1>0, <2>1, <2>2, ProbeIs DEF Turns, Finishes, Same, Wrote, Keeps, Runs, Opens,
       Registers, Early, Mine, Live, Before, AtWork, Inside
  <2>3. CASE k # j
    <3>1. jobs'[k] = jobs[k]
      BY <1>0, <2>1, <2>3, ProbeIs DEF Turns, Finishes, Same
    <3>2. Rec' = Rec \/ Rec'.status = "Cancelled" \/ Mine(j)
      BY <1>0, <2>1, ProbeIs, CancellableIs DEF Wrote, Keeps, Mine, Live, Before, AtWork,
         Inside
    <3>3. Mine(k) => ~Mine(j)
      BY <2>3, MineIs
    <3> QED BY <3>1, <3>2, <3>3 DEF Runs
  <2> QED BY <2>2, <2>3
<1>7. CASE \E j \in Jobs : Choose(j)
  <2>1. PICK j \in Jobs : Choose(j)
    BY <1>7
  <2>2. CASE k = j
    BY <1>0, <2>1, <2>2, ChooseIs DEF Turns, Finishes, Same, Wrote, Keeps, Runs, Opens,
       Registers, Early, Mine, Live, Before, AtWork, Inside
  <2>3. CASE k # j
    <3>1. jobs'[k] = jobs[k]
      BY <1>0, <2>1, <2>3, ChooseIs DEF Turns, Finishes, Same
    <3>2. Rec' = Rec \/ Rec'.status = "Cancelled" \/ Mine(j)
      BY <1>0, <2>1, ChooseIs, CancellableIs DEF Wrote, Keeps, Mine, Live, Before, AtWork,
         Inside
    <3>3. Mine(k) => ~Mine(j)
      BY <2>3, MineIs
    <3> QED BY <3>1, <3>2, <3>3 DEF Runs
  <2> QED BY <2>2, <2>3
<1>8. CASE \E j \in Jobs : Register(j)
  <2>1. PICK j \in Jobs : Register(j)
    BY <1>8
  <2>2. CASE k = j
    BY <1>0, <2>1, <2>2, RegisterIs DEF Finishes, Same, Keeps, Runs, Opens, Registers,
       Early, Mine, Live, Before, AtWork, Inside
  <2>3. CASE k # j
    <3>1. jobs'[k] = jobs[k]
      BY <1>0, <2>1, <2>3, RegisterIs DEF Finishes, Same
    <3>2. Rec' = Rec \/ Rec'.status = "Cancelled" \/ Mine(j)
      BY <1>0, <2>1, RegisterIs, CancellableIs DEF Keeps, Mine, Live, Before, AtWork, Inside
    <3>3. Mine(k) => ~Mine(j)
      BY <2>3, MineIs
    <3> QED BY <3>1, <3>2, <3>3 DEF Runs
  <2> QED BY <2>2, <2>3
<1>9. CASE \E j \in Jobs : GiveUp(j)
  <2>1. PICK j \in Jobs : GiveUp(j)
    BY <1>9
  <2>2. CASE k = j
    BY <1>0, <2>1, <2>2, GiveUpIs DEF Finishes, Same, Keeps, Runs, Opens, Registers,
       Early, Mine, Live, Before, AtWork, Inside
  <2>3. CASE k # j
    <3>1. jobs'[k] = jobs[k]
      BY <1>0, <2>1, <2>3, GiveUpIs DEF Finishes, Same
    <3>2. Rec' = Rec \/ Rec'.status = "Cancelled" \/ Mine(j)
      BY <1>0, <2>1, GiveUpIs, CancellableIs DEF Keeps, Mine, Live, Before, AtWork, Inside
    <3>3. Mine(k) => ~Mine(j)
      BY <2>3, MineIs
    <3> QED BY <3>1, <3>2, <3>3 DEF Runs
  <2> QED BY <2>2, <2>3
<1>10. CASE \E j \in Jobs : Begin(j)
  <2>1. PICK j \in Jobs : Begin(j)
    BY <1>10
  <2>2. CASE k = j
    BY <1>0, <2>1, <2>2, BeginIs DEF Turns, Same, Wrote, Keeps, Runs, Opens, Registers,
       Early, Mine, Live, Before, AtWork, Inside
  <2>3. CASE k # j
    <3>1. jobs'[k] = jobs[k]
      BY <1>0, <2>1, <2>3, BeginIs DEF Turns, Same
    <3>2. Rec' = Rec \/ Rec'.status = "Cancelled" \/ Mine(j)
      BY <1>0, <2>1, BeginIs, CancellableIs DEF Wrote, Keeps, Mine, Live, Before, AtWork,
         Inside
    <3>3. Mine(k) => ~Mine(j)
      BY <2>3, MineIs
    <3> QED BY <3>1, <3>2, <3>3 DEF Runs
  <2> QED BY <2>2, <2>3
<1>11. CASE \E j \in Jobs : Observe(j)
  <2>1. PICK j \in Jobs : Observe(j)
    BY <1>11
  <2>2. CASE k = j
    BY <1>0, <2>1, <2>2, ObserveIs DEF Turns, Same, Keeps, Runs, Opens, Registers, Early,
       Mine, Live, Before, AtWork, Inside
  <2>3. CASE k # j
    <3>1. jobs'[k] = jobs[k]
      BY <1>0, <2>1, <2>3, ObserveIs DEF Turns, Same
    <3>2. Rec' = Rec \/ Rec'.status = "Cancelled" \/ Mine(j)
      BY <1>0, <2>1, ObserveIs, CancellableIs DEF Keeps, Mine, Live, Before, AtWork, Inside
    <3>3. Mine(k) => ~Mine(j)
      BY <2>3, MineIs
    <3> QED BY <3>1, <3>2, <3>3 DEF Runs
  <2> QED BY <2>2, <2>3
<1>12. CASE \E j \in Jobs : Stop(j)
  <2>1. PICK j \in Jobs : Stop(j)
    BY <1>12
  <2>2. CASE k = j
    BY <1>0, <2>1, <2>2, StopIs DEF Turns, Same, Wrote, Keeps, Runs, Opens, Registers,
       Early, Mine, Live, Before, AtWork, Inside
  <2>3. CASE k # j
    <3>1. jobs'[k] = jobs[k]
      BY <1>0, <2>1, <2>3, StopIs DEF Turns, Same
    <3>2. Rec' = Rec \/ Rec'.status = "Cancelled" \/ Mine(j)
      BY <1>0, <2>1, StopIs, CancellableIs DEF Wrote, Keeps, Mine, Live, Before, AtWork,
         Inside
    <3>3. Mine(k) => ~Mine(j)
      BY <2>3, MineIs
    <3> QED BY <3>1, <3>2, <3>3 DEF Runs
  <2> QED BY <2>2, <2>3
<1>13. CASE \E j \in Jobs : SetPlan(j)
  <2>1. PICK j \in Jobs : SetPlan(j)
    BY <1>13
  <2>2. CASE k = j
    BY <1>0, <2>1, <2>2, SetPlanIs DEF Turns, Same, Wrote, Keeps, Runs, Opens, Registers,
       Early, Mine, Live, Before, AtWork, Inside
  <2>3. CASE k # j
    <3>1. jobs'[k] = jobs[k]
      BY <1>0, <2>1, <2>3, SetPlanIs DEF Turns, Same
    <3>2. Rec' = Rec \/ Rec'.status = "Cancelled" \/ Mine(j)
      BY <1>0, <2>1, SetPlanIs, CancellableIs DEF Wrote, Keeps, Mine, Live, Before,
         AtWork, Inside
    <3>3. Mine(k) => ~Mine(j)
      BY <2>3, MineIs
    <3> QED BY <3>1, <3>2, <3>3 DEF Runs
  <2> QED BY <2>2, <2>3
<1>14. CASE \E j \in Jobs : InspectFails(j)
  <2>1. PICK j \in Jobs : InspectFails(j)
    BY <1>14
  <2>2. CASE k = j
    BY <1>0, <2>1, <2>2, InspectFailsIs DEF Turns, Same, Wrote, Keeps, Runs, Opens,
       Registers, Early, Mine, Live, Before, AtWork, Inside
  <2>3. CASE k # j
    <3>1. jobs'[k] = jobs[k]
      BY <1>0, <2>1, <2>3, InspectFailsIs DEF Turns, Same
    <3>2. Rec' = Rec \/ Rec'.status = "Cancelled" \/ Mine(j)
      BY <1>0, <2>1, InspectFailsIs, CancellableIs DEF Wrote, Keeps, Mine, Live, Before,
         AtWork, Inside
    <3>3. Mine(k) => ~Mine(j)
      BY <2>3, MineIs
    <3> QED BY <3>1, <3>2, <3>3 DEF Runs
  <2> QED BY <2>2, <2>3
<1>15. CASE \E j \in Jobs : Recheck(j)
  <2>1. PICK j \in Jobs : Recheck(j)
    BY <1>15
  <2>2. CASE k = j
    BY <1>0, <2>1, <2>2, RecheckIs DEF Turns, Same, Wrote, Keeps, Runs, Opens, Registers,
       Early, Mine, Live, Before, AtWork, Inside
  <2>3. CASE k # j
    <3>1. jobs'[k] = jobs[k]
      BY <1>0, <2>1, <2>3, RecheckIs DEF Turns, Same
    <3>2. Rec' = Rec \/ Rec'.status = "Cancelled" \/ Mine(j)
      BY <1>0, <2>1, RecheckIs, CancellableIs DEF Wrote, Keeps, Mine, Live, Before,
         AtWork, Inside
    <3>3. Mine(k) => ~Mine(j)
      BY <2>3, MineIs
    <3> QED BY <3>1, <3>2, <3>3 DEF Runs
  <2> QED BY <2>2, <2>3
<1>16. CASE \E j \in Jobs : Ask(j)
  <2>1. PICK j \in Jobs : Ask(j)
    BY <1>16
  <2>2. CASE k = j
    BY <1>0, <2>1, <2>2, AskIs DEF Turns, Finishes, Same, Keeps, Runs, Opens, Registers,
       Early, Mine, Live, Before, AtWork, Inside
  <2>3. CASE k # j
    <3>1. jobs'[k] = jobs[k]
      BY <1>0, <2>1, <2>3, AskIs DEF Turns, Finishes, Same
    <3>2. Rec' = Rec \/ Rec'.status = "Cancelled" \/ Mine(j)
      BY <1>0, <2>1, AskIs, CancellableIs DEF Keeps, Mine, Live, Before, AtWork, Inside
    <3>3. Mine(k) => ~Mine(j)
      BY <2>3, MineIs
    <3> QED BY <3>1, <3>2, <3>3 DEF Runs
  <2> QED BY <2>2, <2>3
<1>17. CASE \E j \in Jobs : Fail(j)
  <2>1. PICK j \in Jobs : Fail(j)
    BY <1>17
  <2>2. CASE k = j
    BY <1>0, <2>1, <2>2, FailIs DEF Turns, Same, Wrote, Keeps, Runs, Opens, Registers,
       Early, Mine, Live, Before, AtWork, Inside
  <2>3. CASE k # j
    <3>1. jobs'[k] = jobs[k]
      BY <1>0, <2>1, <2>3, FailIs DEF Turns, Same
    <3>2. Rec' = Rec \/ Rec'.status = "Cancelled" \/ Mine(j)
      BY <1>0, <2>1, FailIs, CancellableIs DEF Wrote, Keeps, Mine, Live, Before, AtWork,
         Inside
    <3>3. Mine(k) => ~Mine(j)
      BY <2>3, MineIs
    <3> QED BY <3>1, <3>2, <3>3 DEF Runs
  <2> QED BY <2>2, <2>3
<1>18. CASE \E j \in Jobs : Verify(j)
  <2>1. PICK j \in Jobs : Verify(j)
    BY <1>18
  <2>2. CASE k = j
    BY <1>0, <2>1, <2>2, VerifyIs DEF Turns, Same, Wrote, Keeps, Runs, Opens, Registers,
       Early, Mine, Live, Before, AtWork, Inside
  <2>3. CASE k # j
    <3>1. jobs'[k] = jobs[k]
      BY <1>0, <2>1, <2>3, VerifyIs DEF Turns, Same
    <3>2. Rec' = Rec \/ Rec'.status = "Cancelled" \/ Mine(j)
      BY <1>0, <2>1, VerifyIs, CancellableIs DEF Wrote, Keeps, Mine, Live, Before, AtWork,
         Inside
    <3>3. Mine(k) => ~Mine(j)
      BY <2>3, MineIs
    <3> QED BY <3>1, <3>2, <3>3 DEF Runs
  <2> QED BY <2>2, <2>3
<1>19. CASE \E j \in Jobs : Complete(j)
  <2>1. PICK j \in Jobs : Complete(j)
    BY <1>19
  <2>2. CASE k = j
    BY <1>0, <2>1, <2>2, CompleteIs DEF Turns, Same, Wrote, Keeps, Runs, Opens, Registers,
       Early, Mine, Live, Before, AtWork, Inside
  <2>3. CASE k # j
    <3>1. jobs'[k] = jobs[k]
      BY <1>0, <2>1, <2>3, CompleteIs DEF Turns, Same
    <3>2. Rec' = Rec \/ Rec'.status = "Cancelled" \/ Mine(j)
      BY <1>0, <2>1, CompleteIs, CancellableIs DEF Wrote, Keeps, Mine, Live, Before,
         AtWork, Inside
    <3>3. Mine(k) => ~Mine(j)
      BY <2>3, MineIs
    <3> QED BY <3>1, <3>2, <3>3 DEF Runs
  <2> QED BY <2>2, <2>3
<1>20. CASE \E j \in Jobs : Leave(j)
  <2>1. PICK j \in Jobs : Leave(j)
    BY <1>20
  <2>2. CASE k = j
    BY <1>0, <2>1, <2>2, LeaveIs DEF Finishes, Same, Keeps, Runs, Opens, Registers, Early,
       Mine, Live, Before, AtWork, Inside
  <2>3. CASE k # j
    <3>1. jobs'[k] = jobs[k]
      BY <1>0, <2>1, <2>3, LeaveIs DEF Finishes, Same
    <3>2. Rec' = Rec \/ Rec'.status = "Cancelled" \/ Mine(j)
      BY <1>0, <2>1, LeaveIs, CancellableIs DEF Keeps, Mine, Live, Before, AtWork, Inside
    <3>3. Mine(k) => ~Mine(j)
      BY <2>3, MineIs
    <3> QED BY <3>1, <3>2, <3>3 DEF Runs
  <2> QED BY <2>2, <2>3
<1> QED BY <1>1, <1>2, <1>3, <1>4, <1>5, <1>6, <1>7, <1>8, <1>9, <1>10, <1>11, <1>12,
       <1>13, <1>14, <1>15, <1>16, <1>17, <1>18, <1>19, <1>20, QueueCases

\* A token is captured only when the task is cancelled, or is to be.
LEMMA QueueTold ==
  ASSUME HandoverOK, HandoverOK', QueueNext
  PROVE  Told' \subseteq Told \/ Rec'.status = "Cancelled" \/ Rec'.cancel
<1>0. TypeOK /\ RecordsOK
  BY DEF HandoverOK
<1>1. CASE \E g \in Generations : Resume(g)
  <2>1. PICK g \in Generations : Resume(g)
    BY <1>1
  <2> QED BY <1>0, <2>1, ResumeIs DEF Wrote, Told
<1>2. CASE \E g \in Generations : Accept(g)
  <2>1. PICK g \in Generations : Accept(g)
    BY <1>2
  <2> QED BY <1>0, <2>1, AcceptIs DEF Wrote, Told
<1>3. CASE \E g \in Generations : Cancel(g)
  <2>1. PICK g \in Generations : Cancel(g)
    BY <1>3
  <2> QED BY <1>0, <2>1, CancelIs DEF Wrote, Told
<1>4. CASE \E t \in Tokens : Deliver(t)
  <2>1. PICK t \in Tokens : Deliver(t)
    BY <1>4
  <2> QED BY <1>0, <2>1, DeliverIs DEF Told
<1>5. CASE \E j \in Jobs : Prepare(j)
  <2>1. PICK j \in Jobs : Prepare(j)
    BY <1>5
  <2> QED BY <1>0, <2>1, PrepareIs DEF Wrote, Told
<1>6. CASE \E j \in Jobs : Probe(j)
  <2>1. PICK j \in Jobs : Probe(j)
    BY <1>6
  <2> QED BY <1>0, <2>1, ProbeIs DEF Wrote, Told
<1>7. CASE \E j \in Jobs : Choose(j)
  <2>1. PICK j \in Jobs : Choose(j)
    BY <1>7
  <2> QED BY <1>0, <2>1, ChooseIs DEF Wrote, Told
<1>8. CASE \E j \in Jobs : Register(j)
  <2>1. PICK j \in Jobs : Register(j)
    BY <1>8
  <2> QED BY <1>0, <2>1, RegisterIs DEF Told, Keeps
<1>9. CASE \E j \in Jobs : GiveUp(j)
  <2>1. PICK j \in Jobs : GiveUp(j)
    BY <1>9
  <2> QED BY <1>0, <2>1, GiveUpIs DEF Told, Keeps
<1>10. CASE \E j \in Jobs : Begin(j)
  <2>1. PICK j \in Jobs : Begin(j)
    BY <1>10
  <2> QED BY <1>0, <2>1, BeginIs DEF Wrote, Told
<1>11. CASE \E j \in Jobs : Observe(j)
  <2>1. PICK j \in Jobs : Observe(j)
    BY <1>11
  <2> QED BY <1>0, <2>1, ObserveIs DEF Told, Keeps
<1>12. CASE \E j \in Jobs : Stop(j)
  <2>1. PICK j \in Jobs : Stop(j)
    BY <1>12
  <2> QED BY <1>0, <2>1, StopIs DEF Wrote, Told
<1>13. CASE \E j \in Jobs : SetPlan(j)
  <2>1. PICK j \in Jobs : SetPlan(j)
    BY <1>13
  <2> QED BY <1>0, <2>1, SetPlanIs DEF Wrote, Told
<1>14. CASE \E j \in Jobs : InspectFails(j)
  <2>1. PICK j \in Jobs : InspectFails(j)
    BY <1>14
  <2> QED BY <1>0, <2>1, InspectFailsIs DEF Wrote, Told
<1>15. CASE \E j \in Jobs : Recheck(j)
  <2>1. PICK j \in Jobs : Recheck(j)
    BY <1>15
  <2> QED BY <1>0, <2>1, RecheckIs DEF Wrote, Told
<1>16. CASE \E j \in Jobs : Ask(j)
  <2>1. PICK j \in Jobs : Ask(j)
    BY <1>16
  <2> QED BY <1>0, <2>1, AskIs DEF Told
<1>17. CASE \E j \in Jobs : Fail(j)
  <2>1. PICK j \in Jobs : Fail(j)
    BY <1>17
  <2> QED BY <1>0, <2>1, FailIs DEF Wrote, Told
<1>18. CASE \E j \in Jobs : Verify(j)
  <2>1. PICK j \in Jobs : Verify(j)
    BY <1>18
  <2> QED BY <1>0, <2>1, VerifyIs DEF Wrote, Told
<1>19. CASE \E j \in Jobs : Complete(j)
  <2>1. PICK j \in Jobs : Complete(j)
    BY <1>19
  <2> QED BY <1>0, <2>1, CompleteIs DEF Wrote, Told
<1>20. CASE \E j \in Jobs : Leave(j)
  <2>1. PICK j \in Jobs : Leave(j)
    BY <1>20
  <2> QED BY <1>0, <2>1, LeaveIs DEF Told, Keeps
<1> QED BY <1>1, <1>2, <1>3, <1>4, <1>5, <1>6, <1>7, <1>8, <1>9, <1>10, <1>11, <1>12,
       <1>13, <1>14, <1>15, <1>16, <1>17, <1>18, <1>19, <1>20, QueueCases

\* The token of a job that stays, and shares it with none, stays registered.
LEMMA QueueRegistered ==
  ASSUME HandoverOK, HandoverOK', NEW k \in Jobs, 
         reg.token = jobs[k].token, jobs'[k].pc # "off",
         \A i \in Jobs : jobs[i].token = jobs[k].token => i = k,
         QueueNext
  PROVE  \/ reg' = reg
         \/ ~Pending /\ Rec.status = "AwaitingConfirmation"
         \/ \E i \in Jobs : Registers(i)
<1>0. TypeOK /\ RecordsOK
  BY DEF HandoverOK
<1>1. CASE \E g \in Generations : Resume(g)
  <2>1. PICK g \in Generations : Resume(g)
    BY <1>1
  <2> QED BY <1>0, <2>1, ResumeIs
<1>2. CASE \E g \in Generations : Accept(g)
  <2>1. PICK g \in Generations : Accept(g)
    BY <1>2
  <2> QED BY <1>0, <2>1, AcceptIs DEF Wrote
<1>3. CASE \E g \in Generations : Cancel(g)
  <2>1. PICK g \in Generations : Cancel(g)
    BY <1>3
  <2> QED BY <1>0, <2>1, CancelIs
<1>4. CASE \E t \in Tokens : Deliver(t)
  <2>1. PICK t \in Tokens : Deliver(t)
    BY <1>4
  <2> QED BY <1>0, <2>1, DeliverIs
<1>5. CASE \E j \in Jobs : Prepare(j)
  <2>1. PICK j \in Jobs : Prepare(j)
    BY <1>5
  <2> QED BY <1>0, <2>1, PrepareIs
<1>6. CASE \E j \in Jobs : Probe(j)
  <2>1. PICK j \in Jobs : Probe(j)
    BY <1>6
  <2> QED BY <1>0, <2>1, ProbeIs
<1>7. CASE \E j \in Jobs : Choose(j)
  <2>1. PICK j \in Jobs : Choose(j)
    BY <1>7
  <2> QED BY <1>0, <2>1, ChooseIs
<1>8. CASE \E j \in Jobs : Register(j)
  <2>1. reg' = reg \/ \E i \in Jobs : Registers(i)
    <3>1. PICK j \in Jobs : Register(j)
      BY <1>8
    <3> QED BY <1>0, <3>1, RegisterIs DEF Registers, Same, Keeps
  <2> QED BY <2>1
<1>9. CASE \E j \in Jobs : GiveUp(j)
  <2>1. PICK j \in Jobs : GiveUp(j)
    BY <1>9
  <2>2. CASE k = j
    BY <1>0, <2>1, <2>2, GiveUpIs DEF Finishes
  <2>3. CASE k # j
    BY <1>0, <2>1, <2>3, GiveUpIs DEF Withdrawn
  <2> QED BY <2>2, <2>3
<1>10. CASE \E j \in Jobs : Begin(j)
  <2>1. PICK j \in Jobs : Begin(j)
    BY <1>10
  <2> QED BY <1>0, <2>1, BeginIs
<1>11. CASE \E j \in Jobs : Observe(j)
  <2>1. PICK j \in Jobs : Observe(j)
    BY <1>11
  <2> QED BY <1>0, <2>1, ObserveIs
<1>12. CASE \E j \in Jobs : Stop(j)
  <2>1. PICK j \in Jobs : Stop(j)
    BY <1>12
  <2> QED BY <1>0, <2>1, StopIs
<1>13. CASE \E j \in Jobs : SetPlan(j)
  <2>1. PICK j \in Jobs : SetPlan(j)
    BY <1>13
  <2> QED BY <1>0, <2>1, SetPlanIs
<1>14. CASE \E j \in Jobs : InspectFails(j)
  <2>1. PICK j \in Jobs : InspectFails(j)
    BY <1>14
  <2> QED BY <1>0, <2>1, InspectFailsIs
<1>15. CASE \E j \in Jobs : Recheck(j)
  <2>1. PICK j \in Jobs : Recheck(j)
    BY <1>15
  <2> QED BY <1>0, <2>1, RecheckIs
<1>16. CASE \E j \in Jobs : Ask(j)
  <2>1. PICK j \in Jobs : Ask(j)
    BY <1>16
  <2> QED BY <1>0, <2>1, AskIs
<1>17. CASE \E j \in Jobs : Fail(j)
  <2>1. PICK j \in Jobs : Fail(j)
    BY <1>17
  <2> QED BY <1>0, <2>1, FailIs
<1>18. CASE \E j \in Jobs : Verify(j)
  <2>1. PICK j \in Jobs : Verify(j)
    BY <1>18
  <2> QED BY <1>0, <2>1, VerifyIs
<1>19. CASE \E j \in Jobs : Complete(j)
  <2>1. PICK j \in Jobs : Complete(j)
    BY <1>19
  <2> QED BY <1>0, <2>1, CompleteIs
<1>20. CASE \E j \in Jobs : Leave(j)
  <2>1. PICK j \in Jobs : Leave(j)
    BY <1>20
  <2>2. CASE k = j
    BY <1>0, <2>1, <2>2, LeaveIs DEF Finishes
  <2>3. CASE k # j
    BY <1>0, <2>1, <2>3, LeaveIs DEF Withdrawn
  <2> QED BY <2>2, <2>3
<1> QED BY <1>1, <1>2, <1>3, <1>4, <1>5, <1>6, <1>7, <1>8, <1>9, <1>10, <1>11, <1>12,
       <1>13, <1>14, <1>15, <1>16, <1>17, <1>18, <1>19, <1>20, QueueCases

\* A token that is new, or that no job of the generation has, is shared with none.
LEMMA AloneQueue ==
  ASSUME HandoverOK, HandoverOK', TokensOK, FirstOK, AloneOK, QueueNext, Virgin \/ Copying,
         NEW j \in Jobs, NEW k \in Jobs,
         jobs'[j].token # NoToken, jobs'[j].token = jobs'[k].token
  PROVE  j = k
<1>1. ASSUME NEW i \in Jobs, NEW l \in Jobs, Registers(i), jobs'[l].token = jobs'[i].token
      PROVE  l = i
  <2>1. \/ ~Pending /\ Mine(i) /\ jobs[i].pc \in Early /\ reg.gen = Rec.gen
        \/ jobs'[i].token \in Fresh
    BY <1>1 DEF Registers, Mine, Live, Before, Early
  <2>2. jobs'[i].token \in Fresh
    <3>1. ~Pending => Virgin
      BY Alone DEF HandoverOK
    <3> QED BY <2>1, <3>1, MineIs DEF Owned
  <2>3. \A m \in Jobs : jobs[m].token # jobs'[i].token
    BY <2>2 DEF Fresh
  <2>4. l # i => jobs'[l] = jobs[l]
    BY <1>1 DEF Registers, Same
  <2> QED BY <1>1, <2>3, <2>4
<1>2. CASE Registers(j) \/ Registers(k)
  BY <1>1, <1>2
<1>3. CASE ~Registers(j) /\ ~Registers(k)
  <2>1. jobs'[j].token = jobs[j].token /\ jobs'[k].token = jobs[k].token
    BY <1>3, QueueJobs DEF Continues, Ends, Arrives
  <2> QED BY <2>1 DEF AloneOK
<1> QED BY <1>2, <1>3

\* The token of a job that has the generation for itself stays registered.
LEMMA OwnedReg ==
  ASSUME HandoverOK, HandoverOK', TokensOK, FirstOK, AloneOK, Virgin, QueueNext,
         NEW k \in Jobs, Mine(k), Mine(k)', ~Registers(k)
  PROVE  /\ jobs'[k].pc \in Early => reg'.gen # Rec'.gen
         /\ jobs'[k].pc \notin Early => reg'.gen = Rec'.gen /\ reg'.token = jobs'[k].token
<1>1. ASSUME NEW i \in Jobs PROVE ~Registers(i)
  <2>1. ASSUME Registers(i) PROVE Mine(i)
    BY <2>1 DEF Registers, Mine, Live, Before
  <2> QED BY <2>1, MineIs
<1>2. /\ Rec'.gen = Rec.gen /\ jobs'[k].token = jobs[k].token /\ jobs[k].pc # "off"
      /\ jobs'[k].pc # "off" /\ (jobs'[k].pc \in Early <=> jobs[k].pc \in Early)
  <2>1. jobs[k].pc # "off" /\ jobs'[k].pc # "off"
    BY DEF Mine, Live, Before, AtWork, Inside
  <2>2. Continues(k)
    BY <2>1, QueueJobs DEF Ends, Arrives
  <2> QED BY <2>1, <2>2 DEF Continues, Mine
<1>3. CASE jobs[k].pc \in Early
  <2>1. reg.gen # Rec.gen
    BY <1>3, MineIs DEF Owned
  <2>2. reg' = reg \/ reg' = Unregistered
    BY <1>1, QueueRegs
  <2> QED BY <1>2, <1>3, <2>1, <2>2, QueueTyped DEF Unregistered
<1>4. CASE jobs[k].pc \notin Early
  <2>1. reg.gen = Rec.gen /\ reg.token = jobs[k].token
    BY <1>4, MineIs DEF Owned
  <2>2. jobs[k].token # NoToken
    BY <1>2, <1>4 DEF TokensOK
  <2>3. \A i \in Jobs : jobs[i].token = jobs[k].token => i = k
    BY <2>2 DEF AloneOK
  <2>4. Rec.status # "AwaitingConfirmation"
    BY MineIs DEF Fits
  <2>5. reg' = reg
    BY <1>1, <1>2, <2>1, <2>3, <2>4, QueueRegistered
  <2> QED BY <1>2, <1>4, <2>1, <2>5
<1> QED BY <1>3, <1>4

\* The operations of the queue keep what is known of the generation's job.
LEMMA OwnedQueue ==
  ASSUME HandoverOK, HandoverOK', TokensOK, WorkingOK, FirstOK, AloneOK, Virgin, QueueNext,
         NEW k \in Jobs, Mine(k)'
  PROVE  Owned(k)'
<1>1. CASE Alone1(k)
  BY <1>1 DEF Alone1, Owned, Fits, Early
<1>2. CASE Mine(k) /\ Rec'.gen = Rec.gen
  <2>1. Runs(k) /\ Owned(k)
    BY <1>2, QueueRuns, MineIs
  <2>2. ASSUME NEW j \in Jobs, Mine(j)' PROVE j = k
    BY <1>2, <2>2, QueueMine, MineIs DEF Alone1
  <2>3. Fits(k)'
    BY <1>2, <2>1, MineIs DEF Runs, Fits, Opens, Registers, Keeps, Wrote, AtWork, Inside,
       Early
  <2>4. /\ jobs'[k].pc \in Early => reg'.gen # Rec'.gen
        /\ jobs'[k].pc \notin Early => reg'.gen = Rec'.gen /\ reg'.token = jobs'[k].token
    <3>1. CASE Registers(k)
      BY <3>1 DEF Registers, Keeps, Early
    <3>2. CASE ~Registers(k)
      BY <1>2, <3>2, OwnedReg
    <3> QED BY <3>1, <3>2
  <2>5. ASSUME jobs'[k].pc = "stopping" PROVE Rec'.cancel \/ Rec'.status = "Cancelled"
    <3>1. CASE jobs'[k] = jobs[k]
      BY <1>2, <2>1, <2>5, <3>1 DEF Runs, Owned, Opens, Registers, Keeps
    <3>2. CASE /\ jobs[k].pc \in {"inspecting", "working"} /\ Rec' = Rec
               /\ jobs[k].token \in permits
      <4>1. ~Wanted(k) /\ Fits(k)
        BY <2>1, <3>2 DEF Owned, Told
      <4>2. AtW(k)
        BY <1>2, <3>2 DEF AtW, Mine, AtWork, Inside
      <4>3. Rec.status # "Verifying"
        BY <3>2, <4>2, WorkingIs
      <4> QED BY <1>2, <3>2, <4>1, <4>3 DEF Wanted, Fits, Virgin, Mine
    <3> QED BY <2>1, <2>5, <3>1, <3>2 DEF Runs, Opens, Registers
  <2>6. ASSUME jobs'[k].pc \in {"waiting", "inspecting", "working", "planned"},
               jobs'[k].token \in Told'
        PROVE  ~Wanted(k)'
    <3>1. CASE Rec'.status = "Cancelled" \/ Rec'.cancel
      BY <3>1 DEF Wanted
    <3>2. CASE Told' \subseteq Told
      <4>1. CASE Registers(k)
        <5>1. jobs[k].pc \in Early /\ reg.gen # Rec.gen
          BY <2>1, <4>1 DEF Registers, Early, Owned
        <5> QED BY <2>6, <4>1, <5>1 DEF Registers, Fresh, Told
      <4>2. CASE ~Registers(k)
        <5>1. Continues(k)
          BY <2>6, <1>2, <4>2, QueueJobs DEF Ends, Arrives, Early
        <5>2. jobs[k].token \in Told
          BY <2>6, <3>2, <5>1 DEF Continues
        <5>3. ~Opens(k)
          <6>1. ASSUME Opens(k) PROVE Wanted(k) /\ jobs[k].pc = "waiting"
            <7>1. ~Rec.cancel
              BY <6>1, <1>2, MineIs DEF Opens
            <7> QED BY <6>1, <7>1 DEF Opens, Wanted, Virgin
          <6> QED BY <6>1, <2>1, <5>2 DEF Owned
        <5>4. CASE jobs'[k] = jobs[k]
          BY <2>6, <1>2, <2>1, <5>1, <5>2, <5>3, <5>4, <4>2 DEF Runs, Owned, Wanted,
             Continues, Opens, Registers, Pending
        <5>5. CASE Rec' = Rec /\ jobs[k].pc \in {"inspecting", "planned"}
          BY <2>6, <2>1, <5>1, <5>2, <5>5 DEF Owned, Wanted, Continues, Pending
        <5> QED BY <2>1, <2>6, <4>2, <5>3, <5>4, <5>5 DEF Runs
      <4> QED BY <4>1, <4>2
    <3> QED BY <3>1, <3>2, QueueTold
  <2> QED BY <2>2, <2>3, <2>4, <2>5, <2>6 DEF Owned
<1> QED BY <1>1, <1>2, QueueMine

\* A run ends with its status.
LEMMA QueueEnds ==
  ASSUME HandoverOK, HandoverOK', NEW k \in Jobs, TokensOK, WorkingOK, FirstOK, Virgin,
         QueueNext
  PROVE  AtW(k) /\ Rec.status = "Running" /\ Rec'.status = "Running" => AtW(k)'
<1>0. TypeOK /\ RecordsOK
  BY DEF HandoverOK
<1>1. CASE \E g \in Generations : Resume(g)
  <2>1. PICK g \in Generations : Resume(g)
    BY <1>1
  <2> QED BY <1>0, <2>1, ResumeIs DEF Wrote
<1>2. CASE \E g \in Generations : Accept(g)
  <2>1. PICK g \in Generations : Accept(g)
    BY <1>2
  <2> QED BY <1>0, <2>1, AcceptIs DEF AtW, AtWork, Inside, Wrote, Keeps, Starts, Same
<1>3. CASE \E g \in Generations : Cancel(g)
  <2>1. PICK g \in Generations : Cancel(g)
    BY <1>3
  <2> QED BY <1>0, <2>1, CancelIs DEF AtW, AtWork, Inside, Wrote, Keeps, Same
<1>4. CASE \E t \in Tokens : Deliver(t)
  <2>1. PICK t \in Tokens : Deliver(t)
    BY <1>4
  <2>2. Rec' = Rec
    BY <1>0, <2>1, DeliverIs DEF Keeps
  <2>3. AtW(k) => jobs'[k] = jobs[k]
    BY <1>0, <2>1, DeliverIs DEF AtW, AtWork, Inside, Same
  <2> QED BY <2>2, <2>3 DEF AtW
<1>5. CASE \E j \in Jobs : Prepare(j)
  <2>1. PICK j \in Jobs : Prepare(j)
    BY <1>5
  <2>2. Rec' = Rec \/ Rec.status # "Running"
    BY <1>0, <2>1, PrepareIs DEF Keeps
  <2>3. AtW(k) => jobs'[k] = jobs[k]
    BY <1>0, <2>1, PrepareIs DEF AtW, AtWork, Inside, Turns, Finishes, Same
  <2> QED BY <2>2, <2>3 DEF AtW, Wrote
<1>6. CASE \E j \in Jobs : Probe(j)
  <2>1. PICK j \in Jobs : Probe(j)
    BY <1>6
  <2>2. Rec' = Rec \/ Rec.status # "Running"
    BY <1>0, <2>1, ProbeIs DEF Keeps
  <2>3. AtW(k) => jobs'[k] = jobs[k]
    BY <1>0, <2>1, ProbeIs DEF AtW, AtWork, Inside, Turns, Finishes, Same
  <2> QED BY <2>2, <2>3 DEF AtW, Wrote
<1>7. CASE \E j \in Jobs : Choose(j)
  <2>1. PICK j \in Jobs : Choose(j)
    BY <1>7
  <2>2. Rec' = Rec \/ Rec.status # "Running"
    BY <1>0, <2>1, ChooseIs DEF Keeps
  <2>3. AtW(k) => jobs'[k] = jobs[k]
    BY <1>0, <2>1, ChooseIs DEF AtW, AtWork, Inside, Turns, Finishes, Same
  <2> QED BY <2>2, <2>3 DEF AtW, Wrote
<1>8. CASE \E j \in Jobs : Register(j)
  <2>1. PICK j \in Jobs : Register(j)
    BY <1>8
  <2>2. Rec' = Rec
    BY <1>0, <2>1, RegisterIs DEF Keeps
  <2>3. AtW(k) => jobs'[k] = jobs[k]
    BY <1>0, <2>1, RegisterIs DEF AtW, AtWork, Inside, Finishes, Same
  <2> QED BY <2>2, <2>3 DEF AtW
<1>9. CASE \E j \in Jobs : GiveUp(j)
  <2>1. PICK j \in Jobs : GiveUp(j)
    BY <1>9
  <2>2. Rec' = Rec
    BY <1>0, <2>1, GiveUpIs DEF Keeps
  <2>3. AtW(k) => jobs'[k] = jobs[k]
    BY <1>0, <2>1, GiveUpIs DEF AtW, AtWork, Inside, Finishes, Same
  <2> QED BY <2>2, <2>3 DEF AtW
<1>10. CASE \E j \in Jobs : Begin(j)
  <2>1. PICK j \in Jobs : Begin(j)
    BY <1>10
  <2>2. Rec' = Rec \/ Rec.status # "Running"
    BY <1>0, <2>1, BeginIs DEF Keeps
  <2>3. AtW(k) => jobs'[k] = jobs[k]
    BY <1>0, <2>1, BeginIs DEF AtW, AtWork, Inside, Turns, Same
  <2> QED BY <2>2, <2>3 DEF AtW, Wrote
<1>11. CASE \E j \in Jobs : Observe(j)
  <2>1. PICK j \in Jobs : Observe(j)
    BY <1>11
  <2>2. CASE k # j
    BY <1>0, <2>1, <2>2, ObserveIs DEF AtW, Turns, Same, Keeps
  <2>3. CASE k = j
    <3> SUFFICES ASSUME AtW(k), Rec.status = "Running", Rec'.status = "Running"
                 PROVE  AtW(k)'
      OBVIOUS
    <3>1. /\ ~Pending /\ jobs[k].gen = Rec.gen /\ Mine(k)
          /\ jobs[k].pc # "verifying"
      BY WorkingIs DEF AtW, Mine, Live
    <3>2. jobs[k].pc = "stopping" => Rec.cancel
      BY <3>1, MineIs DEF Owned
    <3>3. \A s : Is(jobs[k].gen, s) <=> "Running" \in s
      BY <1>0, <3>1, IsIs
    <3>4. jobs[k].pc = "stopping" => Cancellable(jobs[k].gen)
      BY <1>0, <3>1, <3>2, CancellableIs
    <3> QED BY <1>0, <2>1, <2>3, <3>1, <3>3, <3>4, ObserveIs DEF AtW, AtWork, Inside,
           Turns, Keeps, Statuses, Unfinished
  <2> QED BY <2>2, <2>3
<1>12. CASE \E j \in Jobs : Stop(j)
  <2>1. PICK j \in Jobs : Stop(j)
    BY <1>12
  <2>2. CASE k # j
    BY <1>0, <2>1, <2>2, StopIs DEF AtW, Turns, Same, Wrote, Keeps
  <2>3. CASE k = j
    <3> SUFFICES ASSUME AtW(k), Rec.status = "Running", Rec'.status = "Running"
                 PROVE  AtW(k)'
      OBVIOUS
    <3>1. /\ ~Pending /\ jobs[k].gen = Rec.gen /\ Mine(k)
          /\ jobs[k].pc # "verifying"
      BY WorkingIs DEF AtW, Mine, Live
    <3>2. jobs[k].pc = "stopping" => Rec.cancel
      BY <3>1, MineIs DEF Owned
    <3>3. \A s : Is(jobs[k].gen, s) <=> "Running" \in s
      BY <1>0, <3>1, IsIs
    <3>4. jobs[k].pc = "stopping" => Cancellable(jobs[k].gen)
      BY <1>0, <3>1, <3>2, CancellableIs
    <3> QED BY <1>0, <2>1, <2>3, <3>1, <3>3, <3>4, StopIs DEF AtW, AtWork, Inside, Turns,
           Wrote, Keeps, Statuses, Unfinished
  <2> QED BY <2>2, <2>3
<1>13. CASE \E j \in Jobs : SetPlan(j)
  <2>1. PICK j \in Jobs : SetPlan(j)
    BY <1>13
  <2>2. CASE k # j
    BY <1>0, <2>1, <2>2, SetPlanIs DEF AtW, Turns, Same, Wrote, Keeps
  <2>3. CASE k = j
    <3> SUFFICES ASSUME AtW(k), Rec.status = "Running", Rec'.status = "Running"
                 PROVE  AtW(k)'
      OBVIOUS
    <3>1. /\ ~Pending /\ jobs[k].gen = Rec.gen /\ Mine(k)
          /\ jobs[k].pc # "verifying"
      BY WorkingIs DEF AtW, Mine, Live
    <3>2. jobs[k].pc = "stopping" => Rec.cancel
      BY <3>1, MineIs DEF Owned
    <3>3. \A s : Is(jobs[k].gen, s) <=> "Running" \in s
      BY <1>0, <3>1, IsIs
    <3>4. jobs[k].pc = "stopping" => Cancellable(jobs[k].gen)
      BY <1>0, <3>1, <3>2, CancellableIs
    <3> QED BY <1>0, <2>1, <2>3, <3>1, <3>3, <3>4, SetPlanIs DEF AtW, AtWork, Inside,
           Turns, Wrote, Keeps, Statuses, Unfinished
  <2> QED BY <2>2, <2>3
<1>14. CASE \E j \in Jobs : InspectFails(j)
  <2>1. PICK j \in Jobs : InspectFails(j)
    BY <1>14
  <2>2. CASE k # j
    BY <1>0, <2>1, <2>2, InspectFailsIs DEF AtW, Turns, Same, Wrote, Keeps
  <2>3. CASE k = j
    <3> SUFFICES ASSUME AtW(k), Rec.status = "Running", Rec'.status = "Running"
                 PROVE  AtW(k)'
      OBVIOUS
    <3>1. /\ ~Pending /\ jobs[k].gen = Rec.gen /\ Mine(k)
          /\ jobs[k].pc # "verifying"
      BY WorkingIs DEF AtW, Mine, Live
    <3>2. jobs[k].pc = "stopping" => Rec.cancel
      BY <3>1, MineIs DEF Owned
    <3>3. \A s : Is(jobs[k].gen, s) <=> "Running" \in s
      BY <1>0, <3>1, IsIs
    <3>4. jobs[k].pc = "stopping" => Cancellable(jobs[k].gen)
      BY <1>0, <3>1, <3>2, CancellableIs
    <3> QED BY <1>0, <2>1, <2>3, <3>1, <3>3, <3>4, InspectFailsIs DEF AtW, AtWork, Inside,
           Turns, Wrote, Keeps, Statuses, Unfinished
  <2> QED BY <2>2, <2>3
<1>15. CASE \E j \in Jobs : Recheck(j)
  <2>1. PICK j \in Jobs : Recheck(j)
    BY <1>15
  <2>2. CASE k # j
    BY <1>0, <2>1, <2>2, RecheckIs DEF AtW, Turns, Same, Wrote, Keeps
  <2>3. CASE k = j
    <3> SUFFICES ASSUME AtW(k), Rec.status = "Running", Rec'.status = "Running"
                 PROVE  AtW(k)'
      OBVIOUS
    <3>1. /\ ~Pending /\ jobs[k].gen = Rec.gen /\ Mine(k)
          /\ jobs[k].pc # "verifying"
      BY WorkingIs DEF AtW, Mine, Live
    <3>2. jobs[k].pc = "stopping" => Rec.cancel
      BY <3>1, MineIs DEF Owned
    <3>3. \A s : Is(jobs[k].gen, s) <=> "Running" \in s
      BY <1>0, <3>1, IsIs
    <3>4. jobs[k].pc = "stopping" => Cancellable(jobs[k].gen)
      BY <1>0, <3>1, <3>2, CancellableIs
    <3> QED BY <1>0, <2>1, <2>3, <3>1, <3>3, <3>4, RecheckIs DEF AtW, AtWork, Inside,
           Turns, Wrote, Keeps, Statuses, Unfinished
  <2> QED BY <2>2, <2>3
<1>16. CASE \E j \in Jobs : Ask(j)
  <2>1. PICK j \in Jobs : Ask(j)
    BY <1>16
  <2>2. Rec' = Rec
    BY <1>0, <2>1, AskIs DEF Keeps
  <2>3. AtW(k) => jobs'[k] = jobs[k]
    BY <1>0, <2>1, AskIs DEF AtW, AtWork, Inside, Turns, Finishes, Same
  <2> QED BY <2>2, <2>3 DEF AtW
<1>17. CASE \E j \in Jobs : Fail(j)
  <2>1. PICK j \in Jobs : Fail(j)
    BY <1>17
  <2>2. CASE k # j
    BY <1>0, <2>1, <2>2, FailIs DEF AtW, Turns, Same, Wrote, Keeps
  <2>3. CASE k = j
    <3> SUFFICES ASSUME AtW(k), Rec.status = "Running", Rec'.status = "Running"
                 PROVE  AtW(k)'
      OBVIOUS
    <3>1. /\ ~Pending /\ jobs[k].gen = Rec.gen /\ Mine(k)
          /\ jobs[k].pc # "verifying"
      BY WorkingIs DEF AtW, Mine, Live
    <3>2. jobs[k].pc = "stopping" => Rec.cancel
      BY <3>1, MineIs DEF Owned
    <3>3. \A s : Is(jobs[k].gen, s) <=> "Running" \in s
      BY <1>0, <3>1, IsIs
    <3>4. jobs[k].pc = "stopping" => Cancellable(jobs[k].gen)
      BY <1>0, <3>1, <3>2, CancellableIs
    <3> QED BY <1>0, <2>1, <2>3, <3>1, <3>3, <3>4, FailIs DEF AtW, AtWork, Inside, Turns,
           Wrote, Keeps, Statuses, Unfinished
  <2> QED BY <2>2, <2>3
<1>18. CASE \E j \in Jobs : Verify(j)
  <2>1. PICK j \in Jobs : Verify(j)
    BY <1>18
  <2>2. CASE k # j
    BY <1>0, <2>1, <2>2, VerifyIs DEF AtW, Turns, Same, Wrote, Keeps
  <2>3. CASE k = j
    <3> SUFFICES ASSUME AtW(k), Rec.status = "Running", Rec'.status = "Running"
                 PROVE  AtW(k)'
      OBVIOUS
    <3>1. /\ ~Pending /\ jobs[k].gen = Rec.gen /\ Mine(k)
          /\ jobs[k].pc # "verifying"
      BY WorkingIs DEF AtW, Mine, Live
    <3>2. jobs[k].pc = "stopping" => Rec.cancel
      BY <3>1, MineIs DEF Owned
    <3>3. \A s : Is(jobs[k].gen, s) <=> "Running" \in s
      BY <1>0, <3>1, IsIs
    <3>4. jobs[k].pc = "stopping" => Cancellable(jobs[k].gen)
      BY <1>0, <3>1, <3>2, CancellableIs
    <3> QED BY <1>0, <2>1, <2>3, <3>1, <3>3, <3>4, VerifyIs DEF AtW, AtWork, Inside,
           Turns, Wrote, Keeps, Statuses, Unfinished
  <2> QED BY <2>2, <2>3
<1>19. CASE \E j \in Jobs : Complete(j)
  <2>1. PICK j \in Jobs : Complete(j)
    BY <1>19
  <2>2. CASE k # j
    BY <1>0, <2>1, <2>2, CompleteIs DEF AtW, Turns, Same, Wrote, Keeps
  <2>3. CASE k = j
    <3> SUFFICES ASSUME AtW(k), Rec.status = "Running", Rec'.status = "Running"
                 PROVE  AtW(k)'
      OBVIOUS
    <3>1. /\ ~Pending /\ jobs[k].gen = Rec.gen /\ Mine(k)
          /\ jobs[k].pc # "verifying"
      BY WorkingIs DEF AtW, Mine, Live
    <3>2. jobs[k].pc = "stopping" => Rec.cancel
      BY <3>1, MineIs DEF Owned
    <3>3. \A s : Is(jobs[k].gen, s) <=> "Running" \in s
      BY <1>0, <3>1, IsIs
    <3>4. jobs[k].pc = "stopping" => Cancellable(jobs[k].gen)
      BY <1>0, <3>1, <3>2, CancellableIs
    <3> QED BY <1>0, <2>1, <2>3, <3>1, <3>3, <3>4, CompleteIs DEF AtW, AtWork, Inside,
           Turns, Wrote, Keeps, Statuses, Unfinished
  <2> QED BY <2>2, <2>3
<1>20. CASE \E j \in Jobs : Leave(j)
  <2>1. PICK j \in Jobs : Leave(j)
    BY <1>20
  <2>2. Rec' = Rec
    BY <1>0, <2>1, LeaveIs DEF Keeps
  <2>3. AtW(k) => jobs'[k] = jobs[k]
    BY <1>0, <2>1, LeaveIs DEF AtW, AtWork, Inside, Finishes, Same
  <2> QED BY <2>2, <2>3 DEF AtW
<1> QED BY <1>1, <1>2, <1>3, <1>4, <1>5, <1>6, <1>7, <1>8, <1>9, <1>10, <1>11, <1>12,
       <1>13, <1>14, <1>15, <1>16, <1>17, <1>18, <1>19, <1>20, QueueCases

\* The status Running comes with a job.
LEMMA QueueRunning ==
  ASSUME HandoverOK, HandoverOK', QueueNext
  PROVE  Rec'.status = "Running" =>
           Rec.status = "Running" \/ \E k \in Jobs : Opens(k)
<1>0. TypeOK /\ RecordsOK
  BY DEF HandoverOK
<1>1. CASE \E g \in Generations : Resume(g)
  <2>1. PICK g \in Generations : Resume(g)
    BY <1>1
  <2> QED BY <1>0, <2>1, ResumeIs DEF Wrote, Keeps, Opens
<1>2. CASE \E g \in Generations : Accept(g)
  <2>1. PICK g \in Generations : Accept(g)
    BY <1>2
  <2> QED BY <1>0, <2>1, AcceptIs DEF Wrote, Keeps, Opens
<1>3. CASE \E g \in Generations : Cancel(g)
  <2>1. PICK g \in Generations : Cancel(g)
    BY <1>3
  <2> QED BY <1>0, <2>1, CancelIs DEF Wrote, Keeps, Opens
<1>4. CASE \E t \in Tokens : Deliver(t)
  <2>1. PICK t \in Tokens : Deliver(t)
    BY <1>4
  <2> QED BY <1>0, <2>1, DeliverIs DEF Keeps, Opens
<1>5. CASE \E j \in Jobs : Prepare(j)
  <2>1. PICK j \in Jobs : Prepare(j)
    BY <1>5
  <2> QED BY <1>0, <2>1, PrepareIs DEF Wrote, Keeps, Opens
<1>6. CASE \E j \in Jobs : Probe(j)
  <2>1. PICK j \in Jobs : Probe(j)
    BY <1>6
  <2> QED BY <1>0, <2>1, ProbeIs DEF Wrote, Keeps, Opens
<1>7. CASE \E j \in Jobs : Choose(j)
  <2>1. PICK j \in Jobs : Choose(j)
    BY <1>7
  <2> QED BY <1>0, <2>1, ChooseIs DEF Wrote, Keeps, Opens
<1>8. CASE \E j \in Jobs : Register(j)
  <2>1. PICK j \in Jobs : Register(j)
    BY <1>8
  <2> QED BY <1>0, <2>1, RegisterIs DEF Keeps, Opens
<1>9. CASE \E j \in Jobs : GiveUp(j)
  <2>1. PICK j \in Jobs : GiveUp(j)
    BY <1>9
  <2> QED BY <1>0, <2>1, GiveUpIs DEF Keeps, Opens
<1>10. CASE \E j \in Jobs : Begin(j)
  <2>1. PICK j \in Jobs : Begin(j)
    BY <1>10
  <2> QED BY <1>0, <2>1, BeginIs DEF Wrote, Keeps, Opens, Turns
<1>11. CASE \E j \in Jobs : Observe(j)
  <2>1. PICK j \in Jobs : Observe(j)
    BY <1>11
  <2> QED BY <1>0, <2>1, ObserveIs DEF Keeps, Opens
<1>12. CASE \E j \in Jobs : Stop(j)
  <2>1. PICK j \in Jobs : Stop(j)
    BY <1>12
  <2> QED BY <1>0, <2>1, StopIs DEF Wrote, Keeps, Opens
<1>13. CASE \E j \in Jobs : SetPlan(j)
  <2>1. PICK j \in Jobs : SetPlan(j)
    BY <1>13
  <2> QED BY <1>0, <2>1, SetPlanIs DEF Wrote, Keeps, Opens
<1>14. CASE \E j \in Jobs : InspectFails(j)
  <2>1. PICK j \in Jobs : InspectFails(j)
    BY <1>14
  <2> QED BY <1>0, <2>1, InspectFailsIs DEF Wrote, Keeps, Opens
<1>15. CASE \E j \in Jobs : Recheck(j)
  <2>1. PICK j \in Jobs : Recheck(j)
    BY <1>15
  <2> QED BY <1>0, <2>1, RecheckIs DEF Wrote, Keeps, Opens
<1>16. CASE \E j \in Jobs : Ask(j)
  <2>1. PICK j \in Jobs : Ask(j)
    BY <1>16
  <2> QED BY <1>0, <2>1, AskIs DEF Keeps, Opens
<1>17. CASE \E j \in Jobs : Fail(j)
  <2>1. PICK j \in Jobs : Fail(j)
    BY <1>17
  <2> QED BY <1>0, <2>1, FailIs DEF Wrote, Keeps, Opens
<1>18. CASE \E j \in Jobs : Verify(j)
  <2>1. PICK j \in Jobs : Verify(j)
    BY <1>18
  <2> QED BY <1>0, <2>1, VerifyIs DEF Wrote, Keeps, Opens
<1>19. CASE \E j \in Jobs : Complete(j)
  <2>1. PICK j \in Jobs : Complete(j)
    BY <1>19
  <2> QED BY <1>0, <2>1, CompleteIs DEF Wrote, Keeps, Opens
<1>20. CASE \E j \in Jobs : Leave(j)
  <2>1. PICK j \in Jobs : Leave(j)
    BY <1>20
  <2> QED BY <1>0, <2>1, LeaveIs DEF Keeps, Opens
<1> QED BY <1>1, <1>2, <1>3, <1>4, <1>5, <1>6, <1>7, <1>8, <1>9, <1>10, <1>11, <1>12,
       <1>13, <1>14, <1>15, <1>16, <1>17, <1>18, <1>19, <1>20, QueueCases

\* A cancellation is requested of a task that runs, and may reach its question.
LEMMA QueueFlags ==
  ASSUME HandoverOK, HandoverOK', FirstOK, Virgin, QueueNext
  PROVE  Rec'.cancel => Rec'.status \in {"Running", "AwaitingConfirmation"}
<1>0. TypeOK /\ RecordsOK
  BY DEF HandoverOK
<1>1. CASE \E g \in Generations : Resume(g)
  <2>1. PICK g \in Generations : Resume(g)
    BY <1>1
  <2> QED BY <1>0, <2>1, ResumeIs DEF Wrote, Keeps, FirstOK
<1>2. CASE \E g \in Generations : Accept(g)
  <2>1. PICK g \in Generations : Accept(g)
    BY <1>2
  <2> QED BY <1>0, <2>1, AcceptIs DEF Wrote, Keeps, FirstOK
<1>3. CASE \E g \in Generations : Cancel(g)
  <2>1. PICK g \in Generations : Cancel(g)
    BY <1>3
  <2> QED BY <1>0, <2>1, CancelIs DEF Wrote, Keeps, FirstOK
<1>4. CASE \E t \in Tokens : Deliver(t)
  <2>1. PICK t \in Tokens : Deliver(t)
    BY <1>4
  <2> QED BY <1>0, <2>1, DeliverIs DEF Keeps, FirstOK
<1>5. CASE \E j \in Jobs : Prepare(j)
  <2>1. PICK j \in Jobs : Prepare(j)
    BY <1>5
  <2> QED BY <1>0, <2>1, PrepareIs DEF Wrote, Keeps, FirstOK
<1>6. CASE \E j \in Jobs : Probe(j)
  <2>1. PICK j \in Jobs : Probe(j)
    BY <1>6
  <2> QED BY <1>0, <2>1, ProbeIs DEF Wrote, Keeps, FirstOK
<1>7. CASE \E j \in Jobs : Choose(j)
  <2>1. PICK j \in Jobs : Choose(j)
    BY <1>7
  <2> QED BY <1>0, <2>1, ChooseIs DEF Wrote, Keeps, FirstOK
<1>8. CASE \E j \in Jobs : Register(j)
  <2>1. PICK j \in Jobs : Register(j)
    BY <1>8
  <2> QED BY <1>0, <2>1, RegisterIs DEF Keeps, FirstOK
<1>9. CASE \E j \in Jobs : GiveUp(j)
  <2>1. PICK j \in Jobs : GiveUp(j)
    BY <1>9
  <2> QED BY <1>0, <2>1, GiveUpIs DEF Keeps, FirstOK
<1>10. CASE \E j \in Jobs : Begin(j)
  <2>1. PICK j \in Jobs : Begin(j)
    BY <1>10
  <2> QED BY <1>0, <2>1, BeginIs DEF Wrote, Keeps, FirstOK
<1>11. CASE \E j \in Jobs : Observe(j)
  <2>1. PICK j \in Jobs : Observe(j)
    BY <1>11
  <2> QED BY <1>0, <2>1, ObserveIs DEF Keeps, FirstOK
<1>12. CASE \E j \in Jobs : Stop(j)
  <2>1. PICK j \in Jobs : Stop(j)
    BY <1>12
  <2> QED BY <1>0, <2>1, StopIs DEF Wrote, Keeps, FirstOK
<1>13. CASE \E j \in Jobs : SetPlan(j)
  <2>1. PICK j \in Jobs : SetPlan(j)
    BY <1>13
  <2> QED BY <1>0, <2>1, SetPlanIs DEF Wrote, Keeps, FirstOK
<1>14. CASE \E j \in Jobs : InspectFails(j)
  <2>1. PICK j \in Jobs : InspectFails(j)
    BY <1>14
  <2> QED BY <1>0, <2>1, InspectFailsIs DEF Wrote, Keeps, FirstOK
<1>15. CASE \E j \in Jobs : Recheck(j)
  <2>1. PICK j \in Jobs : Recheck(j)
    BY <1>15
  <2> QED BY <1>0, <2>1, RecheckIs DEF Wrote, Keeps, FirstOK
<1>16. CASE \E j \in Jobs : Ask(j)
  <2>1. PICK j \in Jobs : Ask(j)
    BY <1>16
  <2> QED BY <1>0, <2>1, AskIs DEF Keeps, FirstOK
<1>17. CASE \E j \in Jobs : Fail(j)
  <2>1. PICK j \in Jobs : Fail(j)
    BY <1>17
  <2> QED BY <1>0, <2>1, FailIs DEF Wrote, Keeps, FirstOK
<1>18. CASE \E j \in Jobs : Verify(j)
  <2>1. PICK j \in Jobs : Verify(j)
    BY <1>18
  <2> QED BY <1>0, <2>1, VerifyIs DEF Wrote, Keeps, FirstOK
<1>19. CASE \E j \in Jobs : Complete(j)
  <2>1. PICK j \in Jobs : Complete(j)
    BY <1>19
  <2> QED BY <1>0, <2>1, CompleteIs DEF Wrote, Keeps, FirstOK
<1>20. CASE \E j \in Jobs : Leave(j)
  <2>1. PICK j \in Jobs : Leave(j)
    BY <1>20
  <2> QED BY <1>0, <2>1, LeaveIs DEF Keeps, FirstOK
<1> QED BY <1>1, <1>2, <1>3, <1>4, <1>5, <1>6, <1>7, <1>8, <1>9, <1>10, <1>11, <1>12,
       <1>13, <1>14, <1>15, <1>16, <1>17, <1>18, <1>19, <1>20, QueueCases

\* The operations of the queue keep FirstOK.
LEMMA FirstQueue ==
  ASSUME HandoverOK, HandoverOK', TokensOK, WorkingOK, FirstOK, AloneOK, QueueNext,
         UNCHANGED job
  PROVE  FirstOK'
<1> SUFFICES ASSUME Virgin'
             PROVE  /\ \A j \in Jobs : Mine(j)' => Owned(j)'
                    /\ \A j \in Jobs : jobs'[j].pc \in Writers => jobs'[j].gen = Rec'.gen
                    /\ Rec'.status = "Running" => \E j \in Jobs : AtW(j)'
                    /\ Rec'.cancel => Rec'.status \in {"Running", "AwaitingConfirmation"}
  BY DEF FirstOK
<1>1. Virgin
  BY QueueKept DEF Virgin, Pending, GivenBack
<1>2. \A j \in Jobs : Mine(j)' => Owned(j)'
  BY <1>1, OwnedQueue
<1>3. ASSUME NEW j \in Jobs, jobs'[j].pc \in Writers
      PROVE  jobs'[j].gen = Rec'.gen
  <2>1. CASE Opens(j)
    BY <2>1 DEF Opens, Wrote
  <2>2. CASE /\ jobs[j].pc \in Writers /\ jobs'[j].gen = jobs[j].gen
    <3>1. AtW(j)
      BY <1>1, <2>2 DEF FirstOK, AtW, Writers, AtWork, Inside
    <3>2. Rec'.gen = Rec.gen
      BY <3>1, WorkingIs, QueueGens DEF Resumable
    <3> QED BY <2>2, <3>1, <3>2 DEF AtW
  <2> QED BY <1>3, <2>1, <2>2, QueueOpens
<1>4. ASSUME Rec'.status = "Running"
      PROVE  \E j \in Jobs : AtW(j)'
  <2>1. CASE Rec.status = "Running"
    BY <1>1, <1>4, <2>1, QueueEnds DEF FirstOK
  <2>2. CASE \E k \in Jobs : Opens(k)
    BY <2>2 DEF Opens, Wrote, AtW, AtWork, Inside
  <2> QED BY <1>4, <2>1, <2>2, QueueRunning
<1>5. Rec'.cancel => Rec'.status \in {"Running", "AwaitingConfirmation"}
  BY <1>1, QueueFlags
<1> QED BY <1>2, <1>3, <1>4, <1>5

\* Every step keeps FirstOK.
LEMMA FirstStep ==
  ASSUME HandoverOK, HandoverOK', TokensOK, WorkingOK, FirstOK, AloneOK, Next
  PROVE  FirstOK'
<1>1. CASE QueueNext /\ UNCHANGED job
  BY <1>1, FirstQueue
<1>2. CASE Quiet
  BY <1>2 DEF Quiet, Keeps, Queues, FirstOK, Mine, Owned, Fits, Told, Wanted, AtW, Pending
<1>3. CASE Begins_ \/ Planned \/ Shifted \/ Closed
  <2>1. Pending'
    BY <1>3, BegunIs, PlansIs, ReceiptIs
       DEF Begins_, Planned, Shifted, Moves, Closed, Receipts, Pending
  <2> QED BY <2>1 DEF FirstOK, Virgin
<1>4. CASE Undone \/ Renewed \/ Cleared
  <2>1. GivenBack'
    BY <1>4, AbortsIs DEF Undone, Renewed, Again, Cleared, Clear, GivenBack
  <2> QED BY <2>1 DEF FirstOK, Virgin
<1>5. CASE Crash
  <2>1. \A j \in Jobs : jobs'[j].pc = "off"
    BY <1>5, CrashIs DEF Idle
  <2>2. ASSUME Virgin'
        PROVE  /\ Rec'.status # "Running"
               /\ Rec'.cancel => Rec'.status \in {"Running", "AwaitingConfirmation"}
    <3>1. Virgin
      BY <1>5, <2>2, CrashIs DEF Virgin, GivenBack
    <3>2. Rec'.status # "Running"
      BY <1>5, <3>1, CrashIs DEF Virgin, Unfinished
    <3>3. Rec'.cancel => Rec.cancel /\ Rec.status \notin {"Running", "AwaitingConfirmation"}
      BY <1>5, <3>1, CrashIs DEF Virgin, Unfinished
    <3> QED BY <3>1, <3>2, <3>3 DEF FirstOK
  <2> QED BY <2>1, <2>2 DEF FirstOK, Mine, Live, Before, AtWork, Inside, Writers
<1> QED BY <1>1, <1>2, <1>3, <1>4, <1>5, MigrationCases

\* A concluded handover is none that copies, of a migration that has ended.
LEMMA UndoneCopying ==
  ASSUME HandoverOK, Undone \/ Closed \/ Renewed \/ Cleared
  PROVE  ~Virgin' /\ ~Copying'
<1>0. TypeOK /\ RecordsOK
  BY DEF HandoverOK
<1>1. CASE Undone
  <2>1. GivenBack' /\ Home = "source" /\ Rec'.handover = "none" /\ Stays
    BY <1>1, AbortsIs DEF Undone, GivenBack
  <2> QED BY <2>1 DEF Virgin, Copying, Stays
<1>2. CASE Closed
  <2>1. Stays /\ Rec'.handover = "receipt" /\ Rec.handover = "installed" /\ at = "off"
    BY <1>2, ReceiptIs DEF Closed, Receipts
  <2>2. Home = "target" /\ ~Has("source")
    BY <2>1, AtTarget
  <2> QED BY <2>1, <2>2 DEF Stays, Virgin, Copying, Pending
<1>3. CASE Renewed
  <2>1. ~Pending /\ UNCHANGED store /\ GivenBack'
    BY <1>3 DEF Renewed, Again, GivenBack
  <2>2. ~Copying
    BY <1>0, <2>1, Alone
  <2> QED BY <2>1, <2>2 DEF Virgin, Copying, Has, S
<1>4. CASE Cleared
  <2>1. Stays /\ Rec.handover = "receipt" /\ GivenBack'
    BY <1>4, ClearIs DEF Cleared, GivenBack
  <2>2. at # "installed"
    BY <2>1, <1>0, Alone, HomeIs DEF HandoverOK, AtOK, RecordsOK
  <2> QED BY <2>1, <2>2, AtTarget DEF Stays, Virgin, Copying
<1> QED BY <1>1, <1>2, <1>3, <1>4

\* Every step keeps AloneOK.
LEMMA AloneStep ==
  ASSUME HandoverOK, HandoverOK', TokensOK, FirstOK, AloneOK, Next
  PROVE  AloneOK'
<1>0. TypeOK /\ RecordsOK
  BY DEF HandoverOK
<1> SUFFICES ASSUME Virgin' \/ Copying', NEW j \in Jobs, NEW k \in Jobs,
                    jobs'[j].token # NoToken, jobs'[j].token = jobs'[k].token
             PROVE  j = k
  BY DEF AloneOK
<1>1. CASE QueueNext /\ UNCHANGED job
  <2>1. Virgin' => Virgin
    BY <1>1, QueueKept DEF Virgin, Pending, GivenBack
  <2>2. Copying' => Copying
    <3>1. Inert
      BY <1>0, <1>1, QueueInert
    <3> QED BY <3>1 DEF Inert, Copying, S, Libraries
  <2> QED BY <1>1, <2>1, <2>2, AloneQueue
<1>2. CASE Quiet
  <2>1. Copying' <=> Copying
    BY <1>2 DEF Quiet, Keeps, Copying, Has, S
  <2> QED BY <1>2, <2>1 DEF Quiet, Queues, AloneOK
<1>3. CASE Begins_
  <2>1. Virgin /\ UNCHANGED jobs
    BY <1>3, BegunIs DEF Begins_, Virgin
  <2> QED BY <2>1 DEF AloneOK
<1>4. CASE Planned \/ Shifted
  <2>1. UNCHANGED jobs /\ Pending'
    BY <1>4, PlansIs DEF Planned, Plans, Shifted, Moves, Queues, Pending
  <2>2. Copying
    BY <1>0, <1>4, <2>1, PlansIs, Alone DEF Planned, Shifted, Virgin
  <2> QED BY <2>1, <2>2 DEF AloneOK
<1>5. CASE Undone \/ Closed \/ Renewed \/ Cleared
  BY <1>5, UndoneCopying
<1>6. CASE Crash
  BY <1>6, CrashIs DEF Idle
<1> QED BY <1>1, <1>2, <1>3, <1>4, <1>5, <1>6, MigrationCases

-----------------------------------------------------------------------------
(* Writers of a generation that is over.                                    *)

\* A job that writes for another generation has been told, or will be, by a
\* token of its own.
AlienOK ==
  \A j \in Jobs : jobs[j].pc \in Writers /\ jobs[j].gen # Rec.gen =>
    /\ jobs[j].token \in Told
    /\ \A k \in Jobs : jobs[k].token = jobs[j].token => k = j

\* The writers of a task that is handed over keep the coordinator waiting.
CopyingOK ==
  Copying =>
    /\ \A j \in Jobs : jobs[j].pc \in Writers =>
         S.transfer.pause # 0 /\ reg.gen = S.transfer.pause /\ reg.token = jobs[j].token
    /\ S.transfer.planned => ~Writing(S.transfer)

\* A writer has a token.
LEMMA WriterToken ==
  ASSUME TokensOK, NEW k \in Jobs, jobs[k].pc \in Writers
  PROVE  jobs[k].token # NoToken
BY DEF TokensOK, Writers, Early

\* A notification reaches the writer it is for.
LEMMA ToldKept ==
  ASSUME HandoverOK, HandoverOK', NEW k \in Jobs, 
         jobs'[k].pc \in Writers, jobs[k].token \in Told,
         \A i \in Jobs : jobs[i].token = jobs[k].token => i = k, QueueNext
  PROVE  jobs[k].token \in Told'
<1>0. TypeOK /\ RecordsOK
  BY DEF HandoverOK
<1>1. CASE \E g \in Generations : Resume(g)
  <2>1. PICK g \in Generations : Resume(g)
    BY <1>1
  <2> QED BY <1>0, <2>1, ResumeIs DEF Told, Captured
<1>2. CASE \E g \in Generations : Accept(g)
  <2>1. PICK g \in Generations : Accept(g)
    BY <1>2
  <2> QED BY <1>0, <2>1, AcceptIs DEF Told, Captured
<1>3. CASE \E g \in Generations : Cancel(g)
  <2>1. PICK g \in Generations : Cancel(g)
    BY <1>3
  <2> QED BY <1>0, <2>1, CancelIs DEF Told, Captured
<1>4. CASE \E t \in Tokens : Deliver(t)
  <2>1. PICK t \in Tokens : Deliver(t)
    BY <1>4
  <2> QED BY <1>0, <2>1, DeliverIs DEF Told, Referenced
<1>5. CASE \E j \in Jobs : Prepare(j)
  <2>1. PICK j \in Jobs : Prepare(j)
    BY <1>5
  <2>2. CASE k = j
    BY <1>0, <2>1, <2>2, PrepareIs DEF Told, Captured
  <2>3. CASE k # j
    BY <1>0, <2>1, <2>3, PrepareIs DEF Told, Captured
  <2> QED BY <2>2, <2>3
<1>6. CASE \E j \in Jobs : Probe(j)
  <2>1. PICK j \in Jobs : Probe(j)
    BY <1>6
  <2>2. CASE k = j
    BY <1>0, <2>1, <2>2, ProbeIs DEF Told, Captured
  <2>3. CASE k # j
    BY <1>0, <2>1, <2>3, ProbeIs DEF Told, Captured
  <2> QED BY <2>2, <2>3
<1>7. CASE \E j \in Jobs : Choose(j)
  <2>1. PICK j \in Jobs : Choose(j)
    BY <1>7
  <2>2. CASE k = j
    BY <1>0, <2>1, <2>2, ChooseIs DEF Told, Captured
  <2>3. CASE k # j
    BY <1>0, <2>1, <2>3, ChooseIs DEF Told, Captured
  <2> QED BY <2>2, <2>3
<1>8. CASE \E j \in Jobs : Register(j)
  <2>1. PICK j \in Jobs : Register(j)
    BY <1>8
  <2>2. \A x \in Fresh : x # jobs[k].token
    BY DEF Fresh
  <2> QED BY <1>0, <2>1, <2>2, RegisterIs DEF Told
<1>9. CASE \E j \in Jobs : GiveUp(j)
  <2>1. PICK j \in Jobs : GiveUp(j)
    BY <1>9
  <2>2. j # k
    BY <1>0, <2>1, GiveUpIs DEF Finishes, Writers
  <2>3. jobs[j].token # jobs[k].token
    BY <2>2
  <2> QED BY <1>0, <2>1, <2>3, GiveUpIs DEF Told
<1>10. CASE \E j \in Jobs : Begin(j)
  <2>1. PICK j \in Jobs : Begin(j)
    BY <1>10
  <2>2. CASE k = j
    BY <1>0, <2>1, <2>2, BeginIs DEF Told, Captured
  <2>3. CASE k # j
    BY <1>0, <2>1, <2>3, BeginIs DEF Told, Captured
  <2> QED BY <2>2, <2>3
<1>11. CASE \E j \in Jobs : Observe(j)
  <2>1. PICK j \in Jobs : Observe(j)
    BY <1>11
  <2>2. j # k
    BY <1>0, <2>1, ObserveIs DEF Turns, Writers
  <2>3. jobs[j].token # jobs[k].token
    BY <2>2
  <2> QED BY <1>0, <2>1, <2>3, ObserveIs DEF Told
<1>12. CASE \E j \in Jobs : Stop(j)
  <2>1. PICK j \in Jobs : Stop(j)
    BY <1>12
  <2>2. CASE k = j
    BY <1>0, <2>1, <2>2, StopIs DEF Told, Captured
  <2>3. CASE k # j
    BY <1>0, <2>1, <2>3, StopIs DEF Told, Captured
  <2> QED BY <2>2, <2>3
<1>13. CASE \E j \in Jobs : SetPlan(j)
  <2>1. PICK j \in Jobs : SetPlan(j)
    BY <1>13
  <2>2. CASE k = j
    BY <1>0, <2>1, <2>2, SetPlanIs DEF Told, Captured
  <2>3. CASE k # j
    BY <1>0, <2>1, <2>3, SetPlanIs DEF Told, Captured
  <2> QED BY <2>2, <2>3
<1>14. CASE \E j \in Jobs : InspectFails(j)
  <2>1. PICK j \in Jobs : InspectFails(j)
    BY <1>14
  <2>2. CASE k = j
    BY <1>0, <2>1, <2>2, InspectFailsIs DEF Told, Captured
  <2>3. CASE k # j
    BY <1>0, <2>1, <2>3, InspectFailsIs DEF Told, Captured
  <2> QED BY <2>2, <2>3
<1>15. CASE \E j \in Jobs : Recheck(j)
  <2>1. PICK j \in Jobs : Recheck(j)
    BY <1>15
  <2>2. CASE k = j
    BY <1>0, <2>1, <2>2, RecheckIs DEF Told, Captured
  <2>3. CASE k # j
    BY <1>0, <2>1, <2>3, RecheckIs DEF Told, Captured
  <2> QED BY <2>2, <2>3
<1>16. CASE \E j \in Jobs : Ask(j)
  <2>1. PICK j \in Jobs : Ask(j)
    BY <1>16
  <2>2. CASE k = j
    BY <1>0, <2>1, <2>2, AskIs DEF Told, Captured
  <2>3. CASE k # j
    BY <1>0, <2>1, <2>3, AskIs DEF Told, Captured
  <2> QED BY <2>2, <2>3
<1>17. CASE \E j \in Jobs : Fail(j)
  <2>1. PICK j \in Jobs : Fail(j)
    BY <1>17
  <2>2. CASE k = j
    BY <1>0, <2>1, <2>2, FailIs DEF Told, Captured
  <2>3. CASE k # j
    BY <1>0, <2>1, <2>3, FailIs DEF Told, Captured
  <2> QED BY <2>2, <2>3
<1>18. CASE \E j \in Jobs : Verify(j)
  <2>1. PICK j \in Jobs : Verify(j)
    BY <1>18
  <2>2. CASE k = j
    BY <1>0, <2>1, <2>2, VerifyIs DEF Told, Captured
  <2>3. CASE k # j
    BY <1>0, <2>1, <2>3, VerifyIs DEF Told, Captured
  <2> QED BY <2>2, <2>3
<1>19. CASE \E j \in Jobs : Complete(j)
  <2>1. PICK j \in Jobs : Complete(j)
    BY <1>19
  <2>2. CASE k = j
    BY <1>0, <2>1, <2>2, CompleteIs DEF Told, Captured
  <2>3. CASE k # j
    BY <1>0, <2>1, <2>3, CompleteIs DEF Told, Captured
  <2> QED BY <2>2, <2>3
<1>20. CASE \E j \in Jobs : Leave(j)
  <2>1. PICK j \in Jobs : Leave(j)
    BY <1>20
  <2>2. j # k
    BY <1>0, <2>1, LeaveIs DEF Finishes, Writers
  <2>3. jobs[k].token \in Referenced(Jobs \ {j}, reg')
    BY <2>2 DEF Referenced
  <2> QED BY <1>0, <2>1, <2>3, LeaveIs DEF Told
<1> QED BY <1>1, <1>2, <1>3, <1>4, <1>5, <1>6, <1>7, <1>8, <1>9, <1>10, <1>11, <1>12,
       <1>13, <1>14, <1>15, <1>16, <1>17, <1>18, <1>19, <1>20, QueueCases

\* Every step keeps AlienOK: a generation with a writer ends only by a handover,
\* which captures the writer's token.
LEMMA AlienStep ==
  ASSUME HandoverOK, HandoverOK', TokensOK, TokensOK', WorkingOK, FirstOK, AloneOK, AlienOK,
         Next
  PROVE  AlienOK'
<1>0. TypeOK /\ RecordsOK
  BY DEF HandoverOK
<1> SUFFICES ASSUME NEW k \in Jobs, jobs'[k].pc \in Writers, jobs'[k].gen # Rec'.gen
             PROVE  /\ jobs'[k].token \in Told'
                    /\ \A i \in Jobs : jobs'[i].token = jobs'[k].token => i = k
  BY DEF AlienOK
<1>1. /\ jobs[k].pc \in Writers /\ jobs'[k].gen = jobs[k].gen /\ jobs'[k].token = jobs[k].token
  <2>1. CASE QueueNext
    BY <2>1, QueueOpens DEF Opens, Wrote
  <2>2. CASE UNCHANGED jobs
    BY <2>2
  <2>3. CASE Requeues(Rec.gen)
    BY <2>3 DEF Requeues, Starts, Same, Writers
  <2>4. CASE Crash
    BY <2>4, CrashIs DEF Idle, Writers
  <2> QED BY <2>1, <2>2, <2>3, <2>4, MigrationMoves
<1>2. jobs[k].token # NoToken
  BY <1>1, WriterToken
<1>3. CASE jobs[k].gen # Rec.gen
  <2>1. /\ jobs[k].token \in Told
        /\ \A i \in Jobs : jobs[i].token = jobs[k].token => i = k
    BY <1>1, <1>3 DEF AlienOK
  <2>2. jobs[k].token \in Told'
    <3>1. CASE QueueNext
      BY <2>1, <3>1, ToldKept
    <3>2. CASE UNCHANGED permits /\ calls \subseteq calls'
      BY <2>1, <3>2 DEF Told
    <3>3. CASE Crash
      BY <3>3, CrashIs DEF Idle, Writers
    <3> QED BY <3>1, <3>2, <3>3, MigrationMoves
  <2>3. ASSUME NEW i \in Jobs, jobs'[i].token = jobs'[k].token
        PROVE  i = k
    <3>1. CASE Registers(i)
      <4>1. reg.gen # jobs[i].gen
        <5>1. ASSUME reg.gen = jobs[i].gen PROVE FALSE
          BY <1>1, <1>2, <1>3, <2>3, <3>1, <5>1 DEF Registers, TokensOK, Fresh
        <5> QED BY <5>1
      <4> QED BY <1>1, <2>3, <3>1, <4>1 DEF Registers, Fresh
    <3>2. CASE ~Registers(i)
      <4>1. jobs'[i].token = jobs[i].token
        BY <1>1, <1>2, <2>3, <3>2, JobMoves DEF Continues, Ends, Arrives
      <4> QED BY <1>1, <2>1, <2>3, <4>1
    <3> QED BY <3>1, <3>2
  <2> QED BY <1>1, <2>2, <2>3
<1>4. CASE jobs[k].gen = Rec.gen
  <2>1. AtW(k) /\ Mine(k) /\ jobs[k].pc \notin Early
    BY <1>1, <1>4 DEF AtW, Mine, Live, AtWork, Inside, Writers, Early
  <2>2. Begins_
    BY <1>1, <1>4, <2>1, WorkingIs, GenMoves DEF Resumable
  <2>3. Virgin /\ UNCHANGED <<reg, permits, jobs>> /\ (reg.gen = Rec.gen => calls' = Captured)
    BY <2>2, BegunIs DEF Begins_, Virgin
  <2>4. reg.gen = Rec.gen /\ reg.token = jobs[k].token
    BY <2>1, <2>3, MineIs DEF Owned
  <2>5. jobs[k].token \in Told'
    BY <1>2, <2>3, <2>4 DEF Captured, Told
  <2>6. \A i \in Jobs : jobs[i].token = jobs[k].token => i = k
    BY <1>2, <2>3 DEF AloneOK
  <2> QED BY <1>1, <2>3, <2>5, <2>6
<1> QED BY <1>3, <1>4

\* Every step keeps CopyingOK.
LEMMA CopyingStep ==
  ASSUME HandoverOK, HandoverOK', TokensOK, TokensOK', WorkingOK, FirstOK, AloneOK,
         CopyingOK,
         Next
  PROVE  CopyingOK'
<1>0. TypeOK /\ RecordsOK
  BY DEF HandoverOK
<1> SUFFICES ASSUME Copying'
             PROVE  /\ \A j \in Jobs : jobs'[j].pc \in Writers =>
                         /\ S'.transfer.pause # 0 /\ reg'.gen = S'.transfer.pause
                         /\ reg'.token = jobs'[j].token
                    /\ S'.transfer.planned =>
                         ~(reg'.gen = S'.transfer.pause /\ S'.transfer.pause # 0)
  BY DEF CopyingOK, Writing
<1>1. CASE QueueNext /\ UNCHANGED job
  <2>1. Copying /\ S'.transfer = S.transfer
    <3>1. Inert
      BY <1>0, <1>1, QueueInert
    <3> QED BY <3>1 DEF Inert, Copying, S, Libraries
  <2>2. Pending
    BY <1>0, <2>1, Alone
  <2>3. \A i \in Jobs : ~Registers(i)
    BY <2>2 DEF Registers
  <2>4. ASSUME NEW j \in Jobs, jobs'[j].pc \in Writers
        PROVE  /\ S.transfer.pause # 0 /\ reg'.gen = S.transfer.pause
               /\ reg'.token = jobs'[j].token
    <3>1. ~Opens(j)
      BY <2>2 DEF Opens, Wrote
    <3>2. jobs[j].pc \in Writers /\ jobs'[j].token = jobs[j].token
      BY <1>1, <2>4, <3>1, QueueOpens
    <3>3. S.transfer.pause # 0 /\ reg.gen = S.transfer.pause /\ reg.token = jobs[j].token
      BY <2>1, <3>2 DEF CopyingOK
    <3>4. \A i \in Jobs : jobs[i].token = jobs[j].token => i = j
      BY <2>1, <3>2, WriterToken DEF AloneOK
    <3>5. jobs'[j].pc # "off"
      BY <2>4 DEF Writers
    <3>6. reg' = reg
      BY <1>1, <2>2, <2>3, <3>3, <3>4, <3>5, QueueRegistered
    <3> QED BY <3>2, <3>3, <3>6
  <2>5. reg' = reg \/ reg' = Unregistered
    BY <1>1, <2>3, QueueRegs
  <2>6. S.transfer.planned => ~(reg'.gen = S.transfer.pause /\ S.transfer.pause # 0)
    BY <2>1, <2>5 DEF CopyingOK, Writing, Unregistered
  <2> QED BY <2>1, <2>4, <2>6
<1>2. CASE Quiet
  <2>1. Copying /\ S' = S
    BY <1>2 DEF Quiet, Keeps, Copying, Has, S
  <2> QED BY <1>2, <2>1 DEF Quiet, Queues, CopyingOK, Writing
<1>3. CASE Begins_
  <2>1. /\ Virgin /\ UNCHANGED <<reg, jobs>> /\ Home = "source" /\ Stays
        /\ ~Rec'.transfer.planned
        /\ reg.gen = Rec.gen => Rec'.transfer.pause = Rec.gen
    BY <1>3, BegunIs DEF Begins_, Virgin
  <2>2. ASSUME NEW j \in Jobs, jobs[j].pc \in Writers
        PROVE  reg.gen = Rec.gen /\ reg.token = jobs[j].token
    <3>1. Mine(j) /\ jobs[j].pc \notin Early
      BY <2>1, <2>2 DEF FirstOK, Mine, Live, AtWork, Inside, Writers, Early
    <3> QED BY <2>1, <3>1, MineIs DEF Owned
  <2>3. S' = Rec'
    BY <2>1 DEF Stays
  <2>4. Rec.gen # 0
    BY QueueTyped
  <2> QED BY <2>1, <2>2, <2>3, <2>4
<1>4. CASE Planned
  <2>1. /\ Home = "source" /\ Rec.handover = "copying" /\ Stays /\ UNCHANGED <<reg, jobs>>
        /\ Rec'.transfer.pause = Rec.transfer.pause /\ ~Writing(Rec.transfer)
    BY <1>4, PlansIs DEF Planned, Plans
  <2>2. Copying /\ Rec.transfer = S.transfer /\ S' = Rec'
    BY <1>0, <2>1, Alone DEF Stays
  <2> QED BY <2>1, <2>2 DEF CopyingOK, Writing
<1>5. CASE Shifted
  <2>1. Copying /\ S' = S
    BY <1>5 DEF Shifted
  <2> QED BY <1>5, <2>1 DEF Shifted, Queues, CopyingOK, Writing
<1>6. CASE Undone \/ Closed \/ Renewed \/ Cleared
  <2>1. ~Copying'
    BY <1>0, <1>6, UndoneCopying
  <2> QED BY <2>1
<1>7. CASE Crash
  <2>1. \A j \in Jobs : jobs'[j].pc \notin Writers
    BY <1>7, CrashIs DEF Idle, Writers
  <2>2. reg'.gen = 0
    BY <1>7, CrashIs DEF Unregistered
  <2> QED BY <2>1, <2>2
<1> QED BY <1>1, <1>2, <1>3, <1>4, <1>5, <1>6, <1>7, MigrationCases

-----------------------------------------------------------------------------
(* The invariant, and the theorems.                                         *)

IInv ==
  /\ HandoverOK /\ TokensOK /\ PendingOK /\ RegOK /\ WorkingOK /\ FirstOK /\ AloneOK
  /\ AlienOK /\ CopyingOK

\* The first state.
LEMMA InitIs ==
  ASSUME Init
  PROVE  /\ StoreT /\ Here /\ JobsT /\ Has("source") /\ ~Has("target")
         /\ Home = "source" /\ Rec = S
         /\ S.status = "Received" /\ S.gen = 1 /\ ~S.cancel /\ S.handover = "none"
         /\ S.transfer = NoTransfer
         /\ \E i \in Jobs : \A j \in Jobs :
              \/ j = i /\ jobs[j].pc = "prepare" /\ jobs[j].gen = 1 /\ jobs[j].token = NoToken
              \/ j # i /\ jobs[j].pc = "off" /\ jobs[j].gen = 0 /\ jobs[j].token = NoToken
         /\ reg.gen = 0 /\ reg.token = NoToken /\ permits = {} /\ calls = {}
<1> DEFINE r == [status |-> "Received", gen |-> 1, cancel |-> FALSE, handover |-> "none",
                 transfer |-> NoTransfer]
           c == CHOOSE k \in Jobs : TRUE
           i == [pc |-> "prepare", gen |-> 1, token |-> NoToken]
<1>1. r \in Records
  <2>1. NoTransfer \in Transfers
    BY QueueAssumption DEF NoTransfer, Transfers, Statuses, Unfinished
  <2> QED BY <2>1, QueueAssumption DEF Records, Statuses, Unfinished, Generations, Handovers
<1>2. /\ store = [l \in Libraries |-> IF l = "source" THEN r ELSE NoRecord]
      /\ reg = Unregistered /\ permits = {} /\ calls = {}
      /\ jobs = [j \in Jobs |-> IF j = c THEN i ELSE Idle]
  BY DEF Init, QueueInit
<1>3. c \in Jobs
  BY QueueAssumption
<1>4. S = r /\ store["target"] = NoRecord
  BY <1>2 DEF S, Libraries
<1>5. /\ S.status = "Received" /\ S.gen = 1 /\ ~S.cancel /\ S.handover = "none"
      /\ S.transfer = NoTransfer
  BY <1>4
<1>6. StoreT
  BY <1>1, <1>2 DEF StoreT
<1>7. \A j \in Jobs : jobs[j] = IF j = c THEN i ELSE Idle
  BY <1>2
<1>8. JobsT
  BY <1>2, QueueAssumption DEF JobsT, Idle, Before
<1>9. \A j \in Jobs :
        \/ j = c /\ jobs[j].pc = "prepare" /\ jobs[j].gen = 1 /\ jobs[j].token = NoToken
        \/ j # c /\ jobs[j].pc = "off" /\ jobs[j].gen = 0 /\ jobs[j].token = NoToken
  BY <1>7 DEF Idle
<1> HIDE DEF r, c, i
<1>10. Has("source") /\ ~Has("target")
  BY <1>1, <1>4, RecordsAre DEF Has, S
<1>11. Here /\ Home = "source" /\ Rec = S
  BY <1>6, <1>10, HomeIs DEF Here
<1>12. reg.gen = 0 /\ reg.token = NoToken /\ permits = {} /\ calls = {}
  BY <1>2 DEF Unregistered
<1> QED BY <1>3, <1>5, <1>6, <1>8, <1>9, <1>10, <1>11, <1>12

\* The facts of the handover hold in it, ...
LEMMA InitHandover ==
  ASSUME Init
  PROVE  HandoverOK
<1>1. JobT
  BY QueueAssumption DEF Init, JobT, NoJob, Held, Runnable, Media
<1>2. TokenT
  <2>1. Unregistered \in [gen : 0 .. MaxGen, token : Tokens \cup {NoToken}]
    BY QueueAssumption DEF Unregistered
  <2> QED BY <2>1 DEF Init, QueueInit, TokenT
<1>3. TypeOK
  BY <1>1, <1>2, InitIs, TypeParts, MigrationAssumption DEF Init, Places
<1>4. /\ job.status = "none" /\ ~job.plan /\ ~job.committed /\ job.payload /\ ~job.final
      /\ job.media = "copying" /\ job.impact = 0 /\ at = "off"
  BY DEF Init, NoJob
<1>5. RecordsOK
  BY InitIs DEF RecordsOK
<1>6. JobOK
  BY <1>4, QueueAssumption DEF JobOK
<1>7. AtOK
  BY <1>4 DEF AtOK
<1> QED BY <1>3, <1>5, <1>6, <1>7 DEF HandoverOK

\* ... and so does the inductive invariant.
LEMMA InitInv ==
  Init => IInv
<1> SUFFICES ASSUME Init PROVE IInv
  OBVIOUS
<1>1. HandoverOK
  BY InitHandover
<1>2. /\ ~Pending /\ Rec.status = "Received" /\ Rec.gen = 1 /\ ~Rec.cancel
      /\ reg.gen = 0 /\ reg.token = NoToken /\ permits = {} /\ calls = {}
      /\ S.handover = "none"
  BY InitIs DEF Pending
<1>3. PICK i \in Jobs : \A j \in Jobs :
        \/ j = i /\ jobs[j].pc = "prepare" /\ jobs[j].gen = 1 /\ jobs[j].token = NoToken
        \/ j # i /\ jobs[j].pc = "off" /\ jobs[j].gen = 0 /\ jobs[j].token = NoToken
  BY InitIs
<1>4. \A j \in Jobs : /\ jobs[j].pc \in {"prepare", "off"} /\ jobs[j].token = NoToken
                      /\ jobs[j].pc = "prepare" => j = i
  BY <1>3
<1>5. TokensOK
  BY <1>2, <1>3 DEF TokensOK, Early
<1>6. PendingOK /\ RegOK
  BY <1>2 DEF PendingOK, RegOK
<1>7. \A j \in Jobs : ~AtW(j)
  BY <1>4 DEF AtW, AtWork, Inside
<1>8. WorkingOK
  <2>1. Working = {}
    BY <1>7, AtWIs
  <2> QED BY <1>2, <2>1 DEF WorkingOK
<1>9. FirstOK
  <2>1. ASSUME NEW j \in Jobs, Mine(j) PROVE Owned(j)
    <3>1. \A k \in Jobs : Mine(k) => k = i
      BY <1>4 DEF Mine, Live, Before, AtWork, Inside
    <3>2. jobs[j].pc = "prepare"
      BY <1>4, <2>1 DEF Mine, Live, Before, AtWork, Inside
    <3> QED BY <1>2, <2>1, <3>1, <3>2 DEF Owned, Fits, Early
  <2> QED BY <1>2, <1>4, <2>1 DEF FirstOK, Writers
<1>10. AloneOK
  BY <1>4 DEF AloneOK
<1>11. AlienOK
  BY <1>4 DEF AlienOK, Writers
<1>12. CopyingOK
  BY <1>2 DEF CopyingOK, Copying
<1> QED BY <1>1, <1>5, <1>6, <1>8, <1>9, <1>10, <1>11, <1>12 DEF IInv

\* Every step keeps the inductive invariant.
LEMMA IInvNext ==
  IInv /\ [Next]_vars => IInv'
<1> SUFFICES ASSUME IInv, [Next]_vars PROVE IInv'
  OBVIOUS
<1>1. HandoverOK'
  BY HandoverStep DEF IInv
<1>2. CASE Next
  <2>1. TokensOK' /\ PendingOK'
    BY <1>1, <1>2, TokensStep, PendingStep DEF IInv
  <2>2. RegOK' /\ WorkingOK'
    BY <1>1, <1>2, <2>1, RegStep, WorkingStep DEF IInv
  <2>3. FirstOK' /\ AloneOK'
    BY <1>1, <1>2, FirstStep, AloneStep DEF IInv
  <2>4. AlienOK' /\ CopyingOK'
    BY <1>1, <1>2, <2>1, AlienStep, CopyingStep DEF IInv
  <2> QED BY <1>1, <2>1, <2>2, <2>3, <2>4 DEF IInv
<1>3. CASE UNCHANGED vars
  <2>1. UNCHANGED <<store, reg, permits, calls, jobs, job, at, budget>>
    BY <1>3 DEF vars
  <2>2. Has("source")' <=> Has("source")
    BY <2>1 DEF Has
  <2>3. Home' = Home /\ Rec' = Rec /\ S' = S
    BY <2>1 DEF Home, Rec, S, Has
  <2>4. /\ Pending' <=> Pending
        /\ Virgin' <=> Virgin
        /\ Copying' <=> Copying
        /\ Told' = Told
    BY <2>1, <2>2, <2>3 DEF Pending, Virgin, GivenBack, Copying, Told
  <2>5. TokensOK' /\ PendingOK' /\ RegOK'
    BY <2>1, <2>3, <2>4 DEF IInv, TokensOK, PendingOK, RegOK
  <2>6. WorkingOK'
    BY <2>1, <2>3, <2>4 DEF IInv, WorkingOK, Working
  <2>7. FirstOK'
    BY <2>1, <2>3, <2>4 DEF IInv, FirstOK, Mine, Owned, Fits, Wanted, AtW
  <2>8. AloneOK' /\ AlienOK' /\ CopyingOK'
    BY <2>1, <2>3, <2>4 DEF IInv, AloneOK, AlienOK, CopyingOK, Writing
  <2> QED BY <1>1, <2>5, <2>6, <2>7, <2>8 DEF IInv
<1> QED BY <1>2, <1>3

\* The inductive invariant always holds.
LEMMA IInvAlways ==
  Spec => []IInv
BY InitInv, IInvNext, PTL DEF Spec

\* Every variable stays in its domain (queue.rs, library_migration.rs).
THEOREM TypeCorrect ==
  Spec => []TypeOK
<1>1. IInv => TypeOK
  BY DEF IInv, HandoverOK
<1> QED BY <1>1, IInvAlways, PTL

\* The task is in one of the two queues at any time, and in both only between
\* the two steps of the commit, as a record that neither queue lets anybody use
\* (commit, remove_task_for_transfer, reconcile).
THEOREM RecordIsInOneQueue ==
  Spec => []OneRecord
<1>1. IInv => OneRecord
  BY DEF IInv, HandoverOK, RecordsOK, OneRecord, S, T
<1> QED BY <1>1, IInvAlways, PTL

\* No job writes into the staging files once the plan that names them is in the
\* record, whichever jobs of which generations are left
\* (begin, wait_for_task_destination_transfer, task_transfer_plan).
THEOREM StagingIsNotWrittenOncePlanned ==
  Spec => []NoWriterOncePlanned
<1>1. IInv => NoWriterOncePlanned
  BY DEF IInv, CopyingOK, Copying, Writers, Writing, NoWriterOncePlanned, S
<1> QED BY <1>1, IInvAlways, PTL

\* Nothing of the task or the media leaves the source before the record has,
\* and nothing is left there once the task may be used at the target
\* (step_inner, step_task_source_cleanup, clear_task_destination_transfer_ack).
THEOREM SourceIsKeptUntilHandedOver ==
  Spec => []SourceStagingKept
<1>1. ASSUME IInv PROVE SourceStagingKept
  <2>1. TypeOK /\ RecordsOK /\ JobOK
    BY <1>1 DEF IInv, HandoverOK
  <2>2. ~job.payload \/ job.media = "complete" =>
          job.committed /\ ~Has("source") /\ Has("target")
    BY <2>1 DEF JobOK, RecordsOK
  <2>3. ASSUME Home = "target", ~Pending PROVE Cleaned
    <3>1. Has("target") /\ T.handover = "none"
      BY <2>1, <2>3, Alone, HomeIs DEF Pending, Rec, T
    <3> QED BY <2>1, <3>1 DEF RecordsOK
  <2> QED BY <2>2, <2>3 DEF SourceStagingKept
<1> QED BY <1>1, IInvAlways, PTL

\* At most one job of the task's generation is at work, and the record's status
\* tells; a writer of an older generation has its notification on the way
\* (begin_run, claim_resume, accept_plan, recover_interrupted_tasks).
THEOREM OneJobIsAtWork ==
  Spec => []OneRunner
<1>1. ASSUME IInv PROVE OneRunner
  <2>1. WorkingOK /\ FirstOK /\ AlienOK
    BY <1>1 DEF IInv
  <2>2. Cardinality(Working) <= 1 /\ (Working # {} => Cardinality(Working) = 1)
    <3>1. CASE Working = {}
      BY <3>1, FS_EmptySet
    <3>2. CASE Working # {}
      <4>1. PICK w : w \in Working
        BY <3>2
      <4>2. \A x \in Working : x = w
        BY <2>1, <4>1 DEF WorkingOK
      <4>3. Working = {w}
        BY <4>1, <4>2
      <4>4. Cardinality({w}) = 1
        BY FS_Singleton
      <4> QED BY <4>1, <4>3, <4>4
    <3> QED BY <3>1, <3>2
  <2>3. ~Pending /\ Rec.status = "Verifying" => Working # {}
    BY <2>1 DEF WorkingOK
  <2>4. ~Pending /\ Rec.status = "Running" /\ ~GivenBack => Working # {}
    BY <2>1, AtWIs DEF FirstOK, Virgin
  <2>5. \A j \in Jobs : jobs[j].pc \in {"inspecting", "working"} /\ jobs[j].gen # Rec.gen =>
          jobs[j].token \in permits \cup calls
    BY <2>1 DEF AlienOK, Writers, Told
  <2>6. Working # {} => ~Pending /\ Rec.status \in {"Running", "Verifying", "Cancelled"}
    BY <2>1 DEF WorkingOK
  <2> QED BY <2>2, <2>3, <2>4, <2>5, <2>6 DEF OneRunner
<1> QED BY <1>1, IInvAlways, PTL

\* A notification that stops a job of the generation was meant for it.
LEMMA QueueStops ==
  ASSUME HandoverOK, HandoverOK', NEW k \in Jobs, 
         jobs[k].pc \in {"waiting", "inspecting", "working"},
         jobs'[k].pc \in {"stopping", "off"}, FirstOK, QueueNext
  PROVE  ~Wanted(k) \/ GivenBack
<1>0. TypeOK /\ RecordsOK
  BY DEF HandoverOK
<1>1. CASE \E g \in Generations : Resume(g)
  <2>1. PICK g \in Generations : Resume(g)
    BY <1>1
  <2> QED BY <1>0, <2>1, ResumeIs DEF Starts, Same
<1>2. CASE \E g \in Generations : Accept(g)
  <2>1. PICK g \in Generations : Accept(g)
    BY <1>2
  <2> QED BY <1>0, <2>1, AcceptIs DEF Starts, Same
<1>3. CASE \E g \in Generations : Cancel(g)
  <2>1. PICK g \in Generations : Cancel(g)
    BY <1>3
  <2> QED BY <1>0, <2>1, CancelIs DEF Same
<1>4. CASE \E t \in Tokens : Deliver(t)
  <2>1. PICK t \in Tokens : Deliver(t)
    BY <1>4
  <2> QED BY <1>0, <2>1, DeliverIs DEF Same
<1>5. CASE \E j \in Jobs : Prepare(j)
  <2>1. PICK j \in Jobs : Prepare(j)
    BY <1>5
  <2>2. CASE k = j
    BY <1>0, <2>1, <2>2, PrepareIs DEF Turns, Finishes, Same
  <2>3. CASE k # j
    BY <1>0, <2>1, <2>3, PrepareIs DEF Turns, Finishes, Same
  <2> QED BY <2>2, <2>3
<1>6. CASE \E j \in Jobs : Probe(j)
  <2>1. PICK j \in Jobs : Probe(j)
    BY <1>6
  <2>2. CASE k = j
    BY <1>0, <2>1, <2>2, ProbeIs DEF Turns, Finishes, Same
  <2>3. CASE k # j
    BY <1>0, <2>1, <2>3, ProbeIs DEF Turns, Finishes, Same
  <2> QED BY <2>2, <2>3
<1>7. CASE \E j \in Jobs : Choose(j)
  <2>1. PICK j \in Jobs : Choose(j)
    BY <1>7
  <2>2. CASE k = j
    BY <1>0, <2>1, <2>2, ChooseIs DEF Turns, Finishes, Same
  <2>3. CASE k # j
    BY <1>0, <2>1, <2>3, ChooseIs DEF Turns, Finishes, Same
  <2> QED BY <2>2, <2>3
<1>8. CASE \E j \in Jobs : Register(j)
  <2>1. PICK j \in Jobs : Register(j)
    BY <1>8
  <2>2. CASE k = j
    BY <1>0, <2>1, <2>2, RegisterIs DEF Finishes, Same
  <2>3. CASE k # j
    BY <1>0, <2>1, <2>3, RegisterIs DEF Finishes, Same
  <2> QED BY <2>2, <2>3
<1>9. CASE \E j \in Jobs : GiveUp(j)
  <2>1. PICK j \in Jobs : GiveUp(j)
    BY <1>9
  <2>2. k = j
    BY <1>0, <2>1, GiveUpIs DEF Finishes, Same
  <2>3. jobs[k].pc \in {"waiting", "inspecting", "working"} /\ jobs[k].token \in Told
    BY <1>0, <2>1, <2>2, GiveUpIs DEF Told
  <2>4. ASSUME Virgin, Wanted(k) PROVE FALSE
    <3>1. Mine(k)
      BY <2>3, <2>4 DEF Wanted, Mine, Live, Before, AtWork, Inside
    <3> QED BY <2>3, <2>4, <3>1, MineIs DEF Owned
  <2> QED BY <2>4 DEF Virgin, Wanted
<1>10. CASE \E j \in Jobs : Begin(j)
  <2>1. PICK j \in Jobs : Begin(j)
    BY <1>10
  <2>2. CASE k = j
    BY <1>0, <2>1, <2>2, BeginIs DEF Turns, Same
  <2>3. CASE k # j
    BY <1>0, <2>1, <2>3, BeginIs DEF Turns, Same
  <2> QED BY <2>2, <2>3
<1>11. CASE \E j \in Jobs : Observe(j)
  <2>1. PICK j \in Jobs : Observe(j)
    BY <1>11
  <2>2. k = j
    BY <1>0, <2>1, ObserveIs DEF Turns, Same
  <2>3. jobs[k].pc \in {"waiting", "inspecting", "working"} /\ jobs[k].token \in Told
    BY <1>0, <2>1, <2>2, ObserveIs DEF Told
  <2>4. ASSUME Virgin, Wanted(k) PROVE FALSE
    <3>1. Mine(k)
      BY <2>3, <2>4 DEF Wanted, Mine, Live, Before, AtWork, Inside
    <3> QED BY <2>3, <2>4, <3>1, MineIs DEF Owned
  <2> QED BY <2>4 DEF Virgin, Wanted
<1>12. CASE \E j \in Jobs : Stop(j)
  <2>1. PICK j \in Jobs : Stop(j)
    BY <1>12
  <2>2. CASE k = j
    BY <1>0, <2>1, <2>2, StopIs DEF Turns, Same
  <2>3. CASE k # j
    BY <1>0, <2>1, <2>3, StopIs DEF Turns, Same
  <2> QED BY <2>2, <2>3
<1>13. CASE \E j \in Jobs : SetPlan(j)
  <2>1. PICK j \in Jobs : SetPlan(j)
    BY <1>13
  <2>2. CASE k = j
    BY <1>0, <2>1, <2>2, SetPlanIs DEF Turns, Same
  <2>3. CASE k # j
    BY <1>0, <2>1, <2>3, SetPlanIs DEF Turns, Same
  <2> QED BY <2>2, <2>3
<1>14. CASE \E j \in Jobs : InspectFails(j)
  <2>1. PICK j \in Jobs : InspectFails(j)
    BY <1>14
  <2>2. CASE k = j
    BY <1>0, <2>1, <2>2, InspectFailsIs DEF Turns, Same
  <2>3. CASE k # j
    BY <1>0, <2>1, <2>3, InspectFailsIs DEF Turns, Same
  <2> QED BY <2>2, <2>3
<1>15. CASE \E j \in Jobs : Recheck(j)
  <2>1. PICK j \in Jobs : Recheck(j)
    BY <1>15
  <2>2. CASE k = j
    BY <1>0, <2>1, <2>2, RecheckIs DEF Turns, Same
  <2>3. CASE k # j
    BY <1>0, <2>1, <2>3, RecheckIs DEF Turns, Same
  <2> QED BY <2>2, <2>3
<1>16. CASE \E j \in Jobs : Ask(j)
  <2>1. PICK j \in Jobs : Ask(j)
    BY <1>16
  <2>2. CASE k = j
    BY <1>0, <2>1, <2>2, AskIs DEF Turns, Finishes, Same
  <2>3. CASE k # j
    BY <1>0, <2>1, <2>3, AskIs DEF Turns, Finishes, Same
  <2> QED BY <2>2, <2>3
<1>17. CASE \E j \in Jobs : Fail(j)
  <2>1. PICK j \in Jobs : Fail(j)
    BY <1>17
  <2>2. CASE k = j
    BY <1>0, <2>1, <2>2, FailIs DEF Turns, Same
  <2>3. CASE k # j
    BY <1>0, <2>1, <2>3, FailIs DEF Turns, Same
  <2> QED BY <2>2, <2>3
<1>18. CASE \E j \in Jobs : Verify(j)
  <2>1. PICK j \in Jobs : Verify(j)
    BY <1>18
  <2>2. CASE k = j
    BY <1>0, <2>1, <2>2, VerifyIs DEF Turns, Same
  <2>3. CASE k # j
    BY <1>0, <2>1, <2>3, VerifyIs DEF Turns, Same
  <2> QED BY <2>2, <2>3
<1>19. CASE \E j \in Jobs : Complete(j)
  <2>1. PICK j \in Jobs : Complete(j)
    BY <1>19
  <2>2. CASE k = j
    BY <1>0, <2>1, <2>2, CompleteIs DEF Turns, Same
  <2>3. CASE k # j
    BY <1>0, <2>1, <2>3, CompleteIs DEF Turns, Same
  <2> QED BY <2>2, <2>3
<1>20. CASE \E j \in Jobs : Leave(j)
  <2>1. PICK j \in Jobs : Leave(j)
    BY <1>20
  <2>2. CASE k = j
    BY <1>0, <2>1, <2>2, LeaveIs DEF Finishes, Same
  <2>3. CASE k # j
    BY <1>0, <2>1, <2>3, LeaveIs DEF Finishes, Same
  <2> QED BY <2>2, <2>3
<1> QED BY <1>1, <1>2, <1>3, <1>4, <1>5, <1>6, <1>7, <1>8, <1>9, <1>10, <1>11, <1>12,
       <1>13, <1>14, <1>15, <1>16, <1>17, <1>18, <1>19, <1>20, QueueCases

\* A job gives up only when nobody wants it any more, or when a migration that
\* has ended may have started another for its generation
\* (request_cancellation_if_matches).
THEOREM StopsAreForThisRun ==
  Spec => StopIsForThisRun
<1>1. ASSUME IInv, [Next]_vars
      PROVE  [\A j \in Jobs :
                jobs[j].pc \in {"waiting", "inspecting", "working"}
                /\ jobs'[j].pc \in {"stopping", "off"} /\ store' = store
                  => ~Wanted(j) \/ GivenBack]_vars
  <2> SUFFICES ASSUME Next, NEW j \in Jobs,
                      jobs[j].pc \in {"waiting", "inspecting", "working"},
                      jobs'[j].pc \in {"stopping", "off"}, store' = store
               PROVE  ~Wanted(j) \/ GivenBack
    BY <1>1
  <2>0. HandoverOK /\ HandoverOK' /\ FirstOK
    BY <1>1, HandoverStep DEF IInv
  <2>1. CASE QueueNext
    BY <2>0, <2>1, QueueStops
  <2>2. CASE UNCHANGED jobs
    BY <2>2
  <2>3. CASE Requeues(Rec.gen)
    BY <2>3 DEF Requeues, Starts, Same
  <2>4. CASE Crash
    BY <2>0, <2>4, CrashIs DEF Wanted, Unfinished
  <2> QED BY <2>0, <2>1, <2>2, <2>3, <2>4, MigrationMoves
<1> QED BY <1>1, IInvAlways, PTL DEF Spec, StopIsForThisRun
=============================================================================
