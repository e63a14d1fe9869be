-------------------------- MODULE FileBatch_proofs --------------------------
(* Theorems of FileBatch, for every batch of moves and patches, and any     *)
(* number of confirmations, stops, faults and changes by the user.          *)
EXTENDS FileBatch, FiniteSetTheorems, TLAPS

-----------------------------------------------------------------------------
(* The strengthening of the invariants.                                     *)

\* The user has been at a path, and what is there is nobody's of the batch.
Foreigns == {Foreign(n) : n \in 1..MaxTouches}
Alien(q) == q \in touched /\ dir[q] \in {None} \cup Foreigns

\* A staged object, or a created NFO, is at its own temporary path or at its
\* NFO's path, and the temporary paths that have no object yet are empty.
Placed == \A q \in Paths, p \in Patches, k \in 0..MaxStages :
  dir[q] = Staged(p, k) => k <= made[p] /\ q \in {StagePath(p, k), NfoPath(p)}
Unmade == \A p \in Patches, k \in Stages : k > made[p] => dir[StagePath(p, k)] = None

\* What is journaled was made; only a replacement is, and an applied one is.
JournalOK ==
  /\ Written => \A p \in Patches : /\ disk.journal[p] <= made[p]
                                   /\ p \in disk.applied \ Creates => disk.journal[p] # 0
  /\ \A p \in Creates : made[p] = 0

\* The file or the patch that a step is about.
Removals   == {"quarantine", "quarantined"}
PatchSteps == {"unstage", "forget", "stage", "journal", "validate", "exchange", "exchanged",
               "discard", "recheck", "recover", "create", "fill", "reverify"} \cup Removals
ChosenOK ==
  /\ At("manifest") => disk = TornManifest
  /\ run.at \in {"rename", "renamed", "undo"} => run.cur \in Files \ mem.moved
  /\ run.at \in PatchSteps => run.cur \in Patches \ mem.applied /\ GroupReady(run.cur)
  /\ run.at \in {"create", "fill"} => run.cur \in Creates
  /\ run.at \in PatchSteps \ ({"create", "fill", "reverify"} \cup Removals) =>
       run.cur \notin Creates

\* Before the exchange the approved NFO is at its path and the staged object
\* at its own, unless the user came between; and before a rename is taken back
\* the file is at its target, on the same condition.
OldThere(p) == dir[NfoPath(p)] = Before(p) \/ Alien(NfoPath(p))
NewThere(p) == dir[StagePath(p, made[p])] = Staged(p, made[p])
               \/ Alien(StagePath(p, made[p]))
FileThere(f) == dir[Target(f)] = Approved(f) \/ Alien(Target(f))
BeforeExchange == {"unstage", "forget", "stage", "journal", "validate", "exchange"}
ReadyOK ==
  /\ \A p \in Patches : run.cur = p =>
       /\ run.at \in BeforeExchange => OldThere(p)
       /\ run.at \in {"journal", "validate", "exchange"} => made[p] # 0 /\ NewThere(p)
  /\ \A f \in Files : run.cur = f => (run.at = "undo" => FileThere(f))

\* From the checkpoint on the journal names the staged object; what is left
\* of the displaced NFO is removed only while its replacement is there.
ReplacedThere(p) == \/ dir[NfoPath(p)] = Staged(p, mem.journal[p])
                    \/ NfoPath(p) \in touched
ReplacedOK == \A p \in Patches : run.cur = p =>
  /\ run.at \in {"validate", "exchange", "exchanged"} => mem.journal[p] = made[p]
  /\ \/ run.at \in {"unstage", "exchanged", "discard", "recheck", "recover"}
     \/ run.at = "reverify" /\ p \notin Creates
     => mem.journal[p] # 0
  /\ run.at \in {"discard", "recover"} => ReplacedThere(p)
  /\ run.at = "reverify" /\ p \notin Creates =>
       \/ dir[StagePath(p, mem.journal[p])] = None
       \/ StagePath(p, mem.journal[p]) \in touched

\* A removal is of a created NFO before its bytes, of a staged object while
\* the approved NFO is in its place, or of the displaced NFO while its
\* replacement is; and its name holds that object, unless the user came there.
RemovesPartial(p) ==
  /\ p \in Creates /\ run.then = "fail"
  /\ run.path = NfoPath(p) /\ run.expected = Partial(p)
RemovesMade(p) ==
  /\ p \notin Creates /\ run.then \in {"fail", "fail_journaled"}
  /\ made[p] # 0 /\ OldThere(p)
  /\ run.path = StagePath(p, made[p]) /\ run.expected = Staged(p, made[p])
RemovesStaged(p) ==
  /\ p \notin Creates /\ run.then = "forget"
  /\ mem.journal[p] # 0 /\ OldThere(p)
  /\ run.path = StagePath(p, mem.journal[p]) /\ run.expected = Staged(p, mem.journal[p])
RemovesBefore(p) ==
  /\ p \notin Creates /\ run.then \in {"recheck", "apply"}
  /\ mem.journal[p] # 0 /\ ReplacedThere(p)
  /\ run.path = StagePath(p, mem.journal[p]) /\ run.expected = Before(p)
RemovalOf(p) == \/ RemovesPartial(p) \/ RemovesMade(p)
                \/ RemovesStaged(p) \/ RemovesBefore(p)
RemovalOK == \A p \in Patches : run.cur = p =>
  /\ run.at \in Removals => RemovalOf(p)
  /\ run.at = "quarantine" => dir[run.path] = run.expected \/ Alien(run.path)
  /\ run.at = "quarantined" =>
       /\ Quarantined \in quarantine
       /\ run.moved = run.expected \/ (run.moved \in Foreigns /\ run.path \in touched)
       /\ dir[run.path] = None \/ Alien(run.path)

\* What a quarantine holds is the object its removal is of or another
\* program's, and the former may go: it is partial, it is staged and nowhere
\* else, or the replacement the durable manifest names is in its place.
Superseded(p) == \/ Written /\ dir[NfoPath(p)] = Staged(p, disk.journal[p])
                 \/ NfoPath(p) \in touched
Removable(o) ==
  \/ \E p \in Patches : o = Partial(p)
  \/ \E p \in Patches \ Creates, k \in Stages :
       k <= made[p] /\ o = Staged(p, k) /\ \A q \in Paths : dir[q] # o
  \/ \E p \in Patches \ Creates : o = Before(p) /\ Superseded(p)
HiddenOK == \A h \in quarantine :
  h[1] \notin Foreigns /\ (h[2] \in Foreigns \/ (h[1] = h[2] /\ Removable(h[2])))

IInv == /\ TypeOK /\ Placed /\ Unmade /\ JournalOK /\ ChosenOK /\ ReadyOK /\ ReplacedOK
        /\ RemovalOK /\ HiddenOK
        /\ ReplacementIsJournaled /\ PatchedGroupIsMoved /\ RecordedIsDone

-----------------------------------------------------------------------------
(* Paths and objects.                                                       *)

\* Where the paths of a batch are.
LEMMA PathsThere ==
  /\ \A f \in Files : Source(f) \in Paths /\ Target(f) \in Paths
  /\ \A p \in Patches : NfoPath(p) \in Paths /\ MediaPath(p) \in Paths
  /\ \A p \in Patches, k \in Stages : StagePath(p, k) \in Paths
BY DEF Paths, UserPaths, TempPaths

\* Different paths: a moved file's, a patch's and its temporary ones.
LEMMA PathsDiffer ==
  /\ \A f, g \in Files : Source(f) # Target(g) /\ (Target(f) = Target(g) => f = g)
  /\ \A f \in Files, p \in Patches : Source(f) # NfoPath(p)
  /\ \A f \in Files : \A p, k : Source(f) # StagePath(p, k) /\ Target(f) # StagePath(p, k)
  /\ \A p, q \in Patches : \A k : NfoPath(p) # StagePath(q, k)
  /\ \A p, q, k, n : StagePath(p, k) = StagePath(q, n) => p = q /\ k = n
BY PlanAssumption DEF Source, Target, NfoPath, StagePath

\* Files and patches are numbered from one.
LEMMA FilesCounted ==
  /\ Files \subseteq Nat \ {0} /\ Patches \subseteq Nat \ {0}
<1>1. Cardinality(Files) \in Nat /\ Cardinality(Patches) \in Nat
  BY PlanAssumption, FS_CardinalityType
<1>2. \A n \in Nat : 1..n \subseteq Nat \ {0}
  OBVIOUS
<1> QED BY <1>1, <1>2, PlanAssumption

\* The media of a patch are at no temporary path.
LEMMA MediaElsewhere == \A p, q \in Patches : \A k : MediaPath(p) # StagePath(q, k)
BY DEF MediaPath, StagePath, Target

\* The path of a created NFO is nobody else's; that of an NFO among the moved
\* files is the file's target.
LEMMA NfoPaths ==
  /\ \A p \in Creates, q \in Patches : p \in Patches /\ (NfoPath(p) = NfoPath(q) => p = q)
  /\ \A p \in Creates, f \in Files : NfoPath(p) # Target(f)
  /\ \A p \in Patches, f \in Files : NfoPath(p) = Target(f) =>
       PatchNfo[p] = f /\ Before(p) = Approved(f)
  /\ \A p \in Patches, f \in Files : PatchNfo[p] = f => NfoPath(p) = Target(f)
<1>1. \A f \in Files : f # 0
  BY FilesCounted
<1> QED BY <1>1, PlanAssumption DEF NfoPath, Target, Before

\* Different objects.
LEMMA ObjectsDiffer ==
  /\ \A p, k : /\ Staged(p, k) # None
               /\ \A f : Staged(p, k) # Approved(f)
               /\ \A n : Staged(p, k) # Foreign(n)
               /\ \A q : Staged(p, k) # Partial(q)
               /\ \A q \in Patches : Staged(p, k) # Before(q)
               /\ \A q, n : Staged(p, k) = Staged(q, n) => p = q /\ k = n
  /\ \A p : Created(p) = Staged(p, 0) /\ Partial(p) # None
  /\ \A n : Foreign(n) # None
  /\ \A f : Approved(f) # None /\ \A n : Foreign(n) # Approved(f)
  /\ \A p \in Patches : Before(p) # None
BY DEF Staged, Created, None, Approved, Foreign, Partial, Before

\* Where the objects of a batch are.
LEMMA ObjectsThere ==
  /\ None \in Objects
  /\ \A f \in Files : Approved(f) \in Objects
  /\ \A p \in Patches : Before(p) \in Objects /\ Partial(p) \in Objects /\ Created(p) \in Objects
  /\ \A p \in Patches, k \in Stages : Staged(p, k) \in Objects
  /\ \A n \in 1..MaxTouches : Foreign(n) \in Objects
<1> DEFINE Own(p)  == {Before(p), Media(p), Partial(p), Created(p)}
           Owns    == UNION {Own(p) : p \in Patches}
           Replacements == {Staged(p, k) : p \in Patches, k \in Stages}
           Others  == {None} \cup {Approved(f) : f \in Files} \cup {Foreign(n) : n \in 1..MaxTouches}
<1>0. Objects = Others \cup Owns \cup Replacements
  BY DEF Objects
<1>1. \A p \in Patches : Before(p) \in Owns /\ Partial(p) \in Owns /\ Created(p) \in Owns
  <2>1. \A p \in Patches : Own(p) \subseteq UNION {Own(q) : q \in Patches}
    OBVIOUS
  <2> QED BY <2>1
<1>2. \A p \in Patches, k \in Stages : Staged(p, k) \in Replacements
  OBVIOUS
<1>3. /\ \A f \in Files : Approved(f) \in Others
      /\ \A n \in 1..MaxTouches : Foreign(n) \in Others
      /\ None \in Others
  OBVIOUS
<1> HIDE DEF Own, Owns, Replacements, Others
<1> QED BY <1>0, <1>1, <1>2, <1>3

\* A manifest that is not missing and not torn has been written.
LEMMA ManifestsDiffer == \A m \in Manifest : m # NoManifest /\ m # TornManifest
<1> SUFFICES ASSUME NEW m \in Manifest PROVE m # NoManifest /\ m # TornManifest
  OBVIOUS
<1>1. "moved" \in DOMAIN m
  BY DEF Manifest
<1>2. DOMAIN NoManifest = {"finished"} /\ DOMAIN TornManifest = {"finished"}
  BY DEF NoManifest, TornManifest
<1> QED BY <1>1, <1>2

-----------------------------------------------------------------------------
(* Types.                                                                   *)

\* The actions of the next-state relation.
LEMMA Cases ==
  Next =>
    \/ Confirm
    \/ BeginSettled
    \/ CreateManifest
    \/ Begin
    \/ FilesDone
    \/ Finish
    \/ Report
    \/ Reconcile
    \/ \E f \in Files : ValidateMoved(f)
    \/ \E f \in Files : SkipFile(f)
    \/ \E f \in Files : ExamineFile(f)
    \/ \E f \in Files : Rename(f)
    \/ \E f \in Files : Verify(f)
    \/ \E f \in Files : RenameUndone(f)
    \/ \E f \in Files : Undo(f)
    \/ \E p \in Patches : SkipPatch(p)
    \/ \E p \in Patches : ExaminePatch(p)
    \/ \E p \in Patches : Unstage(p)
    \/ \E p \in Patches : Forget(p)
    \/ \E p \in Patches : ForgetFails(p)
    \/ \E p \in Patches : Stage(p)
    \/ \E p \in Patches : Journal(p)
    \/ \E p \in Patches : JournalFails(p)
    \/ \E p \in Patches : Validate(p)
    \/ \E p \in Patches : Exchange(p)
    \/ \E p \in Patches : ConfirmExchange(p)
    \/ \E p \in Patches : Discard(p)
    \/ \E p \in Patches : Recheck(p)
    \/ \E p \in Patches : Recover(p)
    \/ \E p \in Patches : Create(p)
    \/ \E p \in Patches : Fill(p)
    \/ \E p \in Patches : FillFails(p)
    \/ \E p \in Patches : Reverify(p)
    \/ \E p \in Patches : Quarantine(p)
    \/ \E p \in Patches : Unlink(p)
    \/ \E p \in Patches : Reinstate(p)
    \/ \E p \in Patches : RemovalFails(p)
    \/ AccessFails
    \/ Abort
    \/ Crash
    \/ \E q \in Paths : Touch(q)
BY DEF Next, Attempt, Fault, FileStep, PatchStep

\* The bounds are natural numbers.
LEMMA Limits ==
  /\ MaxRuns \in Nat /\ MaxStages \in Nat /\ MaxTouches \in Nat
  /\ MaxCrashes \in Nat /\ MaxFaults \in Nat
BY LimitAssumption

\* The parts of TypeOK.
LibT  == /\ dir \in [Paths -> Objects] /\ made \in [Patches -> 0..MaxStages]
         /\ quarantine \in SUBSET (Objects \X Objects)
DiskT == disk \in Manifest \cup {NoManifest, TornManifest} /\ mem \in Manifest
RunT  == run \in [at : Steps, cur : Nat, path : Paths \cup {None},
                  expected : Objects, moved : Objects, then : Goals]
SameT == run.at \notin {"idle", "manifest"} => disk = mem
RestT == /\ request \in {"none", "active"} /\ preview \in {"awaiting", "closed"}
         /\ runs \in 0..MaxRuns /\ touches \in 0..MaxTouches
         /\ crashes \in 0..MaxCrashes /\ faults \in 0..MaxFaults
         /\ touched \subseteq Paths

\* What every step is examined under.
Base == /\ LibT /\ DiskT /\ RunT /\ SameT /\ RestT
        /\ JournalOK /\ ChosenOK /\ ReadyOK /\ ReplacedOK /\ RemovalOK

\* TypeOK is the conjunction of its parts.
LEMMA TypeParts == TypeOK <=> LibT /\ DiskT /\ RunT /\ SameT /\ RestT
BY DEF TypeOK, LibT, DiskT, RunT, SameT, RestT

\* A manifest that has been written is one.
LEMMA WrittenIs ==
  ASSUME DiskT
  PROVE  /\ Written <=> disk \in Manifest
         /\ disk = mem => Written
         /\ disk = TornManifest => ~Written
BY ManifestsDiffer DEF DiskT, Written

\* A fresh manifest, and the items of files and patches.
LEMMA FreshTyped ==
  /\ Fresh \in Manifest
  /\ \A f \in Files : ItemOf[f] \in Items
  /\ \A p \in Patches : PatchItem[p] \in Items
BY Limits DEF Fresh, Manifest, Items

\* The request, the preview, the counters and the touched paths stay typed, and
\* the paths the user touched stay known.
LEMMA RestTyped ==
  ASSUME RestT, Next
  PROVE  RestT' /\ touched \subseteq touched'
<1> USE Limits
<1> USE DEF RestT
<1>1. CASE Confirm
  BY <1>1 DEF Confirm, limits
<1>2. CASE BeginSettled
  BY <1>2 DEF BeginSettled, Settle, limits
<1>3. CASE Report
  BY <1>3 DEF Report, Settle, limits
<1>4. CASE \/ \E f \in Files : RenameUndone(f)
           \/ \E p \in Patches : JournalFails(p)
           \/ \E p \in Patches : ForgetFails(p)
           \/ \E p \in Patches : FillFails(p)
           \/ \E p \in Patches : RemovalFails(p)
           \/ AccessFails
  <2>1. /\ faults < MaxFaults /\ faults' = faults + 1
        /\ UNCHANGED <<inbox, touches, crashes, touched>>
    BY <1>4 DEF RenameUndone, JournalFails, ForgetFails, FillFails, RemovalFails, AccessFails
  <2> QED BY <2>1 DEF inbox
<1>5. CASE Abort
  BY <1>5 DEF Abort, Settle
<1>6. CASE Crash
  BY <1>6 DEF Crash, inbox
<1>7. CASE \E q \in Paths : Touch(q)
  BY <1>7 DEF Touch, inbox
<1>8. CASE \/ CreateManifest \/ Begin \/ FilesDone \/ Finish
           \/ (\E f \in Files : ValidateMoved(f)) \/ (\E f \in Files : SkipFile(f))
           \/ (\E f \in Files : ExamineFile(f)) \/ (\E f \in Files : Verify(f))
           \/ (\E p \in Patches : SkipPatch(p)) \/ (\E p \in Patches : ExaminePatch(p))
           \/ (\E p \in Patches : Unstage(p)) \/ (\E p \in Patches : Forget(p))
           \/ (\E p \in Patches : Journal(p)) \/ (\E p \in Patches : Validate(p))
           \/ (\E p \in Patches : ConfirmExchange(p)) \/ (\E p \in Patches : Discard(p))
           \/ (\E p \in Patches : Recheck(p)) \/ (\E p \in Patches : Recover(p))
           \/ (\E p \in Patches : Reverify(p))
  <2>1. untouched
    BY <1>8 DEF CreateManifest, Begin, FilesDone, Finish, ValidateMoved, SkipFile, ExamineFile,
       Verify, SkipPatch, ExaminePatch, Unstage, Forget, Journal, Validate, ConfirmExchange,
       Discard, Recheck, Recover, Reverify
  <2> QED BY <2>1 DEF untouched, inbox, limits
<1>9. CASE \/ (\E f \in Files : Rename(f)) \/ (\E f \in Files : Undo(f))
           \/ (\E p \in Patches : Stage(p)) \/ (\E p \in Patches : Exchange(p))
           \/ (\E p \in Patches : Create(p)) \/ (\E p \in Patches : Fill(p))
           \/ (\E p \in Patches : Quarantine(p)) \/ (\E p \in Patches : Unlink(p))
           \/ (\E p \in Patches : Reinstate(p))
  <2>1. quiet
    BY <1>9 DEF Rename, Undo, Stage, Exchange, Create, Fill, Quarantine, Unlink, Reinstate
  <2> QED BY <2>1 DEF quiet, inbox, limits
<1>10. CASE Reconcile
  BY <1>10 DEF Reconcile, inbox, limits
<1> QED BY <1>1, <1>2, <1>3, <1>4, <1>5, <1>6, <1>7, <1>8, <1>9, <1>10, Cases

\* What is saved is a manifest again.
LEMMA SavedTyped ==
  ASSUME LibT, DiskT
  PROVE  /\ \A f \in Files : /\ [mem EXCEPT !.moved = @ \cup {f}, !.wrong = @ \ {f}] \in Manifest
                            /\ WithError(f) \in Manifest
                            /\ [WithError(f) EXCEPT !.access = TRUE] \in Manifest
         /\ \A p \in Patches :
              /\ [mem EXCEPT !.applied = @ \cup {p}, !.failed = @ \ {PatchItem[p]}] \in Manifest
              /\ [mem EXCEPT !.failed = @ \cup {PatchItem[p]}, !.access = TRUE] \in Manifest
              /\ \A m \in {mem, Forgotten(p), Checkpointed(p)} :
                   m \in Manifest /\ [m EXCEPT !.failed = @ \cup {PatchItem[p]}] \in Manifest
<1>0. mem \in Manifest
  BY DEF DiskT
<1>1. ASSUME NEW f \in Files
      PROVE  /\ [mem EXCEPT !.moved = @ \cup {f}, !.wrong = @ \ {f}] \in Manifest
             /\ WithError(f) \in Manifest
             /\ [WithError(f) EXCEPT !.access = TRUE] \in Manifest
  BY <1>0, FreshTyped DEF WithError, Manifest
<1>2. ASSUME NEW p \in Patches
      PROVE  /\ [mem EXCEPT !.applied = @ \cup {p}, !.failed = @ \ {PatchItem[p]}] \in Manifest
             /\ [mem EXCEPT !.failed = @ \cup {PatchItem[p]}, !.access = TRUE] \in Manifest
  BY <1>0, FreshTyped DEF Manifest
<1>3. ASSUME NEW p \in Patches PROVE Forgotten(p) \in Manifest /\ Checkpointed(p) \in Manifest
  <2>1. ASSUME NEW n \in 0..MaxStages PROVE [mem EXCEPT !.journal[p] = n] \in Manifest
    BY <1>0, Limits DEF Manifest
  <2>2. 0 \in 0..MaxStages /\ made[p] \in 0..MaxStages
    BY Limits DEF LibT
  <2> QED BY <2>1, <2>2 DEF Forgotten, Checkpointed
<1>4. ASSUME NEW p \in Patches, NEW m \in Manifest
      PROVE  [m EXCEPT !.failed = @ \cup {PatchItem[p]}] \in Manifest
  BY FreshTyped DEF Manifest
<1> QED BY <1>0, <1>1, <1>2, <1>3, <1>4

\* What an attempt begins and ends with is a manifest.
LEMMA EndsTyped ==
  /\ \A m \in Manifest : [m EXCEPT !.finished = FALSE, !.access = FALSE, !.failed = {},
                                 !.wrong = @ \cap m.moved] \in Manifest
  /\ \A m \in Manifest : [m EXCEPT !.failed = @ \cup Skipped, !.status = Outcome(m),
                                 !.finished = TRUE] \in Manifest
<1>1. \A m : Outcome(m) \in {"Partial", "Failed", "Complete"}
  BY DEF Outcome
<1>2. Skipped \subseteq Items
  BY DEF Items
<1> QED BY <1>1, <1>2 DEF Manifest

-----------------------------------------------------------------------------
(* Where a step takes the attempt.                                          *)

\* The attempt stays where it is; it is done with a file, a patch, a loop or
\* itself; or it goes on with a file or a patch.
Rests == /\ UNCHANGED <<run, disk, mem, made, dir, touched>>
         /\ At("idle") \/ UNCHANGED quarantine
Ended == \E s \in {"idle", "file", "patch", "report"}, i \in Nat : Go(s, i)
FileTurn(f) ==
  /\ UNCHANGED <<disk, mem>>
  /\ \/ Go("rename", f) /\ f \notin mem.moved
     \/ At("rename") /\ run.cur = f /\ Go("renamed", f)
     \/ /\ At("renamed") /\ run.cur = f /\ Go("undo", f)
        /\ dir[Target(f)] = Approved(f) /\ UNCHANGED dir
Enters(p) ==
  /\ Patching(p) /\ UNCHANGED <<disk, mem, made, dir>>
  /\ \/ Replaced(p) /\ Go("recover", p)
     \/ MayReplace(p) /\ mem.journal[p] = 0 /\ Go("stage", p)
     \/ MayReplace(p) /\ mem.journal[p] # 0 /\ Go("unstage", p)
     \/ MayCreate(p) /\ Go("create", p)

\* A patch goes on to another step than a removal; most of these steps leave
\* everything else as it is.
Looks(p) ==
  /\ UNCHANGED <<disk, mem, made, dir>>
  /\ \/ At("unstage") /\ Go("forget", p)
     \/ At("validate") /\ Exchangeable(p) /\ Go("exchange", p)
     \/ At("exchanged") /\ dir[NfoPath(p)] = Staged(p, made[p]) /\ Go("discard", p)
     \/ At("recheck") /\ dir[StagePath(p, mem.journal[p])] = None /\ Go("reverify", p)
     \/ At("quarantined") /\ run.then \in {"forget", "recheck"} /\ Go(run.then, p)
Noted(p) ==
  /\ UNCHANGED <<made, dir>>
  /\ \/ At("forget") /\ Save(Forgotten(p)) /\ Go("stage", p)
     \/ At("journal") /\ Exchangeable(p) /\ Save(Checkpointed(p)) /\ Go("validate", p)
Changes(p) ==
  /\ UNCHANGED <<disk, mem>>
  /\ \/ /\ At("stage") /\ Go("journal", p) /\ made[p] < MaxStages
        /\ dir[NfoPath(p)] = Before(p)
        /\ made' = [made EXCEPT ![p] = made[p] + 1]
        /\ dir' = [dir EXCEPT ![StagePath(p, made[p] + 1)] = Staged(p, made[p] + 1)]
     \/ At("exchange") /\ Go("exchanged", p) /\ UNCHANGED made
     \/ At("create") /\ Go("fill", p) /\ UNCHANGED made
     \/ At("fill") /\ Go("reverify", p) /\ UNCHANGED made
Removing(p) ==
  /\ UNCHANGED <<disk, mem, made, dir>>
  /\ LET j == mem.journal[p]
     IN \/ /\ At("unstage") /\ dir[StagePath(p, j)] = Staged(p, j)
           /\ Remove(StagePath(p, j), Staged(p, j), "forget")
        \/ /\ run.at \in {"journal", "validate", "exchange"} /\ StagedHere(p)
           /\ \E g \in {"fail", "fail_journaled"} :
                Remove(StagePath(p, made[p]), Staged(p, made[p]), g)
        \/ /\ At("discard") /\ Displaced(p)
           /\ Remove(StagePath(p, j), Before(p), "recheck")
        \/ /\ At("recover") /\ Displaced(p)
           /\ Remove(StagePath(p, j), Before(p), "apply")
        \/ /\ At("fill") /\ dir[NfoPath(p)] = Partial(p)
           /\ Remove(NfoPath(p), Partial(p), "fail")
SetsAside(p) ==
  /\ At("quarantine") /\ dir[run.path] # None
  /\ UNCHANGED <<disk, mem, made>> /\ dir' = [dir EXCEPT ![run.path] = None]
  /\ quarantine' = quarantine \cup {<<run.expected, dir[run.path]>>}
  /\ run' = [run EXCEPT !.at = "quarantined", !.moved = dir[run.path]]
PatchTurn(p) ==
  run.cur = p /\ (Looks(p) \/ Noted(p) \/ Changes(p) \/ Removing(p) \/ SetsAside(p))

\* How the outcome of a file or a patch leaves the attempt.
LEMMA Ends ==
  /\ \A f \in Files : FileMoved(f) \/ FileFailed(f) => Ended
  /\ \A p \in Patches : PatchApplied(p) \/ PatchFailed(p) \/ RemovalFailed(p) => Ended
<1>1. \A i \in Nat : Go("file", i) \/ Go("patch", i) => Ended
  BY DEF Ended
<1>2. \A i \in Nat : i + 1 \in Nat
  OBVIOUS
<1> QED BY <1>1, <1>2, FilesCounted DEF FileMoved, FileFailed, PatchApplied, PatchFailed,
        RemovalFailed

\* Where a step takes the attempt.
LEMMA Turns ==
  ASSUME Next
  PROVE  \/ Rests \/ Ended
         \/ \E q \in Paths : Touch(q)
         \/ disk' = TornManifest /\ Go("manifest", 0)
         \/ \E f \in Files : FileTurn(f)
         \/ \E p \in Patches : Enters(p) \/ PatchTurn(p)
<1> USE Ends, FilesCounted
<1>0. \A s \in {"idle", "file", "patch", "report"}, i \in Nat : Go(s, i) => Ended
  BY DEF Ended
<1>1. CASE Confirm \/ BeginSettled \/ Reconcile
  BY <1>1 DEF Confirm, BeginSettled, Reconcile, Rests, library, inbox, limits
<1>2. CASE CreateManifest
  BY <1>2 DEF CreateManifest
<1>3. CASE Begin \/ FilesDone \/ Finish \/ Report \/ Abort \/ Crash
  BY <1>0, <1>3 DEF Begin, FilesDone, Finish, Report, Abort, Crash
<1>4. CASE (\E f \in Files : ValidateMoved(f)) \/ (\E f \in Files : Verify(f))
           \/ (\E f \in Files : Undo(f))
  BY <1>4 DEF ValidateMoved, Verify, Undo
<1>5. CASE (\E f \in Files : SkipFile(f)) \/ (\E p \in Patches : SkipPatch(p))
  <2>1. \A i \in Nat : i + 1 \in Nat
    OBVIOUS
  <2> QED BY <1>0, <1>5, <2>1 DEF SkipFile, SkipPatch
<1>6. CASE \E f \in Files : ExamineFile(f)
  BY <1>6 DEF ExamineFile, Examined, FileTurn
<1>7. CASE \E f \in Files : Rename(f)
  BY <1>7 DEF Rename, FileTurn
<1>8. CASE \E f \in Files : RenameUndone(f)
  BY <1>8 DEF RenameUndone, FileTurn, library
<1>9. CASE \E p \in Patches : ExaminePatch(p)
  BY <1>9 DEF ExaminePatch, Enters, untouched, library
<1>10. CASE \E p \in Patches : Unstage(p)
  BY <1>10 DEF Unstage, PatchTurn, Looks, Removing, untouched, library
<1>11. CASE \E p \in Patches : Forget(p)
  BY <1>11 DEF Forget, PatchTurn, Noted, untouched, library
<1>12. CASE (\E p \in Patches : ForgetFails(p)) \/ (\E p \in Patches : Reverify(p))
            \/ (\E p \in Patches : Reinstate(p)) \/ (\E p \in Patches : RemovalFails(p))
            \/ AccessFails
  <2>1. \A i \in Nat : i + 1 \in Nat
    OBVIOUS
  <2> QED BY <1>0, <1>12, <2>1 DEF ForgetFails, Reverify, Reinstate, RemovalFails, AccessFails
<1>13. CASE \E p \in Patches : Stage(p)
  BY <1>13 DEF Stage, PatchTurn, Changes, Put
<1>14. CASE \E p \in Patches : Journal(p)
  BY <1>14 DEF Journal, GiveUp, PatchTurn, Noted, Removing, untouched, library, At
<1>15. CASE \E p \in Patches : JournalFails(p)
  BY <1>15 DEF JournalFails, Exchangeable, PatchTurn, Removing, library, At
<1>16. CASE \E p \in Patches : Validate(p)
  BY <1>16 DEF Validate, GiveUp, PatchTurn, Looks, Removing, untouched, library, At
<1>17. CASE \E p \in Patches : Exchange(p)
  BY <1>17 DEF Exchange, GiveUp, PatchTurn, Changes, Removing, private, At
<1>18. CASE \E p \in Patches : ConfirmExchange(p)
  BY <1>18 DEF ConfirmExchange, PatchTurn, Looks, untouched, library
<1>19. CASE \E p \in Patches : Discard(p)
  BY <1>19 DEF Discard, PatchTurn, Removing, untouched, library
<1>20. CASE \E p \in Patches : Recheck(p)
  BY <1>20 DEF Recheck, PatchTurn, Looks, untouched, library
<1>21. CASE \E p \in Patches : Recover(p)
  BY <1>21 DEF Recover, PatchTurn, Removing, untouched, library
<1>22. CASE \E p \in Patches : Create(p)
  BY <1>22 DEF Create, PatchTurn, Changes, private
<1>23. CASE \E p \in Patches : Fill(p)
  BY <1>23 DEF Fill, PatchTurn, Changes, private
<1>24. CASE \E p \in Patches : FillFails(p)
  BY <1>24 DEF FillFails, PatchTurn, Removing, library
<1>25. CASE \E p \in Patches : Quarantine(p)
  BY <1>25 DEF Quarantine, PatchTurn, SetsAside, Put
<1>26. CASE \E p \in Patches : Unlink(p)
  BY <1>26 DEF Unlink, Removed, PatchTurn, Looks
<1>27. CASE \E q \in Paths : Touch(q)
  BY <1>27
<1> QED BY <1>1, <1>2, <1>3, <1>4, <1>5, <1>6, <1>7, <1>8, <1>9, <1>10, <1>11, <1>12,
   <1>13, <1>14, <1>15, <1>16, <1>17, <1>18, <1>19, <1>20, <1>21, <1>22, <1>23, <1>24,
   <1>25, <1>26, <1>27, Cases

\* While an attempt works, its manifest is the durable one.
LEMMA Working ==
  ASSUME DiskT, SameT, run.at \notin {"idle", "manifest"}
  PROVE  Written /\ disk = mem /\ disk \in Manifest
BY WrittenIs DEF SameT, DiskT

\* A removal is of an object of the batch, at a path the batch made or at that
\* of an NFO it creates.
LEMMA RemovalIs ==
  ASSUME Base, NEW p \in Patches, run.cur = p, run.at \in Removals
  PROVE  /\ RemovalOf(p) /\ p \notin disk.applied /\ GroupReady(p) /\ disk = mem /\ Written
         /\ run.path \in Paths /\ run.expected \in Objects \ Foreigns
         /\ \/ p \in Creates /\ RemovesPartial(p)
            \/ /\ p \notin Creates
               /\ \E k \in Stages : k <= made[p] /\ run.path = StagePath(p, k)
<1>1. RemovalOf(p)
  BY DEF Base, RemovalOK
<1>2. disk = mem /\ disk \in Manifest /\ Written
  BY Working DEF Base, Removals
<1>3. p \notin disk.applied /\ GroupReady(p)
  BY <1>2 DEF Base, ChosenOK, PatchSteps
<1>4. /\ mem.journal[p] \in Nat /\ made[p] \in 0..MaxStages
      /\ mem.journal[p] <= made[p]
  BY <1>2, Limits DEF Base, LibT, JournalOK, Manifest
<1>5. \A n : Foreign(n)[1] = "foreign"
  BY DEF Foreign
<1>6. Partial(p)[1] = "partial" /\ Before(p)[1] \in {"before", "file"}
      /\ \A k : Staged(p, k)[1] = "staged"
  BY DEF Partial, Before, Approved, Staged
<1>7. \A o \in Foreigns : o[1] = "foreign"
  BY <1>5 DEF Foreigns
<1>8. ASSUME RemovesPartial(p)
      PROVE  run.path \in Paths /\ run.expected \in Objects \ Foreigns
  BY <1>6, <1>7, <1>8, PathsThere, ObjectsThere DEF RemovesPartial
<1>9. ASSUME RemovesMade(p) \/ RemovesStaged(p) \/ RemovesBefore(p)
      PROVE  /\ p \notin Creates /\ run.path \in Paths /\ run.expected \in Objects \ Foreigns
             /\ \E k \in Stages : k <= made[p] /\ run.path = StagePath(p, k)
  <2>1. /\ p \notin Creates
        /\ \E k \in {made[p], mem.journal[p]} :
             /\ k # 0 /\ run.path = StagePath(p, k)
             /\ run.expected \in {Staged(p, k), Before(p)}
    BY <1>9 DEF RemovesMade, RemovesStaged, RemovesBefore
  <2>2. PICK k \in {made[p], mem.journal[p]} :
           /\ k # 0 /\ run.path = StagePath(p, k)
           /\ run.expected \in {Staged(p, k), Before(p)}
    BY <2>1
  <2>3. k \in Stages /\ k <= made[p]
    BY <1>4, <2>2, Limits DEF Stages
  <2> QED BY <1>6, <1>7, <2>1, <2>2, <2>3, PathsThere, ObjectsThere
<1>10. RemovesPartial(p) => p \in Creates
  BY DEF RemovesPartial
<1> QED BY <1>1, <1>2, <1>3, <1>8, <1>9, <1>10 DEF RemovalOf

\* What an attempt does is typed.
LEMMA GoTyped ==
  /\ \A s \in Steps, i \in Nat : Go(s, i) => RunT' /\ run'.at = s /\ run'.cur = i
  /\ \A q \in Paths, o \in Objects, g \in Goals : RunT /\ Remove(q, o, g) =>
       RunT' /\ run'.at = "quarantine" /\ run'.cur = run.cur
<1>1. ASSUME NEW s \in Steps, NEW i \in Nat, Go(s, i)
      PROVE  RunT' /\ run'.at = s /\ run'.cur = i
  BY <1>1, ObjectsThere DEF Go, RunT, Goals
<1>2. ASSUME NEW q \in Paths, NEW o \in Objects, NEW g \in Goals, RunT, Remove(q, o, g)
      PROVE  RunT' /\ run'.at = "quarantine" /\ run'.cur = run.cur
  <2>1. "quarantine" \in Steps
    BY DEF Steps
  <2> QED BY <1>2, <2>1, ObjectsThere DEF Remove, RunT
<1> QED BY <1>1, <1>2

\* The numbers of the staged objects that a step is about.
LEMMA Numbers ==
  ASSUME Base, NEW p \in Patches, run.cur = p
  PROVE  /\ run.at \in {"journal", "validate", "exchange"} => made[p] \in Stages
         /\ run.at \in {"unstage", "exchanged", "discard", "recheck", "recover"} =>
              mem.journal[p] \in Stages
<1>1. made[p] \in 0..MaxStages /\ mem.journal[p] \in 0..MaxStages
  BY DEF Base, LibT, DiskT, Manifest
<1>2. \A k \in 0..MaxStages : k # 0 => k \in Stages
  BY Limits DEF Stages
<1> QED BY <1>1, <1>2 DEF Base, ReadyOK, ReplacedOK

\* The step, its file or patch and the removal stay typed.
LEMMA RunTyped ==
  ASSUME Base, Next
  PROVE  RunT'
<1>0. RunT /\ Files \subseteq Nat /\ Patches \subseteq Nat
  BY FilesCounted DEF Base
<1>1. CASE Rests \/ \E q \in Paths : Touch(q)
  BY <1>0, <1>1 DEF Rests, Touch, RunT
<1>2. CASE Ended \/ Go("manifest", 0)
  BY <1>2, GoTyped DEF Ended, Steps
<1>3. CASE \E f \in Files : FileTurn(f)
  BY <1>0, <1>3, GoTyped DEF FileTurn, Steps
<1>4. CASE \E p \in Patches : Enters(p)
  BY <1>0, <1>4, GoTyped DEF Enters, Steps
<1>5. ASSUME NEW p \in Patches, PatchTurn(p) PROVE RunT'
  <2>1. p \in Nat /\ run.cur = p
    BY <1>0, <1>5 DEF PatchTurn
  <2>2. CASE Looks(p) \/ Noted(p) \/ Changes(p)
    <3>1. \E s \in Steps : Go(s, p)
      BY <2>2 DEF Looks, Noted, Changes, Steps
    <3> QED BY <2>1, <3>1, GoTyped
  <2>3. CASE Removing(p)
    <3>1. \A k \in Stages : StagePath(p, k) \in Paths /\ Staged(p, k) \in Objects
      BY PathsThere, ObjectsThere
    <3>2. NfoPath(p) \in Paths /\ Before(p) \in Objects /\ Partial(p) \in Objects
      BY PathsThere, ObjectsThere
    <3>3. \E q \in Paths, o \in Objects, g \in Goals : Remove(q, o, g)
      BY <2>1, <2>3, <3>1, <3>2, Numbers DEF Removing, Goals, At
    <3> QED BY <1>0, <3>3, GoTyped
  <2>4. CASE SetsAside(p)
    <3>1. run.path \in Paths
      BY <2>1, <2>4, RemovalIs DEF SetsAside, At, Removals
    <3>2. dir[run.path] \in Objects /\ "quarantined" \in Steps
      BY <3>1 DEF Base, LibT, Steps
    <3> QED BY <1>0, <2>4, <3>2 DEF SetsAside, RunT
  <2> QED BY <1>5, <2>2, <2>3, <2>4 DEF PatchTurn
<1> QED BY <1>1, <1>2, <1>3, <1>4, <1>5, Turns

-----------------------------------------------------------------------------
(* What a step does to the manifest.                                        *)

\* What an attempt saves: its outcome, the result of a file or a patch, or a
\* change of the journal.
FinalSave == Save([mem EXCEPT !.failed = @ \cup Skipped, !.status = Outcome(mem),
                              !.finished = TRUE])
FileSave(f) ==
  \/ FileMoved(f) /\ dir[Target(f)] = Approved(f) /\ UNCHANGED <<dir, made>>
  \/ FileFailed(f)
  \/ Save([WithError(f) EXCEPT !.access = TRUE])
InPlace(p) ==
  \/ FoundCreated(p)
  \/ At("reverify") /\ dir[NfoPath(p)] = Prepared(p)
  \/ At("recover") /\ dir[StagePath(p, mem.journal[p])] = None
  \/ At("quarantined") /\ run.then = "apply"
PatchSave(p) ==
  \/ PatchFailed(p)
  \/ Save([mem EXCEPT !.failed = @ \cup {PatchItem[p]}, !.access = TRUE])
  \/ PatchApplied(p) /\ InPlace(p) /\ run.cur = p /\ UNCHANGED <<dir, made>>
Forgets(p) ==
  /\ At("forget") /\ run.cur = p /\ UNCHANGED <<dir, made>>
  /\ Save(Forgotten(p)) \/ Save([Forgotten(p) EXCEPT !.failed = @ \cup {PatchItem[p]}])
Checkpoints(p) ==
  /\ run.cur = p /\ UNCHANGED made
  /\ \/ At("journal") /\ Exchangeable(p) /\ Save(Checkpointed(p))
     \/ /\ run.at \in Removals /\ run.then = "fail_journaled"
        /\ Save([Checkpointed(p) EXCEPT !.failed = @ \cup {PatchItem[p]}])
AtWork == run.at \notin {"idle", "manifest"}
Saves  == \/ FinalSave \/ \E f \in Files : FileSave(f)
          \/ \E p \in Patches : PatchSave(p) \/ Forgets(p) \/ Checkpoints(p)

\* A failed removal saves as any failed patch, or the checkpoint too.
LEMMA RemovalSaves ==
  ASSUME NEW p \in Patches, RemovalFailed(p), run.cur = p, run.at \in Removals, UNCHANGED made
  PROVE  PatchSave(p) \/ Checkpoints(p)
<1>1. CASE run.then = "fail_journaled"
  BY <1>1 DEF RemovalFailed, Remembered, Checkpoints
<1>2. CASE run.then # "fail_journaled"
  BY <1>2 DEF RemovalFailed, Remembered, PatchSave, PatchFailed
<1> QED BY <1>1, <1>2

\* What a step does to the manifest: nothing, the start or the abrupt end of an
\* attempt, or one save of an attempt at work.
LEMMA DiskCases ==
  ASSUME Next
  PROVE  \/ UNCHANGED <<disk, mem>> /\ (AtWork \/ UNCHANGED run)
         \/ CreateManifest \/ Begin \/ Abort \/ Crash
         \/ AtWork /\ Saves
<1>1. CASE Confirm \/ BeginSettled \/ Reconcile \/ \E q \in Paths : Touch(q)
  BY <1>1 DEF Confirm, BeginSettled, Reconcile, Touch
<1>2. CASE CreateManifest \/ Begin \/ Abort \/ Crash
  BY <1>2
<1>3. CASE FilesDone \/ Report \/ (\E f \in Files : SkipFile(f)) \/ (\E p \in Patches : SkipPatch(p))
  BY <1>3 DEF FilesDone, Report, SkipFile, SkipPatch, AtWork, At
<1>4. CASE Finish
  BY <1>4 DEF Finish, FinalSave, Saves, AtWork, At
<1>5. CASE \E f \in Files : ValidateMoved(f)
  BY <1>5 DEF ValidateMoved, FileSave, Saves, AtWork, At, untouched, library
<1>6. CASE \E f \in Files : ExamineFile(f)
  BY <1>6 DEF ExamineFile, Examined, FoundMoved, FileSave, Saves, AtWork, At, untouched, library
<1>7. CASE \E f \in Files : Rename(f)
  BY <1>7 DEF Rename, FileSave, Saves, AtWork, At
<1>8. CASE \E f \in Files : Verify(f)
  BY <1>8 DEF Verify, FileSave, Saves, AtWork, At, untouched, library
<1>9. CASE \E f \in Files : RenameUndone(f) \/ Undo(f)
  BY <1>9 DEF RenameUndone, Undo, FileSave, Saves, AtWork, At
<1>10. CASE \E p \in Patches : ExaminePatch(p)
  BY <1>10 DEF ExaminePatch, Patching, InPlace, PatchSave, Saves, AtWork, At, untouched, library
<1>11. CASE \E p \in Patches : Unstage(p)
  BY <1>11 DEF Unstage, PatchSave, Saves, AtWork, At
<1>12. CASE \E p \in Patches : Forget(p) \/ ForgetFails(p)
  BY <1>12 DEF Forget, ForgetFails, Forgets, Saves, AtWork, At, untouched, library
<1>13. CASE \E p \in Patches : Stage(p)
  BY <1>13 DEF Stage, PatchSave, Saves, AtWork, At
<1>14. CASE \E p \in Patches : Journal(p)
  BY <1>14 DEF Journal, GiveUp, Checkpoints, PatchSave, Saves, AtWork, At, untouched, library
<1>15. CASE \E p \in Patches : JournalFails(p)
  BY <1>15 DEF JournalFails, AtWork, At
<1>16. CASE \E p \in Patches : Validate(p)
  BY <1>16 DEF Validate, GiveUp, PatchSave, Saves, AtWork, At
<1>17. CASE \E p \in Patches : Exchange(p)
  BY <1>17 DEF Exchange, GiveUp, PatchSave, Saves, AtWork, At
<1>18. CASE \E p \in Patches : ConfirmExchange(p)
  BY <1>18 DEF ConfirmExchange, PatchSave, Saves, AtWork, At
<1>19. CASE \E p \in Patches : Discard(p) \/ Recheck(p)
  BY <1>19 DEF Discard, Recheck, PatchSave, Saves, AtWork, At
<1>20. CASE \E p \in Patches : Recover(p)
  BY <1>20 DEF Recover, InPlace, PatchSave, Saves, AtWork, At, untouched, library
<1>21. CASE \E p \in Patches : Create(p) \/ Fill(p) \/ FillFails(p)
  BY <1>21 DEF Create, Fill, FillFails, PatchSave, Saves, AtWork, At
<1>22. CASE \E p \in Patches : Reverify(p)
  BY <1>22 DEF Reverify, InPlace, PatchSave, Saves, AtWork, At, untouched, library
<1>23. CASE \E p \in Patches : Quarantine(p)
  BY <1>23, RemovalSaves DEF Quarantine, Removals, Saves, AtWork, At
<1>24. CASE \E p \in Patches : Unlink(p)
  BY <1>24, RemovalSaves DEF Unlink, Removed, Removals, InPlace, PatchSave, Saves, AtWork, At
<1>25. CASE \E p \in Patches : Reinstate(p) \/ RemovalFails(p)
  BY <1>25, RemovalSaves DEF Reinstate, RemovalFails, Removals, Saves, AtWork, At
<1>26. CASE AccessFails
  BY <1>26 DEF AccessFails, Patching, FileSave, PatchSave, Saves, AtWork, At
<1> QED BY <1>1, <1>2, <1>3, <1>4, <1>5, <1>6, <1>7, <1>8, <1>9, <1>10, <1>11, <1>12,
   <1>13, <1>14, <1>15, <1>16, <1>17, <1>18, <1>19, <1>20, <1>21, <1>22, <1>23, <1>24,
   <1>25, <1>26, Cases

\* Each of them saves a manifest, and to the disk too.
LEMMA SavesIs ==
  ASSUME LibT, DiskT, Saves
  PROVE  disk' = mem' /\ mem' \in Manifest
<1>1. mem \in Manifest
  BY DEF DiskT
<1>2. CASE FinalSave
  BY <1>1, <1>2, EndsTyped DEF FinalSave, Save
<1>3. CASE \E f \in Files : FileSave(f)
  BY <1>3, SavedTyped DEF FileSave, FileMoved, FileFailed, Save
<1>4. CASE \E p \in Patches : PatchSave(p)
  BY <1>4, SavedTyped DEF PatchSave, PatchApplied, PatchFailed, Save
<1>5. CASE \E p \in Patches : Forgets(p)
  BY <1>5, SavedTyped DEF Forgets, Save
<1>6. CASE \E p \in Patches : Checkpoints(p)
  BY <1>6, SavedTyped DEF Checkpoints, Save
<1> QED BY <1>2, <1>3, <1>4, <1>5, <1>6 DEF Saves

\* The start of an attempt saves a manifest too.
LEMMA BeginIs ==
  ASSUME DiskT, Begin
  PROVE  /\ disk' = mem' /\ mem' \in Manifest /\ UNCHANGED library
         /\ LET old == IF Written THEN disk ELSE Fresh
            IN  mem' = [old EXCEPT !.finished = FALSE, !.access = FALSE, !.failed = {},
                                   !.wrong = @ \cap old.moved]
<1> DEFINE old == IF Written THEN disk ELSE Fresh
<1>1. old \in Manifest
  BY WrittenIs, FreshTyped
<1> HIDE DEF old
<1>2. Save([old EXCEPT !.finished = FALSE, !.access = FALSE, !.failed = {},
                     !.wrong = @ \cap old.moved])
  BY DEF Begin, old
<1>3. disk' = mem' /\ mem' \in Manifest
      /\ mem' = [old EXCEPT !.finished = FALSE, !.access = FALSE, !.failed = {},
                           !.wrong = @ \cap old.moved]
  BY <1>1, <1>2, EndsTyped DEF Save
<1>4. UNCHANGED library
  BY DEF Begin, untouched
<1> QED BY <1>3, <1>4 DEF old

\* The manifest in memory and the durable one stay typed, and every save writes
\* what it keeps: an attempt at work stays at the durable manifest.
LEMMA DiskTyped ==
  ASSUME Base, Next
  PROVE  DiskT' /\ SameT'
<1>0. LibT /\ DiskT /\ SameT /\ Fresh \in Manifest
  BY FreshTyped DEF Base
<1>1. CASE UNCHANGED <<disk, mem>> /\ (AtWork \/ UNCHANGED run)
  BY <1>0, <1>1 DEF DiskT, SameT, AtWork
<1>2. CASE CreateManifest
  BY <1>0, <1>2 DEF CreateManifest, Go, DiskT, SameT
<1>3. CASE Begin
  BY <1>0, <1>3, BeginIs DEF DiskT, SameT
<1>4. CASE Abort \/ Crash
  BY <1>0, <1>4 DEF Abort, Crash, Go, DiskT, SameT
<1>5. CASE Saves
  BY <1>0, <1>5, SavesIs DEF DiskT, SameT
<1> QED BY <1>1, <1>2, <1>3, <1>4, <1>5, DiskCases

\* A step keeps what is recorded, or records one thing: a file that is at its
\* target, a patch that is in place, or a change of the journal.
Kept ==
  disk'.moved = disk.moved /\ disk'.applied = disk.applied /\ disk'.journal = disk.journal
Records(f) ==
  /\ disk'.moved = disk.moved \cup {f}
  /\ disk'.applied = disk.applied /\ disk'.journal = disk.journal
  /\ dir[Target(f)] = Approved(f) /\ UNCHANGED <<dir, made>>
Applies(p) ==
  /\ disk'.applied = disk.applied \cup {p}
  /\ disk'.moved = disk.moved /\ disk'.journal = disk.journal
  /\ InPlace(p) /\ run.cur = p /\ UNCHANGED <<dir, made>>
Journals(p) ==
  /\ disk'.moved = disk.moved /\ disk'.applied = disk.applied
  /\ run.cur = p /\ UNCHANGED made
  /\ \/ At("forget") /\ disk'.journal = [disk.journal EXCEPT ![p] = 0]
     \/ /\ \/ At("journal") /\ Exchangeable(p)
           \/ run.at \in Removals /\ run.then = "fail_journaled"
        /\ disk'.journal = [disk.journal EXCEPT ![p] = made[p]]

\* What the saves leave of the recorded facts.
LEMMA SavesKeep ==
  ASSUME DiskT, disk = mem, Saves
  PROVE  \/ Kept
         \/ \E f \in Files : Records(f)
         \/ \E p \in Patches : Applies(p) \/ Journals(p)
<1>0. mem \in Manifest
  BY DEF DiskT
<1>1. CASE FinalSave
  BY <1>0, <1>1 DEF FinalSave, Save, Kept, Manifest
<1>2. ASSUME NEW f \in Files, FileSave(f) PROVE Kept \/ Records(f)
  <2>1. CASE FileMoved(f) /\ dir[Target(f)] = Approved(f) /\ UNCHANGED <<dir, made>>
    <3>1. mem' = [mem EXCEPT !.moved = @ \cup {f}, !.wrong = @ \ {f}] /\ disk' = mem'
      BY <2>1 DEF FileMoved, Save
    <3>2. /\ disk'.moved = mem.moved \cup {f}
          /\ disk'.applied = mem.applied /\ disk'.journal = mem.journal
      BY <1>0, <3>1 DEF Manifest
    <3> QED BY <2>1, <3>2 DEF Records
  <2>2. CASE FileFailed(f) \/ Save([WithError(f) EXCEPT !.access = TRUE])
    BY <1>0, <2>2 DEF FileFailed, WithError, Save, Kept, Manifest
  <2> QED BY <1>2, <2>1, <2>2 DEF FileSave
<1>3. ASSUME NEW p \in Patches, PatchSave(p) PROVE Kept \/ Applies(p)
  <2>1. CASE PatchApplied(p) /\ InPlace(p) /\ run.cur = p /\ UNCHANGED <<dir, made>>
    <3>1. /\ mem' = [mem EXCEPT !.applied = @ \cup {p}, !.failed = @ \ {PatchItem[p]}]
          /\ disk' = mem'
      BY <2>1 DEF PatchApplied, Save
    <3>2. /\ disk'.applied = mem.applied \cup {p}
          /\ disk'.moved = mem.moved /\ disk'.journal = mem.journal
      BY <1>0, <3>1 DEF Manifest
    <3> QED BY <2>1, <3>2 DEF Applies
  <2>2. CASE PatchFailed(p)
             \/ Save([mem EXCEPT !.failed = @ \cup {PatchItem[p]}, !.access = TRUE])
    BY <1>0, <2>2 DEF PatchFailed, Save, Kept, Manifest
  <2> QED BY <1>3, <2>1, <2>2 DEF PatchSave
<1>4. ASSUME NEW p \in Patches, Forgets(p) PROVE Journals(p)
  <2>1. /\ disk'.moved = mem.moved /\ disk'.applied = mem.applied
        /\ disk'.journal = [mem.journal EXCEPT ![p] = 0]
    BY <1>0, <1>4 DEF Forgets, Forgotten, Save, Manifest
  <2> QED BY <1>4, <2>1 DEF Forgets, Journals
<1>5. ASSUME NEW p \in Patches, Checkpoints(p) PROVE Journals(p)
  <2>1. /\ disk'.moved = mem.moved /\ disk'.applied = mem.applied
        /\ disk'.journal = [mem.journal EXCEPT ![p] = made[p]]
    BY <1>0, <1>5 DEF Checkpoints, Checkpointed, Save, Manifest
  <2> QED BY <1>5, <2>1 DEF Checkpoints, Journals
<1> QED BY <1>1, <1>2, <1>3, <1>4, <1>5 DEF Saves

\* What a step does to a written manifest: nothing to its records, one more
\* file, one more patch, or one journal entry.
LEMMA DiskMoves ==
  ASSUME Base, Next, Written
  PROVE  \/ Kept
         \/ \E f \in Files : Records(f)
         \/ \E p \in Patches : Applies(p) \/ Journals(p)
<1>0. DiskT /\ SameT /\ disk \in Manifest /\ disk # TornManifest
  BY WrittenIs DEF Base, Written
<1>1. CASE UNCHANGED <<disk, mem>>
  BY <1>1 DEF Kept
<1>2. CASE CreateManifest
  BY <1>2 DEF CreateManifest, Written
<1>3. CASE Begin
  <2>1. disk' = [disk EXCEPT !.finished = FALSE, !.access = FALSE, !.failed = {},
                           !.wrong = @ \cap disk.moved]
    BY <1>0, <1>3, BeginIs
  <2> QED BY <1>0, <2>1 DEF Kept, Manifest
<1>4. CASE Abort
  BY <1>0, <1>4 DEF Abort, Kept, Base, ChosenOK
<1>5. CASE Crash
  BY <1>5 DEF Crash, Kept
<1>6. CASE AtWork /\ Saves
  BY <1>0, <1>6, Working, SavesKeep DEF AtWork
<1> QED BY <1>1, <1>2, <1>3, <1>4, <1>5, <1>6, DiskCases

\* What has been written stays, and so does what is recorded.
LEMMA WrittenStays ==
  ASSUME Base, Next, Written
  PROVE  Written' /\ disk.moved \subseteq disk'.moved /\ disk.applied \subseteq disk'.applied
<1>0. LibT /\ DiskT /\ disk # TornManifest
  BY DEF Base, Written
<1>1. disk' = disk \/ disk' \in Manifest
  <2>1. CASE UNCHANGED <<disk, mem>>
    BY <2>1
  <2>2. CASE CreateManifest
    BY <2>2 DEF CreateManifest, Written
  <2>3. CASE Begin
    BY <1>0, <2>3, BeginIs
  <2>4. CASE Abort
    BY <1>0, <2>4 DEF Abort, Base, ChosenOK
  <2>5. CASE Crash
    BY <2>5 DEF Crash
  <2>6. CASE Saves
    BY <1>0, <2>6, SavesIs
  <2> QED BY <2>1, <2>2, <2>3, <2>4, <2>5, <2>6, DiskCases
<1>2. Written'
  BY <1>1, ManifestsDiffer DEF Written
<1>3. disk.moved \subseteq disk'.moved /\ disk.applied \subseteq disk'.applied
  BY DiskMoves DEF Kept, Records, Applies, Journals
<1> QED BY <1>2, <1>3

\* The first manifest that is written records nothing, and is written before
\* the library is touched.
LEMMA BeginsFresh ==
  ASSUME Base, Next, ~Written, Written'
  PROVE  /\ disk'.moved = {} /\ disk'.applied = {}
         /\ disk'.journal = [p \in Patches |-> 0] /\ UNCHANGED <<dir, made>>
<1>0. DiskT /\ SameT
  BY DEF Base
<1>1. CASE UNCHANGED <<disk, mem>>
  BY <1>1 DEF Written
<1>2. CASE CreateManifest
  BY <1>2 DEF CreateManifest, Written
<1>3. CASE Begin
  <2>1. disk' = [Fresh EXCEPT !.finished = FALSE, !.access = FALSE, !.failed = {},
                            !.wrong = @ \cap Fresh.moved]
    BY <1>0, <1>3, BeginIs
  <2> QED BY <1>0, <1>3, <2>1, BeginIs DEF Fresh, library
<1>4. CASE Abort \/ Crash
  BY <1>4 DEF Abort, Crash, Written
<1>5. CASE AtWork
  BY <1>0, <1>5, Working DEF AtWork
<1> QED BY <1>1, <1>2, <1>3, <1>4, <1>5, DiskCases

-----------------------------------------------------------------------------
(* What a step does to the library.                                         *)

\* The user replaces or removes the object at a path.
Touches(q) ==
  /\ touched' = touched \cup {q} /\ touches' # touches
  /\ UNCHANGED <<made, quarantine, disk, mem, run>>
  /\ q \in UserPaths \/ \E p \in Patches : \E k \in 1..made[p] : q = StagePath(p, k)
  /\ \E o \in {None} \cup Foreigns : dir' = [dir EXCEPT ![q] = o]

\* A step of the attempt renames a file, or takes the rename back.
Renames(f) ==
  /\ f \notin disk.moved /\ UNCHANGED made
  /\ dir[Target(f)] = None
  /\ dir' = [dir EXCEPT ![Target(f)] = dir[Source(f)], ![Source(f)] = None]
Unrenames(f) ==
  /\ f \notin disk.moved /\ UNCHANGED made
  /\ FileThere(f) /\ dir[Source(f)] = None
  /\ dir' = [dir EXCEPT ![Source(f)] = dir[Target(f)], ![Target(f)] = None]

\* A patch makes a staged object and exchanges it with the NFO at its place, or
\* creates an NFO and fills it.
Makes(p) ==
  /\ p \in Patches \ Creates /\ p \notin disk.applied
  /\ made[p] + 1 \in Stages
  /\ made' = [made EXCEPT ![p] = made[p] + 1]
  /\ dir' = [dir EXCEPT ![StagePath(p, made[p] + 1)] = Staged(p, made[p] + 1)]
Exchanges(p) ==
  /\ p \in Patches \ Creates /\ p \notin disk.applied
  /\ Written /\ GroupReady(p) /\ made[p] \in Stages /\ disk.journal[p] = made[p]
  /\ disk = mem /\ UNCHANGED <<made, disk>>
  /\ OldThere(p) /\ NewThere(p)
  /\ dir' = [dir EXCEPT ![StagePath(p, made[p])] = dir[NfoPath(p)],
                        ![NfoPath(p)] = dir[StagePath(p, made[p])]]
Creating(p) ==
  /\ p \in Creates /\ p \notin disk.applied /\ UNCHANGED made
  /\ Written /\ disk = mem /\ GroupReady(p)
  /\ \/ dir[NfoPath(p)] = None /\ dir' = [dir EXCEPT ![NfoPath(p)] = Partial(p)]
     \/ dir[NfoPath(p)] = Partial(p) /\ dir' = [dir EXCEPT ![NfoPath(p)] = Created(p)]

\* A removal takes the object from its name, or puts another one back.
Takes(p) ==
  /\ run.cur = p /\ p \notin disk.applied /\ UNCHANGED <<made, disk, mem>>
  /\ At("quarantine") /\ dir[run.path] # None
  /\ dir[run.path] = run.expected \/ Alien(run.path)
  /\ dir' = [dir EXCEPT ![run.path] = None]
  /\ quarantine' = quarantine \cup {<<run.expected, dir[run.path]>>}
Restores(p) ==
  /\ run.cur = p /\ p \notin disk.applied /\ UNCHANGED made
  /\ At("quarantined") /\ dir[run.path] = None
  /\ run.moved \in Foreigns /\ run.path \in touched
  /\ dir' = [dir EXCEPT ![run.path] = run.moved]
  /\ quarantine' = quarantine \ {Quarantined}

Disturbs == \E q \in Paths : Touches(q)
Moves    == \E f \in Files : Renames(f) \/ Unrenames(f)
Patched  == \E p \in Patches : Makes(p) \/ Exchanges(p) \/ Creating(p)
Removes  == \E p \in Patches : Takes(p) \/ Restores(p)

\* A change by the user is one of Touches.
LEMMA TouchIs ==
  ASSUME RestT, NEW q \in Paths, Touch(q)
  PROVE  Touches(q)
<1>1. touches' \in 1..MaxTouches /\ touches' # touches
  BY Limits DEF Touch, RestT
<1>2. Foreign(touches') \in Foreigns
  BY <1>1 DEF Foreigns
<1> QED BY <1>1, <1>2 DEF Touch, Put, Touches

\* What is known of a file or a patch while a step is about it.
LEMMA FileAt ==
  ASSUME Base, NEW f \in Files, run.cur = f, run.at \in {"rename", "renamed", "undo"}
  PROVE  f \notin disk.moved /\ disk = mem
<1>1. disk = mem
  BY Working DEF Base
<1> QED BY <1>1 DEF Base, ChosenOK
LEMMA PatchAt ==
  ASSUME Base, NEW p \in Patches, run.cur = p, run.at \in PatchSteps
  PROVE  /\ Written /\ disk = mem /\ disk \in Manifest
         /\ p \notin mem.applied /\ GroupReady(p)
         /\ run.at \in {"create", "fill"} => p \in Creates
         /\ run.at \in PatchSteps \ ({"create", "fill", "reverify"} \cup Removals) => p \notin Creates
<1>1. Written /\ disk = mem /\ disk \in Manifest
  BY Working DEF Base, PatchSteps, Removals
<1> QED BY <1>1 DEF Base, ChosenOK

\* What a step does to the library: it is the user's, a move, a part of a patch,
\* a part of a removal, or nothing.
LEMMA DirMoves ==
  ASSUME Base, Next
  PROVE  UNCHANGED <<dir, made>> \/ Disturbs \/ Moves \/ Patched \/ Removes
<1>1. ASSUME NEW f \in Files, Rename(f) PROVE UNCHANGED <<dir, made>> \/ Moves
  <2>1. f \notin disk.moved
    BY <1>1, FileAt DEF Rename, At
  <2> QED BY <1>1, <2>1 DEF Rename, Renames, Moves, private
<1>2. ASSUME NEW f \in Files, Undo(f) PROVE UNCHANGED <<dir, made>> \/ Moves
  <2>1. f \notin disk.moved /\ FileThere(f)
    BY <1>2, FileAt DEF Undo, At, Base, ReadyOK
  <2> QED BY <1>2, <2>1 DEF Undo, Unrenames, Moves, private
<1>3. ASSUME NEW p \in Patches, Stage(p) PROVE UNCHANGED <<dir, made>> \/ Patched
  <2>1. p \notin disk.applied /\ p \notin Creates
    BY <1>3, PatchAt DEF Stage, At, PatchSteps, Removals
  <2>2. made[p] < MaxStages => made[p] + 1 \in Stages
    BY Limits DEF Base, LibT, Stages
  <2> QED BY <1>3, <2>1, <2>2 DEF Stage, Put, Makes, Patched
<1>4. ASSUME NEW p \in Patches, Exchange(p) PROVE UNCHANGED <<dir, made>> \/ Patched
  <2>1. /\ p \notin disk.applied /\ p \notin Creates /\ Written /\ disk = mem /\ GroupReady(p)
        /\ made[p] \in Stages
    BY <1>4, PatchAt, Numbers DEF Exchange, At, PatchSteps, Removals
  <2>2. OldThere(p) /\ NewThere(p) /\ mem.journal[p] = made[p]
    BY <1>4 DEF Exchange, At, Base, ReadyOK, ReplacedOK, BeforeExchange
  <2> QED BY <1>4, <2>1, <2>2 DEF Exchange, Exchanges, Patched, private
<1>5. ASSUME NEW p \in Patches, Create(p) \/ Fill(p) PROVE UNCHANGED <<dir, made>> \/ Patched
  <2>1. /\ p \notin disk.applied /\ p \in Creates /\ Written /\ disk = mem /\ GroupReady(p)
    BY <1>5, PatchAt DEF Create, Fill, At, PatchSteps, Removals
  <2> QED BY <1>5, <2>1 DEF Create, Fill, Put, Creating, Patched, private
<1>6. ASSUME NEW p \in Patches, Quarantine(p) PROVE UNCHANGED <<dir, made>> \/ Removes
  <2>1. p \notin disk.applied /\ (dir[run.path] = run.expected \/ Alien(run.path))
    BY <1>6, RemovalIs DEF Quarantine, At, Removals, Base, RemovalOK
  <2> QED BY <1>6, <2>1 DEF Quarantine, Put, Takes, Removes
<1>7. ASSUME NEW p \in Patches, Reinstate(p) PROVE UNCHANGED <<dir, made>> \/ Removes
  <2>1. p \notin disk.applied
    BY <1>7, RemovalIs DEF Reinstate, At, Removals
  <2>2. run.moved \in Foreigns /\ run.path \in touched
    BY <1>7 DEF Reinstate, At, IsExpected, Base, RemovalOK
  <2> QED BY <1>7, <2>1, <2>2 DEF Reinstate, Put, Restores, Removes
<1>8. ASSUME NEW q \in Paths, Touch(q) PROVE Disturbs
  BY <1>8, TouchIs DEF Base, Disturbs
<1>9. CASE \/ Confirm \/ BeginSettled \/ CreateManifest \/ Begin \/ FilesDone \/ Finish \/ Report
           \/ Reconcile \/ AccessFails \/ Abort \/ Crash
           \/ (\E f \in Files : ValidateMoved(f)) \/ (\E f \in Files : SkipFile(f))
           \/ (\E f \in Files : ExamineFile(f)) \/ (\E f \in Files : Verify(f))
           \/ (\E f \in Files : RenameUndone(f))
  BY <1>9 DEF Confirm, BeginSettled, CreateManifest, Begin, FilesDone, Finish, Report, Reconcile,
     AccessFails, Abort, Crash, ValidateMoved, SkipFile, ExamineFile, Verify, RenameUndone,
     untouched, library
<1>10. CASE \/ (\E p \in Patches : SkipPatch(p)) \/ (\E p \in Patches : ExaminePatch(p))
            \/ (\E p \in Patches : Unstage(p)) \/ (\E p \in Patches : Forget(p))
            \/ (\E p \in Patches : ForgetFails(p)) \/ (\E p \in Patches : Journal(p))
            \/ (\E p \in Patches : JournalFails(p)) \/ (\E p \in Patches : Validate(p))
            \/ (\E p \in Patches : ConfirmExchange(p)) \/ (\E p \in Patches : Discard(p))
            \/ (\E p \in Patches : Recheck(p)) \/ (\E p \in Patches : Recover(p))
            \/ (\E p \in Patches : FillFails(p)) \/ (\E p \in Patches : Reverify(p))
            \/ (\E p \in Patches : Unlink(p)) \/ (\E p \in Patches : RemovalFails(p))
  BY <1>10 DEF SkipPatch, ExaminePatch, Unstage, Forget, ForgetFails, Journal, JournalFails,
     Validate, ConfirmExchange, Discard, Recheck, Recover, FillFails, Reverify, Unlink,
     RemovalFails, untouched, library
<1> QED BY <1>1, <1>2, <1>3, <1>4, <1>5, <1>6, <1>7, <1>8, <1>9, <1>10, Cases

\* A removal is completed: the object it is of leaves its quarantine.
Unlinks == /\ UNCHANGED <<dir, made>>
           /\ \E h : h[1] = h[2] /\ quarantine' = quarantine \ {h}

\* What a step does to the quarantines.
LEMMA HiddenMoves ==
  ASSUME Base, Next
  PROVE  UNCHANGED quarantine \/ Unlinks \/ Removes
<1>1. ASSUME NEW p \in Patches, Quarantine(p) PROVE UNCHANGED quarantine \/ Removes
  <2>1. p \notin disk.applied /\ (dir[run.path] = run.expected \/ Alien(run.path))
    BY <1>1, RemovalIs DEF Quarantine, At, Removals, Base, RemovalOK
  <2> QED BY <1>1, <2>1 DEF Quarantine, Put, Takes, Removes
<1>2. ASSUME NEW p \in Patches, Reinstate(p) PROVE UNCHANGED quarantine \/ Removes
  <2>1. p \notin disk.applied
    BY <1>2, RemovalIs DEF Reinstate, At, Removals
  <2>2. run.moved \in Foreigns /\ run.path \in touched
    BY <1>2 DEF Reinstate, At, IsExpected, Base, RemovalOK
  <2> QED BY <1>2, <2>1, <2>2 DEF Reinstate, Put, Restores, Removes
<1>3. IsExpected => Quarantined[1] = Quarantined[2]
  BY DEF IsExpected, Quarantined
<1>4. CASE (\E p \in Patches : Unlink(p)) \/ (\E p \in Patches : RemovalFails(p))
  BY <1>3, <1>4 DEF Unlink, RemovalFails, Unlinks
<1>5. CASE Reconcile
  BY <1>5 DEF Reconcile, Unlinks
<1>6. CASE \/ (\E f \in Files : Rename(f)) \/ (\E f \in Files : Undo(f))
           \/ (\E p \in Patches : Stage(p)) \/ (\E p \in Patches : Exchange(p))
           \/ (\E p \in Patches : Create(p)) \/ (\E p \in Patches : Fill(p))
           \/ (\E q \in Paths : Touch(q))
  BY <1>6 DEF Rename, Undo, Stage, Exchange, Create, Fill, Touch, private
<1>7. CASE \/ Confirm \/ BeginSettled \/ CreateManifest \/ Begin \/ FilesDone \/ Finish \/ Report
           \/ AccessFails \/ Abort \/ Crash
           \/ (\E f \in Files : ValidateMoved(f)) \/ (\E f \in Files : SkipFile(f))
           \/ (\E f \in Files : ExamineFile(f)) \/ (\E f \in Files : Verify(f))
           \/ (\E f \in Files : RenameUndone(f))
  BY <1>7 DEF Confirm, BeginSettled, CreateManifest, Begin, FilesDone, Finish, Report,
     AccessFails, Abort, Crash, ValidateMoved, SkipFile, ExamineFile, Verify, RenameUndone,
     untouched, library
<1>8. CASE \/ (\E p \in Patches : SkipPatch(p)) \/ (\E p \in Patches : ExaminePatch(p))
           \/ (\E p \in Patches : Unstage(p)) \/ (\E p \in Patches : Forget(p))
           \/ (\E p \in Patches : ForgetFails(p)) \/ (\E p \in Patches : Journal(p))
           \/ (\E p \in Patches : JournalFails(p)) \/ (\E p \in Patches : Validate(p))
           \/ (\E p \in Patches : ConfirmExchange(p)) \/ (\E p \in Patches : Discard(p))
           \/ (\E p \in Patches : Recheck(p)) \/ (\E p \in Patches : Recover(p))
           \/ (\E p \in Patches : FillFails(p)) \/ (\E p \in Patches : Reverify(p))
  BY <1>8 DEF SkipPatch, ExaminePatch, Unstage, Forget, ForgetFails, Journal, JournalFails,
     Validate, ConfirmExchange, Discard, Recheck, Recover, FillFails, Reverify,
     untouched, library
<1> QED BY <1>1, <1>2, <1>3, <1>4, <1>5, <1>6, <1>7, <1>8, Cases

\* A removal takes a path of the library, and an object of the batch or another
\* program's from it.
LEMMA RemovesIs ==
  ASSUME Base, NEW p \in Patches, Takes(p) \/ Restores(p)
  PROVE  /\ run.path \in Paths /\ RemovalOf(p) /\ run.expected \in Objects \ Foreigns
         /\ \/ p \in Creates /\ RemovesPartial(p)
            \/ p \notin Creates /\ \E k \in Stages : k <= made[p] /\ run.path = StagePath(p, k)
BY RemovalIs DEF Takes, Restores, At, Removals

\* The library, its quarantines and the counts of staged objects stay typed.
LEMMA LibTyped ==
  ASSUME Base, Next
  PROVE  LibT'
<1>0. dir \in [Paths -> Objects] /\ made \in [Patches -> 0..MaxStages]
      /\ quarantine \in SUBSET (Objects \X Objects)
  BY DEF Base, LibT
<1>1. Foreigns \subseteq Objects
  BY ObjectsThere DEF Foreigns
<1>2. dir' \in [Paths -> Objects] /\ made' \in [Patches -> 0..MaxStages]
  <2>1. CASE UNCHANGED <<dir, made>>
    BY <1>0, <2>1
  <2>2. CASE Disturbs
    BY <1>0, <1>1, <2>2, ObjectsThere DEF Disturbs, Touches
  <2>3. ASSUME NEW f \in Files, Renames(f) \/ Unrenames(f)
        PROVE  dir' \in [Paths -> Objects] /\ UNCHANGED made
    <3>1. dir[Source(f)] \in Objects /\ dir[Target(f)] \in Objects
      BY <1>0, PathsThere
    <3> QED BY <1>0, <2>3, <3>1, ObjectsThere DEF Renames, Unrenames
  <2>4. ASSUME NEW p \in Patches, Makes(p)
        PROVE  dir' \in [Paths -> Objects] /\ made' \in [Patches -> 0..MaxStages]
    <3>1. made[p] + 1 \in 0..MaxStages /\ made[p] + 1 \in Stages
      BY <2>4, Limits DEF Makes, Stages
    <3> QED BY <1>0, <2>4, <3>1, ObjectsThere DEF Makes
  <2>5. ASSUME NEW p \in Patches, Exchanges(p)
        PROVE  dir' \in [Paths -> Objects] /\ UNCHANGED made
    <3>1. dir[NfoPath(p)] \in Objects /\ dir[StagePath(p, made[p])] \in Objects
      BY <1>0, <2>5, PathsThere DEF Exchanges
    <3> QED BY <1>0, <2>5, <3>1 DEF Exchanges
  <2>6. ASSUME NEW p \in Patches, Creating(p)
        PROVE  dir' \in [Paths -> Objects] /\ UNCHANGED made
    BY <1>0, <2>6, ObjectsThere DEF Creating
  <2>7. ASSUME NEW p \in Patches, Takes(p) \/ Restores(p)
        PROVE  dir' \in [Paths -> Objects] /\ UNCHANGED made
    BY <1>0, <1>1, <2>7, ObjectsThere DEF Takes, Restores
  <2> QED BY <1>0, <2>1, <2>2, <2>3, <2>4, <2>5, <2>6, <2>7, DirMoves DEF Moves, Patched, Removes
<1>3. quarantine' \in SUBSET (Objects \X Objects)
  <2>1. ASSUME NEW p \in Patches, Takes(p) PROVE <<run.expected, dir[run.path]>> \in Objects \X Objects
    BY <1>0, <2>1, RemovesIs
  <2> QED BY <1>0, <2>1, HiddenMoves DEF Unlinks, Removes, Takes, Restores
<1> QED BY <1>2, <1>3 DEF LibT

-----------------------------------------------------------------------------
(* What stays where it is.                                                  *)

\* Another object than those a batch stages is at a path that is disturbed.
LEMMA AlienIs ==
  /\ \A q : Alien(q) => q \in touched /\ \A p, k : dir[q] # Staged(p, k)
  /\ \A o \in {None} \cup Foreigns : \A p, k : o # Staged(p, k)
BY ObjectsDiffer DEF Alien, Foreigns

\* Paths the user touched stay known, and the library is a function.
LEMMA BaseIs ==
  ASSUME Base, Next
  PROVE  /\ LibT /\ DiskT /\ SameT /\ RestT /\ touched \subseteq touched'
         /\ DiskT' /\ SameT' /\ LibT'
BY RestTyped, DiskTyped, LibTyped DEF Base

\* A staged object comes to a path by being made there, by the exchange, or
\* (a created NFO) by being filled.
LEMMA StagedComes ==
  ASSUME Base, Next, Placed,
         NEW q \in Paths, NEW p \in Patches, NEW k \in 0..MaxStages,
         dir'[q] = Staged(p, k), dir[q] # Staged(p, k)
  PROVE  \/ Makes(p) /\ q = StagePath(p, k) /\ k = made[p] + 1
         \/ Exchanges(p) /\ q = NfoPath(p) /\ k = made[p] /\ dir[StagePath(p, k)] = Staged(p, k)
         \/ Creating(p) /\ q = NfoPath(p) /\ k = 0
<1>0. dir \in [Paths -> Objects]
  BY DEF Base, LibT
<1>1. CASE UNCHANGED <<dir, made>>
  BY <1>1
<1>2. CASE Disturbs
  BY <1>0, <1>2, AlienIs DEF Disturbs, Touches
<1>3. ASSUME NEW f \in Files, Renames(f) \/ Unrenames(f) PROVE FALSE
  <2>1. CASE Renames(f)
    <3>1. dir[Source(f)] # Staged(p, k)
      BY PathsThere, PathsDiffer DEF Placed
    <3> QED BY <1>0, <2>1, <3>1, PathsThere, ObjectsDiffer DEF Renames
  <2>2. CASE Unrenames(f)
    <3>1. dir[Target(f)] # Staged(p, k)
      BY <2>2, AlienIs, ObjectsDiffer DEF Unrenames, FileThere
    <3> QED BY <1>0, <2>2, <3>1, PathsThere, ObjectsDiffer DEF Unrenames
  <2> QED BY <1>3, <2>1, <2>2
<1>4. ASSUME NEW i \in Patches, Makes(i)
      PROVE  i = p /\ q = StagePath(p, k) /\ k = made[p] + 1
  <2>1. StagePath(i, made[i] + 1) \in Paths
    BY <1>4, PathsThere DEF Makes
  <2>2. q = StagePath(i, made[i] + 1) /\ Staged(p, k) = Staged(i, made[i] + 1)
    BY <1>0, <1>4, <2>1 DEF Makes
  <2> QED BY <2>2, ObjectsDiffer
<1>5. ASSUME NEW i \in Patches, Exchanges(i)
      PROVE  i = p /\ q = NfoPath(p) /\ k = made[p] /\ dir[StagePath(p, k)] = Staged(p, k)
  <2>1. StagePath(i, made[i]) \in Paths /\ NfoPath(i) \in Paths
    BY <1>5, PathsThere DEF Exchanges
  <2>2. dir[NfoPath(i)] # Staged(p, k)
    BY <1>5, AlienIs, ObjectsDiffer DEF Exchanges, OldThere
  <2>3. q = NfoPath(i) /\ dir[StagePath(i, made[i])] = Staged(p, k)
    BY <1>0, <1>5, <2>1, <2>2 DEF Exchanges
  <2>4. Staged(p, k) = Staged(i, made[i])
    BY <1>5, <2>3, AlienIs DEF Exchanges, NewThere
  <2>5. i = p /\ k = made[i]
    BY <2>4, ObjectsDiffer
  <2> QED BY <2>3, <2>5
<1>6. ASSUME NEW i \in Patches, Creating(i)
      PROVE  i = p /\ q = NfoPath(p) /\ k = 0
  <2>1. NfoPath(i) \in Paths /\ Created(i) = Staged(i, 0)
    BY PathsThere, ObjectsDiffer
  <2>2. q = NfoPath(i) /\ Staged(p, k) = Staged(i, 0)
    BY <1>0, <1>6, <2>1, ObjectsDiffer DEF Creating
  <2> QED BY <2>2, ObjectsDiffer
<1>7. ASSUME NEW i \in Patches, Takes(i) \/ Restores(i) PROVE FALSE
  BY <1>0, <1>7, AlienIs, ObjectsDiffer DEF Takes, Restores
<1> QED BY <1>1, <1>2, <1>3, <1>4, <1>5, <1>6, <1>7, DirMoves DEF Moves, Patched, Removes

\* What was made for a patch grows by one, or not at all.
LEMMA MadeGrows ==
  ASSUME Base, Next
  PROVE  /\ \A p \in Patches : made'[p] \in Nat /\ made[p] \in Nat /\ made[p] <= made'[p]
         /\ \A p \in Patches : made'[p] # made[p] =>
              Makes(p) /\ made'[p] = made[p] + 1
<1>1. \A p \in Patches : made[p] \in Nat
  BY Limits DEF Base, LibT
<1>2. UNCHANGED made \/ \E i \in Patches : Makes(i)
  BY DirMoves DEF Disturbs, Touches, Moves, Renames, Unrenames, Patched, Exchanges,
     Creating, Removes, Takes, Restores
<1>3. CASE UNCHANGED made
  BY <1>1, <1>3
<1>4. CASE \E i \in Patches : Makes(i)
  <2>1. PICK i \in Patches : Makes(i)
    BY <1>4
  <2>2. made' = [made EXCEPT ![i] = made[i] + 1]
    BY <2>1 DEF Makes
  <2>3. \A p \in Patches : made'[p] = IF p = i THEN made[p] + 1 ELSE made[p]
    BY <2>2 DEF Base, LibT
  <2> QED BY <1>1, <2>1, <2>3
<1> QED BY <1>2, <1>3, <1>4

\* A replacement stays at its NFO's path, unless the user comes there.
LEMMA NfoKept ==
  ASSUME Base, Next,
         NEW p \in Patches, NEW k \in 0..MaxStages, dir[NfoPath(p)] = Staged(p, k)
  PROVE  dir'[NfoPath(p)] = dir[NfoPath(p)] \/ NfoPath(p) \in touched'
<1>0. NfoPath(p) \in Paths /\ dir \in [Paths -> Objects]
  BY PathsThere DEF Base, LibT
<1>1. CASE UNCHANGED <<dir, made>>
  BY <1>1
<1>2. CASE Disturbs
  BY <1>0, <1>2 DEF Disturbs, Touches
<1>3. ASSUME NEW f \in Files, Renames(f) \/ Unrenames(f)
      PROVE  dir'[NfoPath(p)] = dir[NfoPath(p)]
  <2>1. CASE Renames(f)
    BY <1>0, <2>1, PathsThere, PathsDiffer, ObjectsDiffer DEF Renames
  <2>2. CASE Unrenames(f)
    <3>1. dir[Target(f)] # Staged(p, k)
      BY <2>2, AlienIs, ObjectsDiffer DEF Unrenames, FileThere
    <3> QED BY <1>0, <2>2, <3>1, PathsThere, PathsDiffer DEF Unrenames
  <2> QED BY <1>3, <2>1, <2>2
<1>4. ASSUME NEW i \in Patches, Makes(i) PROVE dir'[NfoPath(p)] = dir[NfoPath(p)]
  BY <1>0, <1>4, PathsDiffer DEF Makes
<1>5. ASSUME NEW i \in Patches, Exchanges(i) PROVE dir'[NfoPath(p)] = dir[NfoPath(p)]
  <2>1. NfoPath(i) # NfoPath(p)
    BY <1>5, AlienIs, ObjectsDiffer DEF Exchanges, OldThere
  <2> QED BY <1>0, <1>5, <2>1, PathsDiffer DEF Exchanges
<1>6. ASSUME NEW i \in Patches, Creating(i) PROVE dir'[NfoPath(p)] = dir[NfoPath(p)]
  <2>1. NfoPath(i) # NfoPath(p)
    BY <1>6, ObjectsDiffer DEF Creating
  <2> QED BY <1>0, <1>6, <2>1 DEF Creating
<1>7. ASSUME NEW i \in Patches, Takes(i) PROVE dir'[NfoPath(p)] = dir[NfoPath(p)]
  <2>1. run.path # NfoPath(p)
    <3>1. CASE RemovesPartial(i)
      BY <1>7, <3>1, AlienIs, ObjectsDiffer DEF Takes, RemovesPartial
    <3>2. CASE \E n \in Stages : run.path = StagePath(i, n)
      BY <3>2, PathsDiffer
    <3> QED BY <1>7, <3>1, <3>2, RemovesIs
  <2> QED BY <1>0, <1>7, <2>1 DEF Takes
<1>8. ASSUME NEW i \in Patches, Restores(i) PROVE dir'[NfoPath(p)] = dir[NfoPath(p)]
  BY <1>0, <1>8, ObjectsDiffer DEF Restores
<1> QED BY <1>1, <1>2, <1>3, <1>4, <1>5, <1>6, <1>7, <1>8, DirMoves
        DEF Moves, Patched, Removes

\* The temporary path of an applied patch stays empty, unless the user comes.
LEMMA StageKept ==
  ASSUME Base, Next,
         NEW p \in disk.applied, p \in Patches, NEW k \in Stages, dir[StagePath(p, k)] = None
  PROVE  dir'[StagePath(p, k)] = None \/ StagePath(p, k) \in touched'
<1>0. StagePath(p, k) \in Paths /\ dir \in [Paths -> Objects] /\ touched \subseteq touched'
  BY PathsThere, BaseIs DEF LibT
<1>1. CASE UNCHANGED <<dir, made>>
  BY <1>1
<1>2. CASE Disturbs
  BY <1>0, <1>2 DEF Disturbs, Touches
<1>3. ASSUME NEW f \in Files, Renames(f) \/ Unrenames(f) PROVE dir'[StagePath(p, k)] = None
  BY <1>0, <1>3, PathsDiffer DEF Renames, Unrenames
<1>4. ASSUME NEW i \in Patches, Makes(i) PROVE dir'[StagePath(p, k)] = None
  BY <1>0, <1>4, PathsDiffer DEF Makes
<1>5. ASSUME NEW i \in Patches, Exchanges(i) PROVE dir'[StagePath(p, k)] = None
  BY <1>0, <1>5, PathsDiffer DEF Exchanges
<1>6. ASSUME NEW i \in Patches, Creating(i) PROVE dir'[StagePath(p, k)] = None
  BY <1>0, <1>6, PathsDiffer, NfoPaths DEF Creating
<1>7. ASSUME NEW i \in Patches, Takes(i) \/ Restores(i)
      PROVE  dir'[StagePath(p, k)] = None \/ StagePath(p, k) \in touched'
  BY <1>0, <1>7 DEF Takes, Restores
<1> QED BY <1>1, <1>2, <1>3, <1>4, <1>5, <1>6, <1>7, DirMoves DEF Moves, Patched, Removes

\* The journal entry of a patch that is in place, or applied, does not change.
LEMMA JournalKept ==
  ASSUME Base, Next, Written, NEW p \in Patches
  PROVE  /\ \A k : dir[NfoPath(p)] = Staged(p, k) => disk'.journal[p] = disk.journal[p]
         /\ p \in disk.applied => disk'.journal[p] = disk.journal[p]
<1>1. CASE disk'.journal = disk.journal
  BY <1>1
<1>2. ASSUME NEW i \in Patches, Journals(i)
      PROVE  /\ \A k : dir[NfoPath(p)] = Staged(p, k) => disk'.journal[p] = disk.journal[p]
             /\ p \in disk.applied => disk'.journal[p] = disk.journal[p]
  <2>1. disk.journal \in [Patches -> 0..MaxStages]
    BY WrittenIs DEF Base, Manifest
  <2>2. CASE i # p
    BY <1>2, <2>1, <2>2 DEF Journals
  <2>3. CASE i = p
    <3>1. run.cur = p /\ run.at \in PatchSteps
      BY <1>2, <2>3 DEF Journals, At, PatchSteps
    <3>2. p \notin disk.applied
      BY <3>1, PatchAt
    <3>3. OldThere(p)
      <4>1. CASE At("forget") \/ At("journal")
        BY <3>1, <4>1 DEF At, Base, ReadyOK, BeforeExchange
      <4>2. CASE run.at \in Removals /\ run.then = "fail_journaled"
        BY <3>1, <4>2, RemovalIs DEF RemovalOf, RemovesPartial, RemovesMade, RemovesStaged,
           RemovesBefore
      <4> QED BY <1>2, <4>1, <4>2 DEF Journals
    <3> QED BY <3>2, <3>3, AlienIs, ObjectsDiffer DEF OldThere
  <2> QED BY <2>2, <2>3
<1> QED BY <1>1, <1>2, DiskMoves DEF Kept, Records, Applies

-----------------------------------------------------------------------------
(* The invariants, step by step.                                            *)

\* Every step leaves the staged objects where they may be.
LEMMA PlacedStep ==
  ASSUME Base, Next, Placed
  PROVE  Placed'
<1> SUFFICES ASSUME NEW q \in Paths, NEW p \in Patches, NEW k \in 0..MaxStages,
                    dir'[q] = Staged(p, k)
             PROVE  k <= made'[p] /\ q \in {StagePath(p, k), NfoPath(p)}
  BY DEF Placed
<1>1. CASE dir[q] = Staged(p, k)
  BY <1>1, MadeGrows DEF Placed
<1>2. CASE dir[q] # Staged(p, k)
  <2>1. CASE Makes(p) /\ q = StagePath(p, k) /\ k = made[p] + 1
    <3>1. made'[p] = made[p] + 1
      BY <2>1 DEF Makes, Base, LibT
    <3> QED BY <2>1, <3>1, MadeGrows
  <2>2. CASE Exchanges(p) /\ q = NfoPath(p) /\ k = made[p]
    BY <2>2, MadeGrows
  <2>3. CASE Creating(p) /\ q = NfoPath(p) /\ k = 0
    BY <2>3, MadeGrows
  <2> QED BY <1>2, <2>1, <2>2, <2>3, StagedComes
<1> QED BY <1>1, <1>2

\* Every step leaves the temporary paths of objects not yet made empty.
LEMMA UnmadeStep ==
  ASSUME Base, Next, Unmade
  PROVE  Unmade'
<1> SUFFICES ASSUME NEW p \in Patches, NEW k \in Stages, k > made'[p]
             PROVE  dir'[StagePath(p, k)] = None
  BY DEF Unmade
<1>0. /\ k > made[p] /\ StagePath(p, k) \in Paths /\ dir[StagePath(p, k)] = None
      /\ dir \in [Paths -> Objects]
  BY MadeGrows, PathsThere DEF Unmade, Stages, Base, LibT
<1>1. CASE UNCHANGED <<dir, made>>
  BY <1>0, <1>1
<1>2. ASSUME NEW u \in Paths, Touches(u) PROVE dir'[StagePath(p, k)] = None
  <2>1. StagePath(p, k) \notin UserPaths
    BY PathsDiffer, MediaElsewhere DEF UserPaths
  <2>2. \A i \in Patches : \A n \in 1..made[i] : StagePath(p, k) # StagePath(i, n)
    <3> SUFFICES ASSUME NEW i \in Patches, NEW n \in 1..made[i], StagePath(p, k) = StagePath(i, n)
                 PROVE  FALSE
      OBVIOUS
    <3>1. i = p /\ n = k
      BY PathsDiffer
    <3> QED BY <1>0, <3>1, MadeGrows DEF Stages
  <2>3. u # StagePath(p, k)
    BY <1>2, <2>1, <2>2 DEF Touches
  <2> QED BY <1>0, <1>2, <2>3 DEF Touches
<1>3. ASSUME NEW f \in Files, Renames(f) \/ Unrenames(f) PROVE dir'[StagePath(p, k)] = None
  BY <1>0, <1>3, PathsDiffer DEF Renames, Unrenames
<1>4. ASSUME NEW i \in Patches, Makes(i) PROVE dir'[StagePath(p, k)] = None
  <2>1. StagePath(p, k) # StagePath(i, made[i] + 1)
    <3> SUFFICES ASSUME StagePath(p, k) = StagePath(i, made[i] + 1) PROVE FALSE
      OBVIOUS
    <3>1. p = i /\ k = made[i] + 1
      BY PathsDiffer
    <3>2. made'[p] = made[p] + 1
      BY <1>4, <3>1 DEF Makes, Base, LibT
    <3> QED BY <3>1, <3>2, MadeGrows
  <2> QED BY <1>0, <1>4, <2>1 DEF Makes
<1>5. ASSUME NEW i \in Patches, Exchanges(i) PROVE dir'[StagePath(p, k)] = None
  <2>1. StagePath(p, k) # StagePath(i, made[i])
    BY <1>0, PathsDiffer, MadeGrows DEF Stages
  <2> QED BY <1>0, <1>5, <2>1, PathsDiffer DEF Exchanges
<1>6. ASSUME NEW i \in Patches, Creating(i) PROVE dir'[StagePath(p, k)] = None
  BY <1>0, <1>6, NfoPaths, PathsDiffer DEF Creating
<1>7. ASSUME NEW i \in Patches, Takes(i) PROVE dir'[StagePath(p, k)] = None
  BY <1>0, <1>7 DEF Takes
<1>8. ASSUME NEW i \in Patches, Restores(i) PROVE dir'[StagePath(p, k)] = None
  <2>1. run.path # StagePath(p, k)
    <3>1. CASE RemovesPartial(i)
      BY <1>8, <3>1, PathsDiffer DEF RemovesPartial
    <3>2. CASE \E n \in Stages : n <= made[i] /\ run.path = StagePath(i, n)
      <4>1. PICK n \in Stages : n <= made[i] /\ run.path = StagePath(i, n)
        BY <3>2
      <4>2. StagePath(p, k) = StagePath(i, n) => p = i /\ k = n
        BY PathsDiffer
      <4> QED BY <1>0, <4>1, <4>2, MadeGrows DEF Stages
    <3> QED BY <1>8, <3>1, <3>2, RemovesIs
  <2> QED BY <1>0, <1>8, <2>1 DEF Restores
<1> QED BY <1>1, <1>2, <1>3, <1>4, <1>5, <1>6, <1>7, <1>8, DirMoves
        DEF Disturbs, Moves, Patched, Removes

\* Every step keeps JournalOK.
LEMMA JournalStep ==
  ASSUME Base, Next
  PROVE  JournalOK'
<1>0. JournalOK /\ DiskT /\ SameT
  BY DEF Base
<1>1. \A p \in Creates : made'[p] = 0
  <2> SUFFICES ASSUME NEW p \in Creates PROVE made'[p] = 0
    OBVIOUS
  <2>1. p \in Patches /\ made[p] = 0
    BY <1>0, PlanAssumption DEF JournalOK
  <2>2. ~Makes(p)
    BY DEF Makes
  <2> QED BY <2>1, <2>2, MadeGrows
<1>2. CASE ~Written /\ Written'
  BY <1>2, BeginsFresh, MadeGrows, <1>1 DEF JournalOK
<1>3. CASE Written
  <2>0. disk.journal \in [Patches -> 0..MaxStages]
    BY <1>0, <1>3, WrittenIs DEF Manifest
  <2>1. ASSUME NEW p \in Patches PROVE disk'.journal[p] <= made'[p]
    <3>0. disk.journal[p] <= made[p] /\ disk.journal[p] \in Nat
      BY <1>0, <1>3, <2>0, Limits DEF JournalOK
    <3>1. CASE disk'.journal[p] = disk.journal[p]
      BY <3>0, <3>1, MadeGrows
    <3>2. ASSUME NEW i \in Patches, Journals(i) PROVE disk'.journal[p] <= made'[p]
      BY <3>0, <3>2, <2>0, MadeGrows DEF Journals
    <3> QED BY <3>1, <3>2, <1>3, DiskMoves DEF Kept, Records, Applies
  <2>2. ASSUME NEW p \in Patches, p \in disk'.applied \ Creates PROVE disk'.journal[p] # 0
    <3>1. CASE p \in disk.applied
      BY <1>0, <1>3, <2>2, <3>1, JournalKept DEF JournalOK
    <3>2. CASE p \notin disk.applied
      <4>1. Applies(p) /\ disk'.journal = disk.journal
        BY <1>3, <2>2, <3>2, DiskMoves DEF Kept, Records, Applies, Journals
      <4>2. \/ At("reverify") \/ At("recover")
            \/ At("quarantined") /\ run.then = "apply"
        BY <2>2, <4>1 DEF Applies, InPlace, FoundCreated
      <4>3. run.cur = p /\ disk = mem
        BY <1>0, <4>1, <4>2, Working DEF Applies, At
      <4>4. CASE At("reverify") \/ At("recover")
        BY <2>2, <4>1, <4>3, <4>4 DEF At, Base, ReplacedOK
      <4>5. CASE At("quarantined") /\ run.then = "apply"
        BY <4>1, <4>3, <4>5, RemovalIs DEF At, Removals, RemovalOf, RemovesPartial, RemovesMade,
           RemovesStaged, RemovesBefore
      <4> QED BY <4>2, <4>4, <4>5
    <3> QED BY <3>1, <3>2
  <2> QED BY <1>1, <2>1, <2>2 DEF JournalOK
<1>4. CASE ~Written'
  BY <1>1, <1>4 DEF JournalOK
<1> QED BY <1>2, <1>3, <1>4

\* Every step keeps ReplacementIsJournaled: only the exchange brings a
\* replacement, and it follows the checkpoint.
LEMMA JournaledStep ==
  ASSUME Base, Next, Placed, ReplacementIsJournaled
  PROVE  ReplacementIsJournaled'
<1> SUFFICES ASSUME NEW p \in Patches \ Creates, NEW k \in Stages,
                    dir'[NfoPath(p)] = Staged(p, k)
             PROVE  Written' /\ disk'.journal[p] = k
  BY DEF ReplacementIsJournaled
<1>0. k \in 0..MaxStages /\ k # 0 /\ NfoPath(p) \in Paths
  BY Limits, PathsThere DEF Stages
<1>1. CASE dir[NfoPath(p)] = Staged(p, k)
  BY <1>1, WrittenStays, JournalKept DEF ReplacementIsJournaled
<1>2. CASE dir[NfoPath(p)] # Staged(p, k)
  <2>1. Exchanges(p) /\ k = made[p]
    BY <1>0, <1>2, StagedComes, PathsDiffer
  <2> QED BY <2>1, WrittenStays DEF Exchanges
<1> QED BY <1>1, <1>2

\* Every step keeps PatchedGroupIsMoved: only a patch whose group is recorded
\* changes its NFO, and records are never lost.
LEMMA GroupStep ==
  ASSUME Base, Next, Placed, PatchedGroupIsMoved
  PROVE  PatchedGroupIsMoved'
<1> SUFFICES ASSUME NEW p \in Patches, NEW k \in 0..MaxStages, dir'[NfoPath(p)] = Staged(p, k)
             PROVE  /\ Written'
                    /\ \A f \in Files : ItemOf[f] = PatchItem[p] => f \in disk'.moved
  BY DEF PatchedGroupIsMoved
<1>0. NfoPath(p) \in Paths
  BY PathsThere
<1>1. CASE dir[NfoPath(p)] = Staged(p, k)
  BY <1>1, WrittenStays DEF PatchedGroupIsMoved
<1>2. CASE dir[NfoPath(p)] # Staged(p, k)
  <2>1. Exchanges(p) \/ Creating(p)
    BY <1>0, <1>2, StagedComes, PathsDiffer
  <2>2. Written /\ disk = mem /\ GroupReady(p)
    BY <2>1 DEF Exchanges, Creating
  <2> QED BY <2>2, WrittenStays DEF GroupReady
<1> QED BY <1>1, <1>2

\* What RecordedIsDone says of a file and of a patch.
FileDone(f) ==
  \/ dir[Target(f)] = Approved(f)
  \/ Target(f) \in touched
  \/ \E p \in Patches :
       /\ PatchNfo[p] = f
       /\ Undisturbed(p) => dir[Target(f)] = Staged(p, disk.journal[p])
PatchDone(p) ==
  IF p \in Creates THEN dir[NfoPath(p)] = Created(p)
  ELSE /\ dir[NfoPath(p)] = Staged(p, disk.journal[p])
       /\ dir[StagePath(p, disk.journal[p])] = None

\* The paths that are untouched after a step were untouched before it.
LEMMA UndisturbedBefore ==
  ASSUME Base, Next, NEW p \in Patches, Undisturbed(p)'
  PROVE  /\ Undisturbed(p) /\ NfoPath(p) \notin touched'
         /\ \A k \in Stages : StagePath(p, k) \notin touched'
BY BaseIs DEF Undisturbed

\* A recorded file stays at its target, unless the user comes there or its
\* patch exchanges it.
LEMMA ApprovedKept ==
  ASSUME Base, Next, NEW f \in disk.moved, f \in Files, dir[Target(f)] = Approved(f)
  PROVE  \/ dir'[Target(f)] = Approved(f)
         \/ Target(f) \in touched'
         \/ \E p \in Patches : Exchanges(p) /\ NfoPath(p) = Target(f)
<1>0. Target(f) \in Paths /\ dir \in [Paths -> Objects] /\ touched \subseteq touched'
  BY PathsThere, BaseIs DEF LibT
<1>1. CASE UNCHANGED <<dir, made>>
  BY <1>1
<1>2. CASE Disturbs
  BY <1>0, <1>2 DEF Disturbs, Touches
<1>3. ASSUME NEW g \in Files, Renames(g) \/ Unrenames(g) PROVE dir'[Target(f)] = Approved(f)
  BY <1>0, <1>3, PathsThere, PathsDiffer DEF Renames, Unrenames
<1>4. ASSUME NEW i \in Patches, Makes(i) PROVE dir'[Target(f)] = Approved(f)
  BY <1>0, <1>4, PathsDiffer DEF Makes
<1>5. ASSUME NEW i \in Patches, Exchanges(i), NfoPath(i) # Target(f)
      PROVE  dir'[Target(f)] = Approved(f)
  BY <1>0, <1>5, PathsDiffer DEF Exchanges
<1>6. ASSUME NEW i \in Patches, Creating(i) PROVE dir'[Target(f)] = Approved(f)
  BY <1>0, <1>6, NfoPaths DEF Creating
<1>7. ASSUME NEW i \in Patches, Takes(i) PROVE dir'[Target(f)] = Approved(f)
  <2>1. run.path # Target(f)
    BY <1>7, RemovesIs, NfoPaths, PathsDiffer DEF RemovesPartial
  <2> QED BY <1>0, <1>7, <2>1 DEF Takes
<1>8. ASSUME NEW i \in Patches, Restores(i)
      PROVE  dir'[Target(f)] = Approved(f) \/ Target(f) \in touched'
  BY <1>0, <1>8 DEF Restores
<1> QED BY <1>1, <1>2, <1>3, <1>4, <1>5, <1>6, <1>7, <1>8, DirMoves
        DEF Moves, Patched, Removes

\* What the record of a file says stays true.
LEMMA FileDoneStep ==
  ASSUME Base, Next, Written, NEW f \in disk.moved, f \in Files, FileDone(f)
  PROVE  FileDone(f)'
<1>0. touched \subseteq touched' /\ dir \in [Paths -> Objects]
  BY BaseIs DEF LibT
<1>1. CASE Target(f) \in touched
  BY <1>0, <1>1 DEF FileDone
<1>2. CASE dir[Target(f)] = Approved(f)
  <2>1. CASE dir'[Target(f)] = Approved(f) \/ Target(f) \in touched'
    BY <2>1 DEF FileDone
  <2>2. ASSUME NEW p \in Patches, Exchanges(p), NfoPath(p) = Target(f) PROVE FileDone(f)'
    <3>1. PatchNfo[p] = f
      BY <2>2, NfoPaths
    <3>2. ASSUME Undisturbed(p)' PROVE dir'[Target(f)] = Staged(p, disk'.journal[p])
      <4>1. dir[StagePath(p, made[p])] = Staged(p, made[p])
        BY <1>0, <2>2, <3>2, UndisturbedBefore DEF Exchanges, NewThere, Alien
      <4>2. NfoPath(p) \in Paths /\ StagePath(p, made[p]) # NfoPath(p)
        BY PathsThere, PathsDiffer
      <4> QED BY <1>0, <2>2, <4>1, <4>2 DEF Exchanges
    <3> QED BY <3>1, <3>2 DEF FileDone
  <2> QED BY <1>2, <2>1, <2>2, ApprovedKept
<1>3. CASE \E p \in Patches :
             /\ PatchNfo[p] = f
             /\ Undisturbed(p) => dir[Target(f)] = Staged(p, disk.journal[p])
  <2>1. PICK p \in Patches :
           /\ PatchNfo[p] = f
           /\ Undisturbed(p) => dir[Target(f)] = Staged(p, disk.journal[p])
    BY <1>3
  <2>2. ASSUME Undisturbed(p)' PROVE dir'[Target(f)] = Staged(p, disk'.journal[p])
    <3>1. NfoPath(p) = Target(f)
      BY <2>1, NfoPaths
    <3>2. Undisturbed(p) /\ NfoPath(p) \notin touched'
      BY <2>2, UndisturbedBefore
    <3>3. dir[NfoPath(p)] = Staged(p, disk.journal[p])
      BY <2>1, <3>1, <3>2
    <3>4. disk.journal[p] \in 0..MaxStages
      BY WrittenIs DEF Base, Manifest
    <3>5. dir'[NfoPath(p)] = dir[NfoPath(p)]
      BY <3>2, <3>3, <3>4, NfoKept
    <3>6. disk'.journal[p] = disk.journal[p]
      BY <3>3, JournalKept
    <3> QED BY <3>1, <3>3, <3>5, <3>6
  <2> QED BY <2>1, <2>2 DEF FileDone
<1> QED BY <1>1, <1>2, <1>3 DEF FileDone

\* What the record of a patch says stays true.
LEMMA PatchDoneStep ==
  ASSUME Base, Next, Written,
         NEW p \in disk.applied, p \in Patches, Undisturbed(p)', PatchDone(p)
  PROVE  PatchDone(p)'
<1>0. disk.journal[p] \in 0..MaxStages /\ 0 \in 0..MaxStages
  BY WrittenIs, Limits DEF Base, Manifest
<1>1. CASE p \in Creates
  BY <1>0, <1>1, NfoKept, UndisturbedBefore, ObjectsDiffer DEF PatchDone
<1>2. CASE p \notin Creates
  <2>1. disk.journal[p] \in Stages
    BY <1>0, <1>2, Limits DEF Base, JournalOK, Stages
  <2>2. disk'.journal[p] = disk.journal[p]
    BY JournalKept
  <2>3. dir'[NfoPath(p)] = Staged(p, disk.journal[p])
    BY <1>0, <1>2, NfoKept, UndisturbedBefore DEF PatchDone
  <2>4. dir'[StagePath(p, disk.journal[p])] = None
    BY <1>2, <2>1, StageKept, UndisturbedBefore DEF PatchDone
  <2> QED BY <1>2, <2>2, <2>3, <2>4 DEF PatchDone
<1> QED BY <1>1, <1>2

\* What the record of a patch says is true when it is written.
LEMMA PatchDoneNow ==
  ASSUME Base, Next, Written, NEW p \in Patches, Applies(p), Undisturbed(p)'
  PROVE  PatchDone(p)'
<1>0. /\ UNCHANGED dir /\ disk'.journal = disk.journal /\ run.cur = p /\ InPlace(p)
      /\ touched \subseteq touched'
      /\ NfoPath(p) \notin touched' /\ \A k \in Stages : StagePath(p, k) \notin touched'
  BY UndisturbedBefore, BaseIs DEF Applies
<1>1. CASE FoundCreated(p)
  BY <1>0, <1>1 DEF FoundCreated, PatchDone
<1>2. CASE At("reverify") /\ dir[NfoPath(p)] = Prepared(p)
  <2>1. disk = mem
    BY <1>2, Working DEF Base, At
  <2>2. CASE p \in Creates
    BY <1>0, <1>2, <2>2 DEF Prepared, PatchDone
  <2>3. CASE p \notin Creates
    <3>1. mem.journal[p] \in Stages
      BY <1>0, <1>2, <2>3, Limits DEF At, Base, ReplacedOK, DiskT, Manifest, Stages
    <3>2. dir[StagePath(p, mem.journal[p])] = None
      BY <1>0, <1>2, <2>3, <3>1 DEF At, Base, ReplacedOK
    <3> QED BY <1>0, <1>2, <2>1, <2>3, <3>2 DEF Prepared, PatchDone
  <2> QED BY <2>2, <2>3
<1>3. CASE At("recover") /\ dir[StagePath(p, mem.journal[p])] = None
  <2>1. disk = mem /\ p \notin Creates
    BY <1>0, <1>3, PatchAt DEF At, PatchSteps, Removals
  <2>2. dir[NfoPath(p)] = Staged(p, mem.journal[p])
    BY <1>0, <1>3 DEF At, Base, ReplacedOK, ReplacedThere
  <2> QED BY <1>0, <1>3, <2>1, <2>2 DEF PatchDone
<1>4. CASE At("quarantined") /\ run.then = "apply"
  <2>1. disk = mem /\ RemovesBefore(p)
    BY <1>0, <1>4, RemovalIs DEF At, Removals, RemovalOf, RemovesPartial, RemovesMade,
       RemovesStaged
  <2>2. mem.journal[p] \in Stages
    BY <1>0, <2>1, Limits DEF RemovesBefore, Base, DiskT, Manifest, Stages
  <2>3. dir[StagePath(p, mem.journal[p])] = None
    BY <1>0, <1>4, <2>1, <2>2 DEF At, Base, RemovalOK, RemovesBefore, Alien
  <2>4. dir[NfoPath(p)] = Staged(p, mem.journal[p])
    BY <1>0, <2>1 DEF RemovesBefore, ReplacedThere
  <2> QED BY <1>0, <2>1, <2>3, <2>4 DEF RemovesBefore, PatchDone
<1> QED BY <1>0, <1>1, <1>2, <1>3, <1>4 DEF InPlace

\* Every step keeps RecordedIsDone.
LEMMA RecordedStep ==
  ASSUME Base, Next, RecordedIsDone
  PROVE  RecordedIsDone'
<1>1. CASE ~Written'
  BY <1>1 DEF RecordedIsDone
<1>2. CASE ~Written /\ Written'
  BY <1>2, BeginsFresh DEF RecordedIsDone
<1>3. CASE Written /\ Written'
  <2>0. /\ disk.moved \subseteq Files /\ disk.applied \subseteq Patches
        /\ \A f \in disk.moved : FileDone(f)
        /\ \A p \in disk.applied : Undisturbed(p) => PatchDone(p)
    BY <1>3, WrittenIs DEF Base, RecordedIsDone, FileDone, PatchDone, Manifest
  <2>1. ASSUME NEW f \in disk'.moved PROVE FileDone(f)'
    <3>1. CASE f \in disk.moved
      BY <1>3, <2>0, <3>1, FileDoneStep
    <3>2. CASE f \notin disk.moved
      <4>1. Records(f)
        BY <1>3, <3>2, DiskMoves DEF Kept, Records, Applies, Journals
      <4> QED BY <4>1 DEF Records, FileDone
    <3> QED BY <3>1, <3>2
  <2>2. ASSUME NEW p \in disk'.applied, Undisturbed(p)' PROVE PatchDone(p)'
    <3>1. CASE p \in disk.applied
      BY <1>3, <2>0, <2>2, <3>1, PatchDoneStep, UndisturbedBefore
    <3>2. CASE p \notin disk.applied
      <4>1. p \in Patches /\ Applies(p)
        BY <1>3, <3>2, DiskMoves DEF Kept, Records, Applies, Journals
      <4> QED BY <1>3, <2>2, <4>1, PatchDoneNow
    <3> QED BY <3>1, <3>2
  <2> QED BY <2>1, <2>2 DEF RecordedIsDone, FileDone, PatchDone
<1> QED BY <1>1, <1>2, <1>3

-----------------------------------------------------------------------------
(* What an attempt knows while it works on a file or a patch.               *)

\* Where Go takes the attempt.
LEMMA GoIs == \A s, i : Go(s, i) => run'.at = s /\ run'.cur = i
BY DEF Go

\* A patch stays the one that is worked on, and nothing is recorded of it yet.
LEMMA TurnKeeps ==
  ASSUME Base, NEW p \in Patches, PatchTurn(p)
  PROVE  /\ mem'.moved = mem.moved /\ mem'.applied = mem.applied
         /\ run'.cur = p /\ run.cur = p
         /\ run.at \in PatchSteps /\ p \notin mem.applied /\ GroupReady(p)
<1>1. run.cur = p /\ run.at \in PatchSteps
  <2> USE DEF At, PatchSteps, Removals
  <2>1. Looks(p) \/ Noted(p) \/ Changes(p) => run.at \in PatchSteps
    BY DEF Looks, Noted, Changes
  <2>2. Removing(p) \/ SetsAside(p) => run.at \in PatchSteps
    BY DEF Removing, SetsAside
  <2> QED BY <2>1, <2>2 DEF PatchTurn
<1>2. p \notin mem.applied /\ GroupReady(p) /\ mem \in Manifest
  BY <1>1, PatchAt
<1>3. run'.cur = p
  <2>1. Looks(p) \/ Noted(p) \/ Changes(p) => run'.cur = p
    BY GoIs DEF Looks, Noted, Changes
  <2>2. Removing(p) => run'.cur = run.cur
    BY DEF Removing, Remove
  <2>3. SetsAside(p) => run'.cur = run.cur
    BY DEF SetsAside, Base, RunT
  <2> QED BY <1>1, <2>1, <2>2, <2>3 DEF PatchTurn
<1>4. mem'.moved = mem.moved /\ mem'.applied = mem.applied
  <2>1. CASE Noted(p)
    BY <1>2, <2>1 DEF Noted, Save, Forgotten, Checkpointed, Manifest
  <2>2. CASE ~Noted(p)
    <3>1. UNCHANGED mem
      BY <2>2 DEF PatchTurn, Looks, Changes, Removing, SetsAside
    <3> QED BY <3>1
  <2> QED BY <2>1, <2>2
<1> QED BY <1>1, <1>2, <1>3, <1>4

\* Which removal a patch is in tells what it waits for.
LEMMA RemovalFor ==
  ASSUME Base, NEW p \in Patches, run.cur = p, run.at \in Removals
  PROVE  /\ run.then = "forget" => RemovesStaged(p)
         /\ run.then = "recheck" => RemovesBefore(p)
BY DEF Base, RemovalOK, RemovalOf, RemovesPartial, RemovesMade, RemovesStaged, RemovesBefore

\* Every step of the attempt is about a file or a patch that is not done.
LEMMA ChosenStep ==
  ASSUME Base, Next
  PROVE  ChosenOK'
<1>0. ChosenOK
  BY DEF Base
<1>1. CASE Rests \/ \E q \in Paths : Touch(q)
  <2>1. UNCHANGED <<run, disk, mem>>
    BY <1>1 DEF Rests, Touch
  <2> QED BY <1>0, <2>1 DEF ChosenOK, At, GroupReady
<1>2. CASE Ended
  BY <1>2, GoIs DEF Ended, ChosenOK, At, PatchSteps, Removals
<1>3. CASE disk' = TornManifest /\ Go("manifest", 0)
  BY <1>3, GoIs DEF ChosenOK, At, PatchSteps, Removals
<1>4. ASSUME NEW f \in Files, FileTurn(f) PROVE ChosenOK'
  <2>1. f \notin mem.moved /\ UNCHANGED mem
    BY <1>0, <1>4 DEF FileTurn, ChosenOK, At
  <2>2. run'.at \in {"rename", "renamed", "undo"} /\ run'.cur = f
    BY <1>4, GoIs DEF FileTurn
  <2> QED BY <2>1, <2>2 DEF ChosenOK, At, PatchSteps, Removals
<1>5. ASSUME NEW p \in Patches, Enters(p) PROVE ChosenOK'
  <2>1. p \notin mem.applied /\ GroupReady(p) /\ UNCHANGED mem
    BY <1>5 DEF Enters, Patching
  <2>2. mem.journal[p] # 0 => p \notin Creates
    <3>1. Written /\ disk = mem /\ disk \in Manifest
      BY <1>5, Working DEF Base, Enters, Patching, At
    <3>2. mem.journal[p] \in 0..MaxStages /\ mem.journal[p] <= made[p]
      BY <3>1 DEF Base, JournalOK, Manifest
    <3>3. p \in Creates => made[p] = 0
      BY DEF Base, JournalOK
    <3> QED BY <3>2, <3>3, Limits
  <2>3. run'.at \in {"recover", "stage", "unstage", "create"} /\ run'.cur = p
    BY <1>5, GoIs DEF Enters
  <2>4. /\ run'.at = "create" => p \in Creates
        /\ run'.at # "create" => p \notin Creates
    BY <1>5, <2>2, GoIs DEF Enters, Replaced, MayReplace, MayCreate
  <2>5. GroupReady(p)'
    BY <2>1 DEF GroupReady
  <2> QED BY <2>1, <2>3, <2>4, <2>5 DEF ChosenOK, At, PatchSteps, Removals
<1>6. ASSUME NEW p \in Patches, PatchTurn(p) PROVE ChosenOK'
  <2>1. /\ p \notin mem'.applied /\ GroupReady(p)' /\ run'.cur = p
        /\ run.cur = p /\ run.at \in PatchSteps
    BY <1>6, TurnKeeps DEF GroupReady
  <2>2. /\ run.at \in {"create", "fill"} => p \in Creates
        /\ run.at \in PatchSteps \ ({"create", "fill", "reverify"} \cup Removals) => p \notin Creates
    BY <2>1, PatchAt
  <2>3. /\ run'.at \notin {"idle", "manifest", "rename", "renamed", "undo"}
        /\ run'.at \in {"create", "fill"} => p \in Creates
        /\ run'.at \in PatchSteps \ ({"create", "fill", "reverify"} \cup Removals) => p \notin Creates
    <3>1. CASE Looks(p)
      BY <2>1, <2>2, <3>1, GoIs, RemovalFor DEF Looks, At, PatchSteps, Removals, RemovesStaged,
         RemovesBefore
    <3>2. CASE Noted(p)
      BY <2>2, <3>2, GoIs DEF Noted, At, PatchSteps, Removals
    <3>3. CASE Changes(p)
      BY <2>2, <3>3, GoIs DEF Changes, At, PatchSteps, Removals
    <3>4. CASE Removing(p)
      <4>1. run'.at = "quarantine"
        BY <3>4 DEF Removing, Remove
      <4> QED BY <4>1 DEF Removals
    <3>5. CASE SetsAside(p)
      <4>1. run'.at = "quarantined"
        BY <3>5 DEF SetsAside, Base, RunT
      <4> QED BY <4>1 DEF Removals
    <3> QED BY <1>6, <3>1, <3>2, <3>3, <3>4, <3>5 DEF PatchTurn
  <2> QED BY <2>1, <2>3 DEF ChosenOK, At
<1> QED BY <1>1, <1>2, <1>3, <1>4, <1>5, <1>6, Turns

\* Nothing but the user changes a path.
Stays ==
  /\ UNCHANGED made /\ touched \subseteq touched'
  /\ \A q \in Paths : Alien(q)' \/ (dir'[q] = dir[q] /\ ~Alien(q))

\* The user's steps, and those that leave the library, are such.
LEMMA StaysIs ==
  ASSUME Base, Next, UNCHANGED <<dir, made>> \/ \E q \in Paths : Touch(q)
  PROVE  Stays
<1>0. touched \subseteq touched' /\ dir \in [Paths -> Objects] /\ RestT
  BY BaseIs DEF LibT
<1>1. CASE UNCHANGED <<dir, made>>
  BY <1>0, <1>1 DEF Stays, Alien
<1>2. ASSUME NEW u \in Paths, Touches(u) PROVE Stays
  BY <1>0, <1>2 DEF Stays, Alien, Touches
<1> QED BY <1>0, <1>1, <1>2, TouchIs

\* What is known of the paths then stays known.
LEMMA ThereKept ==
  ASSUME Base, Stays
  PROVE  /\ \A p \in Patches : OldThere(p) => OldThere(p)'
         /\ \A p \in Patches : made[p] \in Stages /\ NewThere(p) => NewThere(p)'
         /\ \A f \in Files : FileThere(f) => FileThere(f)'
         /\ \A p \in Patches : mem'.journal[p] = mem.journal[p] /\ ReplacedThere(p) => ReplacedThere(p)'
<1>1. \A p \in Patches : NfoPath(p) \in Paths
  BY PathsThere
<1>2. \A p \in Patches, k \in Stages : StagePath(p, k) \in Paths
  BY PathsThere
<1>3. \A f \in Files : Target(f) \in Paths
  BY PathsThere
<1>4. \A p \in Patches : OldThere(p) => OldThere(p)'
  BY <1>1 DEF OldThere, Stays
<1>5. \A p \in Patches : made[p] \in Stages /\ NewThere(p) => NewThere(p)'
  BY <1>2 DEF NewThere, Stays
<1>6. \A f \in Files : FileThere(f) => FileThere(f)'
  BY <1>3 DEF FileThere, Stays
<1>7. \A p \in Patches : mem'.journal[p] = mem.journal[p] /\ ReplacedThere(p) => ReplacedThere(p)'
  BY <1>1 DEF ReplacedThere, Stays, Alien
<1> QED BY <1>4, <1>5, <1>6, <1>7

\* Every step keeps ReadyOK: what was examined is still there, or the user came.
LEMMA ReadyStep ==
  ASSUME Base, Next
  PROVE  ReadyOK'
<1>0. ReadyOK /\ Next
  BY DEF Base
<1>1. CASE Rests \/ \E q \in Paths : Touch(q)
  <2>1. UNCHANGED run /\ (UNCHANGED <<dir, made>> \/ \E q \in Paths : Touch(q))
    BY <1>1 DEF Rests, Touch
  <2>2. Stays
    BY <2>1, StaysIs
  <2>3. ASSUME NEW p \in Patches, run'.cur = p
        PROVE  /\ run'.at \in BeforeExchange => OldThere(p)'
               /\ run'.at \in {"journal", "validate", "exchange"} => made'[p] # 0 /\ NewThere(p)'
    <3>1. run.cur = p /\ made'[p] = made[p] /\ run'.at = run.at
      BY <2>1, <2>2, <2>3 DEF Stays
    <3>2. run.at \in {"journal", "validate", "exchange"} => made[p] \in Stages
      BY <3>1, Numbers
    <3> QED BY <1>0, <2>2, <3>1, <3>2, ThereKept DEF ReadyOK
  <2>4. ASSUME NEW f \in Files, run'.cur = f, run'.at = "undo" PROVE FileThere(f)'
    BY <1>0, <2>1, <2>2, <2>4, ThereKept DEF ReadyOK
  <2> QED BY <2>3, <2>4 DEF ReadyOK
<1>2. CASE Ended \/ Go("manifest", 0)
  BY <1>2, GoIs DEF Ended, ReadyOK, BeforeExchange
<1>3. ASSUME NEW f \in Files, FileTurn(f) PROVE ReadyOK'
  <2>1. run'.at \in {"rename", "renamed", "undo"} /\ run'.cur = f
    BY <1>3, GoIs DEF FileTurn
  <2>2. run'.at = "undo" => FileThere(f)'
    BY <1>3, GoIs DEF FileTurn, FileThere
  <2> QED BY <2>1, <2>2 DEF ReadyOK, BeforeExchange
<1>4. ASSUME NEW p \in Patches, Enters(p) PROVE ReadyOK'
  <2>1. run'.at \in {"recover", "stage", "unstage", "create"} /\ run'.cur = p
    BY <1>4, GoIs DEF Enters
  <2>2. run'.at \in {"stage", "unstage"} => OldThere(p)'
    BY <1>4, GoIs DEF Enters, MayReplace, OldThere
  <2> QED BY <2>1, <2>2 DEF ReadyOK, BeforeExchange
<1>5. ASSUME NEW p \in Patches, PatchTurn(p) PROVE ReadyOK'
  <2>0. run.cur = p /\ run'.cur = p /\ NfoPath(p) \in Paths /\ dir \in [Paths -> Objects]
    BY <1>5, TurnKeeps, PathsThere DEF Base, LibT
  <2>1. CASE Looks(p) \/ Noted(p)
    <3>1. Stays
      BY <1>0, <2>1, StaysIs DEF Looks, Noted
    <3>2. run'.at \in {"forget", "stage"} => OldThere(p)'
      <4>1. CASE At("unstage") \/ At("forget")
        BY <1>0, <2>0, <3>1, <4>1, ThereKept DEF ReadyOK, BeforeExchange, At
      <4>2. CASE At("quarantined") /\ run.then = "forget"
        BY <2>0, <3>1, <4>2, ThereKept, RemovalFor DEF At, Removals, RemovesStaged
      <4>3. run'.at \in {"forget", "stage"} =>
              At("unstage") \/ At("forget") \/ (At("quarantined") /\ run.then = "forget")
        BY <2>1, GoIs DEF Looks, Noted
      <4> QED BY <4>1, <4>2, <4>3
    <3>3. run'.at \in {"validate", "exchange"} => OldThere(p)' /\ NewThere(p)' /\ made'[p] # 0
      <4>1. run'.at \in {"validate", "exchange"} => run.at \in {"journal", "validate"}
        BY <2>1, GoIs DEF Looks, Noted, At
      <4>2. run.at \in {"journal", "validate"} =>
              made[p] # 0 /\ made[p] \in Stages /\ OldThere(p) /\ NewThere(p)
        BY <1>0, <2>0, Numbers DEF ReadyOK, BeforeExchange
      <4>3. made'[p] = made[p]
        BY <3>1 DEF Stays
      <4> QED BY <3>1, <4>1, <4>2, <4>3, ThereKept
    <3>4. run'.at \in {"forget", "stage", "validate", "exchange", "discard", "reverify", "recheck"}
      BY <2>1, GoIs DEF Looks, Noted
    <3> QED BY <2>0, <3>2, <3>3, <3>4 DEF ReadyOK, BeforeExchange
  <2>2. CASE Changes(p)
    <3>1. CASE At("stage") /\ Go("journal", p)
      <4>1. /\ made' = [made EXCEPT ![p] = made[p] + 1] /\ made[p] + 1 \in Stages
            /\ dir[NfoPath(p)] = Before(p)
            /\ dir' = [dir EXCEPT ![StagePath(p, made[p] + 1)] = Staged(p, made[p] + 1)]
        BY <2>2, <3>1, Limits DEF Changes, At, Base, LibT, Stages
      <4>2. made'[p] = made[p] + 1
        BY <4>1 DEF Base, LibT
      <4>3. StagePath(p, made[p] + 1) \in Paths /\ StagePath(p, made[p] + 1) # NfoPath(p)
        BY <4>1, PathsThere, PathsDiffer
      <4>4. OldThere(p)'
        BY <2>0, <4>1, <4>3 DEF OldThere
      <4>5. NewThere(p)'
        BY <2>0, <4>1, <4>2, <4>3 DEF NewThere
      <4>6. made'[p] # 0
        BY <4>1, <4>2 DEF Stages
      <4> QED BY <2>0, <3>1, <4>4, <4>5, <4>6, GoIs DEF ReadyOK
    <3>2. CASE Go("exchanged", p) \/ Go("fill", p) \/ Go("reverify", p)
      BY <3>2, GoIs DEF ReadyOK, BeforeExchange
    <3> QED BY <2>2, <3>1, <3>2 DEF Changes
  <2>3. CASE Removing(p)
    <3>1. run'.at = "quarantine"
      BY <2>3 DEF Removing, Remove
    <3> QED BY <3>1 DEF ReadyOK, BeforeExchange
  <2>4. CASE SetsAside(p)
    <3>1. run'.at = "quarantined"
      BY <2>4 DEF SetsAside, Base, RunT
    <3> QED BY <3>1 DEF ReadyOK, BeforeExchange
  <2> QED BY <1>5, <2>1, <2>2, <2>3, <2>4 DEF PatchTurn
<1> QED BY <1>1, <1>2, <1>3, <1>4, <1>5, Turns

\* Every step keeps ReplacedOK: the journal is written before the exchange, and
\* the displaced NFO goes only after it.
LEMMA ReplacedStep ==
  ASSUME Base, Next
  PROVE  ReplacedOK'
<1>0. ReplacedOK /\ Next /\ touched \subseteq touched'
  BY BaseIs DEF Base
<1>1. CASE Rests \/ \E q \in Paths : Touch(q)
  <2>1. UNCHANGED <<run, mem>> /\ (UNCHANGED <<dir, made>> \/ \E q \in Paths : Touch(q))
    BY <1>1 DEF Rests, Touch
  <2>2. Stays
    BY <2>1, StaysIs
  <2> SUFFICES ASSUME NEW p \in Patches, run'.cur = p
               PROVE  /\ run'.at \in {"validate", "exchange", "exchanged"} => mem'.journal[p] = made'[p]
                      /\ \/ run'.at \in {"unstage", "exchanged", "discard", "recheck", "recover"}
                         \/ run'.at = "reverify" /\ p \notin Creates
                         => mem'.journal[p] # 0
                      /\ run'.at \in {"discard", "recover"} => ReplacedThere(p)'
                      /\ run'.at = "reverify" /\ p \notin Creates =>
                           \/ dir'[StagePath(p, mem'.journal[p])] = None
                           \/ StagePath(p, mem'.journal[p]) \in touched'
    BY DEF ReplacedOK
  <2>3. run.cur = p /\ run'.at = run.at /\ mem' = mem /\ made' = made
    BY <2>1, <2>2 DEF Stays
  <2>4. run.at \in {"discard", "recover"} => ReplacedThere(p)'
    BY <1>0, <2>2, <2>3, ThereKept DEF ReplacedOK
  <2>5. ASSUME run.at = "reverify", p \notin Creates
        PROVE  \/ dir'[StagePath(p, mem.journal[p])] = None
               \/ StagePath(p, mem.journal[p]) \in touched'
    <3>1. mem.journal[p] \in Stages
      BY <1>0, <2>3, <2>5, Limits DEF ReplacedOK, Base, DiskT, Manifest, Stages
    <3>2. StagePath(p, mem.journal[p]) \in Paths
      BY <3>1, PathsThere
    <3> QED BY <1>0, <2>2, <2>3, <2>5, <3>2 DEF ReplacedOK, Stays, Alien
  <2> QED BY <1>0, <2>3, <2>4, <2>5 DEF ReplacedOK
<1>2. CASE Ended \/ Go("manifest", 0)
  BY <1>2, GoIs DEF Ended, ReplacedOK
<1>3. CASE \E f \in Files : FileTurn(f)
  BY <1>3, GoIs DEF FileTurn, ReplacedOK
<1>4. ASSUME NEW p \in Patches, Enters(p) PROVE ReplacedOK'
  <2>1. /\ run'.at \in {"recover", "stage", "unstage", "create"} /\ run'.cur = p
        /\ UNCHANGED <<mem, dir>>
    BY <1>4, GoIs DEF Enters
  <2>2. /\ run'.at \in {"recover", "unstage"} => mem.journal[p] # 0
        /\ run'.at = "recover" => dir[NfoPath(p)] = Staged(p, mem.journal[p])
    BY <1>4, GoIs DEF Enters, Replaced
  <2> QED BY <2>1, <2>2 DEF ReplacedOK, ReplacedThere
<1>5. ASSUME NEW p \in Patches, PatchTurn(p) PROVE ReplacedOK'
  <2>0. run.cur = p /\ run'.cur = p /\ mem \in Manifest
    BY <1>5, TurnKeeps DEF Base, DiskT
  <2>1. CASE Looks(p)
    <3>1. UNCHANGED <<mem, dir, made>>
      BY <2>1 DEF Looks
    <3>2. run'.at = "exchange" => mem.journal[p] = made[p]
      BY <1>0, <2>0, <2>1, GoIs DEF Looks, ReplacedOK, At
    <3>3. run'.at = "discard" => mem.journal[p] # 0 /\ dir[NfoPath(p)] = Staged(p, mem.journal[p])
      BY <1>0, <2>0, <2>1, GoIs DEF Looks, ReplacedOK, At
    <3>4. run'.at = "recheck" => mem.journal[p] # 0
      BY <2>0, <2>1, GoIs, RemovalFor DEF Looks, RemovesBefore, At, Removals
    <3>5. run'.at = "reverify" => mem.journal[p] # 0 /\ dir[StagePath(p, mem.journal[p])] = None
      BY <1>0, <2>0, <2>1, GoIs DEF Looks, ReplacedOK, At
    <3>6. run'.at \in {"forget", "exchange", "discard", "recheck", "reverify"}
      BY <2>1, GoIs DEF Looks
    <3> QED BY <2>0, <3>1, <3>2, <3>3, <3>4, <3>5, <3>6 DEF ReplacedOK, ReplacedThere
  <2>2. CASE Noted(p)
    <3>1. CASE Go("stage", p)
      BY <2>0, <3>1, GoIs DEF ReplacedOK
    <3>2. CASE Save(Checkpointed(p)) /\ Go("validate", p) /\ UNCHANGED made
      <4>1. mem'.journal[p] = made[p]
        BY <2>0, <3>2 DEF Save, Checkpointed, Manifest
      <4> QED BY <2>0, <3>2, <4>1, GoIs DEF ReplacedOK
    <3> QED BY <2>2, <3>1, <3>2 DEF Noted
  <2>3. CASE Changes(p)
    <3>1. CASE At("exchange") /\ Go("exchanged", p) /\ UNCHANGED <<made, mem>>
      <4>1. mem.journal[p] = made[p] /\ made[p] # 0
        BY <1>0, <2>0, <3>1 DEF ReplacedOK, Base, ReadyOK, At
      <4> QED BY <2>0, <3>1, <4>1, GoIs DEF ReplacedOK
    <3>2. CASE At("fill") /\ Go("reverify", p)
      <4>1. p \in Creates
        BY <2>0, <3>2, PatchAt DEF At, PatchSteps
      <4> QED BY <2>0, <3>2, <4>1, GoIs DEF ReplacedOK
    <3>3. CASE Go("journal", p) \/ Go("fill", p)
      BY <3>3, GoIs DEF ReplacedOK
    <3> QED BY <2>3, <3>1, <3>2, <3>3 DEF Changes
  <2>4. CASE Removing(p)
    <3>1. run'.at = "quarantine"
      BY <2>4 DEF Removing, Remove
    <3> QED BY <3>1 DEF ReplacedOK
  <2>5. CASE SetsAside(p)
    <3>1. run'.at = "quarantined"
      BY <2>5 DEF SetsAside, Base, RunT
    <3> QED BY <3>1 DEF ReplacedOK
  <2> QED BY <1>5, <2>1, <2>2, <2>3, <2>4, <2>5 DEF PatchTurn
<1> QED BY <1>1, <1>2, <1>3, <1>4, <1>5, Turns

\* Every step keeps RemovalOK: a removal is of an object that may go, and what
\* it set aside is that object or another program's.
LEMMA RemovalStep ==
  ASSUME Base, Next
  PROVE  RemovalOK'
<1>0. RemovalOK /\ Next /\ touched \subseteq touched' /\ RunT
  BY BaseIs DEF Base
<1>1. CASE Rests \/ \E q \in Paths : Touch(q)
  <2>1. /\ UNCHANGED <<run, mem>>
        /\ UNCHANGED <<dir, made>> \/ \E q \in Paths : Touch(q)
        /\ At("idle") \/ UNCHANGED quarantine
    BY <1>1 DEF Rests, Touch
  <2>2. Stays
    BY <2>1, StaysIs
  <2> SUFFICES ASSUME NEW p \in Patches, run'.cur = p, run'.at \in Removals
               PROVE  /\ RemovalOf(p)'
                      /\ run'.at = "quarantine" => dir'[run'.path] = run'.expected \/ Alien(run.path)'
                      /\ run'.at = "quarantined" =>
                           /\ Quarantined' \in quarantine'
                           /\ \/ run'.moved = run'.expected
                              \/ run'.moved \in Foreigns /\ run'.path \in touched'
                           /\ dir'[run'.path] = None \/ Alien(run.path)'
    BY DEF RemovalOK, Removals
  <2>3. run.cur = p /\ run.at \in Removals /\ run.path \in Paths /\ UNCHANGED quarantine
    BY <2>1, RemovalIs DEF At, Removals
  <2>4. RemovalOf(p)
    BY <1>0, <2>3 DEF RemovalOK
  <2>5. OldThere(p) => OldThere(p)'
    BY <2>2, ThereKept
  <2>6. ReplacedThere(p) => ReplacedThere(p)'
    BY <2>1, <2>2, ThereKept
  <2>7. RemovalOf(p)'
    BY <2>1, <2>2, <2>4, <2>5, <2>6 DEF RemovalOf, RemovesPartial, RemovesMade, RemovesStaged,
       RemovesBefore, Stays
  <2>8. PICK q \in Paths : q = run.path
    BY <2>3
  <2>9. Quarantined' = Quarantined
    BY <2>1 DEF Quarantined
  <2>10. Alien(run.path)' \/ (dir'[run'.path] = dir[run.path] /\ ~Alien(run.path))
    <3>1. \/ q \in touched' /\ dir'[q] \in {None} \cup Foreigns
          \/ dir'[q] = dir[q] /\ ~(q \in touched /\ dir[q] \in {None} \cup Foreigns)
      BY <2>2 DEF Stays, Alien
    <3>2. run' = run
      BY <2>1
    <3> QED BY <2>8, <3>1, <3>2 DEF Alien
  <2>11. CASE run.at = "quarantine"
    BY <1>0, <2>1, <2>3, <2>7, <2>10, <2>11 DEF RemovalOK
  <2>12. CASE run.at = "quarantined"
    BY <1>0, <2>1, <2>3, <2>7, <2>9, <2>10, <2>12 DEF RemovalOK
  <2> QED BY <2>3, <2>11, <2>12 DEF Removals
<1>2. CASE Ended \/ Go("manifest", 0)
  BY <1>2, GoIs DEF Ended, RemovalOK, Removals
<1>3. CASE \E f \in Files : FileTurn(f)
  BY <1>3, GoIs DEF FileTurn, RemovalOK, Removals
<1>4. CASE \E p \in Patches : Enters(p)
  BY <1>4, GoIs DEF Enters, RemovalOK, Removals
<1>5. ASSUME NEW p \in Patches, PatchTurn(p) PROVE RemovalOK'
  <2>0. run.cur = p /\ run'.cur = p /\ run.at \in PatchSteps /\ dir \in [Paths -> Objects]
    BY <1>5, TurnKeeps DEF Base, LibT
  <2>1. CASE Looks(p) \/ Noted(p) \/ Changes(p)
    <3>1. run'.at \notin Removals
      BY <2>1, GoIs DEF Looks, Noted, Changes, Removals
    <3> QED BY <3>1 DEF RemovalOK, Removals
  <2>2. ASSUME Removing(p) PROVE RemovalOK'
    <3>0. UNCHANGED <<mem, made, dir>> /\ run'.at = "quarantine"
      BY <2>2 DEF Removing, Remove
    <3>1. OldThere(p) => OldThere(p)'
      BY <1>0, <3>0 DEF OldThere, Alien
    <3>2. ReplacedThere(p) => ReplacedThere(p)'
      BY <1>0, <3>0 DEF ReplacedThere
    <3>3. CASE At("unstage")
      <4>1. /\ dir[StagePath(p, mem.journal[p])] = Staged(p, mem.journal[p])
            /\ Remove(StagePath(p, mem.journal[p]), Staged(p, mem.journal[p]), "forget")
        BY <2>2, <3>3 DEF Removing, At
      <4>2. p \notin Creates /\ mem.journal[p] # 0 /\ OldThere(p)
        BY <2>0, <3>3, PatchAt DEF At, Base, ReadyOK, ReplacedOK, BeforeExchange, PatchSteps, Removals
      <4>3. RemovesStaged(p)' /\ dir'[run'.path] = run'.expected
        BY <3>0, <3>1, <4>1, <4>2 DEF Remove, RemovesStaged
      <4> QED BY <2>0, <3>0, <4>3 DEF RemovalOK, RemovalOf
    <3>4. CASE run.at \in {"journal", "validate", "exchange"}
      <4>1. PICK g \in {"fail", "fail_journaled"} :
              StagedHere(p) /\ Remove(StagePath(p, made[p]), Staged(p, made[p]), g)
        BY <2>2, <3>4 DEF Removing, At
      <4>2. p \notin Creates /\ made[p] # 0 /\ OldThere(p)
        BY <2>0, <3>4, PatchAt DEF At, Base, ReadyOK, BeforeExchange, PatchSteps, Removals
      <4>3. RemovesMade(p)' /\ dir'[run'.path] = run'.expected
        BY <3>0, <3>1, <4>1, <4>2 DEF Remove, RemovesMade, StagedHere
      <4> QED BY <2>0, <3>0, <4>3 DEF RemovalOK, RemovalOf
    <3>5. CASE At("discard") \/ At("recover")
      <4>1. PICK g \in {"recheck", "apply"} :
              Displaced(p) /\ Remove(StagePath(p, mem.journal[p]), Before(p), g)
        BY <2>2, <3>5 DEF Removing, At
      <4>2. p \notin Creates /\ mem.journal[p] # 0 /\ ReplacedThere(p)
        BY <2>0, <3>5, PatchAt DEF At, Base, ReplacedOK, PatchSteps, Removals
      <4>3. RemovesBefore(p)' /\ dir'[run'.path] = run'.expected
        BY <3>0, <3>2, <4>1, <4>2 DEF Remove, RemovesBefore, Displaced
      <4> QED BY <2>0, <3>0, <4>3 DEF RemovalOK, RemovalOf
    <3>6. CASE At("fill")
      <4>1. dir[NfoPath(p)] = Partial(p) /\ Remove(NfoPath(p), Partial(p), "fail")
        BY <2>2, <3>6 DEF Removing, At
      <4>2. p \in Creates
        BY <2>0, <3>6, PatchAt DEF At
      <4>3. RemovesPartial(p)' /\ dir'[run'.path] = run'.expected
        BY <3>0, <4>1, <4>2 DEF Remove, RemovesPartial
      <4> QED BY <2>0, <3>0, <4>3 DEF RemovalOK, RemovalOf
    <3> QED BY <2>2, <3>3, <3>4, <3>5, <3>6 DEF Removing
  <2>3. ASSUME SetsAside(p) PROVE RemovalOK'
    <3>0. /\ UNCHANGED <<mem, made>> /\ dir' = [dir EXCEPT ![run.path] = None]
          /\ quarantine' = quarantine \cup {<<run.expected, dir[run.path]>>}
          /\ run.at = "quarantine" /\ dir[run.path] # None
      BY <2>3 DEF SetsAside, At
    <3>1. /\ run'.at = "quarantined" /\ run'.path = run.path /\ run'.expected = run.expected
          /\ run'.moved = dir[run.path] /\ run'.then = run.then
      BY <1>0, <2>3 DEF SetsAside, RunT
    <3>2. /\ RemovalOf(p) /\ run.path \in Paths
          /\ dir[run.path] = run.expected \/ Alien(run.path)
      BY <2>0, <3>0, RemovalIs DEF Removals, Base, RemovalOK
    <3>3. dir'[run'.path] = None /\ Quarantined' \in quarantine'
      BY <2>0, <3>0, <3>1, <3>2 DEF Quarantined
    <3>4. run'.moved = run'.expected \/ (run'.moved \in Foreigns /\ run'.path \in touched')
      BY <1>0, <3>0, <3>1, <3>2 DEF Alien
    <3>5. RemovalOf(p)'
      <4>1. CASE RemovesPartial(p)
        BY <3>1, <4>1 DEF RemovalOf, RemovesPartial
      <4>2. CASE ~RemovesPartial(p)
        <5>1. run.path # NfoPath(p) /\ NfoPath(p) \in Paths
          BY <2>0, <3>0, <4>2, RemovalIs, PathsDiffer, PathsThere DEF Removals
        <5>2. dir'[NfoPath(p)] = dir[NfoPath(p)]
          BY <2>0, <3>0, <5>1
        <5>3. /\ OldThere(p) => OldThere(p)'
              /\ ReplacedThere(p) => ReplacedThere(p)'
          BY <1>0, <3>0, <5>2 DEF OldThere, ReplacedThere, Alien
        <5> QED BY <3>0, <3>1, <3>2, <4>2, <5>3 DEF RemovalOf, RemovesMade, RemovesStaged,
                RemovesBefore
      <4> QED BY <4>1, <4>2
    <3> QED BY <2>0, <3>1, <3>3, <3>4, <3>5 DEF RemovalOK
  <2> QED BY <1>5, <2>1, <2>2, <2>3 DEF PatchTurn
<1> QED BY <1>1, <1>2, <1>3, <1>4, <1>5, Turns

-----------------------------------------------------------------------------
(* What is removed.                                                         *)

\* An object that may go may still go after any step.
LEMMA RemovableKept ==
  ASSUME Base, Next, Placed, NEW o, Removable(o)
  PROVE  Removable(o)'
<1>1. CASE \E p \in Patches : o = Partial(p)
  BY <1>1 DEF Removable
<1>2. ASSUME NEW p \in Patches \ Creates, NEW k \in Stages, k <= made[p], o = Staged(p, k),
             \A q \in Paths : dir[q] # o
      PROVE  Removable(o)'
  <2>1. k \in 0..MaxStages /\ k # 0
    BY Limits DEF Stages
  <2>2. k <= made'[p]
    BY <1>2, <2>1, MadeGrows
  <2>3. ASSUME NEW q \in Paths, dir'[q] = o PROVE FALSE
    <3>1. dir'[q] = Staged(p, k) /\ dir[q] # Staged(p, k)
      BY <1>2, <2>3
    <3>2. CASE Makes(p) /\ k = made[p] + 1
      BY <1>2, <2>1, <3>2, MadeGrows
    <3>3. CASE dir[StagePath(p, k)] = Staged(p, k)
      BY <1>2, <3>3, PathsThere
    <3> QED BY <2>1, <3>1, <3>2, <3>3, StagedComes
  <2> QED BY <1>2, <2>2, <2>3 DEF Removable
<1>3. ASSUME NEW p \in Patches \ Creates, o = Before(p), Superseded(p) PROVE Removable(o)'
  <2>0. touched \subseteq touched'
    BY BaseIs
  <2>1. CASE NfoPath(p) \in touched
    BY <1>3, <2>0, <2>1 DEF Removable, Superseded
  <2>2. CASE Written /\ dir[NfoPath(p)] = Staged(p, disk.journal[p])
    <3>1. disk.journal[p] \in 0..MaxStages
      BY <2>2, WrittenIs DEF Base, Manifest
    <3>2. Written' /\ disk'.journal[p] = disk.journal[p]
      BY <2>2, WrittenStays, JournalKept
    <3>3. dir'[NfoPath(p)] = dir[NfoPath(p)] \/ NfoPath(p) \in touched'
      BY <2>2, <3>1, NfoKept
    <3>4. Superseded(p)'
      BY <2>2, <3>2, <3>3 DEF Superseded
    <3> QED BY <1>3, <3>4 DEF Removable
  <2> QED BY <1>3, <2>1, <2>2 DEF Superseded
<1> QED BY <1>1, <1>2, <1>3 DEF Removable

\* What a removal takes may go, or is another program's.
LEMMA TakenIs ==
  ASSUME Base, Next, Placed, NEW p \in Patches, Takes(p), NEW o, o = dir[run.path]
  PROVE  o \in Foreigns \/ (o = run.expected /\ Removable(o)')
<1>0. /\ run.cur = p /\ run.at \in Removals /\ run.path \in Paths /\ RemovalOf(p)
      /\ dir \in [Paths -> Objects] /\ dir' = [dir EXCEPT ![run.path] = None]
      /\ UNCHANGED <<made, disk, mem>> /\ touched \subseteq touched'
      /\ Written /\ disk = mem
  BY RemovesIs, BaseIs, RemovalIs DEF Takes, At, Removals, LibT
<1>1. o \in Foreigns \/ o = run.expected
  BY DEF Takes, Alien
<1>2. ASSUME o = run.expected PROVE Removable(o)'
  <2>1. CASE RemovesPartial(p)
    BY <1>2, <2>1 DEF RemovesPartial, Removable
  <2>2. ASSUME NEW k \in Stages, k <= made[p], p \notin Creates, OldThere(p),
               run.path = StagePath(p, k), run.expected = Staged(p, k)
        PROVE  Removable(o)'
    <3>1. ASSUME NEW q \in Paths, dir'[q] = Staged(p, k) PROVE FALSE
      <4>1. q # run.path /\ dir[q] = Staged(p, k)
        BY <1>0, <3>1, ObjectsDiffer
      <4>2. q = NfoPath(p)
        BY <2>2, <4>1, Limits DEF Placed, Stages
      <4> QED BY <2>2, <4>1, <4>2, AlienIs, ObjectsDiffer DEF OldThere
    <3> QED BY <1>0, <1>2, <2>2, <3>1 DEF Removable
  <2>3. ASSUME RemovesBefore(p) PROVE Removable(o)'
    <3>1. run.path # NfoPath(p) /\ p \notin Creates /\ NfoPath(p) \in Paths
      BY <2>3, PathsDiffer, PathsThere DEF RemovesBefore
    <3>2. dir'[NfoPath(p)] = dir[NfoPath(p)]
      BY <1>0, <3>1
    <3>3. Superseded(p)'
      BY <1>0, <2>3, <3>2 DEF RemovesBefore, ReplacedThere, Superseded, Written
    <3> QED BY <1>2, <2>3, <3>1, <3>3 DEF RemovesBefore, Removable
  <2>4. /\ mem.journal[p] \in 0..MaxStages /\ made[p] \in 0..MaxStages
        /\ mem.journal[p] <= made[p]
    BY <1>0 DEF Base, LibT, DiskT, JournalOK, Manifest
  <2>5. \A k \in 0..MaxStages : k # 0 => k \in Stages
    BY Limits DEF Stages
  <2>6. CASE RemovesMade(p)
    BY <2>2, <2>4, <2>5, <2>6, Limits DEF RemovesMade
  <2>7. CASE RemovesStaged(p)
    BY <2>2, <2>4, <2>5, <2>7 DEF RemovesStaged
  <2> QED BY <1>0, <2>1, <2>3, <2>6, <2>7 DEF RemovalOf
<1> QED BY <1>1, <1>2

\* Every step keeps HiddenOK.
LEMMA HiddenStep ==
  ASSUME Base, Next, Placed, HiddenOK
  PROVE  HiddenOK'
<1>1. ASSUME NEW h \in quarantine
      PROVE  h[1] \notin Foreigns /\ (h[2] \in Foreigns \/ (h[1] = h[2] /\ Removable(h[2])'))
  BY RemovableKept DEF HiddenOK
<1>2. ASSUME NEW p \in Patches, Takes(p), NEW h, h = <<run.expected, dir[run.path]>>
      PROVE  h[1] \notin Foreigns /\ (h[2] \in Foreigns \/ (h[1] = h[2] /\ Removable(h[2])'))
  <2>1. PICK o : o = dir[run.path]
    OBVIOUS
  <2>2. h[1] = run.expected /\ h[2] = o
    BY <1>2, <2>1
  <2> QED BY <1>2, <2>1, <2>2, TakenIs, RemovesIs
<1>3. quarantine' \subseteq quarantine
      \/ \E p \in Patches : /\ Takes(p)
                            /\ quarantine' = quarantine \cup {<<run.expected, dir[run.path]>>}
  BY HiddenMoves DEF Unlinks, Removes, Takes, Restores
<1>4. \A h \in quarantine' :
        h[1] \notin Foreigns /\ (h[2] \in Foreigns \/ (h[1] = h[2] /\ Removable(h[2])'))
  <2>1. CASE quarantine' \subseteq quarantine
    BY <1>1, <2>1
  <2>2. ASSUME NEW p \in Patches, Takes(p),
               quarantine' = quarantine \cup {<<run.expected, dir[run.path]>>}
        PROVE  \A h \in quarantine' :
                 h[1] \notin Foreigns /\ (h[2] \in Foreigns \/ (h[1] = h[2] /\ Removable(h[2])'))
    BY <1>1, <1>2, <2>2
  <2> QED BY <1>3, <2>1, <2>2
<1> QED BY <1>4 DEF HiddenOK

\* What may leave the library and its quarantines for good.
Going(o) ==
  \/ o[1] = "partial"
  \/ o[1] = "staged" /\ \A p \in Patches : dir[NfoPath(p)] # o
  \/ \E p \in Patches :
       /\ o = Before(p)
       /\ \/ Written /\ dir[NfoPath(p)] = Staged(p, disk.journal[p])
          \/ NfoPath(p) \in touched

\* An object that leaves its name for good was a created NFO without its bytes.
LEMMA Displacing ==
  ASSUME Base, Next, Unmade, touches' = touches,
         NEW q \in Paths, NEW o, o = dir[q], o # None, o \notin Held'
  PROVE  Going(o)
<1>0. dir \in [Paths -> Objects]
  BY DEF Base, LibT
<1>1. \A i \in Paths : dir'[i] # o
  BY DEF Held
<1>2. CASE UNCHANGED <<dir, made>>
  BY <1>1, <1>2
<1>3. CASE Disturbs
  BY <1>3 DEF Disturbs, Touches
<1>4. ASSUME NEW f \in Files, Renames(f) \/ Unrenames(f) PROVE FALSE
  <2>1. Source(f) \in Paths /\ Target(f) \in Paths /\ Source(f) # Target(f)
    BY PathsThere, PathsDiffer
  <2>2. CASE Renames(f)
    <3>1. dir'[Target(f)] = dir[Source(f)]
      BY <1>0, <2>1, <2>2 DEF Renames
    <3>2. q # Source(f) /\ q # Target(f)
      BY <1>1, <2>1, <2>2, <3>1 DEF Renames
    <3> QED BY <1>0, <1>1, <2>2, <3>2 DEF Renames
  <2>3. CASE Unrenames(f)
    <3>1. dir'[Source(f)] = dir[Target(f)]
      BY <1>0, <2>1, <2>3 DEF Unrenames
    <3>2. q # Source(f) /\ q # Target(f)
      BY <1>1, <2>1, <2>3, <3>1 DEF Unrenames
    <3> QED BY <1>0, <1>1, <2>3, <3>2 DEF Unrenames
  <2> QED BY <1>4, <2>2, <2>3
<1>5. ASSUME NEW i \in Patches, Makes(i) PROVE FALSE
  <2>1. made[i] + 1 > made[i]
    BY MadeGrows
  <2>2. dir[StagePath(i, made[i] + 1)] = None
    BY <1>5, <2>1 DEF Makes, Unmade
  <2> QED BY <1>0, <1>1, <1>5, <2>2 DEF Makes
<1>6. ASSUME NEW i \in Patches, Exchanges(i) PROVE FALSE
  <2> DEFINE t == StagePath(i, made[i])
  <2>1. t \in Paths /\ NfoPath(i) \in Paths /\ t # NfoPath(i)
    BY <1>6, PathsThere, PathsDiffer DEF Exchanges
  <2>2. dir'[t] = dir[NfoPath(i)] /\ dir'[NfoPath(i)] = dir[t]
    BY <1>0, <1>6, <2>1 DEF Exchanges
  <2>3. q # t /\ q # NfoPath(i)
    BY <1>1, <2>1, <2>2
  <2> QED BY <1>0, <1>1, <1>6, <2>3 DEF Exchanges
<1>7. ASSUME NEW i \in Patches, Creating(i) PROVE Going(o)
  <2>1. q = NfoPath(i)
    BY <1>0, <1>1, <1>7 DEF Creating
  <2>2. o = Partial(i)
    BY <1>7, <2>1 DEF Creating
  <2> QED BY <2>2 DEF Partial, Going
<1>8. ASSUME NEW i \in Patches, Takes(i) PROVE FALSE
  <2>1. q = run.path
    BY <1>0, <1>1, <1>8 DEF Takes
  <2>2. PICK h \in quarantine' : h = <<run.expected, dir[run.path]>>
    BY <1>8 DEF Takes
  <2>3. h[2] = o
    BY <2>1, <2>2
  <2> QED BY <2>3 DEF Held
<1>9. ASSUME NEW i \in Patches, Restores(i) PROVE FALSE
  BY <1>0, <1>1, <1>9 DEF Restores
<1> QED BY <1>2, <1>3, <1>4, <1>5, <1>6, <1>7, <1>8, <1>9, DirMoves DEF Moves, Patched, Removes

\* An object that leaves its quarantine for good may go.
LEMMA Unlinking ==
  ASSUME Base, Next, HiddenOK, NEW h \in quarantine, h[2] \notin Held', h[2] # None
  PROVE  Going(h[2])
<1>0. h \notin quarantine' /\ \A i \in Paths : dir'[i] # h[2]
  BY DEF Held
<1>1. CASE UNCHANGED quarantine
  BY <1>0, <1>1
<1>2. CASE Unlinks
  <2>1. h[1] = h[2]
    BY <1>0, <1>2 DEF Unlinks
  <2>2. Removable(h[2])
    BY <2>1 DEF HiddenOK
  <2>3. ASSUME NEW p \in Patches, h[2] = Partial(p) PROVE h[2][1] = "partial"
    BY <2>3 DEF Partial
  <2>4. ASSUME NEW p \in Patches, NEW k \in Stages, h[2] = Staged(p, k),
               \A q \in Paths : dir[q] # h[2]
        PROVE  h[2][1] = "staged" /\ \A i \in Patches : dir[NfoPath(i)] # h[2]
    BY <2>4, PathsThere DEF Staged
  <2> QED BY <2>2, <2>3, <2>4 DEF Removable, Superseded, Going
<1>3. ASSUME NEW i \in Patches, Takes(i) PROVE FALSE
  BY <1>0, <1>3 DEF Takes
<1>4. ASSUME NEW i \in Patches, Restores(i) PROVE FALSE
  <2>1. h = Quarantined
    BY <1>0, <1>4 DEF Restores
  <2>2. h[2] = run.moved
    BY <2>1 DEF Quarantined
  <2>3. run.path \in Paths
    BY <1>4, RemovesIs
  <2>4. dir'[run.path] = run.moved
    BY <1>4, <2>3 DEF Restores, Base, LibT
  <2> QED BY <1>0, <2>2, <2>3, <2>4
<1> QED BY <1>1, <1>2, <1>3, <1>4, HiddenMoves DEF Removes

\* What a step of the batch, or the completion of a removal, destroys.
LEMMA Destroyed ==
  ASSUME Base, Next, Unmade, HiddenOK, touches' = touches, NEW o \in Held \ Held'
  PROVE  Going(o)
<1>1. o # None /\ ((\E q \in Paths : o = dir[q]) \/ (\E h \in quarantine : o = h[2]))
  BY DEF Held
<1>2. CASE \E q \in Paths : o = dir[q]
  BY <1>1, <1>2, Displacing
<1>3. CASE \E h \in quarantine : o = h[2]
  BY <1>1, <1>3, Unlinking
<1> QED BY <1>1, <1>2, <1>3

-----------------------------------------------------------------------------
(* The theorems.                                                            *)

\* The inductive invariant holds of the library the preview was made of.
LEMMA Starts ==
  ASSUME Init
  PROVE  IInv
<1>1. Fresh \in Manifest /\ disk = NoManifest /\ ~Written
  BY FreshTyped DEF Init, Written
<1>2. ASSUME NEW q \in Paths
      PROVE  /\ dir[q] \in Objects
             /\ \A p \in Patches, k \in 0..MaxStages : dir[q] # Staged(p, k)
             /\ q[1] = "stage" => dir[q] = None
  <2>1. CASE q[1] = "source"
    <3>1. PICK f \in Files : q = Source(f)
      BY <2>1, PlanAssumption DEF Paths, UserPaths, TempPaths, Target, NfoPath, MediaPath,
         StagePath
    <3>2. dir[q] = Approved(f)
      BY <2>1, <3>1 DEF Init, Original, Source
    <3> QED BY <2>1, <3>2, ObjectsThere, ObjectsDiffer
  <2>2. CASE q[1] = "media"
    <3>1. PICK p \in Patches : q = MediaPath(p)
      BY <2>2 DEF Paths, UserPaths, TempPaths, Source, Target, NfoPath, StagePath
    <3>2. q[2] = p
      BY <2>2, <3>1 DEF MediaPath, Target
    <3>3. dir[q] = Media(p)
      BY <2>2, <3>2 DEF Init, Original
    <3>4. Media(p) \in Objects /\ \A i \in Patches, k \in 0..MaxStages : Media(p) # Staged(i, k)
      BY DEF Objects, Media, Staged, Approved
    <3> QED BY <2>2, <3>3, <3>4
  <2>3. CASE q[1] = "nfo" /\ q[2] \notin Creates
    <3>1. PICK p \in Patches : q = NfoPath(p)
      BY <2>3 DEF Paths, UserPaths, TempPaths, Source, Target, MediaPath, StagePath
    <3>2. q[2] = p
      BY <2>3, <3>1 DEF NfoPath, Target
    <3>3. dir[q] = Before(p)
      BY <2>3, <3>2 DEF Init, Original
    <3> QED BY <2>3, <3>3, ObjectsThere, ObjectsDiffer
  <2>4. CASE /\ q[1] # "source" /\ q[1] # "media"
             /\ q[1] # "nfo" \/ q[2] \in Creates
    <3>1. dir[q] = None
      BY <2>4 DEF Init, Original
    <3> QED BY <2>4, <3>1, ObjectsThere, ObjectsDiffer
  <2> QED BY <2>1, <2>2, <2>3, <2>4
<1>3. LibT
  BY <1>2, Limits DEF Init, Original, LibT
<1>4. DiskT /\ RunT /\ SameT /\ RestT
  BY <1>1, Limits, ObjectsThere DEF Init, DiskT, RunT, SameT, RestT, Steps, Goals
<1>5. TypeOK
  BY <1>3, <1>4, TypeParts
<1>6. Placed
  BY <1>2 DEF Placed
<1>7. ASSUME NEW p \in Patches, NEW k \in Stages PROVE dir[StagePath(p, k)] = None
  <2>1. StagePath(p, k) \in Paths /\ StagePath(p, k)[1] = "stage"
    BY PathsThere DEF StagePath
  <2> QED BY <1>2, <2>1
<1>8. Unmade
  BY <1>7 DEF Unmade
<1>9. JournalOK
  BY <1>1, PlanAssumption DEF JournalOK, Init
<1>10. /\ ChosenOK /\ ReadyOK /\ ReplacedOK /\ RemovalOK /\ HiddenOK
  BY DEF Init, ChosenOK, ReadyOK, ReplacedOK, RemovalOK, HiddenOK, At, PatchSteps, Removals,
     BeforeExchange
<1>11. ASSUME NEW p \in Patches, NEW k \in 0..MaxStages PROVE dir[NfoPath(p)] # Staged(p, k)
  BY <1>2, PathsThere
<1>12. ReplacementIsJournaled /\ PatchedGroupIsMoved
  BY <1>11, Limits DEF ReplacementIsJournaled, PatchedGroupIsMoved, Stages
<1>13. RecordedIsDone
  BY <1>1 DEF RecordedIsDone
<1> QED BY <1>5, <1>6, <1>8, <1>9, <1>10, <1>12, <1>13 DEF IInv

\* Every step keeps the inductive invariant.
LEMMA StepKeeps ==
  ASSUME IInv, Next
  PROVE  IInv'
<1>1. /\ Base /\ Placed /\ Unmade /\ HiddenOK
      /\ ReplacementIsJournaled /\ PatchedGroupIsMoved /\ RecordedIsDone
  BY TypeParts DEF IInv, Base
<1>2. LibT' /\ DiskT' /\ RunT' /\ SameT' /\ RestT'
  BY <1>1, BaseIs, RunTyped, RestTyped DEF Base
<1>3. TypeOK'
  BY <1>2 DEF TypeOK, LibT, DiskT, RunT, SameT, RestT
<1>4. Placed' /\ Unmade' /\ JournalOK'
  BY <1>1, PlacedStep, UnmadeStep, JournalStep
<1>5. ChosenOK' /\ ReadyOK' /\ ReplacedOK' /\ RemovalOK' /\ HiddenOK'
  BY <1>1, ChosenStep, ReadyStep, ReplacedStep, RemovalStep, HiddenStep
<1>6. ReplacementIsJournaled' /\ PatchedGroupIsMoved' /\ RecordedIsDone'
  BY <1>1, JournaledStep, GroupStep, RecordedStep
<1> QED BY <1>3, <1>4, <1>5, <1>6 DEF IInv

\* So does a step that changes nothing.
LEMMA StutterKeeps ==
  ASSUME IInv, UNCHANGED vars
  PROVE  IInv'
<1> USE DEF vars
<1>1. TypeOK'
  BY DEF IInv, TypeOK
<1>2. (Placed /\ Unmade /\ JournalOK)'
  BY DEF IInv, Placed, Unmade, JournalOK, Written
<1>3. (ChosenOK /\ ReadyOK /\ ReplacedOK)'
  BY DEF IInv, ChosenOK, ReadyOK, ReplacedOK, At, GroupReady, OldThere, NewThere, FileThere,
     ReplacedThere, Alien
<1>4. RemovalOK'
  BY DEF IInv, RemovalOK, RemovalOf, RemovesPartial, RemovesMade, RemovesStaged, RemovesBefore,
     OldThere, ReplacedThere, Alien, Quarantined
<1>5. HiddenOK'
  BY DEF IInv, HiddenOK, Removable, Superseded, Written
<1>6. (ReplacementIsJournaled /\ PatchedGroupIsMoved)'
  BY DEF IInv, ReplacementIsJournaled, PatchedGroupIsMoved, Written
<1>7. RecordedIsDone'
  BY DEF IInv, RecordedIsDone, Undisturbed, Written
<1> QED BY <1>1, <1>2, <1>3, <1>4, <1>5, <1>6, <1>7 DEF IInv

\* The inductive invariant always holds.
LEMMA Inductive == Spec => []IInv
<1>1. Init => IInv
  BY Starts
<1>2. IInv /\ [Next]_vars => IInv'
  BY StepKeeps, StutterKeeps
<1> QED BY <1>1, <1>2, PTL DEF Spec

\* Every variable stays in its domain, and a running attempt works on what it
\* last wrote (execute_persisted, write_batch_manifest).
THEOREM TypeCorrect == Spec => []TypeOK
<1>1. IInv => TypeOK
  BY DEF IInv
<1> QED BY <1>1, Inductive, PTL

\* A replacement at an NFO's path is the one the durable manifest names: the
\* checkpoint of execute_nfo_patch_with_checkpoint precedes the exchange, and no
\* later attempt forgets it while the replacement is in place.
THEOREM ReplacementsAreJournaled == Spec => []ReplacementIsJournaled
<1>1. IInv => ReplacementIsJournaled
  BY DEF IInv
<1> QED BY <1>1, Inductive, PTL

\* An NFO is replaced or created only after its item's whole group of files is
\* recorded as moved (item_group_ready), over any number of attempts.
THEOREM GroupsAreMovedFirst == Spec => []PatchedGroupIsMoved
<1>1. IInv => PatchedGroupIsMoved
  BY DEF IInv
<1> QED BY <1>1, Inductive, PTL

\* What the manifest records as done is done, unless the user touched one of its
\* paths, whatever failed, stopped and was resumed since.
THEOREM RecordsAreTrue == Spec => []RecordedIsDone
<1>1. IInv => RecordedIsDone
  BY DEF IInv
<1> QED BY <1>1, Inductive, PTL

\* No step of the batch, nor the completion of an interrupted removal, destroys
\* an object of anybody else, or an approved NFO before its replacement is in
\* its place, whatever takes a name between the examination of a removal, its
\* move into the quarantine and the unlink (remove_bound_entry_if_identity).
THEOREM NothingElseIsDestroyed == Spec => OnlySupersededIsDestroyed
<1>1. ASSUME IInv, Next, touches' = touches
      PROVE  \A o \in Held \ Held' : Going(o)
  <2>1. Base /\ Unmade /\ HiddenOK
    BY <1>1, TypeParts DEF IInv, Base
  <2> QED BY <1>1, <2>1, Destroyed
<1>2. IInv /\ [Next]_vars =>
        [touches' = touches =>
           \A o \in Held \ Held' :
             \/ o[1] = "partial"
             \/ o[1] = "staged" /\ \A p \in Patches : dir[NfoPath(p)] # o
             \/ \E p \in Patches :
                  /\ o = Before(p)
                  /\ \/ Written /\ dir[NfoPath(p)] = Staged(p, disk.journal[p])
                     \/ NfoPath(p) \in touched]_vars
  BY <1>1 DEF Going
<1> QED BY <1>2, Inductive, PTL DEF Spec, OnlySupersededIsDestroyed
=============================================================================
