----------------------------- MODULE FileBatch -----------------------------
(***************************************************************************)
(* One confirmed preview of the file manager: the planned moves and NFO    *)
(* patches are executed step by step against a directory other programs    *)
(* also write to, under a manifest that a later attempt resumes.           *)
(*                                                                         *)
(*   manifest   `disk' is what write_batch_manifest last made durable,     *)
(*              `mem' the copy the running attempt works on.               *)
(*   moves      a file is examined, renamed without replacing, examined    *)
(*              again, and recorded.                                       *)
(*   patches    once every file of its item is recorded, an NFO is created *)
(*              at its path, or exchanged with a staged object whose       *)
(*              identity is journaled first; then the displaced one goes.  *)
(*   removals   the name is examined, moved into a private quarantine,      *)
(*              examined again there, and only then unlinked; another      *)
(*              object goes back to its name, or stays when that is taken. *)
(*   others     the user replaces or removes an object between any two of  *)
(*              these steps, the process stops, a file is inaccessible, a  *)
(*              write fails.                                               *)
(*                                                                         *)
(* A path and an object are triples <<kind, number, number>>.              *)
(***************************************************************************)
EXTENDS Naturals, FiniteSets

CONSTANTS
  Files,       \* 1..n: the files of the Move items, in manifest order
  Patches,     \* 1..m: the prepared NFO patches, in manifest order
  ItemOf,      \* the item of a file
  PatchItem,   \* the item of a patch
  PatchMedia,  \* the file that is a patch's media, 0 for media left in place
  PatchNfo,    \* the file that is a patch's NFO, 0 for another NFO
  Creates,     \* the patches whose media had no NFO
  Skipped,     \* the items left out by the conflict policy
  MaxRuns,     \* bound: confirmations
  MaxStages,   \* bound: staged objects per patch
  MaxTouches,  \* bound: objects the user replaces or removes
  MaxCrashes,  \* bound: process stops
  MaxFaults    \* bound: inaccessible files and failed writes

Items == {ItemOf[f] : f \in Files} \cup {PatchItem[p] : p \in Patches}
         \cup Skipped

ASSUME PlanAssumption ==
  /\ IsFiniteSet(Files) /\ Files = 1..Cardinality(Files)
  /\ IsFiniteSet(Patches) /\ Patches = 1..Cardinality(Patches)
  /\ PatchMedia \in [Patches -> Files \cup {0}]
  /\ PatchNfo \in [Patches -> Files \cup {0}]
  /\ Creates \subseteq {p \in Patches : PatchNfo[p] = 0}
  /\ \A f \in Files : ItemOf[f] \notin Skipped
  /\ \A p, q \in Patches : p # q => PatchItem[p] # PatchItem[q]
ASSUME LimitAssumption ==
  {MaxRuns, MaxStages, MaxTouches, MaxCrashes, MaxFaults} \subseteq Nat

None == <<>>
Approved(f)  == <<"file", f, 0>>       \* the object the preview approved
Staged(p, k) == <<"staged", p, k>>     \* a prepared replacement, not yet seen
Partial(p)   == <<"partial", p, 0>>    \* a created NFO before its bytes
Created(p)   == <<"staged", p, 0>>
Foreign(n)   == <<"foreign", n, 0>>    \* an object somebody else put there

Source(f)       == <<"source", f, 0>>
Target(f)       == <<"target", f, 0>>
StagePath(p, k) == <<"stage", p, k>>   \* private_temp_sibling: a new name
NfoPath(p) == IF PatchNfo[p] = 0 THEN <<"nfo", p, 0>> ELSE Target(PatchNfo[p])
Before(p)  == IF PatchNfo[p] = 0 THEN <<"before", p, 0>>
                                 ELSE Approved(PatchNfo[p])
MediaPath(p) == IF PatchMedia[p] = 0 THEN <<"media", p, 0>>
                                     ELSE Target(PatchMedia[p])
Media(p) == IF PatchMedia[p] = 0 THEN <<"video", p, 0>>
                                 ELSE Approved(PatchMedia[p])

Stages    == 1..MaxStages
UserPaths == {Source(f) : f \in Files} \cup {Target(f) : f \in Files}
             \cup {NfoPath(p) : p \in Patches}
             \cup {MediaPath(p) : p \in Patches}
TempPaths == {StagePath(p, k) : p \in Patches, k \in Stages}
Paths     == UserPaths \cup TempPaths

Manifest == [moved : SUBSET Files, applied : SUBSET Patches,
             journal : [Patches -> 0..MaxStages], wrong : SUBSET Files,
             failed : SUBSET Items, access : BOOLEAN, finished : BOOLEAN,
             status : {"Partial", "Failed", "Complete"}]
Fresh == [moved |-> {}, applied |-> {}, journal |-> [p \in Patches |-> 0],
          wrong |-> {}, failed |-> {}, access |-> FALSE, finished |-> FALSE,
          status |-> "Partial"]
NoManifest == [finished |-> "absent"]
TornManifest == [finished |-> "torn"]    \* created, its bytes never written

VARIABLES
  dir,      \* the library: the object at each path
  made,     \* staged objects made for each patch
  quarantine, \* pairs: the object a removal is of, the one it set aside
  disk,     \* the durable manifest
  mem,      \* the manifest of the running attempt
  run,      \* where the attempt is: the step and the file or patch; during
            \* a removal its path, the object it is of, the one moved, and
            \* how the patch goes on after it
  request,  \* the confirmation: "none" or "active" in the inbox
  preview,  \* the preview's record: "awaiting" confirmation or "closed"
  runs, touches, crashes, faults,
  touched   \* history: the paths the user touched

vars == <<dir, made, quarantine, disk, mem, run, request, preview, runs, touches, crashes,
          faults, touched>>
inbox  == <<request, preview, runs>>
limits == <<touches, crashes, faults, touched>>
library == <<dir, made, quarantine>>

\* The library the preview was made of.
Original ==
  [q \in Paths |->
     IF q[1] = "source" THEN Approved(q[2])
     ELSE IF q[1] = "media" THEN Media(q[2])
     ELSE IF q[1] = "nfo" /\ q[2] \notin Creates THEN Before(q[2])
     ELSE None]

Init ==
  /\ dir = Original
  /\ made = [p \in Patches |-> 0] /\ quarantine = {}
  /\ disk = NoManifest /\ mem = Fresh
  /\ run = [at |-> "idle", cur |-> 0, path |-> None, expected |-> None,
            moved |-> None, then |-> "none"]
  /\ request = "none" /\ preview = "awaiting"
  /\ runs = 0 /\ touches = 0 /\ crashes = 0 /\ faults = 0 /\ touched = {}
-----------------------------------------------------------------------------
Go(step, i)  == run' = [at |-> step, cur |-> i, path |-> None,
                        expected |-> None, moved |-> None, then |-> "none"]
At(step)     == run.at = step
WriteLater(m) == mem' = m /\ UNCHANGED disk
Save(m)      == mem' = m /\ disk' = m
Put(q, o)    == dir' = [dir EXCEPT ![q] = o]
quiet        == UNCHANGED <<inbox, limits>>
private      == UNCHANGED <<made, quarantine>>
untouched    == UNCHANGED <<library, inbox, limits>>

\* What a step left is written before the next file or patch is looked at.
FileMoved(f)    == /\ Save([mem EXCEPT !.moved = @ \cup {f},
                                        !.wrong = @ \ {f}])
                   /\ Go("file", f + 1)
WithError(f)    == [mem EXCEPT !.failed = @ \cup {ItemOf[f]},
                               !.wrong = @ \cup {f}]
FileFailed(f)   == Save(WithError(f)) /\ Go("file", f + 1)
PatchApplied(p) == /\ Save([mem EXCEPT !.applied = @ \cup {p},
                                       !.failed = @ \ {PatchItem[p]}])
                   /\ Go("patch", p + 1)
PatchFailed(p)  == /\ Save([mem EXCEPT !.failed = @ \cup {PatchItem[p]}])
                   /\ Go("patch", p + 1)

\* remove_bound_file_if_identity found o at the path q, and goes on to remove
\* it; "then" says what its caller does next.
Remove(q, o, next) ==
  run' = [at |-> "quarantine", cur |-> run.cur, path |-> q, expected |-> o,
          moved |-> None, then |-> next]

Settle(p) == request' = "none" /\ preview' = p /\ UNCHANGED runs
-----------------------------------------------------------------------------
(* The confirmation, and the start of an attempt.                          *)

Confirm ==
  /\ request = "none" /\ preview = "awaiting" /\ runs < MaxRuns
  /\ request' = "active" /\ runs' = runs + 1
  /\ UNCHANGED <<library, disk, mem, run, preview, limits>>

Written == disk \notin {NoManifest, TornManifest}

AlreadyComplete == Written /\ disk.status = "Complete" /\ Skipped = {}

\* execute_preview answers from the manifest of a complete batch, and cannot
\* read the one whose first write was interrupted.
BeginSettled ==
  /\ At("idle") /\ request = "active"
  /\ AlreadyComplete \/ disk = TornManifest
  /\ Settle("closed")
  /\ UNCHANGED <<library, disk, mem, run, limits>>

\* The first write of a private file creates it under its own name.
CreateManifest ==
  /\ At("idle") /\ request = "active" /\ disk = NoManifest
  /\ disk' = TornManifest /\ Go("manifest", 0)
  /\ UNCHANGED mem /\ untouched

Begin ==
  /\ \/ At("idle") /\ request = "active" /\ Written /\ ~AlreadyComplete
     \/ At("manifest")
  /\ LET old == IF Written THEN disk ELSE Fresh
     IN  Save([old EXCEPT !.finished = FALSE, !.access = FALSE, !.failed = {},
                          !.wrong = @ \cap old.moved])
  /\ Go("file", 1)
  /\ untouched
-----------------------------------------------------------------------------
(* The moves: execute_persisted's first loop and execute_file_move.        *)

\* A file recorded by an earlier attempt must still be the approved object.
ValidateMoved(f) ==
  /\ At("file") /\ run.cur = f /\ f \in mem.moved
  /\ IF dir[Target(f)] = Approved(f) THEN FileMoved(f) ELSE FileFailed(f)
  /\ untouched

SkipFile(f) ==
  /\ At("file") /\ run.cur = f /\ f \notin mem.moved
  /\ ItemOf[f] \in mem.failed
  /\ Go("file", f + 1)
  /\ UNCHANGED <<disk, mem>> /\ untouched

Examined(f) == At("file") /\ run.cur = f /\ f \notin mem.moved
               /\ ItemOf[f] \notin mem.failed

\* The rename of an interrupted attempt is recognised by its result.
NeverFound(f)  == FALSE
FoundMoved(f)  == dir[Source(f)] = None /\ dir[Target(f)] = Approved(f)
MayRename(f)   == dir[Source(f)] = Approved(f) /\ dir[Target(f)] = None

ExamineFile(f) ==
  /\ Examined(f)
  /\ \/ FoundMoved(f) /\ FileMoved(f)
     \/ MayRename(f) /\ Go("rename", f) /\ UNCHANGED <<disk, mem>>
     \/ ~FoundMoved(f) /\ ~MayRename(f) /\ FileFailed(f)
  /\ untouched

\* renameat with NOREPLACE: whatever the source name holds by now.
Rename(f) ==
  /\ At("rename") /\ run.cur = f
  /\ \/ /\ dir[Source(f)] # None /\ dir[Target(f)] = None
        /\ dir' = [dir EXCEPT ![Target(f)] = dir[Source(f)],
                              ![Source(f)] = None]
        /\ Go("renamed", f)
        /\ UNCHANGED <<disk, mem>>
     \/ /\ dir[Source(f)] = None \/ dir[Target(f)] # None
        /\ FileFailed(f) /\ UNCHANGED dir
  /\ private /\ quiet

Unverified(f) == At("renamed") /\ run.cur = f /\ FileMoved(f) /\ untouched
\* Another object than the approved one is left where it is.
Verify(f) ==
  /\ At("renamed") /\ run.cur = f
  /\ IF dir[Target(f)] = Approved(f) THEN FileMoved(f) ELSE FileFailed(f)
  /\ untouched

\* The directories could not be synced: the rename is to be taken back, unless
\* another object than the approved one is there by now.
RenameUndone(f) ==
  /\ At("renamed") /\ run.cur = f /\ faults < MaxFaults
  /\ dir[Target(f)] = Approved(f)
  /\ Go("undo", f)
  /\ faults' = faults + 1
  /\ UNCHANGED <<library, disk, mem, inbox, touches, crashes, touched>>

\* Again whatever the name holds by now, and never over another object.
Undo(f) ==
  /\ At("undo") /\ run.cur = f
  /\ \/ /\ dir[Target(f)] # None /\ dir[Source(f)] = None
        /\ dir' = [dir EXCEPT ![Source(f)] = dir[Target(f)],
                              ![Target(f)] = None]
     \/ /\ dir[Target(f)] = None \/ dir[Source(f)] # None
        /\ UNCHANGED dir
  /\ FileFailed(f)
  /\ private /\ quiet

FilesDone ==
  /\ At("file") /\ run.cur \notin Files
  /\ Go("patch", 1)
  /\ UNCHANGED <<disk, mem>> /\ untouched
-----------------------------------------------------------------------------
(* The patches: the second loop and execute_nfo_patch_with_checkpoint.     *)

AnyGroup(p)   == TRUE
GroupReady(p) == \A f \in Files : ItemOf[f] = PatchItem[p] => f \in mem.moved

SkipPatch(p) ==
  /\ At("patch") /\ run.cur = p
  /\ p \in mem.applied \/ ~GroupReady(p)
  /\ Go("patch", p + 1)
  /\ UNCHANGED <<disk, mem>> /\ untouched

Patching(p) == At("patch") /\ run.cur = p /\ p \notin mem.applied
               /\ GroupReady(p)

\* What the NFO's path may hold for the patch to go on: the replacement the
\* journal names, the created NFO, the approved NFO, or nothing to create.
Replaced(p)   == mem.journal[p] # 0 /\ dir[NfoPath(p)] = Staged(p, mem.journal[p])
FoundCreated(p) == p \in Creates /\ dir[NfoPath(p)] = Created(p)
MayReplace(p) == p \notin Creates /\ dir[NfoPath(p)] = Before(p)
MayCreate(p)  == p \in Creates /\ dir[NfoPath(p)] = None

ExaminePatch(p) ==
  /\ Patching(p)
  /\ \/ /\ dir[MediaPath(p)] = Media(p)
        /\ \/ Replaced(p) /\ Go("recover", p) /\ UNCHANGED <<disk, mem>>
           \/ FoundCreated(p) /\ PatchApplied(p)
           \/ /\ MayReplace(p)
              /\ Go(IF mem.journal[p] = 0 THEN "stage" ELSE "unstage", p)
              /\ UNCHANGED <<disk, mem>>
           \/ MayCreate(p) /\ Go("create", p) /\ UNCHANGED <<disk, mem>>
           \/ /\ ~Replaced(p) /\ ~FoundCreated(p)
              /\ ~MayReplace(p) /\ ~MayCreate(p)
              /\ PatchFailed(p)
     \/ dir[MediaPath(p)] # Media(p) /\ PatchFailed(p)
  /\ untouched

\* A staged object that was never exchanged is removed, then forgotten.
Unstage(p) ==
  /\ At("unstage") /\ run.cur = p
  /\ LET k == mem.journal[p]
         q == StagePath(p, k)
     IN \/ /\ dir[q] = Staged(p, k) /\ Remove(q, Staged(p, k), "forget")
           /\ UNCHANGED <<disk, mem>>
        \/ dir[q] = None /\ Go("forget", p) /\ UNCHANGED <<disk, mem>>
        \/ dir[q] \notin {None, Staged(p, k)} /\ PatchFailed(p)
  /\ untouched

Forgotten(p) == [mem EXCEPT !.journal[p] = 0]
Forget(p) ==
  /\ At("forget") /\ run.cur = p
  /\ Save(Forgotten(p)) /\ Go("stage", p)
  /\ untouched

Stage(p) ==
  /\ At("stage") /\ run.cur = p /\ made[p] < MaxStages
  /\ LET k == made[p] + 1
     IN \/ /\ dir[NfoPath(p)] = Before(p)
           /\ made' = [made EXCEPT ![p] = k]
           /\ Put(StagePath(p, k), Staged(p, k))
           /\ Go("journal", p) /\ UNCHANGED <<disk, mem>>
        \/ /\ dir[NfoPath(p)] # Before(p)
           /\ PatchFailed(p) /\ UNCHANGED <<dir, made>>
  /\ UNCHANGED quarantine /\ quiet

\* Before it fails, a replacement removes its temporary, if that is still the
\* object that was staged.
StagedHere(p) == dir[StagePath(p, made[p])] = Staged(p, made[p])
GiveUp(p) ==
  \/ /\ StagedHere(p)
     /\ Remove(StagePath(p, made[p]), Staged(p, made[p]), "fail")
     /\ UNCHANGED <<disk, mem>>
  \/ ~StagedHere(p) /\ PatchFailed(p)
Exchangeable(p) == StagedHere(p) /\ dir[NfoPath(p)] = Before(p)

\* The checkpoint callback, which writes the manifest.
Unjournaled(p)  == mem
Checkpointed(p) == [mem EXCEPT !.journal[p] = made[p]]
Journal(p) ==
  /\ At("journal") /\ run.cur = p
  /\ \/ Exchangeable(p) /\ Save(Checkpointed(p)) /\ Go("validate", p)
     \/ ~Exchangeable(p) /\ GiveUp(p)
  /\ untouched

\* Its write fails; the one after the failed patch writes the checkpoint too.
JournalFails(p) ==
  /\ At("journal") /\ run.cur = p /\ faults < MaxFaults
  /\ Exchangeable(p)
  /\ Remove(StagePath(p, made[p]), Staged(p, made[p]), "fail_journaled")
  /\ faults' = faults + 1
  /\ UNCHANGED <<library, disk, mem, inbox, touches, crashes, touched>>

ForgetFails(p) ==
  /\ At("forget") /\ run.cur = p /\ faults < MaxFaults
  /\ Save([Forgotten(p) EXCEPT !.failed = @ \cup {PatchItem[p]}])
  /\ Go("patch", p + 1)
  /\ faults' = faults + 1
  /\ UNCHANGED <<library, inbox, touches, crashes, touched>>

Validate(p) ==
  /\ At("validate") /\ run.cur = p
  /\ \/ Exchangeable(p) /\ Go("exchange", p) /\ UNCHANGED <<disk, mem>>
     \/ ~Exchangeable(p) /\ GiveUp(p)
  /\ untouched

\* renameat with EXCHANGE: whatever the two names hold by now.
Exchange(p) ==
  /\ At("exchange") /\ run.cur = p
  /\ LET t == StagePath(p, made[p])
     IN \/ /\ dir[t] # None /\ dir[NfoPath(p)] # None
           /\ dir' = [dir EXCEPT ![t] = dir[NfoPath(p)], ![NfoPath(p)] = dir[t]]
           /\ Go("exchanged", p) /\ UNCHANGED <<disk, mem>>
        \/ /\ dir[t] = None \/ dir[NfoPath(p)] = None
           /\ GiveUp(p) /\ UNCHANGED dir
  /\ private /\ quiet

Displaced(p) == dir[StagePath(p, mem.journal[p])] = Before(p)

\* Both names are looked at; if either is not what it should be both stay.
ConfirmExchange(p) ==
  /\ At("exchanged") /\ run.cur = p
  /\ IF dir[NfoPath(p)] = Staged(p, made[p]) /\ Displaced(p)
     THEN Go("discard", p) /\ UNCHANGED <<disk, mem>>
     ELSE PatchFailed(p)
  /\ untouched

Discard(p) ==
  /\ At("discard") /\ run.cur = p
  /\ \/ /\ Displaced(p)
        /\ Remove(StagePath(p, mem.journal[p]), Before(p), "recheck")
        /\ UNCHANGED <<disk, mem>>
     \/ ~Displaced(p) /\ PatchFailed(p)
  /\ untouched

\* remove_checkpointed_displaced_nfo once more: the displaced NFO was unlinked,
\* so an object at its name is another program's.
Recheck(p) ==
  /\ At("recheck") /\ run.cur = p
  /\ IF dir[StagePath(p, mem.journal[p])] = None
     THEN Go("reverify", p) /\ UNCHANGED <<disk, mem>>
     ELSE PatchFailed(p)
  /\ untouched

\* A replacement the journal proves only has its displaced NFO to remove.
Recover(p) ==
  /\ At("recover") /\ run.cur = p
  /\ LET q == StagePath(p, mem.journal[p])
     IN \/ Displaced(p) /\ Remove(q, Before(p), "apply") /\ UNCHANGED <<disk, mem>>
        \/ dir[q] = None /\ PatchApplied(p)
        \/ dir[q] # None /\ ~Displaced(p) /\ PatchFailed(p)
  /\ untouched

\* create_new_bound_file: the name first, exclusively, then its bytes.
Create(p) ==
  /\ At("create") /\ run.cur = p
  /\ \/ /\ dir[NfoPath(p)] = None
        /\ Put(NfoPath(p), Partial(p)) /\ Go("fill", p) /\ UNCHANGED <<disk, mem>>
     \/ dir[NfoPath(p)] # None /\ PatchFailed(p) /\ UNCHANGED dir
  /\ private /\ quiet

Fill(p) ==
  /\ At("fill") /\ run.cur = p
  /\ \/ /\ dir[NfoPath(p)] = Partial(p)
        /\ Put(NfoPath(p), Created(p)) /\ Go("reverify", p)
        /\ UNCHANGED <<disk, mem>>
     \/ dir[NfoPath(p)] # Partial(p) /\ PatchFailed(p) /\ UNCHANGED dir
  /\ private /\ quiet

FillFails(p) ==
  /\ At("fill") /\ run.cur = p /\ faults < MaxFaults
  /\ \/ /\ dir[NfoPath(p)] = Partial(p)
        /\ Remove(NfoPath(p), Partial(p), "fail") /\ UNCHANGED <<disk, mem>>
     \/ dir[NfoPath(p)] # Partial(p) /\ PatchFailed(p)
  /\ faults' = faults + 1
  /\ UNCHANGED <<library, inbox, touches, crashes, touched>>

Prepared(p) == IF p \in Creates THEN Created(p) ELSE Staged(p, mem.journal[p])
Reverify(p) ==
  /\ At("reverify") /\ run.cur = p
  /\ IF dir[NfoPath(p)] = Prepared(p) /\ dir[MediaPath(p)] = Media(p)
     THEN PatchApplied(p) ELSE PatchFailed(p)
  /\ untouched
-----------------------------------------------------------------------------
(* A removal: remove_bound_entry_if_identity_with_hooks after its check of *)
(* the name, on behalf of a patch.                                         *)

Remembered(p) == IF run.then = "fail_journaled" THEN Checkpointed(p) ELSE mem
RemovalFailed(p) ==
  /\ Save([Remembered(p) EXCEPT !.failed = @ \cup {PatchItem[p]}])
  /\ Go("patch", p + 1)

Removed(p) ==
  \/ run.then \in {"forget", "recheck"} /\ Go(run.then, p) /\ UNCHANGED <<disk, mem>>
  \/ run.then = "apply" /\ PatchApplied(p)
  \/ run.then \in {"fail", "fail_journaled"} /\ RemovalFailed(p)

\* renameat with NOREPLACE into the quarantine: whatever the name holds by now.
Quarantine(p) ==
  /\ At("quarantine") /\ run.cur = p
  /\ \/ /\ dir[run.path] # None
        /\ Put(run.path, None)
        /\ quarantine' = quarantine \cup {<<run.expected, dir[run.path]>>}
        /\ run' = [run EXCEPT !.at = "quarantined", !.moved = dir[run.path]]
        /\ UNCHANGED <<disk, mem>>
     \/ /\ dir[run.path] = None
        /\ RemovalFailed(p) /\ UNCHANGED <<dir, quarantine>>
  /\ UNCHANGED made /\ quiet

Quarantined == <<run.expected, run.moved>>
AnyMoved    == TRUE
IsExpected  == run.moved = run.expected

Unlink(p) ==
  /\ At("quarantined") /\ run.cur = p /\ IsExpected
  /\ quarantine' = quarantine \ {Quarantined}
  /\ Removed(p)
  /\ UNCHANGED <<dir, made>> /\ quiet

\* A racing replacement is restored, or retained when its name is taken.
Reinstate(p) ==
  /\ At("quarantined") /\ run.cur = p /\ ~IsExpected
  /\ \/ /\ dir[run.path] = None
        /\ Put(run.path, run.moved) /\ quarantine' = quarantine \ {Quarantined}
     \/ dir[run.path] # None /\ UNCHANGED <<dir, quarantine>>
  /\ RemovalFailed(p)
  /\ UNCHANGED made /\ quiet

\* The quarantine cannot be made, a directory cannot be synced, or an unlink
\* that happened cannot be confirmed.
RemovalFails(p) ==
  /\ run.cur = p /\ faults < MaxFaults
  /\ \/ At("quarantine") /\ UNCHANGED quarantine
     \/ At("quarantined") /\ UNCHANGED quarantine
     \/ At("quarantined") /\ IsExpected /\ quarantine' = quarantine \ {Quarantined}
  /\ RemovalFailed(p)
  /\ faults' = faults + 1
  /\ UNCHANGED <<dir, made, inbox, touches, crashes, touched>>

\* reconcile_remove_quarantines, under the lock of the video directory, which
\* an attempt holds too: an interrupted removal of the object it is of is
\* completed, any other object is retained.
Reconcile ==
  /\ At("idle")
  /\ \E h \in quarantine : h[1] = h[2] /\ quarantine' = quarantine \ {h}
  /\ UNCHANGED <<dir, made, disk, mem, run, inbox, limits>>
-----------------------------------------------------------------------------
(* The end of an attempt.                                                  *)

NoErrors(m) == /\ m.failed = {} /\ Skipped = {}
               /\ m.moved = Files /\ m.applied = Patches
Outcome(m) ==
  IF NoErrors(m) THEN "Complete"
  ELSE IF m.moved # {} \/ m.applied # {} THEN "Partial" ELSE "Failed"

Finish ==
  /\ At("patch") /\ run.cur \notin Patches
  /\ Save([mem EXCEPT !.failed = @ \cup Skipped, !.status = Outcome(mem),
                      !.finished = TRUE])
  /\ Go("report", 0)
  /\ untouched

\* Only a batch that met an inaccessible file can be confirmed again.
Report ==
  /\ At("report")
  /\ Settle(IF mem.status # "Complete" /\ mem.access THEN "awaiting"
                                                    ELSE "closed")
  /\ Go("idle", 0)
  /\ UNCHANGED <<library, disk, mem, limits>>
-----------------------------------------------------------------------------
(* What goes wrong.                                                        *)

\* A file or a patch's media is inaccessible: a failure that may be retried.
AccessFails ==
  /\ faults < MaxFaults /\ faults' = faults + 1
  /\ \/ \E f \in Files :
          /\ At("file") /\ run.cur = f
          /\ f \in mem.moved \/ ItemOf[f] \notin mem.failed
          /\ Save([WithError(f) EXCEPT !.access = TRUE])
          /\ Go("file", f + 1)
     \/ \E p \in Patches :
          /\ Patching(p)
          /\ Save([mem EXCEPT !.failed = @ \cup {PatchItem[p]}, !.access = TRUE])
          /\ Go("patch", p + 1)
  /\ UNCHANGED <<library, inbox, touches, crashes, touched>>

\* The manifest could not be written: the attempt ends with an error, and
\* the preview with it.
Abort ==
  /\ ~At("idle") /\ ~At("report")
  /\ faults < MaxFaults /\ faults' = faults + 1
  /\ Go("idle", 0) /\ mem' = Fresh
  /\ disk' = IF At("manifest") THEN NoManifest ELSE disk
  /\ Settle("closed")
  /\ UNCHANGED <<library, touches, crashes, touched>>

\* The request is still in the inbox: a later process begins again.
Crash ==
  /\ request = "active" /\ crashes < MaxCrashes /\ crashes' = crashes + 1
  /\ Go("idle", 0) /\ mem' = Fresh
  /\ UNCHANGED <<library, disk, inbox, faults, touches, touched>>

\* Any name of the library, a temporary's too once it was used.
Touch(q) ==
  /\ touches < MaxTouches /\ touches' = touches + 1
  /\ q \in UserPaths \/ \E p \in Patches : \E k \in 1..made[p] : q = StagePath(p, k)
  /\ touched' = touched \cup {q}
  /\ \/ Put(q, Foreign(touches'))
     \/ dir[q] # None /\ Put(q, None)
  /\ UNCHANGED <<made, quarantine, disk, mem, run, inbox, crashes, faults>>
-----------------------------------------------------------------------------
FileStep(f) == ValidateMoved(f) \/ SkipFile(f) \/ ExamineFile(f) \/ Rename(f)
               \/ Verify(f) \/ Undo(f)
PatchStep(p) == SkipPatch(p) \/ ExaminePatch(p) \/ Unstage(p) \/ Forget(p)
                \/ Stage(p) \/ Journal(p) \/ Validate(p) \/ Exchange(p)
                \/ ConfirmExchange(p) \/ Discard(p) \/ Recheck(p)
                \/ Recover(p) \/ Create(p) \/ Fill(p) \/ Reverify(p)
                \/ Quarantine(p) \/ Unlink(p) \/ Reinstate(p)
Attempt == \/ BeginSettled \/ CreateManifest \/ Begin \/ FilesDone \/ Finish \/ Report
           \/ \E f \in Files : FileStep(f)
           \/ \E p \in Patches : PatchStep(p)
Fault == \/ AccessFails \/ Abort \/ Crash
         \/ \E f \in Files : RenameUndone(f)
         \/ \E p \in Patches : JournalFails(p) \/ ForgetFails(p)
                               \/ FillFails(p) \/ RemovalFails(p)

Next == Confirm \/ Attempt \/ Reconcile \/ Fault \/ \E q \in Paths : Touch(q)

Spec == Init /\ [][Next]_vars

\* An attempt runs on one thread until it returns, and a confirmation that a
\* stopped process left in the inbox is dispatched by the next process.
FairSpec == Spec /\ WF_vars(Attempt)
-----------------------------------------------------------------------------
(* Properties.                                                             *)

Objects == {None} \cup {Approved(f) : f \in Files} \cup {Foreign(n) : n \in 1..MaxTouches}
           \cup (UNION {{Before(p), Media(p), Partial(p), Created(p)} : p \in Patches})
           \cup {Staged(p, k) : p \in Patches, k \in Stages}
Steps == {"idle", "manifest", "file", "rename", "renamed", "undo", "patch",
          "unstage", "forget", "stage", "journal", "validate", "exchange",
          "exchanged", "discard", "recheck", "recover", "create", "fill",
          "quarantine", "quarantined", "reverify", "report"}
Goals == {"none", "fail", "fail_journaled", "forget", "recheck", "apply"}

\* Every variable stays in its domain, and a running attempt works on what it
\* last wrote (execute_persisted writes after each change of the manifest).
TypeOK ==
  /\ dir \in [Paths -> Objects]
  /\ made \in [Patches -> 0..MaxStages]
  /\ disk \in Manifest \cup {NoManifest, TornManifest} /\ mem \in Manifest
  /\ quarantine \in SUBSET (Objects \X Objects)
  /\ run \in [at : Steps, cur : Nat, path : Paths \cup {None},
              expected : Objects, moved : Objects, then : Goals]
  /\ run.at \notin {"idle", "manifest"} => disk = mem
  /\ request \in {"none", "active"} /\ preview \in {"awaiting", "closed"}
  /\ runs \in 0..MaxRuns /\ touches \in 0..MaxTouches
  /\ crashes \in 0..MaxCrashes /\ faults \in 0..MaxFaults
  /\ touched \subseteq Paths

\* The objects at the names of the library and in its quarantines.
Held == ({dir[q] : q \in Paths} \cup {h[2] : h \in quarantine}) \ {None}

\* The batch, and the completion of its interrupted removals, destroys nothing
\* of anybody else's, whatever takes a name between its examination, its move
\* into the quarantine and the unlink: only the batch's own staged and partial
\* objects, and the approved NFO once the replacement the durable manifest
\* names is in its place (or somebody touched that).
OnlySupersededIsDestroyed ==
  [][touches' = touches =>
       \A o \in Held \ Held' :
          \/ o[1] = "partial"
          \/ o[1] = "staged" /\ \A p \in Patches : dir[NfoPath(p)] # o
          \/ \E p \in Patches :
               /\ o = Before(p)
               /\ \/ Written /\ dir[NfoPath(p)] = Staged(p, disk.journal[p])
                  \/ NfoPath(p) \in touched]_vars

\* A replacement that took an NFO's place is the one the durable manifest
\* names: a later process can always tell it from somebody else's file.
ReplacementIsJournaled ==
  \A p \in Patches \ Creates : \A k \in Stages :
    dir[NfoPath(p)] = Staged(p, k) => Written /\ disk.journal[p] = k

\* The NFO of an item changes only after the item's whole group of files is
\* durably recorded as moved (item_group_ready), in whatever order attempts
\* failed, stopped and resumed.
PatchedGroupIsMoved ==
  \A p \in Patches :
    (\E k \in 0..MaxStages : dir[NfoPath(p)] = Staged(p, k)) =>
       /\ Written
       /\ \A f \in Files : ItemOf[f] = PatchItem[p] => f \in disk.moved

\* What the manifest records as done is done: a recorded file is at its
\* target (or its confirmed replacement is), an applied patch is in place
\* and has no displaced NFO beside it, unless the user touched one of those
\* paths.
Undisturbed(p) == touched \cap ({NfoPath(p)} \cup {StagePath(p, k) : k \in Stages}) = {}
RecordedIsDone ==
  Written =>
    /\ \A f \in disk.moved :
         \/ dir[Target(f)] = Approved(f)
         \/ Target(f) \in touched
         \/ \E p \in Patches :
              /\ PatchNfo[p] = f
              /\ Undisturbed(p) => dir[Target(f)] = Staged(p, disk.journal[p])
    /\ \A p \in disk.applied : Undisturbed(p) =>
         IF p \in Creates THEN dir[NfoPath(p)] = Created(p)
         ELSE /\ dir[NfoPath(p)] = Staged(p, disk.journal[p])
              /\ dir[StagePath(p, disk.journal[p])] = None

\* A resumed batch only repeats what is unfinished: when nobody touched the
\* library and every step is recorded, it is complete
\* (docs/CLOUD_FILE_MANAGEMENT.md:17).
FinishedWorkIsComplete ==
  /\ Written /\ disk.finished /\ touched = {} /\ Skipped = {}
  /\ disk.moved = Files /\ disk.applied = Patches
  => disk.status = "Complete"

\* A batch nobody interferes with completes, wherever its process stops, but
\* for two files a stop can tear: under a torn manifest it has moved and
\* patched nothing, and an NFO torn while it was created is all that is left
\* undone, as no attempt can tell it from another program's.
Torn == {p \in Creates : dir[NfoPath(p)] = Partial(p)}
ConfirmedCompletes ==
  request = "active" ~>
     \/ Written /\ disk.status = "Complete"
     \/ request = "none" /\ dir = Original
     \/ /\ request = "none" /\ Written /\ Torn # {}
        /\ disk.moved = Files /\ disk.applied = Patches \ Torn
=============================================================================
