-------------------------- MODULE StagedPublication --------------------------
(***************************************************************************)
(* A finished download is moved from its staging directory into the        *)
(* library, beside what is there ("keep"), in place of a video and its     *)
(* sidecars ("video"), or in place of a video's sidecars ("artifacts").    *)
(*                                                                         *)
(* src/src/downloader.rs   move_staged_video_files_with_root_and_sources,  *)
(*                         move_staged_artifact_files_with_root: the job   *)
(*                         recover_pending_video_staging_directories,      *)
(*                         recover_pending_overwrite_transactions: recovery *)
(* src/src/safe_fs.rs      the exchange of a file with its replacement     *)
(*                                                                         *)
(* Two manifests make it recoverable: the staging directory's names the    *)
(* moves, and the overwrite transaction's, next to the files it has taken, *)
(* says whether the old or the new files are wanted.  One job at a time    *)
(* (the library's lock); other programs change the library at any time.    *)
(***************************************************************************)
EXTENDS Naturals

CONSTANTS
  Target,     \* the path of the video that may be overwritten
  Targets,    \* where its replacement may go: elsewhere if its extension differs
  Sidecars,   \* paths of metadata next to the video
  MaxBudget   \* bound: stops of the process, failures of calls, foreign changes

ASSUME PublicationAssumption ==
  /\ Target \in Targets /\ Targets \cap Sidecars = {}
  /\ MaxBudget \in Nat

VARIABLES
  plan,       \* what is overwritten (old), what is published (new), as which kind
  lib,        \* whose object is at a path of the library
  backup,     \* whose object the overwrite transaction holds for a path
  stage,      \* the staging directory: its files and its publication manifest
  tx,         \* the overwrite transaction's directory, manifest and anchors
  marker,     \* the library's recovery marker
  pc,         \* the process: where it is,
  todo,       \*   the paths of a list it has still to treat,
  held,       \*   the files the overwrite has taken,
  moved,      \*   the files it has published,
  failed,     \*   whether something went wrong that others have to see to,
  blocked,    \*   whether recovery must leave the overwrite transaction alone
  touched,    \* paths another program has changed
  budget

memory  == <<todo, held, moved, failed, blocked>>
process == <<pc, memory>>
vars == <<plan, lib, backup, stage, tx, marker, process, touched, budget>>

Paths   == Targets \cup Sidecars
Objects == {"old", "new", "user", "none"}
Kinds   == {"keep", "video", "artifacts"}
File    == {"none", "torn", "whole"}
Phases  == {"none", "torn", "acquired", "committed"}
NoTx    == [dir |-> FALSE, phase |-> "none", temp |-> "none", anchors |-> {}]
NoStage == [open |-> FALSE, files |-> {}, pub |-> "none"]

JobSteps      == {"open", "manifest", "take", "prepare", "move", "unreplaced", "undo",
                  "retire", "restore", "anchor", "exchange", "untemp", "clean", "finish"}
RecoverySteps == {"judge", "forward", "back", "settle", "giveback", "conclude", "mark"}
Resting       == {"new", "done", "over", "down", "idle"}
Steps         == JobSteps \cup RecoverySteps \cup Resting

\* where acquired.backups is what the transaction's directory holds
Holding == {"take", "prepare", "move", "unreplaced", "undo", "retire", "anchor", "exchange",
            "untemp"}

TypeOK ==
  /\ plan \in [kind : Kinds, old : SUBSET Paths, new : SUBSET Paths]
  /\ lib \in [Paths -> Objects] /\ backup \in [Paths -> Objects]
  /\ stage \in [open : BOOLEAN, files : SUBSET Paths, pub : File]
  /\ tx \in [dir : BOOLEAN, phase : Phases, temp : Phases, anchors : SUBSET Paths]
  /\ marker \in {"clean", "dirty"}
  /\ pc \in Steps
  /\ todo \subseteq Paths /\ held \subseteq Paths /\ moved \subseteq Paths
  /\ failed \in BOOLEAN /\ blocked \in BOOLEAN
  /\ touched \subseteq Paths /\ budget \in 0 .. MaxBudget
  /\ pc \in Holding => held = {p \in Paths : backup[p] # "none"}

\* What a plan may be: new sidecars need not be those the video had.
Plans ==
  LET Video(t, s) == {t} \cup s
  IN  {[kind |-> "keep", old |-> {}, new |-> Video(t, s)] : t \in Targets, s \in SUBSET Sidecars}
      \cup {[kind |-> "video", old |-> Video(Target, s), new |-> Video(t, n)] :
              t \in Targets, s \in SUBSET Sidecars, n \in SUBSET Sidecars}
      \cup {[kind |-> "artifacts", old |-> Video(Target, s), new |-> n] :
              s \in SUBSET Sidecars, n \in SUBSET Sidecars \ {{}}}

Old     == plan.old
New     == plan.new
Renamed == plan.kind = "video" /\ Target \notin New

\* what the transaction binds: artifacts leave the video where it was
Outputs == IF plan.kind = "artifacts" THEN New \cup {Target} ELSE New
Out(p)  == IF p \in New THEN "new" ELSE "old"
Taken   == {p \in Paths : backup[p] # "none"}

\* the first move of a plan; other plans have no order that matters
Lead == IF plan.kind = "video" THEN New \cap Targets ELSE {}


Init ==
  /\ plan \in Plans
  /\ lib = [p \in Paths |-> IF p \in plan.old THEN "old" ELSE "none"]
  /\ backup = [p \in Paths |-> "none"]
  /\ stage = [open |-> TRUE, files |-> plan.new, pub |-> "none"]
  /\ tx = NoTx /\ marker = "clean" /\ pc = "new"
  /\ todo = {} /\ held = {} /\ moved = {} /\ failed = FALSE /\ blocked = FALSE
  /\ touched = {} /\ budget = MaxBudget

------------------------------------------------------------------------------
Spend  == budget > 0 /\ budget' = budget - 1
Same   == UNCHANGED budget

\* The process goes on to a step; works through a list there; finishes with a
\* path of the list, well or not; or begins with an empty memory.
Go(s)      == pc' = s /\ UNCHANGED memory
Over       == Go("over")
Do(s, ps)  == pc' = s /\ todo' = ps /\ UNCHANGED <<held, moved, failed, blocked>>
Past(p)    == todo' = todo \ {p} /\ UNCHANGED <<pc, held, moved, failed, blocked>>
Missed(p)  == todo' = todo \ {p} /\ failed' = TRUE /\ UNCHANGED <<pc, held, moved, blocked>>
Fresh(s)   == /\ pc' = s /\ todo' = {} /\ held' = {} /\ moved' = {}
              /\ failed' = FALSE /\ blocked' = FALSE

\* A call reports an error: for a reason, or because it fails.
Refused(reason) == (reason /\ Same) \/ Spend

\* The paths of a list in its order: a lead goes first, or last.
First(lead) == {p \in todo : p \in lead \/ todo \cap lead = {}}
Final(lead) == {p \in todo : p \notin lead \/ todo \subseteq lead}

library == <<plan, marker, touched>>

------------------------------------------------------------------------------
(* The job takes the files that are to be overwritten.                      *)

\* acquire_video_output_root: the marker is dirty while the job runs
Begin ==
  /\ pc = "new" /\ marker' = "dirty"
  /\ Go(IF plan.kind = "keep" THEN "prepare" ELSE "open")
  /\ UNCHANGED <<plan, lib, backup, stage, tx, touched, budget>>

\* create_overwrite_backup_dir
OpenTx ==
  /\ pc = "open"
  /\ \/ lib[Target] = "old" /\ tx' = [tx EXCEPT !.dir = TRUE] /\ Go("manifest") /\ Same
     \/ Refused(lib[Target] # "old") /\ Over /\ UNCHANGED tx
  /\ UNCHANGED <<library, lib, backup, stage>>

\* create_overwrite_recovery_manifest
WriteTx ==
  /\ pc = "manifest"
  /\ \/ /\ tx' = [tx EXCEPT !.phase = "acquired"] /\ Same
        /\ Do("take", {Target} \cup Sidecars)
     \/ Spend /\ tx' = NoTx /\ Over
  /\ UNCHANGED <<library, lib, backup, stage>>

GiveBack == Do("restore", held)

\* acquire_overwrite_path
Take ==
  /\ pc = "take"
  /\ \E p \in First({Target}) :
       \/ /\ lib[p] = "none" /\ p # Target /\ Same
          /\ Past(p) /\ UNCHANGED <<lib, backup>>
       \/ /\ lib[p] # "none" /\ (p = Target => lib[p] = "old") /\ Same
          /\ lib' = [lib EXCEPT ![p] = "none"] /\ backup' = [backup EXCEPT ![p] = lib[p]]
          /\ todo' = todo \ {p} /\ held' = held \cup {p}
          /\ UNCHANGED <<pc, moved, failed, blocked>>
       \/ Refused(p = Target /\ lib[p] # "old") /\ GiveBack /\ UNCHANGED <<lib, backup>>
  /\ UNCHANGED <<library, stage, tx>>

\* validate_acquired_overwrite
Validate ==
  /\ pc = "take" /\ todo = {}
  /\ LET recreated == \E p \in {Target} \cup Sidecars : lib[p] # "none"
     IN  \/ ~recreated /\ Go("prepare") /\ Same
         \/ Refused(recreated) /\ GiveBack
  /\ UNCHANGED <<library, lib, backup, stage, tx>>

------------------------------------------------------------------------------
(* The moves, and their undoing.                                            *)

\* The staging directory outlives a failure: run_staged_video_job had it retained
\* (retain_for_manual_recovery) before it began to publish, so that no drop of
\* it removes it, whatever finish_failed_staged_move does.
Unpublished == IF plan.kind = "keep" THEN Over ELSE Go("retire")

\* prepare_staged_publication
Prepare ==
  /\ pc = "prepare"
  /\ LET occupied == \E p \in New : lib[p] # "none"
     IN  \/ /\ ~occupied /\ stage' = [stage EXCEPT !.pub = "whole"] /\ Same
            /\ Do("move", New)
         \/ Refused(occupied) /\ Unpublished /\ UNCHANGED stage
         \/ ~occupied /\ Spend /\ stage' = [stage EXCEPT !.pub = "whole"] /\ Unpublished
  /\ UNCHANGED <<library, lib, backup, tx>>

Undoing(done) ==
  pc' = "undo" /\ todo' = done /\ moved' = done /\ UNCHANGED <<held, failed, blocked>>

\* execute_move_plan, execute_artifact_move_plan
Move ==
  /\ pc = "move"
  /\ \E p \in First(Lead) :
       \/ /\ lib[p] = "none"
          /\ lib' = [lib EXCEPT ![p] = "new"] /\ stage' = [stage EXCEPT !.files = @ \ {p}]
          /\ \/ /\ todo' = todo \ {p} /\ moved' = moved \cup {p} /\ Same
                /\ UNCHANGED <<pc, held, failed, blocked>>
             \/ Spend /\ Undoing(moved \cup {p})
       \/ Refused(lib[p] # "none") /\ Undoing(moved) /\ UNCHANGED <<lib, stage>>
  /\ UNCHANGED <<library, backup, tx>>

Moved ==
  /\ pc = "move" /\ todo = {}
  /\ CASE plan.kind = "keep"  -> Go("finish")
       [] plan.kind = "video" -> Do("anchor", Outputs)
       [] OTHER -> Do("unreplaced", held \ New)
  /\ UNCHANGED <<library, lib, backup, stage, tx, budget>>

Returned(p) ==
  /\ lib' = [lib EXCEPT ![p] = backup[p]] /\ backup' = [backup EXCEPT ![p] = "none"]

\* a wrong Handed: what went back is still on the list
StillHeld(p) == held

\* restore_original takes the backup off the list
Handed(p) == held \ {p}

\* restore_unreplaced: the video, then what the new artifacts do not replace
Unreplaced ==
  /\ pc = "unreplaced"
  /\ \/ \E p \in First({Target}) :
          \/ /\ lib[p] = "none" /\ Returned(p) /\ Same
             /\ todo' = todo \ {p} /\ held' = Handed(p)
             /\ UNCHANGED <<pc, moved, failed, blocked>>
          \/ Refused(lib[p] # "none") /\ Undoing(moved) /\ UNCHANGED <<lib, backup>>
     \/ /\ todo = {} /\ Same
        /\ Do("anchor", Outputs) /\ UNCHANGED <<lib, backup>>
  /\ UNCHANGED <<library, stage, tx>>

\* rollback_moves: every move is tried, the last one first
Undo ==
  /\ pc = "undo"
  /\ \E p \in Final(Lead) :
       \/ /\ lib[p] = "new" /\ Same /\ Past(p)
          /\ lib' = [lib EXCEPT ![p] = "none"] /\ stage' = [stage EXCEPT !.files = @ \cup {p}]
       \/ /\ Refused(lib[p] # "new") /\ Missed(p) /\ UNCHANGED <<lib, stage>>
  /\ UNCHANGED <<library, backup, tx>>

\* a wrong Retirable: what could not be moved back is left to the user
RetirableAnyway == TRUE

\* an incomplete rollback leaves both manifests to recovery
Retirable == ~failed

\* rollback_acquired_overwrite, finish_failed_staged_move
Undone ==
  /\ pc = "undo" /\ todo = {}
  /\ IF Retirable THEN Unpublished ELSE Over
  /\ UNCHANGED <<library, lib, backup, stage, tx, budget>>

TargetGiven == plan.kind = "artifacts" /\ Target \notin held /\ held # {}

\* retire_staged_publication_after_move_rollback, then restore
Retire ==
  /\ pc = "retire"
  /\ \/ /\ stage' = [stage EXCEPT !.pub = "none"] /\ Same
        /\ IF TargetGiven /\ lib[Target] # "old" THEN Over ELSE GiveBack
     \/ Spend /\ Over /\ UNCHANGED stage
  /\ UNCHANGED <<library, lib, backup, tx>>

\* restore_backups, restore_remaining_backups
Restore ==
  /\ pc = "restore"
  /\ \E p \in First({Target}) :
       \/ lib[p] = "none" /\ Returned(p) /\ Past(p) /\ Same
       \/ /\ Refused(lib[p] # "none") /\ UNCHANGED <<lib, backup>>
          /\ IF p = Target THEN Over ELSE Missed(p)
  /\ UNCHANGED <<library, stage, tx>>

\* remove_overwrite_transaction_dir
Restored ==
  /\ pc = "restore" /\ todo = {} /\ Over
  /\ \/ ~failed /\ tx' = NoTx /\ Same
     \/ Refused(failed) /\ UNCHANGED tx
  /\ UNCHANGED <<library, lib, backup, stage>>

------------------------------------------------------------------------------
(* The commit: from here the new files are wanted.                          *)

\* validate_committed_overwrite_state, for the old paths in a list
Bound == /\ tx.anchors = Outputs /\ \A p \in Outputs : lib[p] = Out(p)
Committed(paths) ==
  Bound /\ \A p \in paths : lib[p] = "none" \/ (p \in Outputs /\ lib[p] = Out(p))

\* create_committed_output_anchors
Anchor ==
  /\ pc = "anchor"
  /\ \E p \in todo :
       \/ /\ lib[p] = Out(p) /\ tx' = [tx EXCEPT !.anchors = @ \cup {p}]
          /\ Past(p) /\ Same
       \/ Refused(lib[p] # Out(p)) /\ Over /\ UNCHANGED tx
  /\ UNCHANGED <<library, lib, backup, stage>>

\* replace_bound_file_atomically_if_identity: the other half is written beside
\* the manifest, exchanged with it, and removed
WriteTemp ==
  /\ pc = "anchor" /\ todo = {}
  /\ \/ tx' = [tx EXCEPT !.temp = "committed"] /\ Go("exchange") /\ Same
     \/ Spend /\ Over /\ UNCHANGED tx
  /\ UNCHANGED <<library, lib, backup, stage>>

Exchange ==
  /\ pc = "exchange"
  /\ \/ tx' = [tx EXCEPT !.phase = "committed", !.temp = "acquired"] /\ Go("untemp") /\ Same
     \/ Spend /\ tx' = [tx EXCEPT !.temp = "none"] /\ Over
  /\ UNCHANGED <<library, lib, backup, stage>>

Untemp ==
  /\ pc = "untemp"
  /\ \/ /\ tx' = [tx EXCEPT !.temp = "none"] /\ Same
        /\ Do("clean", held)
     \/ Spend /\ Over /\ UNCHANGED tx
  /\ UNCHANGED <<library, lib, backup, stage>>

\* a wrong Cleanable: the outputs are not looked at again
CleanableUnseen(paths) == TRUE

\* what a backup may be removed for, here and in recovery
Cleanable(paths) == Committed(paths)

\* remove_backups
Clean ==
  /\ pc = "clean"
  /\ \E p \in todo :
       \/ /\ Cleanable(held) /\ backup' = [backup EXCEPT ![p] = "none"]
          /\ Past(p) /\ Same
       \/ ~Cleanable(held) /\ Same /\ Over /\ UNCHANGED backup
       \/ Spend /\ Missed(p) /\ UNCHANGED backup
  /\ UNCHANGED <<library, lib, stage, tx>>

\* remove_committed_overwrite_transaction
Cleaned ==
  /\ pc = "clean" /\ todo = {}
  /\ LET ready == ~failed /\ Committed(held)
     IN  \/ ready /\ tx' = NoTx /\ Go("finish") /\ Same
         \/ Refused(~ready) /\ Over /\ UNCHANGED tx
  /\ UNCHANGED <<library, lib, backup, stage>>

\* BoundStagingDir::finish, mark_operation_clean
Finish ==
  /\ pc = "finish"
  /\ \/ stage' = NoStage /\ marker' = "clean" /\ Fresh("done") /\ Same
     \/ Spend /\ Over /\ UNCHANGED <<stage, marker>>
  /\ UNCHANGED <<plan, lib, backup, tx, touched>>

Job == \/ Begin \/ OpenTx \/ WriteTx \/ Take \/ Validate \/ Prepare \/ Move \/ Moved
       \/ Unreplaced \/ Undo \/ Undone \/ Retire \/ Restore \/ Restored
       \/ Anchor \/ WriteTemp \/ Exchange \/ Untemp \/ Clean \/ Cleaned \/ Finish

------------------------------------------------------------------------------
(* Recovery: first the staging directory, then the overwrite transaction.   *)

\* at startup, and by the next job where the marker is dirty
Recover ==
  /\ pc = "down" \/ (pc \in {"over", "idle"} /\ marker = "dirty")
  /\ Fresh("judge")
  /\ UNCHANGED <<library, lib, backup, stage, tx, budget>>

Unresolved(s) == pc' = s /\ failed' = TRUE /\ UNCHANGED <<todo, held, moved, blocked>>

\* an unresolved publication blocks the overwrite transaction it names
Blocking == /\ pc' = "settle" /\ failed' = TRUE /\ blocked' = TRUE
            /\ UNCHANGED <<todo, held, moved>>

\* a wrong Forward: moves are always completed
AlwaysForward == TRUE

\* staged_publication_direction
Forward == ~tx.dir \/ tx.phase = "committed"

\* recover_owned_video_staging_directory
Judge ==
  /\ pc = "judge"
  /\ \/ stage.pub = "none" /\ Go("settle") /\ Same
     \/ stage.pub = "torn" /\ Unresolved("settle") /\ Same
     \/ stage.pub = "whole" /\ Spend /\ Blocking
     \/ /\ stage.pub = "whole" /\ Same
        /\ Do(IF Forward THEN "forward" ELSE "back", New)
  /\ UNCHANGED <<library, lib, backup, stage, tx>>

\* recover_staged_publication_step
Step ==
  /\ pc \in {"forward", "back"}
  /\ \E p \in IF pc = "forward" THEN First(Lead) ELSE Final(Lead) :
       LET there   == IF pc = "forward" THEN lib[p] = "new" ELSE p \in stage.files
           movable == IF pc = "forward" THEN p \in stage.files /\ lib[p] = "none"
                      ELSE lib[p] = "new"
           alien   == lib[p] \in {"old", "user"}
       IN  \/ /\ there /\ ~alien /\ Same /\ Past(p)
              /\ UNCHANGED <<lib, stage>>
           \/ /\ movable /\ Same /\ Past(p)
              /\ lib' = [lib EXCEPT ![p] = IF pc = "forward" THEN "new" ELSE "none"]
              /\ stage' = [stage EXCEPT !.files = IF pc = "forward" THEN @ \ {p}
                                                  ELSE @ \cup {p}]
           \/ /\ Refused(alien \/ ~(there \/ movable)) /\ Blocking
              /\ UNCHANGED <<lib, stage>>
  /\ UNCHANGED <<library, backup, tx>>

\* the staging directory goes, with the files of a publication rolled back
Stepped ==
  /\ pc \in {"forward", "back"} /\ todo = {}
  /\ \/ stage' = NoStage /\ Go("settle") /\ Same
     \/ Spend /\ Blocking /\ UNCHANGED stage
  /\ UNCHANGED <<library, lib, backup, tx>>

\* recover_pending_overwrite_transactions_locked: nothing to do, nothing that
\* can be done yet, or nothing it knows
Settle ==
  /\ pc = "settle"
  /\ \/ ~tx.dir /\ Go("mark")
     \/ tx.dir /\ (blocked \/ tx.phase \in {"none", "torn"}) /\ Unresolved("mark")
  /\ UNCHANGED <<library, lib, backup, stage, tx, budget>>

Settling == pc = "settle" /\ tx.dir /\ ~blocked /\ tx.phase \in {"acquired", "committed"}

\* remove_authenticated_recovery_transition_temp: the other half must be
\* readable and name the same target
DropTemp ==
  /\ Settling /\ tx.temp # "none"
  /\ \/ tx.temp # "torn" /\ ~Renamed /\ tx' = [tx EXCEPT !.temp = "none"] /\ UNCHANGED process /\ Same
     \/ Refused(tx.temp = "torn" \/ Renamed) /\ Unresolved("mark") /\ UNCHANGED tx
  /\ UNCHANGED <<library, lib, backup, stage>>

\* recover_overwrite_transaction, acquired
Acquired ==
  /\ Settling /\ tx.temp = "none" /\ tx.phase = "acquired"
  /\ LET missing  == Taken # {} /\ Target \notin Taken /\ lib[Target] = "none"
         occupied == \E p \in Taken : lib[p] # "none"
     IN  \/ Refused(missing) /\ Unresolved("mark") /\ UNCHANGED tx
         \/ /\ ~missing /\ tx' = [tx EXCEPT !.anchors = {}] /\ Same
            /\ IF occupied THEN Unresolved("mark")
               ELSE Do("giveback", Taken)
  /\ UNCHANGED <<library, lib, backup, stage>>

\* the old files return, the video last; then the transaction goes
Return ==
  /\ pc = "giveback"
  /\ \E p \in Final({Target}) :
       \/ lib[p] = "none" /\ Returned(p) /\ Past(p) /\ Same
       \/ Refused(lib[p] # "none") /\ Unresolved("mark") /\ UNCHANGED <<lib, backup>>
  /\ UNCHANGED <<library, stage, tx>>

GivenBack ==
  /\ pc = "giveback" /\ todo = {}
  /\ \/ tx' = NoTx /\ Go("mark") /\ Same
     \/ Spend /\ Unresolved("mark") /\ UNCHANGED tx
  /\ UNCHANGED <<library, lib, backup, stage>>

\* recover_overwrite_transaction, committed
Conclude ==
  /\ Settling /\ tx.temp = "none" /\ tx.phase = "committed"
  /\ \/ Committed(Taken) /\ Do("conclude", Taken) /\ Same
     \/ Refused(~Committed(Taken)) /\ Unresolved("mark")
  /\ UNCHANGED <<library, lib, backup, stage, tx>>

\* remove_bound_file_if_identity, after validate_recovery_committed_files
Discard ==
  /\ pc = "conclude"
  /\ \E p \in Final({Target}) :
       \/ /\ Cleanable({}) /\ backup' = [backup EXCEPT ![p] = "none"]
          /\ Past(p) /\ Same
       \/ Refused(~Cleanable({})) /\ Unresolved("mark") /\ UNCHANGED backup
  /\ UNCHANGED <<library, lib, stage, tx>>

Concluded ==
  /\ pc = "conclude" /\ todo = {}
  /\ \/ Committed({}) /\ tx' = NoTx /\ Go("mark") /\ Same
     \/ Refused(~Committed({})) /\ Unresolved("mark") /\ UNCHANGED tx
  /\ UNCHANGED <<library, lib, backup, stage>>

\* a wrong MarkerAfter: a scan that ran leaves the library clean
CleanAfterScan == "clean"

\* video_recovery_state_after_scan
MarkerAfter == IF failed THEN "dirty" ELSE "clean"

Mark ==
  /\ pc = "mark" /\ marker' = MarkerAfter /\ Fresh("idle")
  /\ UNCHANGED <<plan, lib, backup, stage, tx, touched, budget>>

Recovery ==
  \/ Recover \/ Judge \/ Step \/ Stepped \/ Settle \/ DropTemp \/ Acquired
  \/ Return \/ GivenBack \/ Conclude \/ Discard \/ Concluded \/ Mark

------------------------------------------------------------------------------
(* What may happen between any two steps.                                   *)

\* A file that is being written when the process stops is there, torn, or not.
Crash ==
  /\ pc \in JobSteps \cup RecoverySteps /\ Spend /\ Fresh("down")
  /\ \/ UNCHANGED <<stage, tx>>
     \/ /\ pc = "manifest" /\ UNCHANGED stage
        /\ \E f \in {"torn", "acquired"} : tx' = [tx EXCEPT !.phase = f]
     \/ /\ pc = "prepare" /\ (\A p \in New : lib[p] = "none") /\ UNCHANGED tx
        /\ \E f \in {"torn", "whole"} : stage' = [stage EXCEPT !.pub = f]
     \/ /\ pc = "anchor" /\ todo = {} /\ UNCHANGED stage
        /\ \E f \in {"torn", "committed"} : tx' = [tx EXCEPT !.temp = f]
  /\ UNCHANGED <<library, lib, backup>>

\* another program replaces or removes what is at a path
Touch ==
  /\ Spend
  /\ \E p \in Paths, o \in {"none", "user"} :
       lib[p] # o /\ lib' = [lib EXCEPT ![p] = o] /\ touched' = touched \cup {p}
  /\ UNCHANGED <<plan, backup, stage, tx, marker, process>>

Next == Job \/ Recovery \/ Crash \/ Touch

Spec == Init /\ [][Next]_vars

\* A job runs to its end and recovery to its own; after a stop the service is
\* started again, and with a dirty marker the next job recovers first.
FairSpec == Spec /\ WF_vars(Job \/ Recovery)

------------------------------------------------------------------------------
(* What an interrupted publication promises.                                *)

\* the old files that the new ones replace, and those that stay
Kept     == IF plan.kind = "artifacts" THEN Old \ New ELSE {}
Replaced == Old \ Kept

\* Nobody ever sees some of the new files next to some of those they replace.
\* (the direction of recovery, the order of rollback, retirement and restoring)
NeverMixed ==
  \A p \in New, q \in Replaced : ~(lib[p] = "new" /\ lib[q] = "old")

\* No step but another program's takes a file away unless the transaction has
\* it; and what the transaction has it gives back, or removes once all new
\* files are in the library, each with an anchor, and the phase says so.
\* (acquire_overwrite_path, remove_backups, recover_overwrite_transaction)
OldOutlivesCommit ==
  [][\A p \in Paths :
       /\ lib[p] \in {"old", "user"} /\ lib'[p] # lib[p] =>
            backup'[p] = lib[p] \/ p \in touched'
       /\ backup[p] # "none" /\ backup'[p] = "none" =>
            \/ lib'[p] = backup[p]
            \/ (tx.phase = "committed" /\ Bound)]_vars

AllOld == (\A p \in Old : lib[p] = "old") /\ (\A p \in New : lib[p] # "new")
AllNew == (\A p \in New : lib[p] = "new") /\ (\A p \in Kept : lib[p] = "old")
          /\ (\A p \in Replaced \ New : lib[p] = "none")
Settled == ~tx.dir /\ stage.pub = "none"

\* A library that is marked clean has nothing left to recover, and one without
\* anything to recover shows all of the old files or all of the new ones.
\* (operation_clean, video_recovery_state_after_scan)
SettledIsWhole ==
  pc \in {"done", "idle"} =>
    /\ marker = "clean" => Settled
    /\ Settled /\ touched = {} => AllOld \/ AllNew

\* Every publication is settled in the end, unless another program interfered
\* or a manifest is torn; or the process stopped while the two halves of the
\* manifest of a video with another extension were both there, which recovery
\* takes for those of different transactions.
Stuck ==
  pc = "idle" /\ (\/ touched # {} \/ stage.pub = "torn" \/ (tx.dir /\ tx.phase \in {"none", "torn"})
                      \/ tx.temp = "torn" \/ (Renamed /\ tx.temp # "none"))
PublicationSettles == pc # "new" ~> (Settled /\ pc \in {"done", "idle"}) \/ Stuck
=============================================================================
