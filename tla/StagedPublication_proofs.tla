---------------------- MODULE StagedPublication_proofs ----------------------
(* Theorems of StagedPublication, for every target, its possible            *)
(* replacements, any sidecars, and any number of stops, failures and changes *)
(* by other programs.                                                        *)
EXTENDS StagedPublication, TLAPS

-----------------------------------------------------------------------------
(* The strengthening of the invariants.                                     *)

\* whether some new file, or some file it replaces, is seen in the library
NoNew == \A p \in New : lib[p] # "new"
NoOld == \A p \in Replaced : lib[p] # "old"

\* steps of an overwrite that has not been committed
Uncommitted == {"take", "prepare", "move", "unreplaced", "undo", "retire", "restore",
                "anchor", "exchange", "giveback"}

\* Where the transaction is while the job or recovery works with it.
PhaseOK ==
  /\ plan.kind = "keep" =>
       ~tx.dir /\ pc \notin {"open", "manifest", "take", "unreplaced", "retire",
                              "restore", "anchor", "exchange", "untemp", "clean",
                              "giveback", "conclude"}
  /\ pc \in {"new", "open"} => tx = NoTx
  /\ pc = "manifest" => tx.dir /\ tx.phase = "none"
  /\ pc \in Uncommitted /\ plan.kind # "keep" => tx.dir /\ tx.phase = "acquired"
  /\ pc \in {"untemp", "clean", "conclude"} => tx.dir /\ tx.phase = "committed"
  /\ pc = "forward" => ~tx.dir \/ tx.phase = "committed"
  /\ pc = "back" => tx.dir /\ tx.phase # "committed"
  /\ pc = "finish" => ~tx.dir
  /\ pc = "unreplaced" => plan.kind = "artifacts" /\ todo \cap New = {}
  /\ pc \in {"move", "forward"} => todo \subseteq New

\* What the job holds is what the transaction's directory holds, and what is
\* given back is on the list.
TakenOK ==
  /\ pc \in Holding => \A p \in Paths : p \in held <=> backup[p] # "none"
  /\ pc \in {"new", "open", "manifest"} => held = {} /\ \A p \in Paths : backup[p] = "none"
  /\ plan.kind = "keep" => \A p \in Paths : backup[p] = "none"
  /\ (pc = "restore" /\ ~failed) \/ pc = "giveback" =>
       \A p \in Paths : backup[p] # "none" => p \in todo

\* A new file is in one place, and no overwrite takes it.
ObjectsOK ==
  \A p \in Paths : backup[p] # "new" /\ (lib[p] = "new" => p \in New \ stage.files)

\* The publication manifest is there exactly while its moves may be undone or
\* completed, and recovery gets past it only once they are.
StageOK ==
  /\ pc \in {"move", "unreplaced", "undo", "forward", "back"} => stage.pub = "whole"
  /\ pc \in {"new", "open", "manifest", "take", "prepare", "restore", "giveback"} =>
       stage.pub # "whole"
  /\ pc = "settle" /\ ~blocked => stage.pub # "whole"
  /\ pc \in {"settle", "giveback", "conclude", "mark"} /\ ~failed => stage.pub = "none"
  /\ pc = "mark" /\ ~failed => ~tx.dir
  /\ pc = "done" => Settled
  /\ pc = "idle" /\ marker = "clean" => Settled

\* While the manifest is there the old files are not; once it is gone and the
\* old files are wanted, the new ones are not.
SeenOK ==
  /\ pc \in {"new", "open", "manifest", "take", "prepare", "retire", "restore",
            "giveback"} => NoNew
  /\ pc = "prepare" \/ stage.pub = "whole" => NoOld
  /\ tx.dir /\ tx.phase = "acquired" /\ stage.pub # "whole" => NoNew

\* The new files that are seen are those the process knows of.
MovedOK ==
  \A p \in New : lib[p] = "new" =>
    /\ pc \in {"move", "unreplaced"} => p \in moved
    /\ pc = "undo" => p \in todo \/ failed
    /\ pc = "back" => p \in todo

\* What is overwritten is the video and sidecars of it; nothing if both are kept.
PlanOK ==
  /\ plan \in [kind : Kinds, old : SUBSET Paths, new : SUBSET Paths]
  /\ Old \subseteq {Target} \cup Sidecars
  /\ plan.kind = "keep" => Old = {}

Inv == /\ TypeOK /\ PlanOK /\ PhaseOK /\ TakenOK /\ ObjectsOK /\ StageOK /\ SeenOK
       /\ MovedOK /\ NeverMixed

\* Where the files are, if no other program changes the library: every object
\* is the one that belongs there,
PlacesOK ==
  \A p \in Paths : /\ lib[p] # "user" /\ backup[p] # "user"
                   /\ lib[p] = "old" \/ backup[p] = "old" => p \in Old

\* an old file is in the library or in the transaction until the commit,
KeptOK ==
  /\ pc \in {"new", "open", "manifest"} => \A p \in Old : lib[p] = "old"
  /\ tx.dir /\ tx.phase # "committed" => \A p \in Old : lib[p] = "old" \/ backup[p] = "old"

\* a path that is off the list shows what was to be brought there,
DoneOK ==
  /\ pc \in {"move", "forward"} => \A p \in New \ todo : lib[p] = "new"
  /\ pc = "unreplaced" => /\ \A p \in New : lib[p] = "new"
                          /\ \A p \in Kept \ todo : lib[p] = "old"

\* and what is settled, or will only be completed, is whole.
WholeOK ==
  /\ pc \in {"anchor", "exchange", "finish"} => AllNew
  /\ tx.dir /\ tx.phase = "committed" => AllNew
  /\ ~tx.dir /\ stage.pub # "whole" => AllOld \/ AllNew
  /\ ~tx.dir /\ stage.pub = "whole" /\ plan.kind # "keep" => AllNew

Untouched == PlacesOK /\ KeptOK /\ DoneOK /\ WholeOK

IInv == Inv /\ (touched = {} => Untouched)

-----------------------------------------------------------------------------
\* The parts of TypeOK.
LibType   == lib \in [Paths -> Objects] /\ backup \in [Paths -> Objects]
StageType == stage \in [open : BOOLEAN, files : SUBSET Paths, pub : File]
TxType    == tx \in [dir : BOOLEAN, phase : Phases, temp : Phases, anchors : SUBSET Paths]
RunType   == /\ pc \in Steps /\ todo \subseteq Paths /\ held \subseteq Paths
             /\ moved \subseteq Paths /\ failed \in BOOLEAN /\ blocked \in BOOLEAN
RestType  == /\ plan \in [kind : Kinds, old : SUBSET Paths, new : SUBSET Paths]
             /\ marker \in {"clean", "dirty"} /\ touched \subseteq Paths
             /\ budget \in 0 .. MaxBudget

\* The names of steps, objects, files and phases that actions write.
LEMMA Names ==
  /\ "over" \in Steps /\ "idle" \in Steps /\ "down" \in Steps /\ "done" \in Steps
  /\ "open" \in Steps /\ "manifest" \in Steps /\ "take" \in Steps /\ "prepare" \in Steps
  /\ "move" \in Steps /\ "unreplaced" \in Steps /\ "undo" \in Steps /\ "retire" \in Steps
  /\ "restore" \in Steps /\ "anchor" \in Steps /\ "exchange" \in Steps /\ "untemp" \in Steps
  /\ "clean" \in Steps /\ "finish" \in Steps /\ "judge" \in Steps /\ "forward" \in Steps
  /\ "back" \in Steps /\ "settle" \in Steps /\ "giveback" \in Steps /\ "conclude" \in Steps
  /\ "mark" \in Steps /\ "new" \in Steps
  /\ "none" \in Objects /\ "old" \in Objects /\ "new" \in Objects /\ "user" \in Objects
  /\ "none" \in File /\ "torn" \in File /\ "whole" \in File
  /\ "none" \in Phases /\ "torn" \in Phases
  /\ "acquired" \in Phases /\ "committed" \in Phases
BY DEF Steps, JobSteps, RecoverySteps, Resting, Objects, File, Phases

\* A transaction or a staging directory that is not there is of its type.
LEMMA NoneTyped ==
  NoTx \in [dir : BOOLEAN, phase : Phases, temp : Phases, anchors : SUBSET Paths]
  /\ NoStage \in [open : BOOLEAN, files : SUBSET Paths, pub : File]
BY DEF NoTx, NoStage, Phases, File

\* The transaction's directory holds files of known paths.
LEMMA TakenPaths == Taken \subseteq Paths
BY DEF Taken

\* What a plan says of the paths it names.
LEMMA PlanFacts ==
  ASSUME PlanOK
  PROVE  /\ plan \in [kind : Kinds, old : SUBSET Paths, new : SUBSET Paths]
         /\ plan.kind \in Kinds /\ Old \subseteq Paths /\ New \subseteq Paths
         /\ Old \subseteq {Target} \cup Sidecars
         /\ Outputs \subseteq Paths
         /\ plan.kind = "keep" => Old = {}
         /\ plan.kind # "artifacts" => Kept = {}
BY PublicationAssumption DEF PlanOK, Paths, Old, New, Kept, Outputs

\* The plan of a publication is fixed.
LEMMA PlanStays ==
  ASSUME Next
  PROVE  /\ plan' = plan /\ New' = New /\ Old' = Old /\ Replaced' = Replaced /\ Kept' = Kept
         /\ Outputs' = Outputs
<1>1. plan' = plan
  <2> USE DEF library
  <2>1. CASE Begin \/ OpenTx \/ WriteTx \/ Take \/ Validate \/ Prepare
             \/ Move \/ Moved \/ Unreplaced
    BY <2>1 DEF Begin, OpenTx, WriteTx, Take, Validate, Prepare, Move, Moved, Unreplaced
  <2>2. CASE Undo \/ Undone \/ Retire \/ Restore \/ Restored \/ Anchor
             \/ WriteTemp \/ Exchange \/ Untemp
    BY <2>2 DEF Undo, Undone, Retire, Restore, Restored, Anchor, WriteTemp, Exchange,
       Untemp
  <2>3. CASE Clean \/ Cleaned \/ Finish \/ Recover \/ Judge \/ Step
             \/ Stepped \/ Settle \/ DropTemp
    BY <2>3 DEF Clean, Cleaned, Finish, Recover, Judge, Step, Stepped, Settle, DropTemp
  <2>4. CASE Acquired \/ Return \/ GivenBack \/ Conclude \/ Discard
             \/ Concluded \/ Mark \/ Crash \/ Touch
    BY <2>4 DEF Acquired, Return, GivenBack, Conclude, Discard, Concluded, Mark, Crash,
       Touch
  <2> QED BY <2>1, <2>2, <2>3, <2>4 DEF Next, Job, Recovery
<1> QED BY <1>1 DEF New, Old, Replaced, Kept, Outputs

\* The process keeps lists of paths: no action adds anything else.
LEMMA RunTyped ==
  ASSUME RunType, PlanOK, Next
  PROVE  RunType'
<1> USE Names, PlanFacts, PublicationAssumption, TakenPaths
<1> USE DEF RunType, First, Final, Spend, Same, Go, Over, Do, Past, Missed, Fresh,
   Refused, library, memory, process
<1>1. CASE Begin
  BY <1>1 DEF Begin
<1>2. CASE OpenTx
  BY <1>2 DEF OpenTx
<1>3. CASE WriteTx
  BY <1>3 DEF WriteTx, Paths
<1>4. CASE Take
  BY <1>4 DEF Take, GiveBack
<1>5. CASE Validate
  BY <1>5 DEF Validate, GiveBack
<1>6. CASE Prepare
  BY <1>6 DEF Prepare, Unpublished
<1>7. CASE Move
  BY <1>7 DEF Move, Undoing
<1>8. CASE Moved
  BY <1>8 DEF Moved
<1>9. CASE Unreplaced
  BY <1>9 DEF Unreplaced, Returned, Handed, Undoing
<1>10. CASE Undo
  BY <1>10 DEF Undo
<1>11. CASE Undone
  BY <1>11 DEF Undone, Unpublished
<1>12. CASE Retire
  BY <1>12 DEF Retire, GiveBack
<1>13. CASE Restore
  BY <1>13 DEF Restore, Returned
<1>14. CASE Restored
  BY <1>14 DEF Restored
<1>15. CASE Anchor
  BY <1>15 DEF Anchor, Out
<1>16. CASE WriteTemp
  BY <1>16 DEF WriteTemp
<1>17. CASE Exchange
  BY <1>17 DEF Exchange
<1>18. CASE Untemp
  BY <1>18 DEF Untemp
<1>19. CASE Clean
  BY <1>19 DEF Clean
<1>20. CASE Cleaned
  BY <1>20 DEF Cleaned
<1>21. CASE Finish
  BY <1>21 DEF Finish
<1>22. CASE Recover
  BY <1>22 DEF Recover
<1>23. CASE Judge
  BY <1>23 DEF Judge, Blocking, Unresolved
<1>24. CASE Step
  BY <1>24 DEF Step, Blocking
<1>25. CASE Stepped
  BY <1>25 DEF Stepped, Blocking
<1>26. CASE Settle
  BY <1>26 DEF Settle, Unresolved
<1>27. CASE DropTemp
  BY <1>27 DEF DropTemp, Unresolved
<1>28. CASE Acquired
  BY <1>28 DEF Acquired, Unresolved
<1>29. CASE Return
  BY <1>29 DEF Return, Unresolved, Returned
<1>30. CASE GivenBack
  BY <1>30 DEF GivenBack, Unresolved
<1>31. CASE Conclude
  BY <1>31 DEF Conclude, Unresolved
<1>32. CASE Discard
  BY <1>32 DEF Discard, Unresolved
<1>33. CASE Concluded
  BY <1>33 DEF Concluded, Unresolved
<1>34. CASE Mark
  BY <1>34 DEF Mark, MarkerAfter
<1>35. CASE Crash
  BY <1>35 DEF Crash
<1>36. CASE Touch
  BY <1>36 DEF Touch
<1> QED BY <1>1, <1>2, <1>3, <1>4, <1>5, <1>6, <1>7, <1>8, <1>9, <1>10, <1>11, <1>12,
   <1>13, <1>14, <1>15, <1>16, <1>17, <1>18, <1>19, <1>20, <1>21, <1>22, <1>23, <1>24,
   <1>25, <1>26, <1>27, <1>28, <1>29, <1>30, <1>31, <1>32, <1>33, <1>34, <1>35, <1>36 DEF
   Next, Job, Recovery

\* Every path has one object in the library and one in the transaction.
LEMMA LibTyped ==
  ASSUME LibType, RunType, Next
  PROVE  LibType'
<1> USE Names
<1> USE DEF LibType, RunType, First, Final
<1>1. CASE Take
  BY <1>1 DEF Take
<1>2. CASE Move
  BY <1>2 DEF Move
<1>3. CASE Unreplaced
  BY <1>3 DEF Unreplaced, Returned
<1>4. CASE Undo
  BY <1>4 DEF Undo
<1>5. CASE Restore
  BY <1>5 DEF Restore, Returned
<1>6. CASE Step
  BY <1>6 DEF Step
<1>7. CASE Return
  BY <1>7 DEF Return, Returned
<1>8. CASE Touch
  BY <1>8 DEF Touch
<1>9. CASE Clean
  BY <1>9 DEF Clean
<1>10. CASE Discard
  BY <1>10 DEF Discard
<1>11. CASE Begin \/ OpenTx \/ WriteTx \/ Validate \/ Prepare \/ Moved
            \/ Undone \/ Retire \/ Restored \/ Anchor \/ WriteTemp \/ Exchange \/ Untemp
            \/ Cleaned \/ Finish \/ Recover \/ Judge \/ Stepped \/ Settle \/ DropTemp
            \/ Acquired \/ GivenBack \/ Conclude \/ Concluded \/ Mark \/ Crash
  <2>1. UNCHANGED <<lib, backup>>
    BY <1>11 DEF Begin, OpenTx, WriteTx, Validate, Prepare, Moved, Undone, Retire,
       Restored, Anchor, WriteTemp, Exchange, Untemp, Cleaned, Finish, Recover, Judge,
       Stepped, Settle, DropTemp, Acquired, GivenBack, Conclude, Concluded, Mark, Crash
  <2> QED BY <2>1
<1> QED BY <1>1, <1>2, <1>3, <1>4, <1>5, <1>6, <1>7, <1>8, <1>9, <1>10, <1>11 DEF Next,
   Job, Recovery

\* The staging directory holds files of known paths.
LEMMA StageTyped ==
  ASSUME StageType, RunType, Next
  PROVE  StageType'
<1> USE Names, NoneTyped
<1> USE DEF StageType, RunType, First, Final
<1>1. CASE Prepare
  BY <1>1 DEF Prepare
<1>2. CASE Move
  BY <1>2 DEF Move
<1>3. CASE Undo
  BY <1>3 DEF Undo
<1>4. CASE Retire
  BY <1>4 DEF Retire
<1>5. CASE Finish
  BY <1>5 DEF Finish
<1>6. CASE Step
  BY <1>6 DEF Step
<1>7. CASE Stepped
  BY <1>7 DEF Stepped
<1>8. CASE Crash
  BY <1>8 DEF Crash
<1>9. CASE Begin \/ OpenTx \/ WriteTx \/ Take \/ Validate \/ Moved
           \/ Unreplaced \/ Undone \/ Restore \/ Restored \/ Anchor \/ WriteTemp
           \/ Exchange \/ Untemp \/ Clean \/ Cleaned \/ Recover \/ Judge \/ Settle
           \/ DropTemp \/ Acquired \/ Return \/ GivenBack \/ Conclude \/ Discard
           \/ Concluded \/ Mark \/ Touch
  <2>1. UNCHANGED <<stage>>
    BY <1>9 DEF Begin, OpenTx, WriteTx, Take, Validate, Moved, Unreplaced, Undone,
       Restore, Restored, Anchor, WriteTemp, Exchange, Untemp, Clean, Cleaned, Recover,
       Judge, Settle, DropTemp, Acquired, Return, GivenBack, Conclude, Discard, Concluded,
       Mark, Touch
  <2> QED BY <2>1
<1> QED BY <1>1, <1>2, <1>3, <1>4, <1>5, <1>6, <1>7, <1>8, <1>9 DEF Next, Job, Recovery

\* The transaction's manifest is absent, torn or of one of its two phases.
LEMMA TxTyped ==
  ASSUME TxType, RunType, Next
  PROVE  TxType'
<1> USE Names, NoneTyped
<1> USE DEF TxType, RunType
<1>1. CASE OpenTx
  BY <1>1 DEF OpenTx
<1>2. CASE WriteTx
  BY <1>2 DEF WriteTx
<1>3. CASE Restored
  BY <1>3 DEF Restored
<1>4. CASE Anchor
  BY <1>4 DEF Anchor
<1>5. CASE WriteTemp
  BY <1>5 DEF WriteTemp
<1>6. CASE Exchange
  BY <1>6 DEF Exchange
<1>7. CASE Untemp
  BY <1>7 DEF Untemp
<1>8. CASE Cleaned
  BY <1>8 DEF Cleaned
<1>9. CASE DropTemp
  BY <1>9 DEF DropTemp
<1>10. CASE Acquired
  BY <1>10 DEF Acquired
<1>11. CASE GivenBack
  BY <1>11 DEF GivenBack
<1>12. CASE Concluded
  BY <1>12 DEF Concluded
<1>13. CASE Crash
  BY <1>13 DEF Crash
<1>14. CASE Begin \/ Take \/ Validate \/ Prepare \/ Move \/ Moved
            \/ Unreplaced \/ Undo \/ Undone \/ Retire \/ Restore \/ Clean \/ Finish
            \/ Recover \/ Judge \/ Step \/ Stepped \/ Settle \/ Return \/ Conclude
            \/ Discard \/ Mark \/ Touch
  <2>1. UNCHANGED <<tx>>
    BY <1>14 DEF Begin, Take, Validate, Prepare, Move, Moved, Unreplaced, Undo, Undone,
       Retire, Restore, Clean, Finish, Recover, Judge, Step, Stepped, Settle, Return,
       Conclude, Discard, Mark, Touch
  <2> QED BY <2>1
<1> QED BY <1>1, <1>2, <1>3, <1>4, <1>5, <1>6, <1>7, <1>8, <1>9, <1>10, <1>11, <1>12,
   <1>13, <1>14 DEF Next, Job, Recovery

-----------------------------------------------------------------------------
(* Where a step finds things, and what it leaves.                          *)

\* Every action keeps PhaseOK: the steps of a job and of recovery follow the
\* phase of the transaction.
LEMMA PhaseStep ==
  ASSUME TxType, PhaseOK, plan.kind \in Kinds, Next
  PROVE  PhaseOK'
<1> USE PlanStays
<1> USE DEF TxType, PhaseOK, Uncommitted, Kinds, Spend, Same, Go, Over, Do, Past,
   Missed, Fresh, Refused, library, memory, process
<1>1. CASE Begin
  BY <1>1 DEF Begin, NoTx
<1>2. CASE OpenTx
  BY <1>2 DEF OpenTx, NoTx
<1>3. CASE WriteTx
  BY <1>3 DEF WriteTx, NoTx
<1>4. CASE Take
  BY <1>4 DEF Take, GiveBack
<1>5. CASE Validate
  BY <1>5 DEF Validate, GiveBack
<1>6. CASE Prepare
  BY <1>6 DEF Prepare, Unpublished
<1>7. CASE Move
  BY <1>7 DEF Move, Undoing
<1>8. CASE Moved
  BY <1>8 DEF Moved
<1>9. CASE Unreplaced
  BY <1>9 DEF Unreplaced, Undoing
<1>10. CASE Undo
  BY <1>10 DEF Undo
<1>11. CASE Undone
  BY <1>11 DEF Undone, Unpublished
<1>12. CASE Retire
  BY <1>12 DEF Retire, GiveBack
<1>13. CASE Restore
  BY <1>13 DEF Restore
<1>14. CASE Restored
  BY <1>14 DEF Restored, NoTx
<1>15. CASE Anchor
  BY <1>15 DEF Anchor
<1>16. CASE WriteTemp
  BY <1>16 DEF WriteTemp
<1>17. CASE Exchange
  BY <1>17 DEF Exchange
<1>18. CASE Untemp
  BY <1>18 DEF Untemp
<1>19. CASE Clean
  BY <1>19 DEF Clean
<1>20. CASE Cleaned
  BY <1>20 DEF Cleaned, NoTx
<1>21. CASE Finish
  BY <1>21 DEF Finish
<1>22. CASE Recover
  BY <1>22 DEF Recover
<1>23. CASE Judge
  BY <1>23 DEF Judge, Blocking, Unresolved, Forward
<1>24. CASE Step
  BY <1>24 DEF Step, Blocking
<1>25. CASE Stepped
  BY <1>25 DEF Stepped, Blocking
<1>26. CASE Settle
  BY <1>26 DEF Settle, Unresolved
<1>27. CASE DropTemp
  BY <1>27 DEF DropTemp, Unresolved, Settling
<1>28. CASE Acquired
  BY <1>28 DEF Acquired, Unresolved, Settling
<1>29. CASE Return
  BY <1>29 DEF Return, Unresolved
<1>30. CASE GivenBack
  BY <1>30 DEF GivenBack, Unresolved, NoTx
<1>31. CASE Conclude
  BY <1>31 DEF Conclude, Unresolved, Settling
<1>32. CASE Discard
  BY <1>32 DEF Discard, Unresolved
<1>33. CASE Concluded
  BY <1>33 DEF Concluded, Unresolved, NoTx
<1>34. CASE Mark
  BY <1>34 DEF Mark
<1>35. CASE Crash
  BY <1>35 DEF Crash
<1>36. CASE Touch
  BY <1>36 DEF Touch
<1> QED BY <1>1, <1>2, <1>3, <1>4, <1>5, <1>6, <1>7, <1>8, <1>9, <1>10, <1>11, <1>12,
   <1>13, <1>14, <1>15, <1>16, <1>17, <1>18, <1>19, <1>20, <1>21, <1>22, <1>23, <1>24,
   <1>25, <1>26, <1>27, <1>28, <1>29, <1>30, <1>31, <1>32, <1>33, <1>34, <1>35, <1>36 DEF
   Next, Job, Recovery

\* Every action keeps TakenOK: acquired.backups is what the directory holds.
LEMMA TakenStep ==
  ASSUME LibType, RunType, TakenOK, PhaseOK, plan.kind \in Kinds, Next
  PROVE  TakenOK'
<1> USE PlanStays, Names
<1> USE DEF LibType, RunType, TakenOK, PhaseOK, Uncommitted, Kinds, Holding, First,
   Final, Spend, Same, Go, Over, Do, Past, Missed, Fresh, Refused, library, memory, process
<1>1. CASE Begin
  BY <1>1 DEF Begin
<1>2. CASE OpenTx
  BY <1>2 DEF OpenTx
<1>3. CASE WriteTx
  BY <1>3 DEF WriteTx
<1>4. CASE Take
  BY <1>4 DEF Take, GiveBack
<1>5. CASE Validate
  BY <1>5 DEF Validate, GiveBack
<1>6. CASE Prepare
  BY <1>6 DEF Prepare, Unpublished
<1>7. CASE Move
  BY <1>7 DEF Move, Undoing
<1>8. CASE Moved
  BY <1>8 DEF Moved
<1>9. CASE Unreplaced
  BY <1>9 DEF Unreplaced, Returned, Handed, Undoing
<1>10. CASE Undo
  BY <1>10 DEF Undo
<1>11. CASE Undone
  BY <1>11 DEF Undone, Unpublished
<1>12. CASE Retire
  BY <1>12 DEF Retire, GiveBack
<1>13. CASE Restore
  BY <1>13 DEF Restore, Returned
<1>14. CASE Restored
  BY <1>14 DEF Restored
<1>15. CASE Anchor
  BY <1>15 DEF Anchor
<1>16. CASE WriteTemp
  BY <1>16 DEF WriteTemp
<1>17. CASE Exchange
  BY <1>17 DEF Exchange
<1>18. CASE Untemp
  BY <1>18 DEF Untemp
<1>19. CASE Clean
  BY <1>19 DEF Clean
<1>20. CASE Cleaned
  BY <1>20 DEF Cleaned
<1>21. CASE Finish
  BY <1>21 DEF Finish
<1>22. CASE Recover
  BY <1>22 DEF Recover
<1>23. CASE Judge
  BY <1>23 DEF Judge, Blocking, Unresolved, Forward
<1>24. CASE Step
  BY <1>24 DEF Step, Blocking
<1>25. CASE Stepped
  BY <1>25 DEF Stepped, Blocking
<1>26. CASE Settle
  BY <1>26 DEF Settle, Unresolved
<1>27. CASE DropTemp
  BY <1>27 DEF DropTemp, Unresolved, Settling
<1>28. CASE Acquired
  BY <1>28 DEF Acquired, Unresolved, Settling, Taken
<1>29. CASE Return
  BY <1>29 DEF Return, Unresolved, Returned
<1>30. CASE GivenBack
  BY <1>30 DEF GivenBack, Unresolved
<1>31. CASE Conclude
  BY <1>31 DEF Conclude, Unresolved, Settling, Taken
<1>32. CASE Discard
  BY <1>32 DEF Discard, Unresolved
<1>33. CASE Concluded
  BY <1>33 DEF Concluded, Unresolved
<1>34. CASE Mark
  BY <1>34 DEF Mark
<1>35. CASE Crash
  BY <1>35 DEF Crash
<1>36. CASE Touch
  BY <1>36 DEF Touch
<1> QED BY <1>1, <1>2, <1>3, <1>4, <1>5, <1>6, <1>7, <1>8, <1>9, <1>10, <1>11, <1>12,
   <1>13, <1>14, <1>15, <1>16, <1>17, <1>18, <1>19, <1>20, <1>21, <1>22, <1>23, <1>24,
   <1>25, <1>26, <1>27, <1>28, <1>29, <1>30, <1>31, <1>32, <1>33, <1>34, <1>35, <1>36 DEF
   Next, Job, Recovery

\* Every action keeps ObjectsOK: a new file is in one place, and is never taken.
LEMMA ObjectsStep ==
  ASSUME LibType, StageType, RunType, ObjectsOK, SeenOK, PhaseOK, New \subseteq Paths,
         Next
  PROVE  ObjectsOK'
<1> USE PlanStays
<1> USE DEF LibType, StageType, RunType, ObjectsOK, First, Final
<1>1. CASE Take
  BY <1>1 DEF Take, SeenOK, NoNew
<1>2. CASE Move
  BY <1>2 DEF Move, PhaseOK
<1>3. CASE Unreplaced
  BY <1>3 DEF Unreplaced, Returned
<1>4. CASE Undo
  BY <1>4 DEF Undo
<1>5. CASE Restore
  BY <1>5 DEF Restore, Returned
<1>6. CASE Step
  BY <1>6 DEF Step, PhaseOK
<1>7. CASE Return
  BY <1>7 DEF Return, Returned
<1>8. CASE Touch
  BY <1>8 DEF Touch
<1>9. CASE Clean
  BY <1>9 DEF Clean
<1>10. CASE Discard
  BY <1>10 DEF Discard
<1>11. CASE Prepare
  BY <1>11 DEF Prepare
<1>12. CASE Retire
  BY <1>12 DEF Retire
<1>13. CASE Finish
  BY <1>13 DEF Finish, NoStage
<1>14. CASE Stepped
  BY <1>14 DEF Stepped, NoStage
<1>15. CASE Crash
  BY <1>15 DEF Crash
<1>16. CASE Begin \/ OpenTx \/ WriteTx \/ Validate \/ Moved \/ Undone
            \/ Restored \/ Anchor \/ WriteTemp \/ Exchange \/ Untemp \/ Cleaned
            \/ Recover \/ Judge \/ Settle \/ DropTemp \/ Acquired \/ GivenBack
            \/ Conclude \/ Concluded \/ Mark
  <2>1. UNCHANGED <<lib, backup, stage>>
    BY <1>16 DEF Begin, OpenTx, WriteTx, Validate, Moved, Undone, Restored, Anchor,
       WriteTemp, Exchange, Untemp, Cleaned, Recover, Judge, Settle, DropTemp, Acquired,
       GivenBack, Conclude, Concluded, Mark
  <2> QED BY <2>1
<1> QED BY <1>1, <1>2, <1>3, <1>4, <1>5, <1>6, <1>7, <1>8, <1>9, <1>10, <1>11, <1>12,
   <1>13, <1>14, <1>15, <1>16 DEF Next, Job, Recovery

\* Every action keeps StageOK: nothing gets past the publication manifest.
LEMMA StageStep ==
  ASSUME StageType, TxType, StageOK, PhaseOK, Next
  PROVE  StageOK'
<1> USE PlanStays
<1> USE DEF StageType, TxType, StageOK, PhaseOK, Uncommitted, Settled, Spend, Same, Go,
   Over, Do, Past, Missed, Fresh, Refused, library, memory, process
<1>1. CASE Begin
  BY <1>1 DEF Begin, NoTx
<1>2. CASE OpenTx
  BY <1>2 DEF OpenTx, NoTx
<1>3. CASE WriteTx
  BY <1>3 DEF WriteTx, NoTx
<1>4. CASE Take
  BY <1>4 DEF Take, GiveBack
<1>5. CASE Validate
  BY <1>5 DEF Validate, GiveBack
<1>6. CASE Prepare
  BY <1>6 DEF Prepare, Unpublished
<1>7. CASE Move
  BY <1>7 DEF Move, Undoing
<1>8. CASE Moved
  BY <1>8 DEF Moved
<1>9. CASE Unreplaced
  BY <1>9 DEF Unreplaced, Undoing
<1>10. CASE Undo
  BY <1>10 DEF Undo
<1>11. CASE Undone
  BY <1>11 DEF Undone, Unpublished
<1>12. CASE Retire
  BY <1>12 DEF Retire, GiveBack
<1>13. CASE Restore
  BY <1>13 DEF Restore
<1>14. CASE Restored
  BY <1>14 DEF Restored, NoTx
<1>15. CASE Anchor
  BY <1>15 DEF Anchor
<1>16. CASE WriteTemp
  BY <1>16 DEF WriteTemp
<1>17. CASE Exchange
  BY <1>17 DEF Exchange
<1>18. CASE Untemp
  BY <1>18 DEF Untemp
<1>19. CASE Clean
  BY <1>19 DEF Clean
<1>20. CASE Cleaned
  BY <1>20 DEF Cleaned, NoTx
<1>21. CASE Finish
  BY <1>21 DEF Finish, NoStage, NoTx
<1>22. CASE Recover
  BY <1>22 DEF Recover
<1>23. CASE Judge
  BY <1>23 DEF Judge, Blocking, Unresolved, Forward
<1>24. CASE Step
  BY <1>24 DEF Step, Blocking
<1>25. CASE Stepped
  BY <1>25 DEF Stepped, Blocking, NoStage
<1>26. CASE Settle
  BY <1>26 DEF Settle, Unresolved
<1>27. CASE DropTemp
  BY <1>27 DEF DropTemp, Unresolved, Settling
<1>28. CASE Acquired
  BY <1>28 DEF Acquired, Unresolved, Settling
<1>29. CASE Return
  BY <1>29 DEF Return, Unresolved
<1>30. CASE GivenBack
  BY <1>30 DEF GivenBack, Unresolved, NoTx
<1>31. CASE Conclude
  BY <1>31 DEF Conclude, Unresolved, Settling
<1>32. CASE Discard
  BY <1>32 DEF Discard, Unresolved
<1>33. CASE Concluded
  BY <1>33 DEF Concluded, Unresolved, NoTx
<1>34. CASE Mark
  BY <1>34 DEF Mark, MarkerAfter
<1>35. CASE Crash
  BY <1>35 DEF Crash
<1>36. CASE Touch
  BY <1>36 DEF Touch
<1> QED BY <1>1, <1>2, <1>3, <1>4, <1>5, <1>6, <1>7, <1>8, <1>9, <1>10, <1>11, <1>12,
   <1>13, <1>14, <1>15, <1>16, <1>17, <1>18, <1>19, <1>20, <1>21, <1>22, <1>23, <1>24,
   <1>25, <1>26, <1>27, <1>28, <1>29, <1>30, <1>31, <1>32, <1>33, <1>34, <1>35, <1>36 DEF
   Next, Job, Recovery

-----------------------------------------------------------------------------
(* What comes to be seen, and when.                                        *)

\* A new file comes to be seen by a move only.
LEMMA NewSeen ==
  ASSUME LibType, RunType, ObjectsOK, Next
  PROVE  \A p \in Paths :
           lib'[p] = "new" => lib[p] = "new" \/ (pc \in {"move", "forward"} /\ p \in todo)
<1> USE DEF LibType, RunType, ObjectsOK, First, Final
<1>1. CASE Take
  BY <1>1 DEF Take
<1>2. CASE Move
  BY <1>2 DEF Move
<1>3. CASE Unreplaced
  BY <1>3 DEF Unreplaced, Returned
<1>4. CASE Undo
  BY <1>4 DEF Undo
<1>5. CASE Restore
  BY <1>5 DEF Restore, Returned
<1>6. CASE Step
  BY <1>6 DEF Step
<1>7. CASE Return
  BY <1>7 DEF Return, Returned
<1>8. CASE Touch
  BY <1>8 DEF Touch
<1>9. CASE Begin \/ OpenTx \/ WriteTx \/ Validate \/ Prepare \/ Moved
           \/ Undone \/ Retire \/ Restored \/ Anchor \/ WriteTemp \/ Exchange \/ Untemp
           \/ Clean \/ Cleaned \/ Finish \/ Recover \/ Judge \/ Stepped \/ Settle
           \/ DropTemp \/ Acquired \/ GivenBack \/ Conclude \/ Discard \/ Concluded
           \/ Mark \/ Crash
  <2>1. UNCHANGED <<lib>>
    BY <1>9 DEF Begin, OpenTx, WriteTx, Validate, Prepare, Moved, Undone, Retire,
       Restored, Anchor, WriteTemp, Exchange, Untemp, Clean, Cleaned, Finish, Recover,
       Judge, Stepped, Settle, DropTemp, Acquired, GivenBack, Conclude, Discard, Concluded,
       Mark, Crash
  <2> QED BY <2>1
<1> QED BY <1>1, <1>2, <1>3, <1>4, <1>5, <1>6, <1>7, <1>8, <1>9 DEF Next, Job, Recovery

\* An old file comes to be seen again when it is given back only.
LEMMA OldSeen ==
  ASSUME LibType, RunType, PhaseOK, Next
  PROVE  \A p \in Paths :
           lib'[p] = "old" => \/ lib[p] = "old" \/ pc \in {"restore", "giveback"}
                              \/ (pc = "unreplaced" /\ p \notin New)
<1> USE DEF LibType, RunType, First, Final
<1>1. CASE Take
  BY <1>1 DEF Take
<1>2. CASE Move
  BY <1>2 DEF Move
<1>3. CASE Unreplaced
  BY <1>3 DEF Unreplaced, Returned, PhaseOK
<1>4. CASE Undo
  BY <1>4 DEF Undo
<1>5. CASE Restore
  BY <1>5 DEF Restore, Returned
<1>6. CASE Step
  BY <1>6 DEF Step
<1>7. CASE Return
  BY <1>7 DEF Return, Returned
<1>8. CASE Touch
  BY <1>8 DEF Touch
<1>9. CASE Begin \/ OpenTx \/ WriteTx \/ Validate \/ Prepare \/ Moved
           \/ Undone \/ Retire \/ Restored \/ Anchor \/ WriteTemp \/ Exchange \/ Untemp
           \/ Clean \/ Cleaned \/ Finish \/ Recover \/ Judge \/ Stepped \/ Settle
           \/ DropTemp \/ Acquired \/ GivenBack \/ Conclude \/ Discard \/ Concluded
           \/ Mark \/ Crash
  <2>1. UNCHANGED <<lib>>
    BY <1>9 DEF Begin, OpenTx, WriteTx, Validate, Prepare, Moved, Undone, Retire,
       Restored, Anchor, WriteTemp, Exchange, Untemp, Clean, Cleaned, Finish, Recover,
       Judge, Stepped, Settle, DropTemp, Acquired, GivenBack, Conclude, Discard, Concluded,
       Mark, Crash
  <2> QED BY <2>1
<1> QED BY <1>1, <1>2, <1>3, <1>4, <1>5, <1>6, <1>7, <1>8, <1>9 DEF Next, Job, Recovery

\* Every action keeps MovedOK: no move is forgotten before it is undone.
LEMMA MovedStep ==
  ASSUME LibType, StageType, TxType, RunType, PhaseOK, StageOK, ObjectsOK, MovedOK,
         SeenOK, New \subseteq Paths, Next
  PROVE  MovedOK'
<1> USE PlanStays
<1> USE DEF LibType, RunType, MovedOK, First, Final, Spend, Same, Go, Over, Do, Past,
   Missed, Fresh, Refused, library, memory, process
<1>1. CASE Begin
  BY <1>1 DEF Begin
<1>2. CASE OpenTx
  BY <1>2 DEF OpenTx
<1>3. CASE WriteTx
  BY <1>3 DEF WriteTx
<1>4. CASE Take
  BY <1>4 DEF Take, GiveBack
<1>5. CASE Validate
  BY <1>5 DEF Validate, GiveBack
<1>6. CASE Prepare
  BY <1>6 DEF Prepare, Unpublished, SeenOK, NoNew
<1>7. CASE Move
  BY <1>7 DEF Move, Undoing
<1>8. CASE Moved
  BY <1>8 DEF Moved
<1>9. CASE Unreplaced
  BY <1>9 DEF Unreplaced, Returned, Handed, Undoing, ObjectsOK
<1>10. CASE Undo
  BY <1>10 DEF Undo
<1>11. CASE Undone
  BY <1>11 DEF Undone, Unpublished
<1>12. CASE Retire
  BY <1>12 DEF Retire, GiveBack
<1>13. CASE Restore
  BY <1>13 DEF Restore, Returned
<1>14. CASE Restored
  BY <1>14 DEF Restored
<1>15. CASE Anchor
  BY <1>15 DEF Anchor
<1>16. CASE WriteTemp
  BY <1>16 DEF WriteTemp
<1>17. CASE Exchange
  BY <1>17 DEF Exchange
<1>18. CASE Untemp
  BY <1>18 DEF Untemp
<1>19. CASE Clean
  BY <1>19 DEF Clean
<1>20. CASE Cleaned
  BY <1>20 DEF Cleaned
<1>21. CASE Finish
  BY <1>21 DEF Finish
<1>22. CASE Recover
  BY <1>22 DEF Recover
<1>23. CASE Judge
  BY <1>23 DEF Judge, Blocking, Unresolved, Forward
<1>24. CASE Step
  BY <1>24 DEF Step, Blocking, ObjectsOK
<1>25. CASE Stepped
  BY <1>25 DEF Stepped, Blocking
<1>26. CASE Settle
  BY <1>26 DEF Settle, Unresolved
<1>27. CASE DropTemp
  BY <1>27 DEF DropTemp, Unresolved, Settling
<1>28. CASE Acquired
  BY <1>28 DEF Acquired, Unresolved, Settling
<1>29. CASE Return
  BY <1>29 DEF Return, Unresolved, Returned
<1>30. CASE GivenBack
  BY <1>30 DEF GivenBack, Unresolved
<1>31. CASE Conclude
  BY <1>31 DEF Conclude, Unresolved, Settling
<1>32. CASE Discard
  BY <1>32 DEF Discard, Unresolved
<1>33. CASE Concluded
  BY <1>33 DEF Concluded, Unresolved
<1>34. CASE Mark
  BY <1>34 DEF Mark
<1>35. CASE Crash
  BY <1>35 DEF Crash
<1>36. CASE Touch
  BY <1>36 DEF Touch
<1> QED BY <1>1, <1>2, <1>3, <1>4, <1>5, <1>6, <1>7, <1>8, <1>9, <1>10, <1>11, <1>12,
   <1>13, <1>14, <1>15, <1>16, <1>17, <1>18, <1>19, <1>20, <1>21, <1>22, <1>23, <1>24,
   <1>25, <1>26, <1>27, <1>28, <1>29, <1>30, <1>31, <1>32, <1>33, <1>34, <1>35, <1>36 DEF
   Next, Job, Recovery

\* While nothing is moved, no new file comes to be seen.
LEMMA NoNewStays ==
  ASSUME LibType, RunType, ObjectsOK, New \subseteq Paths, Next, NoNew, pc \notin
         {"move", "forward"}
  PROVE  NoNew'
BY NewSeen, PlanStays DEF NoNew

\* While nothing is given back, no replaced file comes to be seen.
LEMMA NoOldStays ==
  ASSUME LibType, RunType, PhaseOK, plan.kind \in Kinds, Old \subseteq Paths, Next, NoOld,
         pc \notin {"restore", "giveback"}
  PROVE  NoOld'
<1>1. \A p \in Replaced : p \in Paths /\ (pc = "unreplaced" => p \in New)
  BY DEF Replaced, Kept, PhaseOK
<1> QED BY <1>1, OldSeen, PlanStays DEF NoOld

\* Every action keeps SeenOK: rollback before retirement before giving back.
LEMMA SeenStep ==
  ASSUME LibType, StageType, TxType, RunType, PhaseOK, StageOK, ObjectsOK, MovedOK,
         SeenOK, PlanOK, Next
  PROVE  SeenOK'
<1> USE PlanFacts, NoNewStays, NoOldStays
<1> USE DEF StageType, TxType, StageOK, PhaseOK, SeenOK, Uncommitted, Spend, Same, Go,
   Over, Do, Past, Missed, Fresh, Refused, library, memory, process
<1>1. CASE Begin
  BY <1>1 DEF Begin, NoOld, Replaced
<1>2. CASE OpenTx
  BY <1>2 DEF OpenTx, NoTx
<1>3. CASE WriteTx
  BY <1>3 DEF WriteTx, NoTx
<1>4. CASE Take
  BY <1>4 DEF Take, GiveBack
<1>5. CASE Validate
  BY <1>5 DEF Validate, GiveBack, NoOld, Replaced
<1>6. CASE Prepare
  BY <1>6 DEF Prepare, Unpublished
<1>7. CASE Move
  BY <1>7 DEF Move, Undoing
<1>8. CASE Moved
  BY <1>8 DEF Moved
<1>9. CASE Unreplaced
  BY <1>9 DEF Unreplaced, Undoing
<1>10. CASE Undo
  BY <1>10 DEF Undo
<1>11. CASE Undone
  BY <1>11 DEF Undone, Unpublished, Retirable, MovedOK, NoNew
<1>12. CASE Retire
  BY <1>12 DEF Retire, GiveBack
<1>13. CASE Restore
  BY <1>13 DEF Restore
<1>14. CASE Restored
  BY <1>14 DEF Restored, NoTx
<1>15. CASE Anchor
  BY <1>15 DEF Anchor
<1>16. CASE WriteTemp
  BY <1>16 DEF WriteTemp
<1>17. CASE Exchange
  BY <1>17 DEF Exchange
<1>18. CASE Untemp
  BY <1>18 DEF Untemp
<1>19. CASE Clean
  BY <1>19 DEF Clean
<1>20. CASE Cleaned
  BY <1>20 DEF Cleaned, NoTx
<1>21. CASE Finish
  BY <1>21 DEF Finish, NoStage
<1>22. CASE Recover
  BY <1>22 DEF Recover
<1>23. CASE Judge
  BY <1>23 DEF Judge, Blocking, Unresolved, Forward
<1>24. CASE Step
  BY <1>24 DEF Step, Blocking
<1>25. CASE Stepped
  BY <1>25 DEF Stepped, Blocking, NoStage, MovedOK, NoNew
<1>26. CASE Settle
  BY <1>26 DEF Settle, Unresolved
<1>27. CASE DropTemp
  BY <1>27 DEF DropTemp, Unresolved, Settling
<1>28. CASE Acquired
  BY <1>28 DEF Acquired, Unresolved, Settling
<1>29. CASE Return
  BY <1>29 DEF Return, Unresolved
<1>30. CASE GivenBack
  BY <1>30 DEF GivenBack, Unresolved, NoTx
<1>31. CASE Conclude
  BY <1>31 DEF Conclude, Unresolved, Settling
<1>32. CASE Discard
  BY <1>32 DEF Discard, Unresolved
<1>33. CASE Concluded
  BY <1>33 DEF Concluded, Unresolved, NoTx
<1>34. CASE Mark
  BY <1>34 DEF Mark
<1>35. CASE Crash
  BY <1>35 DEF Crash
<1>36. CASE Touch
  BY <1>36 DEF Touch
<1> QED BY <1>1, <1>2, <1>3, <1>4, <1>5, <1>6, <1>7, <1>8, <1>9, <1>10, <1>11, <1>12,
   <1>13, <1>14, <1>15, <1>16, <1>17, <1>18, <1>19, <1>20, <1>21, <1>22, <1>23, <1>24,
   <1>25, <1>26, <1>27, <1>28, <1>29, <1>30, <1>31, <1>32, <1>33, <1>34, <1>35, <1>36 DEF
   Next, Job, Recovery

\* Every action keeps NeverMixed: a new file and one it replaces would have to
\* come to be seen one after the other, and the steps that show either begin
\* when the other is not there.
LEMMA MixedStep ==
  ASSUME LibType, RunType, PhaseOK, StageOK, ObjectsOK, SeenOK, PlanOK, NeverMixed, Next
  PROVE  NeverMixed'
<1> SUFFICES ASSUME NEW p \in New, NEW q \in Replaced, lib'[p] = "new", lib'[q] = "old"
             PROVE  FALSE
  BY PlanStays DEF NeverMixed
<1>1. p \in Paths /\ q \in Paths /\ (pc = "unreplaced" => q \in New)
  BY PlanFacts DEF Replaced, Kept, PhaseOK
<1>2. lib[p] = "new" \/ pc \in {"move", "forward"}
  BY <1>1, NewSeen
<1>3. lib[q] = "old" \/ pc \in {"restore", "giveback"}
  BY <1>1, OldSeen
<1>4. CASE lib[p] = "new" /\ lib[q] = "old"
  BY <1>4 DEF NeverMixed
<1>5. CASE pc \in {"move", "forward"}
  BY <1>5, <1>3 DEF SeenOK, StageOK, NoOld
<1>6. CASE pc \in {"restore", "giveback"}
  BY <1>6, <1>2 DEF SeenOK, NoNew
<1> QED BY <1>2, <1>3, <1>4, <1>5, <1>6

-----------------------------------------------------------------------------
(* What holds as long as no other program changes the library.             *)

\* Where no path is touched, no other program has made a step.
LEMMA TouchedStays ==
  ASSUME touched' = {}, Next
  PROVE  touched = {} /\ ~Touch
<1> USE PlanStays
<1> USE DEF library, Touch, Spend
<1>1. CASE Touch
  BY <1>1 DEF Touch
<1>2. CASE Begin \/ OpenTx \/ WriteTx \/ Take \/ Validate \/ Prepare \/ Move
           \/ Moved \/ Unreplaced \/ Undo \/ Undone \/ Retire \/ Restore \/ Restored
           \/ Anchor \/ WriteTemp \/ Exchange \/ Untemp \/ Clean \/ Cleaned \/ Finish
           \/ Recover \/ Judge \/ Step \/ Stepped \/ Settle \/ DropTemp \/ Acquired
           \/ Return \/ GivenBack \/ Conclude \/ Discard \/ Concluded \/ Mark \/ Crash
  <2>1. UNCHANGED <<touched>>
    BY <1>2 DEF Begin, OpenTx, WriteTx, Take, Validate, Prepare, Move, Moved,
       Unreplaced, Undo, Undone, Retire, Restore, Restored, Anchor, WriteTemp, Exchange,
       Untemp, Clean, Cleaned, Finish, Recover, Judge, Step, Stepped, Settle, DropTemp,
       Acquired, Return, GivenBack, Conclude, Discard, Concluded, Mark, Crash
  <2> QED BY <2>1
<1> QED BY <1>1, <1>2 DEF Next, Job, Recovery

\* Every action of the process keeps PlacesOK.
LEMMA PlacesStep ==
  ASSUME LibType, RunType, PhaseOK, plan.kind \in Kinds, PlacesOK, touched' = {}, Next
  PROVE  PlacesOK'
<1> USE PlanStays, TouchedStays
<1> USE DEF LibType, RunType, PlacesOK, First, Final, library, Same, Spend
<1>1. CASE Take
  BY <1>1 DEF Take
<1>2. CASE Move
  BY <1>2 DEF Move
<1>3. CASE Unreplaced
  BY <1>3 DEF Unreplaced, Returned
<1>4. CASE Undo
  BY <1>4 DEF Undo
<1>5. CASE Restore
  BY <1>5 DEF Restore, Returned
<1>6. CASE Step
  BY <1>6 DEF Step
<1>7. CASE Return
  BY <1>7 DEF Return, Returned
<1>8. CASE Touch
  BY <1>8 DEF Touch
<1>9. CASE Clean
  BY <1>9 DEF Clean
<1>10. CASE Discard
  BY <1>10 DEF Discard
<1>11. CASE Begin \/ OpenTx \/ WriteTx \/ Validate \/ Prepare \/ Moved
            \/ Undone \/ Retire \/ Restored \/ Anchor \/ WriteTemp \/ Exchange \/ Untemp
            \/ Cleaned \/ Finish \/ Recover \/ Judge \/ Stepped \/ Settle \/ DropTemp
            \/ Acquired \/ GivenBack \/ Conclude \/ Concluded \/ Mark \/ Crash
  <2>1. UNCHANGED <<lib, backup>>
    BY <1>11 DEF Begin, OpenTx, WriteTx, Validate, Prepare, Moved, Undone, Retire,
       Restored, Anchor, WriteTemp, Exchange, Untemp, Cleaned, Finish, Recover, Judge,
       Stepped, Settle, DropTemp, Acquired, GivenBack, Conclude, Concluded, Mark, Crash
  <2> QED BY <2>1
<1> QED BY <1>1, <1>2, <1>3, <1>4, <1>5, <1>6, <1>7, <1>8, <1>9, <1>10, <1>11 DEF Next,
   Job, Recovery

\* Every action of the process keeps KeptOK: an old file is not lost before the
\* commit.
LEMMA KeptStep ==
  ASSUME LibType, RunType, TxType, PhaseOK, SeenOK, ObjectsOK, PlacesOK, KeptOK, Old
         \subseteq Paths, touched' = {}, Next
  PROVE  KeptOK'
<1> USE PlanStays, TouchedStays
<1> USE DEF LibType, RunType, TxType, KeptOK, PhaseOK, Uncommitted, First, Final, Spend,
   Same, Go, Over, Do, Past, Missed, Fresh, Refused, library, memory, process
<1>1. CASE Begin
  BY <1>1 DEF Begin
<1>2. CASE OpenTx
  BY <1>2 DEF OpenTx, NoTx
<1>3. CASE WriteTx
  BY <1>3 DEF WriteTx, NoTx
<1>4. CASE Take
  BY <1>4 DEF Take, GiveBack, PlacesOK, SeenOK, NoNew, ObjectsOK, Objects
<1>5. CASE Validate
  BY <1>5 DEF Validate, GiveBack
<1>6. CASE Prepare
  BY <1>6 DEF Prepare, Unpublished
<1>7. CASE Move
  BY <1>7 DEF Move, Undoing
<1>8. CASE Moved
  BY <1>8 DEF Moved
<1>9. CASE Unreplaced
  BY <1>9 DEF Unreplaced, Returned, Handed, Undoing
<1>10. CASE Undo
  BY <1>10 DEF Undo
<1>11. CASE Undone
  BY <1>11 DEF Undone, Unpublished
<1>12. CASE Retire
  BY <1>12 DEF Retire, GiveBack
<1>13. CASE Restore
  BY <1>13 DEF Restore, Returned
<1>14. CASE Restored
  BY <1>14 DEF Restored, NoTx
<1>15. CASE Anchor
  BY <1>15 DEF Anchor
<1>16. CASE WriteTemp
  BY <1>16 DEF WriteTemp
<1>17. CASE Exchange
  BY <1>17 DEF Exchange
<1>18. CASE Untemp
  BY <1>18 DEF Untemp
<1>19. CASE Clean
  BY <1>19 DEF Clean
<1>20. CASE Cleaned
  BY <1>20 DEF Cleaned, NoTx
<1>21. CASE Finish
  BY <1>21 DEF Finish
<1>22. CASE Recover
  BY <1>22 DEF Recover
<1>23. CASE Judge
  BY <1>23 DEF Judge, Blocking, Unresolved, Forward
<1>24. CASE Step
  BY <1>24 DEF Step, Blocking
<1>25. CASE Stepped
  BY <1>25 DEF Stepped, Blocking
<1>26. CASE Settle
  BY <1>26 DEF Settle, Unresolved
<1>27. CASE DropTemp
  BY <1>27 DEF DropTemp, Unresolved, Settling
<1>28. CASE Acquired
  BY <1>28 DEF Acquired, Unresolved, Settling
<1>29. CASE Return
  BY <1>29 DEF Return, Unresolved, Returned
<1>30. CASE GivenBack
  BY <1>30 DEF GivenBack, Unresolved, NoTx
<1>31. CASE Conclude
  BY <1>31 DEF Conclude, Unresolved, Settling
<1>32. CASE Discard
  BY <1>32 DEF Discard, Unresolved
<1>33. CASE Concluded
  BY <1>33 DEF Concluded, Unresolved, NoTx
<1>34. CASE Mark
  BY <1>34 DEF Mark
<1>35. CASE Crash
  BY <1>35 DEF Crash
<1>36. CASE Touch
  BY <1>36 DEF Touch
<1> QED BY <1>1, <1>2, <1>3, <1>4, <1>5, <1>6, <1>7, <1>8, <1>9, <1>10, <1>11, <1>12,
   <1>13, <1>14, <1>15, <1>16, <1>17, <1>18, <1>19, <1>20, <1>21, <1>22, <1>23, <1>24,
   <1>25, <1>26, <1>27, <1>28, <1>29, <1>30, <1>31, <1>32, <1>33, <1>34, <1>35, <1>36 DEF
   Next, Job, Recovery

\* Every action of the process keeps DoneOK: what is off a list has been done.
LEMMA DoneStep ==
  ASSUME LibType, RunType, PhaseOK, TakenOK, SeenOK, PlacesOK, KeptOK, DoneOK, PlanOK,
         touched' = {}, Next
  PROVE  DoneOK'
<1> USE PlanStays, TouchedStays, PlanFacts
<1> USE DEF LibType, RunType, DoneOK, First, Final, Spend, Same, Go, Over, Do, Past,
   Missed, Fresh, Refused, library, memory, process
<1>1. CASE Begin
  BY <1>1 DEF Begin
<1>2. CASE OpenTx
  BY <1>2 DEF OpenTx
<1>3. CASE WriteTx
  BY <1>3 DEF WriteTx
<1>4. CASE Take
  BY <1>4 DEF Take, GiveBack
<1>5. CASE Validate
  BY <1>5 DEF Validate, GiveBack
<1>6. CASE Prepare
  BY <1>6 DEF Prepare, Unpublished
<1>7. CASE Move
  BY <1>7 DEF Move, Undoing
<1>8. CASE Moved
  BY <1>8 DEF Moved, PhaseOK, KeptOK, TakenOK, Holding, Kept, Uncommitted
<1>9. CASE Unreplaced
  BY <1>9 DEF Unreplaced, Returned, Handed, Undoing, PhaseOK, Kept, KeptOK, Uncommitted
<1>10. CASE Undo
  BY <1>10 DEF Undo
<1>11. CASE Undone
  BY <1>11 DEF Undone, Unpublished
<1>12. CASE Retire
  BY <1>12 DEF Retire, GiveBack
<1>13. CASE Restore
  BY <1>13 DEF Restore, Returned
<1>14. CASE Restored
  BY <1>14 DEF Restored
<1>15. CASE Anchor
  BY <1>15 DEF Anchor
<1>16. CASE WriteTemp
  BY <1>16 DEF WriteTemp
<1>17. CASE Exchange
  BY <1>17 DEF Exchange
<1>18. CASE Untemp
  BY <1>18 DEF Untemp
<1>19. CASE Clean
  BY <1>19 DEF Clean
<1>20. CASE Cleaned
  BY <1>20 DEF Cleaned
<1>21. CASE Finish
  BY <1>21 DEF Finish
<1>22. CASE Recover
  BY <1>22 DEF Recover
<1>23. CASE Judge
  BY <1>23 DEF Judge, Blocking, Unresolved, Forward
<1>24. CASE Step
  BY <1>24 DEF Step, Blocking
<1>25. CASE Stepped
  BY <1>25 DEF Stepped, Blocking
<1>26. CASE Settle
  BY <1>26 DEF Settle, Unresolved
<1>27. CASE DropTemp
  BY <1>27 DEF DropTemp, Unresolved, Settling
<1>28. CASE Acquired
  BY <1>28 DEF Acquired, Unresolved, Settling
<1>29. CASE Return
  BY <1>29 DEF Return, Unresolved, Returned
<1>30. CASE GivenBack
  BY <1>30 DEF GivenBack, Unresolved
<1>31. CASE Conclude
  BY <1>31 DEF Conclude, Unresolved, Settling
<1>32. CASE Discard
  BY <1>32 DEF Discard, Unresolved
<1>33. CASE Concluded
  BY <1>33 DEF Concluded, Unresolved
<1>34. CASE Mark
  BY <1>34 DEF Mark
<1>35. CASE Crash
  BY <1>35 DEF Crash
<1>36. CASE Touch
  BY <1>36 DEF Touch
<1> QED BY <1>1, <1>2, <1>3, <1>4, <1>5, <1>6, <1>7, <1>8, <1>9, <1>10, <1>11, <1>12,
   <1>13, <1>14, <1>15, <1>16, <1>17, <1>18, <1>19, <1>20, <1>21, <1>22, <1>23, <1>24,
   <1>25, <1>26, <1>27, <1>28, <1>29, <1>30, <1>31, <1>32, <1>33, <1>34, <1>35, <1>36 DEF
   Next, Job, Recovery

\* What is seen changes in eight steps of the process only.
LEMMA LibStays ==
  ASSUME touched' = {}, pc \notin {"take", "move", "unreplaced", "undo", "restore",
         "forward", "back", "giveback"}, Next
  PROVE  lib' = lib
<1> USE TouchedStays
<1> USE DEF library, Touch, Spend
<1>1. CASE Take
  BY <1>1 DEF Take
<1>2. CASE Move
  BY <1>2 DEF Move
<1>3. CASE Unreplaced
  BY <1>3 DEF Unreplaced
<1>4. CASE Undo
  BY <1>4 DEF Undo
<1>5. CASE Restore
  BY <1>5 DEF Restore
<1>6. CASE Step
  BY <1>6 DEF Step
<1>7. CASE Return
  BY <1>7 DEF Return
<1>8. CASE Touch
  BY <1>8 DEF Touch
<1>9. CASE Begin \/ OpenTx \/ WriteTx \/ Validate \/ Prepare \/ Moved
           \/ Undone \/ Retire \/ Restored \/ Anchor \/ WriteTemp \/ Exchange \/ Untemp
           \/ Clean \/ Cleaned \/ Finish \/ Recover \/ Judge \/ Stepped \/ Settle
           \/ DropTemp \/ Acquired \/ GivenBack \/ Conclude \/ Discard \/ Concluded
           \/ Mark \/ Crash
  <2>1. UNCHANGED <<lib>>
    BY <1>9 DEF Begin, OpenTx, WriteTx, Validate, Prepare, Moved, Undone, Retire,
       Restored, Anchor, WriteTemp, Exchange, Untemp, Clean, Cleaned, Finish, Recover,
       Judge, Stepped, Settle, DropTemp, Acquired, GivenBack, Conclude, Discard, Concluded,
       Mark, Crash
  <2> QED BY <2>1
<1> QED BY <1>1, <1>2, <1>3, <1>4, <1>5, <1>6, <1>7, <1>8, <1>9 DEF Next, Job, Recovery

\* Whether all old or all new files are seen depends on the library only.
LEMMA WholeStays ==
  ASSUME Next, lib' = lib
  PROVE  (AllOld => AllOld') /\ (AllNew => AllNew')
BY PlanStays DEF AllOld, AllNew

\* Moves that are completed already are not made again.
LEMMA ForwardWhole ==
  ASSUME LibType, RunType, PhaseOK, Step, pc = "forward", AllNew
  PROVE  lib' = lib
BY DEF LibType, RunType, PhaseOK, Step, First, AllNew, Past, Blocking

\* Where nothing was taken, or all of it was given back, all old files are seen.
LEMMA OldWhole ==
  ASSUME TakenOK, SeenOK, KeptOK, PhaseOK, PlanOK,
         \/ pc = "manifest"
         \/ pc \in {"restore", "giveback"} /\ todo = {} /\ (pc = "restore" => ~failed)
  PROVE  AllOld
<1>1. NoNew /\ Old \subseteq Paths
  BY PlanFacts DEF SeenOK
<1>2. \A p \in Old : lib[p] = "old"
  BY <1>1, PlanFacts DEF TakenOK, KeptOK, PhaseOK, Uncommitted, Kinds
<1> QED BY <1>1, <1>2 DEF AllOld, NoNew

\* Where all moves are made, all new files are seen.
LEMMA NewWhole ==
  ASSUME LibType, PhaseOK, StageOK, ObjectsOK, SeenOK, PlacesOK, DoneOK, WholeOK, PlanOK,
         todo = {},
         \/ pc = "move" /\ plan.kind # "artifacts"
         \/ pc = "unreplaced"
         \/ pc = "forward"
  PROVE  AllNew
<1>1. CASE pc = "forward" /\ ~(plan.kind = "keep" /\ ~tx.dir)
  BY <1>1 DEF PhaseOK, StageOK, WholeOK
<1>2. CASE pc = "unreplaced"
  BY <1>2 DEF PhaseOK, DoneOK, AllNew, Kept, Replaced
<1>3. CASE plan.kind = "keep" /\ pc \in {"move", "forward"}
  <2>1. Old = {}
    BY <1>3, PlanFacts
  <2> QED BY <2>1, <1>3 DEF DoneOK, AllNew, Kept, Replaced
<1>4. CASE plan.kind = "video" /\ pc = "move"
  <2>1. NoOld /\ Kept = {} /\ Replaced = Old /\ Old \subseteq Paths
    BY <1>4, PlanFacts DEF SeenOK, StageOK, Kept, Replaced
  <2>2. \A p \in Old \ New : lib[p] = "none"
    BY <2>1 DEF NoOld, PlacesOK, ObjectsOK, LibType, Objects
  <2>3. \A p \in New : lib[p] = "new"
    BY <1>4 DEF DoneOK
  <2> QED BY <2>1, <2>2, <2>3 DEF AllNew
<1> QED BY <1>1, <1>2, <1>3, <1>4, PlanFacts DEF Kinds

\* Every action of the process keeps WholeOK: the transaction goes, and the
\* publication manifest goes, only when the library is whole.
LEMMA WholeStep ==
  ASSUME LibType, RunType, TxType, StageType, PhaseOK, StageOK, TakenOK, ObjectsOK,
         SeenOK, MovedOK, PlacesOK, KeptOK, DoneOK, WholeOK, PlanOK, touched' = {}, Next
  PROVE  WholeOK'
<1> USE PlanStays, TouchedStays, LibStays, WholeStays, OldWhole, NewWhole, ForwardWhole,
   PlanFacts
<1> USE DEF TxType, StageType, PhaseOK, StageOK, WholeOK, Uncommitted, Spend, Same, Go,
   Over, Do, Past, Missed, Fresh, Refused, library, memory, process
<1>1. CASE Begin
  BY <1>1 DEF Begin
<1>2. CASE OpenTx
  BY <1>2 DEF OpenTx, NoTx
<1>3. CASE WriteTx
  BY <1>3 DEF WriteTx, NoTx
<1>4. CASE Take
  BY <1>4 DEF Take, GiveBack
<1>5. CASE Validate
  BY <1>5 DEF Validate, GiveBack
<1>6. CASE Prepare
  BY <1>6 DEF Prepare, Unpublished
<1>7. CASE Move
  BY <1>7 DEF Move, Undoing
<1>8. CASE Moved
  BY <1>8 DEF Moved, Kinds
<1>9. CASE Unreplaced
  BY <1>9 DEF Unreplaced, Undoing
<1>10. CASE Undo
  BY <1>10 DEF Undo
<1>11. CASE Undone
  BY <1>11 DEF Undone, Unpublished
<1>12. CASE Retire
  BY <1>12 DEF Retire, GiveBack
<1>13. CASE Restore
  BY <1>13 DEF Restore
<1>14. CASE Restored
  BY <1>14 DEF Restored, NoTx
<1>15. CASE Anchor
  BY <1>15 DEF Anchor
<1>16. CASE WriteTemp
  BY <1>16 DEF WriteTemp
<1>17. CASE Exchange
  BY <1>17 DEF Exchange
<1>18. CASE Untemp
  BY <1>18 DEF Untemp
<1>19. CASE Clean
  BY <1>19 DEF Clean
<1>20. CASE Cleaned
  BY <1>20 DEF Cleaned, NoTx
<1>21. CASE Finish
  BY <1>21 DEF Finish, NoStage
<1>22. CASE Recover
  BY <1>22 DEF Recover
<1>23. CASE Judge
  BY <1>23 DEF Judge, Blocking, Unresolved, Forward
<1>24. CASE Step
  BY <1>24 DEF Step, Blocking
<1>25. CASE Stepped
  BY <1>25 DEF Stepped, Blocking, NoStage
<1>26. CASE Settle
  BY <1>26 DEF Settle, Unresolved
<1>27. CASE DropTemp
  BY <1>27 DEF DropTemp, Unresolved, Settling
<1>28. CASE Acquired
  BY <1>28 DEF Acquired, Unresolved, Settling
<1>29. CASE Return
  BY <1>29 DEF Return, Unresolved
<1>30. CASE GivenBack
  BY <1>30 DEF GivenBack, Unresolved, NoTx
<1>31. CASE Conclude
  BY <1>31 DEF Conclude, Unresolved, Settling
<1>32. CASE Discard
  BY <1>32 DEF Discard, Unresolved
<1>33. CASE Concluded
  BY <1>33 DEF Concluded, Unresolved, NoTx
<1>34. CASE Mark
  BY <1>34 DEF Mark
<1>35. CASE Crash
  BY <1>35 DEF Crash
<1>36. CASE Touch
  BY <1>36 DEF Touch
<1> QED BY <1>1, <1>2, <1>3, <1>4, <1>5, <1>6, <1>7, <1>8, <1>9, <1>10, <1>11, <1>12,
   <1>13, <1>14, <1>15, <1>16, <1>17, <1>18, <1>19, <1>20, <1>21, <1>22, <1>23, <1>24,
   <1>25, <1>26, <1>27, <1>28, <1>29, <1>30, <1>31, <1>32, <1>33, <1>34, <1>35, <1>36 DEF
   Next, Job, Recovery

\* The plan, the marker, the touched paths and the budget keep their types.
LEMMA RestTyped ==
  ASSUME RestType, Next
  PROVE  RestType'
<1> USE PlanStays, PublicationAssumption
<1> USE DEF RestType, Spend, Same, Go, Over, Do, Past, Missed, Fresh, Refused, library,
   memory, process
<1>1. CASE Begin
  BY <1>1 DEF Begin
<1>2. CASE OpenTx
  BY <1>2 DEF OpenTx
<1>3. CASE WriteTx
  BY <1>3 DEF WriteTx
<1>4. CASE Take
  BY <1>4 DEF Take, GiveBack
<1>5. CASE Validate
  BY <1>5 DEF Validate, GiveBack
<1>6. CASE Prepare
  BY <1>6 DEF Prepare, Unpublished
<1>7. CASE Move
  BY <1>7 DEF Move, Undoing
<1>8. CASE Moved
  BY <1>8 DEF Moved
<1>9. CASE Unreplaced
  BY <1>9 DEF Unreplaced, Undoing
<1>10. CASE Undo
  BY <1>10 DEF Undo
<1>11. CASE Undone
  BY <1>11 DEF Undone, Unpublished
<1>12. CASE Retire
  BY <1>12 DEF Retire, GiveBack
<1>13. CASE Restore
  BY <1>13 DEF Restore
<1>14. CASE Restored
  BY <1>14 DEF Restored
<1>15. CASE Anchor
  BY <1>15 DEF Anchor
<1>16. CASE WriteTemp
  BY <1>16 DEF WriteTemp
<1>17. CASE Exchange
  BY <1>17 DEF Exchange
<1>18. CASE Untemp
  BY <1>18 DEF Untemp
<1>19. CASE Clean
  BY <1>19 DEF Clean
<1>20. CASE Cleaned
  BY <1>20 DEF Cleaned
<1>21. CASE Finish
  BY <1>21 DEF Finish
<1>22. CASE Recover
  BY <1>22 DEF Recover
<1>23. CASE Judge
  BY <1>23 DEF Judge, Blocking, Unresolved, Forward
<1>24. CASE Step
  BY <1>24 DEF Step, Blocking
<1>25. CASE Stepped
  BY <1>25 DEF Stepped, Blocking
<1>26. CASE Settle
  BY <1>26 DEF Settle, Unresolved
<1>27. CASE DropTemp
  BY <1>27 DEF DropTemp, Unresolved, Settling
<1>28. CASE Acquired
  BY <1>28 DEF Acquired, Unresolved, Settling
<1>29. CASE Return
  BY <1>29 DEF Return, Unresolved
<1>30. CASE GivenBack
  BY <1>30 DEF GivenBack, Unresolved
<1>31. CASE Conclude
  BY <1>31 DEF Conclude, Unresolved, Settling
<1>32. CASE Discard
  BY <1>32 DEF Discard, Unresolved
<1>33. CASE Concluded
  BY <1>33 DEF Concluded, Unresolved
<1>34. CASE Mark
  BY <1>34 DEF Mark, MarkerAfter
<1>35. CASE Crash
  BY <1>35 DEF Crash
<1>36. CASE Touch
  BY <1>36 DEF Touch
<1> QED BY <1>1, <1>2, <1>3, <1>4, <1>5, <1>6, <1>7, <1>8, <1>9, <1>10, <1>11, <1>12,
   <1>13, <1>14, <1>15, <1>16, <1>17, <1>18, <1>19, <1>20, <1>21, <1>22, <1>23, <1>24,
   <1>25, <1>26, <1>27, <1>28, <1>29, <1>30, <1>31, <1>32, <1>33, <1>34, <1>35, <1>36 DEF
   Next, Job, Recovery

-----------------------------------------------------------------------------
(* The invariant.                                                          *)

\* TypeOK is its parts.
LEMMA TypeParts ==
  TypeOK <=> /\ RestType /\ LibType /\ StageType /\ TxType /\ RunType
             /\ (pc \in Holding => held = {p \in Paths : backup[p] # "none"})
BY DEF TypeOK, RestType, LibType, StageType, TxType, RunType

\* The last part of TypeOK follows from the invariant of what is taken.
LEMMA HeldEqual ==
  ASSUME RunType, TakenOK
  PROVE  pc \in Holding => held = {p \in Paths : backup[p] # "none"}
BY DEF RunType, TakenOK

\* The invariant holds when a publication begins.
LEMMA InitInv ==
  ASSUME Init
  PROVE  IInv
<1>1. PlanOK /\ plan.kind \in Kinds /\ Old \subseteq Paths /\ New \subseteq Paths
  <2>1. PlanOK
    BY PublicationAssumption DEF Init, Plans, PlanOK, Kinds, Paths, Old
  <2> QED BY <2>1, PlanFacts
<1>2. /\ RestType /\ LibType /\ StageType /\ TxType /\ RunType
  <2>1. RestType
    BY <1>1, PlanFacts, PublicationAssumption DEF Init, RestType
  <2>2. LibType
    BY Names DEF Init, LibType
  <2>3. StageType
    BY <1>1, Names DEF Init, StageType, New
  <2>4. TxType /\ RunType
    BY Names, NoneTyped DEF Init, TxType, RunType
  <2> QED BY <2>1, <2>2, <2>3, <2>4
<1>3. /\ pc = "new" /\ stage.pub = "none" /\ tx = NoTx /\ ~tx.dir /\ held = {}
      /\ stage.files = New /\ failed = FALSE /\ touched = {}
      /\ lib = [p \in Paths |-> IF p \in Old THEN "old" ELSE "none"]
      /\ backup = [p \in Paths |-> "none"]
  BY DEF Init, NoTx, Old, New
<1>4. NoNew
  BY <1>1, <1>3 DEF NoNew
<1>5. TakenOK /\ ObjectsOK
  BY <1>1, <1>3 DEF TakenOK, ObjectsOK, Holding
<1>6. TypeOK
  BY <1>2, <1>5, TypeParts, HeldEqual
<1>7. PhaseOK /\ StageOK
  BY <1>3 DEF PhaseOK, StageOK, Uncommitted
<1>8. SeenOK /\ MovedOK /\ NeverMixed
  BY <1>3, <1>4 DEF SeenOK, MovedOK, NeverMixed, NoNew
<1>9. Inv
  BY <1>1, <1>5, <1>6, <1>7, <1>8 DEF Inv
<1>10. PlacesOK /\ KeptOK /\ DoneOK
  BY <1>1, <1>3 DEF PlacesOK, KeptOK, DoneOK
<1>11. AllOld
  BY <1>1, <1>3, <1>4 DEF AllOld, NoNew
<1>12. WholeOK
  BY <1>3, <1>11 DEF WholeOK
<1> QED BY <1>9, <1>10, <1>12 DEF IInv, Untouched

\* Every step keeps the part of the invariant that holds whatever other programs
\* do.
LEMMA InvStep ==
  ASSUME Inv, Next
  PROVE  Inv'
<1>1. /\ RestType /\ LibType /\ StageType /\ TxType /\ RunType
      /\ PlanOK /\ plan.kind \in Kinds /\ New \subseteq Paths
      /\ PhaseOK /\ TakenOK /\ ObjectsOK /\ StageOK /\ SeenOK /\ MovedOK /\ NeverMixed
  BY TypeParts, PlanFacts DEF Inv
<1>2. RestType' /\ LibType' /\ StageType' /\ TxType' /\ RunType'
  BY <1>1, RestTyped, LibTyped, StageTyped, TxTyped, RunTyped
<1>3. PhaseOK' /\ TakenOK'
  BY <1>1, PhaseStep, TakenStep
<1>4. ObjectsOK' /\ StageOK'
  BY <1>1, ObjectsStep, StageStep
<1>5. SeenOK' /\ MovedOK' /\ NeverMixed'
  BY <1>1, SeenStep, MovedStep, MixedStep
<1>6. TypeOK'
  <2>1. (pc \in Holding => held = {p \in Paths : backup[p] # "none"})'
    BY <1>2, <1>3 DEF RunType, TakenOK
  <2> QED BY <1>2, <2>1 DEF TypeOK, RestType, LibType, StageType, TxType, RunType
<1>7. PlanOK'
  BY <1>1, PlanStays DEF PlanOK
<1> QED BY <1>3, <1>4, <1>5, <1>6, <1>7 DEF Inv

\* Every step keeps the part that needs their restraint.
LEMMA UntouchedStep ==
  ASSUME Inv, touched = {} => Untouched, Next
  PROVE  touched' = {} => Untouched'
<1>1. /\ RestType /\ LibType /\ StageType /\ TxType /\ RunType
      /\ PlanOK /\ plan.kind \in Kinds /\ New \subseteq Paths /\ Old \subseteq Paths
      /\ PhaseOK /\ TakenOK /\ ObjectsOK /\ StageOK /\ SeenOK /\ MovedOK /\ NeverMixed
  BY TypeParts, PlanFacts DEF Inv
<1> SUFFICES ASSUME touched' = {}
             PROVE  Untouched'
  OBVIOUS
<1>2. PlacesOK /\ KeptOK /\ DoneOK /\ WholeOK
  BY TouchedStays DEF Untouched
<1>3. PlacesOK' /\ KeptOK'
  BY <1>1, <1>2, PlacesStep, KeptStep
<1>4. DoneOK' /\ WholeOK'
  BY <1>1, <1>2, DoneStep, WholeStep
<1> QED BY <1>3, <1>4 DEF Untouched

\* The invariant is about the state only.
LEMMA StutterInv ==
  ASSUME IInv, UNCHANGED vars
  PROVE  IInv'
<1> USE DEF vars, process, memory
<1>1. TypeOK' /\ PlanOK'
  BY DEF IInv, Inv, TypeOK, PlanOK, Old
<1>2. PhaseOK' /\ TakenOK' /\ ObjectsOK' /\ StageOK'
  BY DEF IInv, Inv, PhaseOK, TakenOK, ObjectsOK, StageOK, Settled, New
<1>3. SeenOK' /\ MovedOK' /\ NeverMixed'
  BY DEF IInv, Inv, SeenOK, MovedOK, NeverMixed, NoNew, NoOld, New, Old, Replaced, Kept
<1>4. touched' = touched /\ (Untouched => Untouched')
  BY DEF Untouched, PlacesOK, KeptOK, DoneOK, WholeOK, AllOld, AllNew, New, Old,
     Replaced, Kept
<1> QED BY <1>1, <1>2, <1>3, <1>4 DEF IInv, Inv

\* The inductive invariant holds in every reachable state of a publication, of the
\* job, its rollback and the recovery that follows a stop at any step.
THEOREM PublicationInvariant == Spec => []IInv
<1>1. Init => IInv
  BY InitInv
<1>2. IInv /\ [Next]_vars => IInv'
  BY InvStep, UntouchedStep, StutterInv DEF IInv
<1> QED BY <1>1, <1>2, PTL DEF Spec

\* In every reachable state of a publication the library, the transaction, the
\* staging directory and the lists of the process are of their types, and while the
\* job works with them acquired.backups are the files the directory holds
\* (AcquiredOverwrite, rollback_acquired_overwrite).
THEOREM PublicationTypeCorrect == Spec => []TypeOK
<1>1. IInv => TypeOK
  BY DEF IInv, Inv
<1> QED BY <1>1, PublicationInvariant, PTL

\* Nobody ever sees a new file next to one that it replaces, whatever stops, fails
\* or is changed by other programs (rollback_moves before restore_backups,
\* staged_publication_direction before recover_overwrite_transaction).
THEOREM NeverMixedCorrect == Spec => []NeverMixed
<1>1. IInv => NeverMixed
  BY DEF IInv, Inv
<1> QED BY <1>1, PublicationInvariant, PTL

\* A library that is marked clean has nothing left to recover; and where nothing is
\* left, and no other program interfered, all of the old files or all of the new
\* ones are seen (mark_operation_clean, video_recovery_state_after_scan).
THEOREM SettledCorrect == Spec => []SettledIsWhole
<1>1. IInv => SettledIsWhole
  BY DEF IInv, Inv, Untouched, StageOK, WholeOK, Settled, SettledIsWhole
<1> QED BY <1>1, PublicationInvariant, PTL

\* What one step does to an old file, or to one of another program, at one path.
LEMMA OldOutlives ==
  ASSUME LibType, RunType, PhaseOK, NEW p \in Paths, Next
  PROVE  /\ lib[p] \in {"old", "user"} /\ lib'[p] # lib[p] =>
              backup'[p] = lib[p] \/ p \in touched'
         /\ backup[p] # "none" /\ backup'[p] = "none" =>
              lib'[p] = backup[p] \/ (tx.phase = "committed" /\ Bound)
<1> USE DEF LibType, RunType, First, Final
<1>1. CASE Take
  BY <1>1 DEF Take
<1>2. CASE Move
  BY <1>2 DEF Move
<1>3. CASE Unreplaced
  BY <1>3 DEF Unreplaced, Returned
<1>4. CASE Undo
  BY <1>4 DEF Undo
<1>5. CASE Restore
  BY <1>5 DEF Restore, Returned
<1>6. CASE Step
  BY <1>6 DEF Step
<1>7. CASE Return
  BY <1>7 DEF Return, Returned
<1>8. CASE Touch
  BY <1>8 DEF Touch
<1>9. CASE Clean
  BY <1>9 DEF Clean, PhaseOK, Cleanable, Committed, Past, Over, Go, Missed, memory
<1>10. CASE Discard
  BY <1>10 DEF Discard, PhaseOK, Cleanable, Committed
<1>11. CASE Begin \/ OpenTx \/ WriteTx \/ Validate \/ Prepare \/ Moved
            \/ Undone \/ Retire \/ Restored \/ Anchor \/ WriteTemp \/ Exchange \/ Untemp
            \/ Cleaned \/ Finish \/ Recover \/ Judge \/ Stepped \/ Settle \/ DropTemp
            \/ Acquired \/ GivenBack \/ Conclude \/ Concluded \/ Mark \/ Crash
  <2>1. UNCHANGED <<lib, backup>>
    BY <1>11 DEF Begin, OpenTx, WriteTx, Validate, Prepare, Moved, Undone, Retire,
       Restored, Anchor, WriteTemp, Exchange, Untemp, Cleaned, Finish, Recover, Judge,
       Stepped, Settle, DropTemp, Acquired, GivenBack, Conclude, Concluded, Mark, Crash
  <2> QED BY <2>1
<1> QED BY <1>1, <1>2, <1>3, <1>4, <1>5, <1>6, <1>7, <1>8, <1>9, <1>10, <1>11 DEF Next,
   Job, Recovery

\* No step but another program's takes an old file away unless the transaction has
\* it, and what the transaction has goes back, or goes for good once the commit's
\* outputs are bound (acquire_overwrite_path, remove_backups).
THEOREM OldOutlivesCommitCorrect == Spec => OldOutlivesCommit
<1> DEFINE Outlives ==
      \A p \in Paths :
        /\ lib[p] \in {"old", "user"} /\ lib'[p] # lib[p] =>
             backup'[p] = lib[p] \/ p \in touched'
        /\ backup[p] # "none" /\ backup'[p] = "none" =>
             \/ lib'[p] = backup[p]
             \/ (tx.phase = "committed" /\ Bound)
<1>1. IInv /\ Next => Outlives
  BY OldOutlives, TypeParts DEF IInv, Inv
<1>2. IInv /\ [Next]_vars => [Outlives]_vars
  BY <1>1
<1> QED BY <1>2, PublicationInvariant, PTL DEF Spec, OldOutlivesCommit
=============================================================================
