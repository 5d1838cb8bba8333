--------------------------- MODULE RecordsProofs ---------------------------
(***************************************************************************)
(* Proofs about TaskRecords and Inventory: what the files and the rows of  *)
(* a task and of its devices say of each other, for any bounds on runs,    *)
(* faults, crashes and deletions and any tasks, names and source files.    *)
(*                                                                         *)
(* RecordsAreSafe: what a failed or interrupted rebuild leaves of a task.  *)
(* RecordsSafe says nothing of the steps in between, so RecordsInv adds,   *)
(* for each step of a run, where the old scene is, what the row says and   *)
(* whose rule rows are stored.                                             *)
(*                                                                         *)
(* StartKeepsSettled: neither step of a start applies to a settled task.   *)
(*                                                                         *)
(* LedgerIsSound: the ledger has no orphans and mirrors the evidence last  *)
(* published.  Both are decided when a publication commits, and say        *)
(* nothing of one under way.  PublicationInv adds what its session holds:  *)
(* for each name, what the commit would write (Pending) and why, and that  *)
(* under the lock the table of the session differs from the committed one  *)
(* only in the rows of its task.                                           *)
(*                                                                         *)
(* OverwritesAudited: the same invariant says that each row the commit     *)
(* would overwrite has its audit in the session.                           *)
(***************************************************************************)
EXTENDS TaskRecords, Inventory, TLAPS, WellFoundedInduction

\* A scene without task.json was never completed, and its system.json was
\* written after its rule files; a completed task.json is of the run that
\* wrote the rule files.
SceneOK(s) ==
    /\ s.status = "none" => s.meta = 0 /\ s.system \in {0, s.rules}
    /\ s.status = "completed" /\ s.rules # 0 => s.meta = s.rules

ScenesInv ==
    /\ SceneOK(recScene) /\ SceneOK(recBackup) /\ SceneOK(recBefore.scene)
    /\ \A s \in recLeft : SceneOK(s)

\* Only a running step knows the task without a row; a scene without a row is
\* one a start still has to import.
RowInv ==
    /\ recRow.status = "none" =>
         /\ recRow = NoRow /\ recWorker.step \in {"idle", "down", "load"}
         /\ recScene # NoScene => HasTaskFile(recScene) /\ ~At("idle")
    /\ At("erase") => recScene = NoScene

\* A queue entry waits for an idle worker, and a full run starts from nothing
\* or from a task.json a rerun marked as pending.
Untouched == recScene = NoScene \/ recScene.status = "pending"

QueueInv ==
    /\ recQueue # "none" => At("idle")
    /\ recQueue = "full" => Untouched

\* How far a run has come: the row, the rule files and the rule rows.
InPlace == {"freeze", "rules", "system"}
Exchange == {"stage", "out", "in", "ledger", "scope"}
Publishing == {"rows", "meta", "points", "v6"}
Rollback == {"remove", "restore", "unscope", "unrows", "again", "putback"}

RunInv ==
    /\ recWorker.step \in InPlace => recWorker.mode = "full"
    /\ recWorker.step \in Exchange \cup Rollback \cup {"drop", "failed"} => recWorker.mode = "rebuild"
    /\ recWorker.step \in Publishing \cup {"except"} => recWorker.mode # "none"
    /\ recWorker.step \in InPlace \cup Exchange \cup Publishing => recWorker.run # 0
    /\ recWorker.step \in {"freeze", "rules"} => Untouched
    /\ recWorker.step \in InPlace \cup Exchange \cup {"rows"} => recRow.status = "running"
    /\ recWorker.step \in {"system"} \cup Publishing => recScene.rules = recWorker.run
    /\ recWorker.step \in {"meta", "points", "v6"} =>
         recRow = Published /\ recRules = recWorker.run
    /\ recWorker.step \in Rollback =>
         (recRow.status = "completed" => recRules = recRow.run)
    /\ CompletedHasItsRules

\* Where the scene a rebuild replaces is while the rebuild goes on.
NewScene == [rules |-> recWorker.run, system |-> recWorker.run, meta |-> recWorker.run,
             status |-> "completed"]
Kept == recScope = recBefore.scope /\ recRules = recBefore.rules
OldBack == recBackup = NoScene /\ (IsScene(recBefore.scene) => recScene = recBefore.scene)

Busy == recWorker.step \notin {"idle", "erase", "down", "load"}

RebuildInv ==
    /\ ~Busy \/ recWorker.mode = "full" \/ recWorker.step \in {"except", "failed"}
         => recBackup = NoScene
    /\ Busy /\ recWorker.mode = "full" => recBefore = NothingBefore
    /\ Busy /\ recWorker.mode = "rebuild" => recWorker.oldScope = recBefore.scope
    /\ recWorker.step \in {"stage", "out"} => recScene = recBefore.scene /\ recBackup = NoScene /\ Kept
    /\ At("in") => recBackup = recBefore.scene /\ recScene = NoScene /\ Kept
    /\ recWorker.step \in {"ledger", "scope"} => recBackup = recBefore.scene /\ recScene = NewScene /\ Kept
    /\ recWorker.step \in Publishing /\ recWorker.mode = "rebuild" =>
         recBackup = recBefore.scene /\ recScene = NewScene
    /\ At("drop") => recScene.rules # 0 /\ WholeScene(recScene)
    /\ At("remove") => recBackup = recBefore.scene
    /\ At("restore") => recBackup = recBefore.scene /\ recScene = NoScene
    /\ recWorker.step \in {"unscope", "unrows"} => OldBack
    /\ At("unrows") => (recBefore.scope # 0 => recScope = recBefore.scope)
    /\ At("putback") => recScene = NoScene
    /\ recWorker.step \in {"remove", "restore", "unscope", "unrows"} => recWorker.faults >= 1
    /\ recWorker.step \in {"again", "putback"} => recWorker.faults >= 2
    /\ At("except") /\ recWorker.mode = "rebuild" => recWorker.faults >= 2
    /\ RebuildFailsWhole
    /\ CrashKeepsAScene

RecordsInv == RecTypeOK /\ ScenesInv /\ RowInv /\ QueueInv /\ RunInv /\ RebuildInv

-----------------------------------------------------------------------------
\* What a step does to the worker and to the bounds.
LEMMA GotoIs ==
  ASSUME recWorker \in Workers, NEW s \in Steps, Goto(s)
  PROVE  /\ recWorker' \in Workers
         /\ recWorker'.step = s /\ recWorker'.mode = recWorker.mode
         /\ recWorker'.run = recWorker.run /\ recWorker'.oldScope = recWorker.oldScope
         /\ recWorker'.faults = recWorker.faults
  BY DEF Goto, Workers

LEMMA EndsIs ==
  ASSUME recWorker \in Workers, NEW s \in {"completed", "failed", "rolled_back"}, Ends(s)
  PROVE  /\ recWorker' \in Workers /\ recWorker'.step = "idle"
         /\ recWorker'.faults = recWorker.faults
  BY DEF Ends, Workers, Steps

LEMMA PayIs ==
  ASSUME RecAssumption, recBudget \in Budgets, NEW kind \in {"runs", "faults", "crashes"}, Pay(kind)
  PROVE  recBudget' \in Budgets /\ recBudget[kind] > 0
<1>1. CASE kind = "runs"
  BY <1>1 DEF Pay, Budgets, RunNumbers, RecAssumption
<1>2. CASE kind = "faults"
  BY <1>2 DEF Pay, Budgets
<1>3. CASE kind = "crashes"
  BY <1>3 DEF Pay, Budgets
<1> QED
  BY <1>1, <1>2, <1>3

LEMMA RaisesIs ==
  ASSUME RecAssumption, recBudget \in Budgets, recWorker \in Workers, NEW s \in Steps, Raises(s)
  PROVE  /\ recBudget' \in Budgets /\ recWorker' \in Workers
         /\ recWorker'.step = s /\ recWorker'.mode = recWorker.mode
         /\ recWorker'.run = recWorker.run /\ recWorker'.oldScope = recWorker.oldScope
         /\ recWorker'.faults = recWorker.faults + 1
<1>1. recBudget' \in Budgets
  BY PayIs DEF Raises
<1>2. recWorker' = [recWorker EXCEPT !.step = s, !.faults = recWorker.faults + 1]
  BY DEF Raises
<1>3. recWorker.faults + 1 \in Nat
  BY DEF Workers
<1>4. recWorker' \in Workers
  BY <1>2, <1>3 DEF Workers
<1>5. /\ recWorker'.step = s /\ recWorker'.mode = recWorker.mode
      /\ recWorker'.run = recWorker.run /\ recWorker'.oldScope = recWorker.oldScope
      /\ recWorker'.faults = recWorker.faults + 1
  BY <1>2 DEF Workers
<1> QED
  BY <1>1, <1>4, <1>5

LEMMA BeginIs ==
  ASSUME RecAssumption, RecTypeOK, NEW m \in {"full", "rebuild"}, NEW s \in Steps, Begin(m, s)
  PROVE  /\ recBudget' \in Budgets /\ recWorker' \in Workers
         /\ recWorker'.step = s /\ recWorker'.mode = m
         /\ recWorker'.run \in RunNumbers \ {0} /\ recWorker'.oldScope = recScope
         /\ recWorker'.faults = 0 /\ At("idle") /\ recQueue = m /\ recQueue' = "none"
         /\ recRow' = [recRow EXCEPT !.status = "running"]
<1>1. Pay("runs")
  BY DEF Begin
<1>2. recBudget' \in Budgets /\ recBudget.runs > 0
  BY <1>1, PayIs DEF RecTypeOK
<1>3. NextRun \in RunNumbers \ {0}
  BY <1>2 DEF NextRun, RunNumbers, RecTypeOK, Budgets, RecAssumption
<1>4. recScope \in RunNumbers
  BY DEF RecTypeOK
<1>5. recWorker' = [step |-> s, mode |-> m, run |-> NextRun, oldScope |-> recScope,
                    faults |-> 0, last |-> "none"]
  BY DEF Begin, IdleWorker
<1>6. recWorker' \in Workers
  BY <1>3, <1>4, <1>5 DEF Workers
<1>7. /\ recWorker'.step = s /\ recWorker'.mode = m /\ recWorker'.run \in RunNumbers \ {0}
      /\ recWorker'.oldScope = recScope /\ recWorker'.faults = 0
  BY <1>3, <1>5
<1>8. At("idle") /\ recQueue = m /\ recQueue' = "none" /\ recRow' = [recRow EXCEPT !.status = "running"]
  BY DEF Begin
<1> QED
  BY <1>2, <1>6, <1>7, <1>8

LEMMA CrashIs ==
  ASSUME RecAssumption, RecTypeOK, RecCrash
  PROVE  /\ recBudget' \in Budgets /\ recWorker' \in Workers
         /\ recWorker'.step = "down" /\ recWorker'.mode = "none"
         /\ recWorker'.faults = recWorker.faults
<1>1. recBudget' \in Budgets
  BY PayIs DEF RecCrash, RecTypeOK
<1>2. recWorker' = [step |-> "down", mode |-> "none", run |-> 0, oldScope |-> 0,
                    faults |-> recWorker.faults, last |-> "none"]
  BY DEF RecCrash, IdleWorker
<1> QED
  BY <1>1, <1>2 DEF Workers, RecTypeOK, Steps, RunNumbers, RecAssumption

\* A scene with some of its records changed is a scene.
LEMMA SceneTypes ==
  ASSUME NEW s \in Scenes
  PROVE  /\ s.rules \in RunNumbers /\ s.system \in RunNumbers /\ s.meta \in RunNumbers
         /\ \A n \in RunNumbers :
              /\ [s EXCEPT !.rules = n] \in Scenes
              /\ [s EXCEPT !.system = n] \in Scenes
              /\ \A st \in {"none", "pending", "completed", "failed"} :
                   [s EXCEPT !.meta = n, !.status = st] \in Scenes
         /\ [s EXCEPT !.status = "failed"] \in Scenes
         /\ 0 \in RunNumbers => [s EXCEPT !.rules = 0, !.system = 0] \in Scenes
         /\ [status |-> s.status, run |-> s.meta] \in Rows
  BY DEF Scenes, Rows

LEMMA Numbers ==
  ASSUME RecAssumption, RecTypeOK
  PROVE  /\ 0 \in RunNumbers /\ recWorker.run \in RunNumbers /\ recWorker.oldScope \in RunNumbers
         /\ NoScene \in Scenes /\ NoRow \in Rows /\ Published \in Rows
         /\ \A st \in {"none", "pending", "running", "completed", "failed"} :
              /\ [recRow EXCEPT !.status = st] \in Rows
              /\ \A n \in RunNumbers : [status |-> st, run |-> n] \in Rows
         /\ \A n \in RunNumbers :
              [rules |-> n, system |-> n, meta |-> n, status |-> "completed"] \in Scenes
<1>1. 0 \in RunNumbers
  BY DEF RunNumbers, RecAssumption
<1>2. recWorker.run \in RunNumbers /\ recWorker.oldScope \in RunNumbers
  BY DEF RecTypeOK, Workers
<1>3. NoScene \in Scenes /\ NoRow \in Rows /\ Published \in Rows
  BY <1>1, <1>2 DEF NoScene, NoRow, Published, Scenes, Rows
<1>4. \A st \in {"none", "pending", "running", "completed", "failed"} :
        /\ [recRow EXCEPT !.status = st] \in Rows
        /\ \A n \in RunNumbers : [status |-> st, run |-> n] \in Rows
  BY DEF RecTypeOK, Rows
<1>5. \A n \in RunNumbers : [rules |-> n, system |-> n, meta |-> n, status |-> "completed"] \in Scenes
  BY DEF Scenes
<1> QED
  BY <1>1, <1>2, <1>3, <1>4, <1>5

\* A step keeps the types.
LEMMA StepTypes ==
  ASSUME RecAssumption, RecTypeOK, RecNext
  PROVE  RecTypeOK'
<1> USE DEF recDisk, recTables, At, IsScene, HasTaskFile, RecTypeOK
<1>1. CASE Reserve
  BY <1>1, Numbers, SceneTypes DEF Reserve, Accepts, Steps
<1>2. CASE Rerun
  BY <1>2, Numbers, SceneTypes DEF Rerun, Accepts, Steps
<1>3. CASE RequestRebuild
  BY <1>3, Numbers, SceneTypes DEF RequestRebuild, Accepts, Steps
<1>4. CASE DeleteScene
  <2>1. NothingBefore \in [scene : Scenes, scope : RunNumbers, rules : RunNumbers]
    BY Numbers DEF NothingBefore
  <2> QED
    BY <1>4, <2>1, GotoIs, RaisesIs, Numbers, SceneTypes DEF DeleteScene, Accepts, Steps
<1>5. CASE DeleteRows
  BY <1>5, GotoIs, Numbers, SceneTypes DEF DeleteRows, Steps
<1>6. CASE StartFull
  BY <1>6, BeginIs, Numbers, SceneTypes DEF StartFull, NothingBefore, Steps
<1>7. CASE FreezeScope
  BY <1>7, GotoIs, Numbers, SceneTypes DEF FreezeScope, Steps
<1>8. CASE WriteRules
  BY <1>8, GotoIs, RaisesIs, Numbers, SceneTypes DEF WriteRules, Steps
<1>9. CASE WriteSystem
  BY <1>9, GotoIs, Numbers, SceneTypes DEF WriteSystem, Steps
<1>10. CASE PublishRows
  BY <1>10, GotoIs, RaisesIs, Numbers, SceneTypes DEF PublishRows, Handler, Published, Steps
<1>11. CASE WriteMeta
  BY <1>11, GotoIs, RaisesIs, Numbers, SceneTypes DEF WriteMeta, Handler, Published, Steps
<1>12. CASE MirrorPoints
  BY <1>12, GotoIs, RaisesIs, Numbers, SceneTypes DEF MirrorPoints, Steps
<1>13. CASE MirrorV6
  <2>1. PICK after \in {"drop", "idle"} :
          \/ /\ recV6' = recWorker.run /\ recRow' = Published
             /\ recWorker' = [recWorker EXCEPT !.step = after, !.last = "completed"]
             /\ UNCHANGED recBudget
          \/ Raises(after) /\ UNCHANGED <<recV6, recRow>>
    BY <1>13 DEF MirrorV6
  <2>2. after \in Steps
    BY DEF Steps
  <2>3. [recWorker EXCEPT !.step = after, !.last = "completed"] \in Workers
    BY <2>2 DEF Workers
  <2> QED
    BY <1>13, <2>1, <2>2, <2>3, RaisesIs, Numbers DEF MirrorV6
<1>14. CASE FailRun
  BY <1>14, EndsIs, Numbers, SceneTypes DEF FailRun, HasTaskFile, Steps
<1>15. CASE StartRebuild
  BY <1>15, BeginIs, Numbers, SceneTypes DEF StartRebuild, Steps
<1>16. CASE StageScene
  BY <1>16, GotoIs, RaisesIs, Numbers, SceneTypes DEF StageScene, Steps
<1>17. CASE MoveSceneOut
  BY <1>17, GotoIs, RaisesIs, Numbers, SceneTypes DEF MoveSceneOut, Aside, Steps
<1>18. CASE MoveSceneIn
  BY <1>18, GotoIs, RaisesIs, Numbers, SceneTypes DEF MoveSceneIn, Steps
<1>19. CASE PublishLedger
  BY <1>19, GotoIs, RaisesIs, Numbers, SceneTypes DEF PublishLedger, Steps
<1>20. CASE PublishScope
  BY <1>20, GotoIs, RaisesIs, Numbers, SceneTypes DEF PublishScope, Steps
<1>21. CASE DropBackup
  BY <1>21, RaisesIs, EndsIs, Numbers, SceneTypes DEF DropBackup, Steps
<1>22. CASE RemoveNew
  BY <1>22, GotoIs, Numbers, SceneTypes DEF RemoveNew, Steps
<1>23. CASE RestoreOld
  BY <1>23, GotoIs, RaisesIs, Numbers, SceneTypes DEF RestoreOld, Steps
<1>24. CASE RestoreScope
  BY <1>24, GotoIs, RaisesIs, Numbers, SceneTypes DEF RestoreScope, RestoredScope, Steps
<1>25. CASE RestoreRows
  BY <1>25, GotoIs, RaisesIs, Numbers, SceneTypes DEF RestoreRows, RowOf, Steps
<1>26. CASE RemoveAgain
  BY <1>26, GotoIs, Numbers, SceneTypes DEF RemoveAgain, Steps
<1>27. CASE PutBack
  BY <1>27, GotoIs, RaisesIs, Numbers, SceneTypes DEF PutBack, Steps
<1>28. CASE RebuildFails
  BY <1>28, EndsIs, Numbers, SceneTypes DEF RebuildFails, Steps
<1>29. CASE RecCrash
  BY <1>29, CrashIs, Numbers, SceneTypes DEF RecCrash, Steps
<1>30. CASE RecRestart
  <2>1. recWorker' \in Workers
    BY <1>30, GotoIs DEF RecRestart, Steps
  <2>2. ASSUME NEW s \in recLeft
        PROVE  RowOf(s) \in Rows /\ ImportedRules(s) \in RunNumbers
    BY SceneTypes DEF RowOf, ImportedRules
  <2> QED
    BY <1>30, <2>1, <2>2, Numbers DEF RecRestart
<1>31. CASE ImportScene
  <2>1. recWorker' \in Workers
    BY <1>31, GotoIs DEF ImportScene, Steps
  <2>2. RowOf(recScene) \in Rows /\ ImportedRules(recScene) \in RunNumbers
    BY SceneTypes DEF RowOf, ImportedRules
  <2>3. /\ [recScene EXCEPT !.meta = recScene.system, !.status = "completed"] \in Scenes
        /\ [status |-> "completed", run |-> recScene.system] \in Rows
        /\ recScene.rules \in RunNumbers
    BY SceneTypes, Numbers
  <2>4. /\ recScene' \in Scenes /\ recRow' \in Rows
        /\ recRules' \in RunNumbers /\ recPoints' \in RunNumbers
    BY <1>31, <2>2, <2>3, Numbers DEF ImportScene
  <2> QED
    BY <1>31, <2>1, <2>4 DEF ImportScene
<1> QED
  BY <1>1, <1>2, <1>3, <1>4, <1>5, <1>6, <1>7, <1>8, <1>9, <1>10, <1>11, <1>12, <1>13, <1>14, <1>15, <1>16, <1>17, <1>18, <1>19, <1>20, <1>21, <1>22, <1>23, <1>24, <1>25, <1>26, <1>27, <1>28, <1>29, <1>30, <1>31 DEF RecNext, RecWork, RecStart
\* What a failed removal leaves of a scene.
Part(s) == [s EXCEPT !.rules = 0, !.system = 0]

LEMMA PartIs ==
  ASSUME NEW s \in Scenes
  PROVE  /\ Part(s).rules = 0 /\ Part(s).system = 0
         /\ Part(s).meta = s.meta /\ Part(s).status = s.status
  BY DEF Scenes, Part

\* A step leaves only scenes that fit together.
LEMMA StepScenes ==
  ASSUME RecAssumption, RecordsInv, RecNext
  PROVE  ScenesInv'
<1> USE DEF recDisk, recTables, At, RecordsInv, Steps, Scenes, RecTypeOK, ScenesInv, SceneOK, NoScene, IsScene, HasTaskFile
<1>1. CASE Reserve
  BY <1>1 DEF Reserve, Accepts
<1>2. CASE Rerun
  BY <1>2 DEF Rerun, Accepts
<1>3. CASE RequestRebuild
  BY <1>3 DEF RequestRebuild, Accepts
<1>4. CASE DeleteScene
  <2>1. recScene' = NoScene \/ recScene' = Part(recScene)
    BY <1>4 DEF DeleteScene, Part
  <2>2. SceneOK(recScene')
    BY <2>1, PartIs
  <2>3. SceneOK(recBefore'.scene)
    BY <1>4 DEF DeleteScene, NothingBefore
  <2> QED
    BY <1>4, <2>2, <2>3 DEF DeleteScene
<1>5. CASE DeleteRows
  BY <1>5, GotoIs DEF DeleteRows
<1>6. CASE StartFull
  BY <1>6, BeginIs DEF StartFull, NothingBefore
<1>7. CASE FreezeScope
  BY <1>7, GotoIs DEF FreezeScope
<1>8. CASE WriteRules
  <2>1. Untouched
    BY <1>8 DEF WriteRules, RunInv
  <2>2. SceneOK(recScene')
    BY <1>8, <2>1 DEF WriteRules, Untouched
  <2> QED
    BY <1>8, <2>2 DEF WriteRules
<1>9. CASE WriteSystem
  <2>1. recScene.rules = recWorker.run
    BY <1>9 DEF WriteSystem, RunInv, Publishing
  <2>2. SceneOK(recScene')
    BY <1>9, <2>1 DEF WriteSystem
  <2> QED
    BY <1>9, <2>2 DEF WriteSystem
<1>10. CASE PublishRows
  BY <1>10, GotoIs, RaisesIs DEF PublishRows, Handler, Published
<1>11. CASE WriteMeta
  <2>1. recScene.rules = recWorker.run
    BY <1>11 DEF WriteMeta, RunInv, Publishing
  <2>2. SceneOK(recScene')
    BY <1>11, <2>1 DEF WriteMeta
  <2> QED
    BY <1>11, <2>2 DEF WriteMeta
<1>12. CASE MirrorPoints
  BY <1>12, GotoIs, RaisesIs DEF MirrorPoints
<1>13. CASE MirrorV6
  BY <1>13, RaisesIs DEF MirrorV6, Published
<1>14. CASE FailRun
  BY <1>14, EndsIs DEF FailRun, HasTaskFile
<1>15. CASE StartRebuild
  BY <1>15, BeginIs DEF StartRebuild
<1>16. CASE StageScene
  BY <1>16, GotoIs, RaisesIs DEF StageScene
<1>17. CASE MoveSceneOut
  BY <1>17, GotoIs, RaisesIs DEF MoveSceneOut, Aside
<1>18. CASE MoveSceneIn
  BY <1>18, GotoIs, RaisesIs DEF MoveSceneIn
<1>19. CASE PublishLedger
  BY <1>19, GotoIs, RaisesIs DEF PublishLedger
<1>20. CASE PublishScope
  BY <1>20, GotoIs, RaisesIs DEF PublishScope
<1>21. CASE DropBackup
  <2>1. SceneOK(Part(recBackup))
    BY PartIs
  <2>2. \A s \in recLeft' \ recLeft : s \in {recBackup, Part(recBackup)}
    BY <1>21 DEF DropBackup, Part
  <2>3. \A s \in recLeft' : SceneOK(s)
    BY <2>1, <2>2
  <2> QED
    BY <1>21, <2>3 DEF DropBackup
<1>22. CASE RemoveNew
  BY <1>22, GotoIs DEF RemoveNew
<1>23. CASE RestoreOld
  BY <1>23, GotoIs, RaisesIs DEF RestoreOld
<1>24. CASE RestoreScope
  BY <1>24, GotoIs, RaisesIs DEF RestoreScope, RestoredScope
<1>25. CASE RestoreRows
  BY <1>25, GotoIs, RaisesIs DEF RestoreRows, RowOf
<1>26. CASE RemoveAgain
  BY <1>26, GotoIs DEF RemoveAgain
<1>27. CASE PutBack
  BY <1>27, GotoIs, RaisesIs DEF PutBack
<1>28. CASE RebuildFails
  BY <1>28, EndsIs DEF RebuildFails
<1>29. CASE RecCrash
  BY <1>29, CrashIs DEF RecCrash
<1>30. CASE RecRestart
  BY <1>30, GotoIs DEF RecRestart, RowOf, ImportedRules
<1>31. CASE ImportScene
  BY <1>31, GotoIs DEF ImportScene, RowOf, ImportedRules, NeedsImport, Recoverable, Unsettled
<1> QED
  BY <1>1, <1>2, <1>3, <1>4, <1>5, <1>6, <1>7, <1>8, <1>9, <1>10, <1>11, <1>12, <1>13, <1>14, <1>15, <1>16, <1>17, <1>18, <1>19, <1>20, <1>21, <1>22, <1>23, <1>24, <1>25, <1>26, <1>27, <1>28, <1>29, <1>30, <1>31 DEF RecNext, RecWork, RecStart

\* A task has a row unless a start still has to import its scene.
LEMMA StepRow ==
  ASSUME RecAssumption, RecordsInv, RecNext
  PROVE  RowInv'
<1> USE DEF recDisk, recTables, At, RecordsInv, Steps, Scenes, RecTypeOK, RowInv, NoScene, NoRow, Rows, IsScene, HasTaskFile
<1>1. CASE Reserve
  BY <1>1 DEF Reserve, Accepts
<1>2. CASE Rerun
  BY <1>2 DEF Rerun, Accepts
<1>3. CASE RequestRebuild
  BY <1>3 DEF RequestRebuild, Accepts
<1>4. CASE DeleteScene
  BY <1>4, GotoIs, RaisesIs DEF DeleteScene, Accepts
<1>5. CASE DeleteRows
  BY <1>5, GotoIs DEF DeleteRows
<1>6. CASE StartFull
  BY <1>6, BeginIs DEF StartFull, NothingBefore
<1>7. CASE FreezeScope
  BY <1>7, GotoIs DEF FreezeScope
<1>8. CASE WriteRules
  BY <1>8, GotoIs, RaisesIs DEF WriteRules
<1>9. CASE WriteSystem
  BY <1>9, GotoIs DEF WriteSystem
<1>10. CASE PublishRows
  BY <1>10, GotoIs, RaisesIs DEF PublishRows, Handler, Published
<1>11. CASE WriteMeta
  BY <1>11, GotoIs, RaisesIs DEF WriteMeta, Handler, Published
<1>12. CASE MirrorPoints
  BY <1>12, GotoIs, RaisesIs DEF MirrorPoints
<1>13. CASE MirrorV6
  <2>1. recRow'.status # "none"
    BY <1>13 DEF MirrorV6, Published
  <2>2. recWorker'.step # "erase"
    BY <1>13, RaisesIs DEF MirrorV6, Workers
  <2> QED
    BY <2>1, <2>2
<1>14. CASE FailRun
  BY <1>14, EndsIs DEF FailRun, HasTaskFile
<1>15. CASE StartRebuild
  BY <1>15, BeginIs DEF StartRebuild
<1>16. CASE StageScene
  BY <1>16, GotoIs, RaisesIs DEF StageScene
<1>17. CASE MoveSceneOut
  BY <1>17, GotoIs, RaisesIs DEF MoveSceneOut, Aside
<1>18. CASE MoveSceneIn
  BY <1>18, GotoIs, RaisesIs DEF MoveSceneIn
<1>19. CASE PublishLedger
  BY <1>19, GotoIs, RaisesIs DEF PublishLedger
<1>20. CASE PublishScope
  BY <1>20, GotoIs, RaisesIs DEF PublishScope
<1>21. CASE DropBackup
  BY <1>21, RaisesIs, EndsIs DEF DropBackup
<1>22. CASE RemoveNew
  BY <1>22, GotoIs DEF RemoveNew
<1>23. CASE RestoreOld
  BY <1>23, GotoIs, RaisesIs DEF RestoreOld
<1>24. CASE RestoreScope
  BY <1>24, GotoIs, RaisesIs DEF RestoreScope, RestoredScope
<1>25. CASE RestoreRows
  BY <1>25, GotoIs, RaisesIs DEF RestoreRows, RowOf
<1>26. CASE RemoveAgain
  BY <1>26, GotoIs DEF RemoveAgain
<1>27. CASE PutBack
  BY <1>27, GotoIs, RaisesIs DEF PutBack
<1>28. CASE RebuildFails
  BY <1>28, EndsIs DEF RebuildFails
<1>29. CASE RecCrash
  BY <1>29, CrashIs DEF RecCrash
<1>30. CASE RecRestart
  BY <1>30, GotoIs DEF RecRestart, RowOf, ImportedRules
<1>31. CASE ImportScene
  BY <1>31, GotoIs DEF ImportScene, RowOf, ImportedRules, NeedsImport, Recoverable, Unsettled
<1> QED
  BY <1>1, <1>2, <1>3, <1>4, <1>5, <1>6, <1>7, <1>8, <1>9, <1>10, <1>11, <1>12, <1>13, <1>14, <1>15, <1>16, <1>17, <1>18, <1>19, <1>20, <1>21, <1>22, <1>23, <1>24, <1>25, <1>26, <1>27, <1>28, <1>29, <1>30, <1>31 DEF RecNext, RecWork, RecStart

\* A queue entry waits for the worker.
LEMMA StepQueue ==
  ASSUME RecAssumption, RecordsInv, RecNext
  PROVE  QueueInv'
<1> USE DEF recDisk, recTables, At, RecordsInv, Steps, Scenes, RecTypeOK, QueueInv, Untouched, RowInv, NoScene, NoRow, IsScene, HasTaskFile
<1>1. CASE Reserve
  BY <1>1 DEF Reserve, Accepts
<1>2. CASE Rerun
  BY <1>2 DEF Rerun, Accepts
<1>3. CASE RequestRebuild
  BY <1>3 DEF RequestRebuild, Accepts
<1>4. CASE DeleteScene
  BY <1>4, GotoIs, RaisesIs DEF DeleteScene, Accepts
<1>5. CASE DeleteRows
  BY <1>5, GotoIs DEF DeleteRows
<1>6. CASE StartFull
  BY <1>6, BeginIs DEF StartFull, NothingBefore
<1>7. CASE FreezeScope
  BY <1>7, GotoIs DEF FreezeScope
<1>8. CASE WriteRules
  BY <1>8, GotoIs, RaisesIs DEF WriteRules
<1>9. CASE WriteSystem
  BY <1>9, GotoIs DEF WriteSystem
<1>10. CASE PublishRows
  BY <1>10, GotoIs, RaisesIs DEF PublishRows, Handler, Published
<1>11. CASE WriteMeta
  BY <1>11, GotoIs, RaisesIs DEF WriteMeta, Handler, Published
<1>12. CASE MirrorPoints
  BY <1>12, GotoIs, RaisesIs DEF MirrorPoints
<1>13. CASE MirrorV6
  BY <1>13, RaisesIs DEF MirrorV6, Published
<1>14. CASE FailRun
  BY <1>14, EndsIs DEF FailRun, HasTaskFile
<1>15. CASE StartRebuild
  BY <1>15, BeginIs DEF StartRebuild
<1>16. CASE StageScene
  BY <1>16, GotoIs, RaisesIs DEF StageScene
<1>17. CASE MoveSceneOut
  BY <1>17, GotoIs, RaisesIs DEF MoveSceneOut, Aside
<1>18. CASE MoveSceneIn
  BY <1>18, GotoIs, RaisesIs DEF MoveSceneIn
<1>19. CASE PublishLedger
  BY <1>19, GotoIs, RaisesIs DEF PublishLedger
<1>20. CASE PublishScope
  BY <1>20, GotoIs, RaisesIs DEF PublishScope
<1>21. CASE DropBackup
  BY <1>21, RaisesIs, EndsIs DEF DropBackup
<1>22. CASE RemoveNew
  BY <1>22, GotoIs DEF RemoveNew
<1>23. CASE RestoreOld
  BY <1>23, GotoIs, RaisesIs DEF RestoreOld
<1>24. CASE RestoreScope
  BY <1>24, GotoIs, RaisesIs DEF RestoreScope, RestoredScope
<1>25. CASE RestoreRows
  BY <1>25, GotoIs, RaisesIs DEF RestoreRows, RowOf
<1>26. CASE RemoveAgain
  BY <1>26, GotoIs DEF RemoveAgain
<1>27. CASE PutBack
  BY <1>27, GotoIs, RaisesIs DEF PutBack
<1>28. CASE RebuildFails
  BY <1>28, EndsIs DEF RebuildFails
<1>29. CASE RecCrash
  BY <1>29, CrashIs DEF RecCrash
<1>30. CASE RecRestart
  BY <1>30, GotoIs DEF RecRestart, RowOf, ImportedRules
<1>31. CASE ImportScene
  BY <1>31, GotoIs DEF ImportScene, RowOf, ImportedRules, NeedsImport, Recoverable, Unsettled
<1> QED
  BY <1>1, <1>2, <1>3, <1>4, <1>5, <1>6, <1>7, <1>8, <1>9, <1>10, <1>11, <1>12, <1>13, <1>14, <1>15, <1>16, <1>17, <1>18, <1>19, <1>20, <1>21, <1>22, <1>23, <1>24, <1>25, <1>26, <1>27, <1>28, <1>29, <1>30, <1>31 DEF RecNext, RecWork, RecStart

\* How far a run has come.
LEMMA StepRun ==
  ASSUME RecAssumption, RecordsInv, RecNext
  PROVE  RunInv'
<1> USE DEF recDisk, recTables, At, RecordsInv, Steps, Scenes, RecTypeOK, ScenesInv, SceneOK, QueueInv, RowInv, RunInv, Untouched, CompletedHasItsRules, InPlace, Exchange, Publishing, Rollback, Published, NoScene, NoRow, IsScene, HasTaskFile
<1>1. CASE Reserve
  BY <1>1 DEF Reserve, Accepts
<1>2. CASE Rerun
  BY <1>2 DEF Rerun, Accepts
<1>3. CASE RequestRebuild
  BY <1>3 DEF RequestRebuild, Accepts
<1>4. CASE DeleteScene
  <2>1. recScene' = NoScene \/ recScene' = Part(recScene)
    BY <1>4 DEF DeleteScene, Part
  <2>2. recScene'.rules = 0
    BY <2>1, PartIs
  <2>3. recWorker'.step \in {"erase", "idle"}
    BY <1>4, GotoIs, RaisesIs DEF DeleteScene
  <2> QED
    BY <1>4, <2>2, <2>3 DEF DeleteScene
<1>5. CASE DeleteRows
  BY <1>5, GotoIs DEF DeleteRows
<1>6. CASE StartFull
  <2>1. recRow'.status = "running" /\ Untouched'
    BY <1>6, BeginIs DEF StartFull, Rows
  <2> QED
    BY <1>6, <2>1, BeginIs DEF StartFull
<1>7. CASE FreezeScope
  BY <1>7, GotoIs DEF FreezeScope
<1>8. CASE WriteRules
  BY <1>8, GotoIs, RaisesIs DEF WriteRules
<1>9. CASE WriteSystem
  BY <1>9, GotoIs DEF WriteSystem
<1>10. CASE PublishRows
  BY <1>10, GotoIs, RaisesIs DEF PublishRows, Handler, Published
<1>11. CASE WriteMeta
  <2>1. recScene'.rules = recScene.rules
    BY <1>11 DEF WriteMeta
  <2>2. recWorker'.run = recWorker.run /\ recWorker'.mode = recWorker.mode
    BY <1>11, GotoIs, RaisesIs DEF WriteMeta, Handler
  <2>3. \/ recWorker'.step = "points" /\ recRow' = Published
        \/ recWorker'.step = Handler /\ recRow' = recRow
    BY <1>11, GotoIs, RaisesIs DEF WriteMeta, Handler
  <2>4. recWorker.mode \in {"full", "rebuild"}
    BY <1>11 DEF WriteMeta, Workers
  <2> QED
    BY <1>11, <2>1, <2>2, <2>3, <2>4 DEF WriteMeta, Handler
<1>12. CASE MirrorPoints
  BY <1>12, GotoIs, RaisesIs DEF MirrorPoints
<1>13. CASE MirrorV6
  <2>1. PICK after \in {IF recWorker.mode = "rebuild" THEN "drop" ELSE "idle"} :
          \/ /\ recV6' = recWorker.run /\ recRow' = Published
             /\ recWorker' = [recWorker EXCEPT !.step = after, !.last = "completed"]
             /\ UNCHANGED recBudget
          \/ Raises(after) /\ UNCHANGED <<recV6, recRow>>
    BY <1>13 DEF MirrorV6
  <2>2. recWorker'.step = after /\ recWorker'.mode = recWorker.mode /\ recWorker'.run = recWorker.run
    <3>1. after \in Steps
      BY <2>1
    <3>2. CASE Raises(after)
      BY <3>1, <3>2, RaisesIs
    <3>3. CASE recWorker' = [recWorker EXCEPT !.step = after, !.last = "completed"]
      BY <3>3 DEF Workers
    <3> QED
      BY <2>1, <3>2, <3>3
  <2>3. recRow' = Published
    BY <1>13, <2>1 DEF MirrorV6
  <2> QED
    BY <1>13, <2>2, <2>3 DEF MirrorV6
<1>14. CASE FailRun
  <2>1. recRow'.status = "failed"
    BY <1>14 DEF FailRun, Rows
  <2>2. recWorker'.step = "idle"
    BY <1>14, EndsIs DEF FailRun
  <2> QED
    BY <2>1, <2>2
<1>15. CASE StartRebuild
  <2>1. recRow'.status = "running"
    BY <1>15, BeginIs DEF StartRebuild, Rows
  <2> QED
    BY <1>15, <2>1, BeginIs DEF StartRebuild
<1>16. CASE StageScene
  BY <1>16, GotoIs, RaisesIs DEF StageScene
<1>17. CASE MoveSceneOut
  BY <1>17, GotoIs, RaisesIs DEF MoveSceneOut, Aside
<1>18. CASE MoveSceneIn
  BY <1>18, GotoIs, RaisesIs DEF MoveSceneIn
<1>19. CASE PublishLedger
  BY <1>19, GotoIs, RaisesIs DEF PublishLedger
<1>20. CASE PublishScope
  <2>1. recWorker'.step \in {"rows", "remove"} /\ recWorker'.mode = recWorker.mode
        /\ recWorker'.run = recWorker.run
    BY <1>20, GotoIs, RaisesIs DEF PublishScope
  <2>2. recScene.rules = recWorker.run
    BY <1>20 DEF PublishScope, RebuildInv, NewScene
  <2> QED
    BY <1>20, <2>1, <2>2 DEF PublishScope
<1>21. CASE DropBackup
  BY <1>21, RaisesIs, EndsIs DEF DropBackup
<1>22. CASE RemoveNew
  BY <1>22, GotoIs DEF RemoveNew
<1>23. CASE RestoreOld
  BY <1>23, GotoIs, RaisesIs DEF RestoreOld
<1>24. CASE RestoreScope
  BY <1>24, GotoIs, RaisesIs DEF RestoreScope, RestoredScope
<1>25. CASE RestoreRows
  <2>1. recWorker'.step = "failed" /\ recWorker'.mode = recWorker.mode
    BY <1>25, GotoIs, RaisesIs DEF RestoreRows
  <2>2. CompletedHasItsRules'
    <3>1. \/ recRow' = recRow /\ recRules' = recRules
          \/ /\ recRow' = RowOf(recBefore.scene) /\ recRules' = recScene.rules
             /\ HasTaskFile(recBefore.scene)
      BY <1>25 DEF RestoreRows
    <3>2. HasTaskFile(recBefore.scene) => recScene = recBefore.scene
      BY <1>25 DEF RestoreRows, RebuildInv, OldBack
    <3> QED
      BY <1>25, <3>1, <3>2 DEF RestoreRows, RowOf
  <2> QED
    BY <1>25, <2>1, <2>2 DEF RestoreRows
<1>26. CASE RemoveAgain
  BY <1>26, GotoIs DEF RemoveAgain
<1>27. CASE PutBack
  BY <1>27, GotoIs, RaisesIs DEF PutBack
<1>28. CASE RebuildFails
  BY <1>28, EndsIs DEF RebuildFails
<1>29. CASE RecCrash
  BY <1>29, CrashIs DEF RecCrash
<1>30. CASE RecRestart
  BY <1>30, GotoIs DEF RecRestart, RowOf, ImportedRules
<1>31. CASE ImportScene
  BY <1>31, GotoIs DEF ImportScene, RowOf, ImportedRules, NeedsImport, Recoverable, Unsettled
<1> QED
  BY <1>1, <1>2, <1>3, <1>4, <1>5, <1>6, <1>7, <1>8, <1>9, <1>10, <1>11, <1>12, <1>13, <1>14, <1>15, <1>16, <1>17, <1>18, <1>19, <1>20, <1>21, <1>22, <1>23, <1>24, <1>25, <1>26, <1>27, <1>28, <1>29, <1>30, <1>31 DEF RecNext, RecWork, RecStart

\* Where the old scene is.
LEMMA StepRebuild ==
  ASSUME RecAssumption, RecordsInv, RecNext
  PROVE  RebuildInv'
<1> USE DEF recDisk, recTables, At, RecordsInv, Steps, Scenes, RecTypeOK, RunInv, RebuildInv, Busy, Kept, OldBack, NewScene, RebuildFailsWhole, CrashKeepsAScene, WholeScene, InPlace, Exchange, Publishing, Rollback, NoScene, NoRow, IsScene, HasTaskFile
<1>a. recWorker.faults \in Nat /\ recWorker.mode \in {"none", "full", "rebuild"}
  BY DEF Workers
<1>1. CASE Reserve
  BY <1>1, <1>a DEF Reserve, Accepts
<1>2. CASE Rerun
  <2>1. recScene'.rules = recScene.rules /\ recScene'.system = recScene.system
    BY <1>2 DEF Rerun
  <2>2. HasTaskFile(recScene) => recScene'.meta = recScene.meta
    BY <1>2 DEF Rerun
  <2>3. WholeScene(recScene) => HasTaskFile(recScene)
    BY DEF ScenesInv, SceneOK
  <2>4. WholeScene(recScene) => WholeScene(recScene')
    BY <2>1, <2>2, <2>3
  <2>5. CrashKeepsAScene'
    BY <1>2, <2>4 DEF Rerun
  <2> QED
    BY <1>2, <2>5 DEF Rerun, Accepts
<1>3. CASE RequestRebuild
  BY <1>3, <1>a DEF RequestRebuild, Accepts
<1>4. CASE DeleteScene
  <2>1. recBefore' = NothingBefore /\ recBefore'.scene.rules = 0 /\ ~HasTaskFile(recBefore'.scene)
    BY <1>4 DEF DeleteScene, NothingBefore
  <2>2. /\ recWorker'.step \in {"erase", "idle"}
        /\ recBackup' = NoScene
    BY <1>4, GotoIs, RaisesIs DEF DeleteScene, Accepts
  <2> QED
    BY <2>1, <2>2
<1>5. CASE DeleteRows
  BY <1>5, GotoIs, <1>a DEF DeleteRows
<1>6. CASE StartFull
  BY <1>6, BeginIs, <1>a DEF StartFull, NothingBefore
<1>7. CASE FreezeScope
  BY <1>7, GotoIs, <1>a DEF FreezeScope
<1>8. CASE WriteRules
  <2>1. recBefore' = NothingBefore /\ recBefore'.scene.rules = 0 /\ recBackup' = NoScene
    BY <1>8 DEF WriteRules, NothingBefore
  <2>2. recWorker'.step \in {"system", "except"} /\ recWorker'.mode = "full"
    BY <1>8, GotoIs, RaisesIs DEF WriteRules
  <2> QED
    BY <2>1, <2>2
<1>9. CASE WriteSystem
  BY <1>9, GotoIs, <1>a DEF WriteSystem
<1>10. CASE PublishRows
  BY <1>10, GotoIs, RaisesIs, <1>a DEF PublishRows, Handler, Published
<1>11. CASE WriteMeta
  <2>1. /\ recWorker'.run = recWorker.run /\ recWorker'.mode = recWorker.mode
        /\ recWorker'.oldScope = recWorker.oldScope
        /\ \/ recWorker'.step = "points" /\ recWorker'.faults = recWorker.faults
           \/ /\ recWorker'.step = Handler /\ recWorker'.faults = recWorker.faults + 1
              /\ recScene' = recScene
    BY <1>11, GotoIs, RaisesIs DEF WriteMeta, Handler
  <2>2. CASE recWorker.mode = "full"
    <3>1. recBefore' = NothingBefore /\ recBefore'.scene.rules = 0 /\ recBackup' = NoScene
      BY <1>11, <2>2 DEF WriteMeta, NothingBefore
    <3>2. recWorker'.step \in {"points", "except"}
      BY <2>1, <2>2 DEF Handler
    <3> QED
      BY <2>1, <2>2, <3>1, <3>2
  <2>3. CASE recWorker.mode = "rebuild"
    <3>1. recScene = NewScene /\ recBackup = recBefore.scene
      BY <1>11, <2>3 DEF WriteMeta
    <3>2. recScene' = recScene
      BY <1>11, <3>1 DEF WriteMeta
    <3> QED
      BY <1>11, <2>1, <2>3, <3>1, <3>2, <1>a DEF WriteMeta, Handler
  <2> QED
    BY <1>11, <2>2, <2>3, <1>a DEF WriteMeta
<1>12. CASE MirrorPoints
  BY <1>12, GotoIs, RaisesIs, <1>a DEF MirrorPoints
<1>13. CASE MirrorV6
  <2>1. PICK after \in {IF recWorker.mode = "rebuild" THEN "drop" ELSE "idle"} :
          \/ /\ recV6' = recWorker.run /\ recRow' = Published
             /\ recWorker' = [recWorker EXCEPT !.step = after, !.last = "completed"]
             /\ UNCHANGED recBudget
          \/ Raises(after) /\ UNCHANGED <<recV6, recRow>>
    BY <1>13 DEF MirrorV6
  <2>2. /\ recWorker'.step = after /\ recWorker'.mode = recWorker.mode
        /\ recWorker'.run = recWorker.run /\ recWorker'.oldScope = recWorker.oldScope
    <3>1. after \in Steps
      BY <2>1
    <3>2. CASE Raises(after)
      BY <3>1, <3>2, RaisesIs
    <3>3. CASE recWorker' = [recWorker EXCEPT !.step = after, !.last = "completed"]
      BY <3>3 DEF Workers
    <3> QED
      BY <2>1, <3>2, <3>3
  <2>3. recWorker.mode = "full" => recBefore.scene.rules = 0
    BY <1>13 DEF MirrorV6, NothingBefore
  <2>4. recScene' = recScene /\ recBackup' = recBackup /\ recBefore' = recBefore
    BY <1>13 DEF MirrorV6
  <2>5. CASE recWorker.mode = "full"
    BY <1>13, <2>1, <2>2, <2>3, <2>4, <2>5 DEF MirrorV6
  <2>6. CASE recWorker.mode = "rebuild"
    BY <1>13, <2>1, <2>2, <2>4, <2>6 DEF MirrorV6
  <2> QED
    BY <1>13, <2>5, <2>6, <1>a DEF MirrorV6
<1>14. CASE FailRun
  BY <1>14, EndsIs, <1>a DEF FailRun, HasTaskFile
<1>15. CASE StartRebuild
  <2>1. /\ recWorker'.step = "stage" /\ recWorker'.mode = "rebuild"
        /\ recWorker'.oldScope = recScope /\ recBackup = NoScene
    BY <1>15, BeginIs DEF StartRebuild
  <2>2. recBefore'.scene = recScene /\ recBefore'.scope = recScope /\ recBefore'.rules = recRules
    BY <1>15 DEF StartRebuild
  <2> QED
    BY <1>15, <2>1, <2>2 DEF StartRebuild
<1>16. CASE StageScene
  BY <1>16, GotoIs, RaisesIs, <1>a DEF StageScene
<1>17. CASE MoveSceneOut
  BY <1>17, GotoIs, RaisesIs, <1>a DEF MoveSceneOut, Aside
<1>18. CASE MoveSceneIn
  BY <1>18, GotoIs, RaisesIs, <1>a DEF MoveSceneIn
<1>19. CASE PublishLedger
  BY <1>19, GotoIs, RaisesIs, <1>a DEF PublishLedger
<1>20. CASE PublishScope
  BY <1>20, GotoIs, RaisesIs, <1>a DEF PublishScope
<1>21. CASE DropBackup
  BY <1>21, RaisesIs, EndsIs, <1>a DEF DropBackup
<1>22. CASE RemoveNew
  BY <1>22, GotoIs, <1>a DEF RemoveNew
<1>23. CASE RestoreOld
  BY <1>23, GotoIs, RaisesIs, <1>a DEF RestoreOld
<1>24. CASE RestoreScope
  BY <1>24, GotoIs, RaisesIs, <1>a DEF RestoreScope, RestoredScope
<1>25. CASE RestoreRows
  BY <1>25, GotoIs, RaisesIs, <1>a DEF RestoreRows, RowOf
<1>26. CASE RemoveAgain
  BY <1>26, GotoIs, <1>a DEF RemoveAgain
<1>27. CASE PutBack
  BY <1>27, GotoIs, RaisesIs, <1>a DEF PutBack
<1>28. CASE RebuildFails
  BY <1>28, EndsIs, <1>a DEF RebuildFails
<1>29. CASE RecCrash
  BY <1>29, CrashIs, <1>a DEF RecCrash
<1>30. CASE RecRestart
  BY <1>30, GotoIs, <1>a DEF RecRestart, RowOf, ImportedRules
<1>31. CASE ImportScene
  <2>1. WholeScene(recScene) => recScene' = recScene
    BY <1>31 DEF ImportScene, ScenesInv, SceneOK
  <2>2. recWorker'.step = "idle" /\ recBackup' = NoScene
    BY <1>31, GotoIs DEF ImportScene
  <2>3. recWorker'.faults = recWorker.faults
    BY <1>31, GotoIs DEF ImportScene
  <2> QED
    BY <1>31, <2>1, <2>2, <2>3 DEF ImportScene
<1> QED
  BY <1>1, <1>2, <1>3, <1>4, <1>5, <1>6, <1>7, <1>8, <1>9, <1>10, <1>11, <1>12, <1>13, <1>14, <1>15, <1>16, <1>17, <1>18, <1>19, <1>20, <1>21, <1>22, <1>23, <1>24, <1>25, <1>26, <1>27, <1>28, <1>29, <1>30, <1>31 DEF RecNext, RecWork, RecStart

\* A task is created without records, or with what an older version left.
LEMMA InitRecords == RecAssumption /\ RecInit => RecordsInv
<1> SUFFICES ASSUME RecAssumption, RecInit PROVE RecordsInv
  OBVIOUS
<1>1. PICK upgraded \in BOOLEAN :
        /\ recScene \in IF upgraded THEN OldScenes ELSE {NoScene}
        /\ recWorker = [IdleWorker EXCEPT !.step = IF upgraded THEN "down" ELSE "idle"]
        /\ recBudget = [runs |-> IF upgraded THEN RecRuns - 1 ELSE RecRuns,
                        faults |-> RecFaults, crashes |-> RecCrashes]
  BY DEF RecInit
<1>2. 0 \in RunNumbers /\ 1 \in RunNumbers /\ RecRuns \in RunNumbers /\ RecRuns - 1 \in RunNumbers
      /\ RecFaults \in Nat /\ RecCrashes \in Nat
  BY DEF RunNumbers, RecAssumption
<1>3. recWorker = [step |-> IF upgraded THEN "down" ELSE "idle", mode |-> "none", run |-> 0,
                   oldScope |-> 0, faults |-> 0, last |-> "none"]
  BY <1>1 DEF IdleWorker
<1>4. recWorker \in Workers /\ recBudget \in Budgets
  <2>1. (IF upgraded THEN "down" ELSE "idle") \in Steps
    BY DEF Steps
  <2>2. recWorker \in Workers
    BY <1>2, <1>3, <2>1 DEF Workers
  <2>3. (IF upgraded THEN RecRuns - 1 ELSE RecRuns) \in RunNumbers
    BY <1>2
  <2>4. recBudget \in Budgets
    BY <1>1, <1>2, <2>3 DEF Budgets
  <2> QED
    BY <2>2, <2>4
<1>5. NoScene \in Scenes /\ OldScenes \subseteq Scenes /\ NoRow \in Rows
      /\ NothingBefore \in [scene : Scenes, scope : RunNumbers, rules : RunNumbers]
  BY <1>2 DEF NoScene, NoRow, OldScenes, NothingBefore, Scenes, Rows
<1>6. RecTypeOK
  BY <1>1, <1>2, <1>4, <1>5 DEF RecInit, RecTypeOK
<1>7. recScene = NoScene \/ (recWorker.step = "down" /\ recScene \in OldScenes)
  <2>1. CASE upgraded = TRUE
    BY <1>1, <1>3, <2>1
  <2>2. CASE upgraded = FALSE
    BY <1>1, <2>2
  <2> QED
    BY <2>1, <2>2
<1>8. SceneOK(NoScene) /\ NothingBefore.scene = NoScene /\ ~WholeScene(NoScene)
  BY DEF SceneOK, NoScene, NothingBefore, WholeScene
<1>9. \A s \in OldScenes : SceneOK(s) /\ HasTaskFile(s) /\ s.status = "completed"
  BY DEF OldScenes, SceneOK, HasTaskFile
<1>10. recWorker.step \in {"idle", "down"} /\ recQueue = "none" /\ recRow = NoRow /\ recLeft = {}
       /\ recBackup = NoScene /\ recBefore = NothingBefore /\ recRow.status = "none"
  BY <1>3 DEF RecInit, NoRow
<1>11. ScenesInv
  BY <1>7, <1>8, <1>9, <1>10 DEF ScenesInv
<1>12. RowInv
  BY <1>3, <1>7, <1>9, <1>10 DEF RowInv, At
<1>13. QueueInv
  BY <1>10 DEF QueueInv
<1>14. RunInv
  BY <1>10 DEF RunInv, InPlace, Exchange, Publishing, Rollback, CompletedHasItsRules
<1>15. RebuildInv
  BY <1>8, <1>10 DEF RebuildInv, Busy, Publishing, At, RebuildFailsWhole, CrashKeepsAScene
<1> QED
  BY <1>6, <1>11, <1>12, <1>13, <1>14, <1>15 DEF RecordsInv

LEMMA StepRecords ==
  ASSUME RecAssumption, RecordsInv, [RecNext]_recVars
  PROVE  RecordsInv'
<1>1. CASE RecNext
  <2>1. RecTypeOK
    BY DEF RecordsInv
  <2> QED
    BY <1>1, <2>1, StepTypes, StepScenes, StepRow, StepQueue, StepRun, StepRebuild DEF RecordsInv
<1>2. CASE UNCHANGED recVars
  BY <1>2 DEF recVars, recDisk, recTables, RecordsInv, RecTypeOK, ScenesInv, RowInv, QueueInv,
      Untouched, RunInv, Published, RebuildInv, NewScene, Kept, OldBack, Busy, At,
      RebuildFailsWhole, CrashKeepsAScene, CompletedHasItsRules
<1> QED
  BY <1>1, <1>2

\* Whatever fails in a full rebuild and wherever the process dies, one failing
\* step leaves scene, rule rows and frozen scope as they were, a whole scene is
\* somewhere on disk, and a completed row comes with the rule rows of its run
\* (_execute_full_rebuild, _rollback_full_rebuild, publish_from_scene).
THEOREM RecordsAreSafe == RecSpec => []RecordsSafe
<1>1. RecInit => RecordsInv
  BY RecAssumption, InitRecords
<1>2. RecordsInv /\ [RecNext]_recVars => RecordsInv'
  BY RecAssumption, StepRecords
<1>3. RecordsInv => RecordsSafe
  BY DEF RecordsInv, RunInv, RebuildInv, RecordsSafe
<1> QED
  BY <1>1, <1>2, <1>3, PTL DEF RecSpec

\* A start changes nothing about a task with an outcome and its rule rows:
\* neither the import nor the recovery applies to it
\* (import_task_from_output, _recover_terminal_task_from_scene).
THEOREM StartKeepsSettled == RecSpec => RestartLeavesSettled
<1> DEFINE Settled == RecStart /\ recLeft = {} /\ ~Unsettled /\ recRow # NoRow /\ recRules # 0
<1>1. Settled => UNCHANGED <<recScene, recTables>>
  <2> SUFFICES ASSUME Settled PROVE UNCHANGED <<recScene, recTables>>
    OBVIOUS
  <2>1. CASE RecRestart
    BY <2>1 DEF RecRestart, recTables, recDisk
  <2>2. CASE ImportScene
    BY <2>2 DEF ImportScene, NeedsImport, Recoverable, recTables
  <2> QED
    BY <2>1, <2>2 DEF RecStart
<1> QED
  BY <1>1, PTL DEF RecSpec, RestartLeavesSettled

\* RecTypeOK: the records of a task have the types of the code's values.
THEOREM RecTypes == RecSpec => []RecTypeOK
<1>1. RecInit => RecordsInv
  BY RecAssumption, InitRecords
<1>2. RecordsInv /\ [RecNext]_recVars => RecordsInv'
  BY RecAssumption, StepRecords
<1>3. RecordsInv => RecTypeOK
  BY DEF RecordsInv
<1> QED
  BY <1>1, <1>2, <1>3, PTL DEF RecSpec
-----------------------------------------------------------------------------
(* The device ledger                                                          *)

ObsKeys == InvTasks \X InvNames

IsObs(o) ==
  /\ o = [status |-> o.status, operator |-> o.operator, version |-> o.version, at |-> o.at]
  /\ o.status \in {"active", "retired"} /\ o.at \in Nat
ObsRow(o)   == o = NoEntry \/ IsObs(o)
IsDevice(v) == {"count", "status"} \subseteq DOMAIN v /\ v.status \in {"archived", "retired"}
IsEvidence(t, e) ==
  /\ e.status \in {"not_applicable", "failed", "not_archived", "archived"}
  /\ DOMAIN e.found \subseteq InvNames /\ \A n \in DOMAIN e.found : e.found[n].at \in Nat
  /\ DOMAIN e.found # {} => e.status = "archived" /\ Archivable(t) /\ t \notin Supplements

\* The tables: their rows have their fields, and an observation is of a task
\* with a province.
TablesTyped ==
  /\ DOMAIN obs = ObsKeys /\ \A k \in ObsKeys : ObsRow(obs[k]) /\ (obs[k] # NoEntry => Archivable(k[1]))
  /\ DOMAIN devices = DeviceIds /\ \A d \in DeviceIds : devices[d] = NoEntry \/ IsDevice(devices[d])
  /\ DOMAIN parsed = InvTasks /\ clock \in 0..InvRuns /\ deletes \in 0..InvDeletes

SessionFields ==
  {"pc", "task", "e", "locked", "lost", "table", "todo", "touched", "mine", "dirty", "rows", "added", "audits"}

\* The session of a publication under way.
SessionTyped ==
  /\ DOMAIN worker = SessionFields
  /\ worker.pc \in {"load", "archive", "recalculate"}
  /\ worker.task \in InvTasks /\ IsEvidence(worker.task, worker.e)
  /\ worker.locked \in BOOLEAN /\ worker.lost \in BOOLEAN
  /\ worker.todo \subseteq DOMAIN worker.e.found
  /\ worker.dirty \subseteq InvNames
  /\ DOMAIN worker.mine = InvNames /\ \A n \in InvNames : ObsRow(worker.mine[n])
  /\ \A n \in worker.dirty : worker.mine[n] # NoEntry
  /\ worker.locked \/ worker.dirty # {} => Archivable(worker.task)

\* The devices it has read or inserted.
SessionDevices ==
  /\ DOMAIN worker.rows \subseteq DeviceIds
  /\ \A d \in DOMAIN worker.rows : IsDevice(worker.rows[d])
  /\ worker.touched \subseteq DeviceIds
  /\ worker.touched # {} => worker.todo = {} /\ ~worker.locked
  /\ worker.pc # "load" => worker.todo # {} /\ DeviceId(worker.task, Min(worker.todo)) \in DOMAIN worker.rows

\* The tables as the session sees them under the lock.
SessionTable ==
  worker.locked =>
    /\ DOMAIN worker.table = ObsKeys
    /\ \A k \in ObsKeys : ObsRow(worker.table[k]) /\ (k[1] # worker.task => worker.table[k] = obs[k])
    /\ ~worker.lost => \A n \in InvNames :
         worker.table[<<worker.task, n>>] # NoEntry =>
           obs[<<worker.task, n>>] # NoEntry \/ DeviceId(worker.task, n) \in DOMAIN worker.rows

\* The names of the evidence that are not archived yet.
Open == IF worker.pc = "recalculate" THEN worker.todo \ {Min(worker.todo)} ELSE worker.todo

\* The row of name n that the commit would write.
Pending(n) == IF n \in worker.dirty THEN worker.mine[n] ELSE Table[<<worker.task, n>>]

HasAudit(n, old, new) ==
  \E a \in worker.audits : a.task = worker.task /\ a.name = n /\ a.before = old /\ a.after = new

\* What becomes of name n.
Fate(n) ==
  LET old == obs[<<worker.task, n>>] IN
  /\ n \in Open => n \notin worker.dirty /\ Table[<<worker.task, n>>] = old /\ old \in {worker.mine[n], NoEntry}
  /\ n \in DOMAIN worker.e.found \ Open =>
       /\ Pending(n) = Observation(worker.task, worker.e.found[n])
       /\ worker.locked \/ n \in worker.dirty
  /\ n \notin DOMAIN worker.e.found /\ worker.task \notin Supplements =>
       Pending(n) = NoEntry \/ Pending(n).status = "retired"
  /\ old # NoEntry /\ Pending(n) \notin {old, NoEntry} => HasAudit(n, old, Pending(n))

PublicationInv ==
  worker.pc # "idle" => SessionTyped /\ SessionDevices /\ SessionTable /\ \A n \in InvNames : Fate(n)

LedgerInv == TablesTyped /\ NoOrphans /\ LedgerMirrorsEvidence /\ PublicationInv
-----------------------------------------------------------------------------
(* What the operators of the model return                                  *)

\* A nonempty set of numbers has a least one, and Min is it.
LEMMA MinOfNumbers ==
  ASSUME NEW S \in SUBSET Nat, S # {}
  PROVE  Min(S) \in S
<1>1. PICK m \in S : \A y \in S : <<y, m>> \notin OpToRel(<, Nat)
  BY NatLessThanWellFounded, WFMin
<1>2. \A y \in S : m =< y
  <2> TAKE y \in S
  <2>1. ~(y < m)
    BY <1>1, Zenon DEF OpToRel
  <2> QED
    BY <2>1
<1> QED
  BY <1>2 DEF Min

\* A nonempty set of numbers up to k has a largest one, and Max is it.
LEMMA MaxUpTo ==
  ASSUME NEW k \in Nat, NEW S \in SUBSET (0..k), S # {}
  PROVE  Max(S) \in S
<1> DEFINE U == {k - x : x \in S}
<1>1. U \in SUBSET Nat /\ U # {}
  <2>1. \A x \in S : k - x \in Nat
    OBVIOUS
  <2>2. PICK x \in S : TRUE
    OBVIOUS
  <2>3. k - x \in U
    OBVIOUS
  <2> QED
    BY <2>1, <2>3
<1> HIDE DEF U
<1>2. PICK m \in U : \A y \in U : <<y, m>> \notin OpToRel(<, Nat)
  BY <1>1, NatLessThanWellFounded, WFMin
<1>3. PICK x \in S : m = k - x
  BY <1>2 DEF U
<1>4. \A y \in S : ~((k - y) < (k - x))
  <2> TAKE y \in S
  <2>1. k - y \in U /\ k - y \in Nat /\ k - x \in Nat
    BY DEF U
  <2>2. <<k - y, k - x>> \notin OpToRel(<, Nat)
    BY <1>2, <1>3, <2>1
  <2> QED
    BY <2>1, <2>2, Zenon DEF OpToRel
<1>5. \A y \in S : x >= y
  BY <1>4
<1> QED
  BY <1>5 DEF Max

\* The least of some names is one of them.
LEMMA MinName == ASSUME NEW S \in SUBSET InvNames, S # {} PROVE Min(S) \in S
<1>1. S \in SUBSET Nat
  BY InventoryAssumption
<1> QED
  BY <1>1, MinOfNumbers

\* Parsing gives an evidence: its names are device names, their times numbers,
\* and only a task with a province archives.
LEMMA EvidenceTyped ==
  ASSUME NEW t \in InvTasks, NEW scan, NEW done \in Nat
  PROVE  IsEvidence(t, EvidenceOf(t, scan, done))
<1> DEFINE status == StatusOf(t, scan)
           found  == IF status = "archived" THEN NamesIn(scan) ELSE {}
           e      == EvidenceOf(t, scan, done)
<1>1. /\ status \in {"not_applicable", "failed", "not_archived", "archived"}
      /\ status = "archived" => Archivable(t) /\ t \notin Supplements
  BY DEF StatusOf
<1>2. found \subseteq InvNames
  BY DEF NamesIn
<1>3. ASSUME NEW n PROVE ObservedAt(scan, n, done) \in Nat
  <2> DEFINE late == done + TimeTolerance
             times == {ReadFile(scan[i]).time : i \in FilesOf(scan, n)}
             valid == {x \in times : x \in Nat /\ x <= late}
  <2>0. late \in Nat
    BY InventoryAssumption
  <2>1. ObservedAt(scan, n, done) = IF valid = {} THEN done ELSE Max(valid)
    BY DEF ObservedAt
  <2>2. valid \in SUBSET (0..late)
    <3>1. \A x \in valid : x \in Nat /\ x <= late
      OBVIOUS
    <3> HIDE DEF valid, late
    <3> QED
      BY <2>0, <3>1
  <2>3. valid # {} => Max(valid) \in valid
    <3> HIDE DEF valid, late
    <3> QED
      BY <2>0, <2>2, MaxUpTo
  <2>4. valid # {} => Max(valid) \in Nat
    BY <2>2, <2>3
  <2> HIDE DEF valid
  <2> QED
    BY <2>1, <2>4
<1>4. /\ e.status = status /\ DOMAIN e.found = found
      /\ \A n \in found : e.found[n].at = ObservedAt(scan, n, done)
  BY DEF EvidenceOf
<1> QED
  BY <1>1, <1>2, <1>3, <1>4 DEF IsEvidence

\* A recalculated device is a device.
LEMMA DeviceRecalculated ==
  ASSUME NEW d, NEW v, IsDevice(v)
  PROVE  IsDevice(Recalculate(d, v))
<1> DEFINE rows == SetToSortSeq(ActiveRows(d), Newer)
<1>1. CASE rows = <<>>
  <2>1. Recalculate(d, v) = [v EXCEPT !.count = 0, !.status = "retired"]
    BY <1>1 DEF Recalculate
  <2> QED
    BY <2>1 DEF IsDevice
<1>2. CASE rows # <<>>
  <2>1. /\ {"count", "status"} \subseteq DOMAIN Recalculate(d, v)
        /\ Recalculate(d, v).status = "archived"
    BY <1>2 DEF Recalculate
  <2> QED
    BY <2>1 DEF IsDevice
<1> QED
  BY <1>1, <1>2

\* The rows of the model are not the missing entry.
LEMMA Present ==
  /\ \A o : IsObs(o) => o # NoEntry
  /\ \A v : IsDevice(v) => v # NoEntry
  /\ \A t, e : IsEvidence(t, e) => e # NoEntry
  BY DEF IsObs, IsDevice, IsEvidence, NoEntry

\* Archiving and retiring write observations.
LEMMA RowWritten ==
  /\ \A t, f : f.at \in Nat => IsObs(Observation(t, f)) /\ Observation(t, f).status = "active"
  /\ \A o : IsObs(o) => IsObs(Retired(o)) /\ Retired(o).status = "retired"
<1>1. ASSUME NEW t, NEW f, f.at \in Nat
      PROVE  IsObs(Observation(t, f)) /\ Observation(t, f).status = "active"
  BY <1>1 DEF IsObs, Observation
<1>2. ASSUME NEW o, IsObs(o) PROVE IsObs(Retired(o)) /\ Retired(o).status = "retired"
  <2>1. Retired(o) = [status |-> "retired", operator |-> o.operator, version |-> o.version, at |-> o.at]
    BY <1>2 DEF Retired, IsObs
  <2> QED
    BY <1>2, <2>1 DEF IsObs
<1> QED
  BY <1>1, <1>2

\* The device of a name of an archivable task.
LEMMA KnownId ==
  ASSUME NEW t \in InvTasks, Archivable(t), NEW n \in InvNames
  PROVE  DeviceId(t, n) \in DeviceIds
  BY DEF DeviceIds
-----------------------------------------------------------------------------
(* The session's steps                                                     *)

\* Empty tables, no publication.
LEMMA InitSound == InvInit => LedgerInv
<1> SUFFICES ASSUME InvInit PROVE LedgerInv
  OBVIOUS
<1>1. TablesTyped
  BY InventoryAssumption DEF InvInit, TablesTyped, ObsKeys, ObsRow
<1>2. NoOrphans /\ LedgerMirrorsEvidence
  BY DEF InvInit, NoOrphans, LedgerMirrorsEvidence
<1> QED
  BY <1>1, <1>2 DEF LedgerInv, PublicationInv, InvInit, IdleSession

\* A publication starts with the observations of its task in the session.
LEMMA PublishSound ==
  ASSUME TablesTyped, NEW t \in InvTasks, NEW scan \in Scans, PublishParsed(t, scan)
  PROVE  PublicationInv'
<1> DEFINE e    == EvidenceOf(t, scan, clock')
           here == IF t \in Supplements THEN {} ELSE {n \in InvNames : obs[<<t, n>>] # NoEntry}
           gone == here \ DOMAIN e.found
<1>0. IsEvidence(t, e)
  <2>1. clock' \in Nat
    BY InventoryAssumption DEF PublishParsed, TablesTyped
  <2> QED
    BY <2>1, EvidenceTyped
<1>1. worker' = [pc |-> "load", task |-> t, e |-> e, locked |-> FALSE, lost |-> FALSE, table |-> obs,
                 todo |-> DOMAIN e.found,
                 touched |-> IF e.status = "archived" THEN {} ELSE {DeviceId(t, n) : n \in here},
                 mine |-> [n \in InvNames |-> IF n \in gone THEN Retired(obs[<<t, n>>]) ELSE obs[<<t, n>>]],
                 dirty |-> gone, rows |-> <<>>, added |-> {},
                 audits |-> {Audit(t, n, "retire", obs[<<t, n>>], Retired(obs[<<t, n>>])) : n \in gone}]
      /\ obs' = obs
  BY DEF PublishParsed
<1> HIDE DEF e
<1>2. /\ worker'.pc = "load" /\ worker'.task = t /\ worker'.e = e /\ worker'.locked = FALSE
      /\ worker'.lost = FALSE /\ worker'.todo = DOMAIN e.found /\ worker'.dirty = gone
      /\ worker'.touched = IF e.status = "archived" THEN {} ELSE {DeviceId(t, n) : n \in here}
      /\ DOMAIN worker'.mine = InvNames /\ DOMAIN worker'.rows = {}
      /\ \A n \in InvNames : worker'.mine[n] = IF n \in gone THEN Retired(obs[<<t, n>>]) ELSE obs[<<t, n>>]
      /\ worker'.audits = {Audit(t, n, "retire", obs[<<t, n>>], Retired(obs[<<t, n>>])) : n \in gone}
      /\ DOMAIN worker' = SessionFields
  BY <1>1 DEF SessionFields
<1>3. /\ gone \subseteq InvNames
      /\ \A n \in gone : IsObs(obs[<<t, n>>]) /\ Archivable(t) /\ t \notin Supplements
      /\ \A n \in InvNames : ObsRow(obs[<<t, n>>])
      /\ \A n \in here : Archivable(t)
  BY DEF TablesTyped, ObsKeys, ObsRow
<1> HIDE DEF gone
<1>4. SessionTyped'
  <2>1. \A n \in InvNames : ObsRow(worker'.mine[n])
    <3> TAKE n \in InvNames
    <3>1. CASE n \in gone
      <4>1. IsObs(Retired(obs[<<t, n>>]))
        BY <1>3, <3>1, RowWritten
      <4> QED
        BY <1>2, <3>1, <4>1 DEF ObsRow
    <3>2. CASE n \notin gone
      BY <1>2, <1>3, <3>2
    <3> QED
      BY <3>1, <3>2
  <2>2. \A n \in gone : worker'.mine[n] # NoEntry
    BY <1>2, <1>3, RowWritten, Present
  <2> QED
    BY <1>0, <1>2, <1>3, <2>1, <2>2 DEF SessionTyped
<1>5. SessionDevices' /\ SessionTable'
  <2>1. worker'.touched \subseteq DeviceIds
    <3>1. \A n \in here : n \in InvNames /\ DeviceId(t, n) \in DeviceIds
      BY <1>3, KnownId
    <3> HIDE DEF here
    <3> QED
      BY <1>2, <3>1
  <2>2. worker'.touched # {} => worker'.todo = {}
    BY <1>0, <1>2 DEF IsEvidence
  <2> QED
    BY <1>2, <2>1, <2>2 DEF SessionDevices, SessionTable
<1>6. ASSUME NEW n \in InvNames PROVE Fate(n)'
  <2> DEFINE old == obs[<<t, n>>]
  <2>1. Pending(n)' = IF n \in gone THEN Retired(old) ELSE old
    BY <1>1, <1>2, <1>6 DEF Pending, Table
  <2>2. Open' = DOMAIN e.found /\ Table'[<<t, n>>] = old
    BY <1>1, <1>2 DEF Open, Table
  <2>3. CASE n \in gone
    <3>1. n \notin DOMAIN e.found /\ t \notin Supplements
      BY <2>3, <1>3 DEF gone
    <3>2. Pending(n)'.status = "retired"
      BY <1>3, <2>1, <2>3, RowWritten
    <3>3. PICK a : a = Audit(t, n, "retire", old, Retired(old))
      OBVIOUS
    <3>4. a \in worker'.audits /\ a.task = t /\ a.name = n /\ a.before = old /\ a.after = Retired(old)
      BY <1>2, <2>3, <3>3 DEF Audit
    <3>5. HasAudit(n, old, Retired(old))'
      BY <1>2, <3>4, <1>1 DEF HasAudit
    <3> QED
      BY <1>1, <1>2, <2>1, <2>2, <2>3, <3>1, <3>2, <3>5 DEF Fate
  <2>4. CASE n \notin gone
    <3>1. n \notin DOMAIN e.found /\ t \notin Supplements => old = NoEntry
      BY <2>4 DEF gone
    <3>2. worker'.mine[n] = old
      BY <1>2, <2>4
    <3> QED
      BY <1>1, <1>2, <2>1, <2>2, <2>4, <3>1, <3>2 DEF Fate
  <2> QED
    BY <2>3, <2>4
<1> QED
  BY <1>4, <1>5, <1>6 DEF PublicationInv
\* What a query of the session returns: committed rows, except those of its task.
LEMMA TableTyped ==
  ASSUME TablesTyped, SessionTyped, SessionTable
  PROVE  \A k \in ObsKeys : ObsRow(Table[k]) /\ (k[1] # worker.task => Table[k] = obs[k])
  BY DEF TablesTyped, SessionTyped, SessionTable, Table

\* A flush changes the table, the lock and the pending rows of the session.
LEMMA Flushed ==
  ASSUME TablesTyped, NEW w, DOMAIN w = SessionFields
  PROVE  /\ DOMAIN Flush(w) = SessionFields
         /\ \A x \in SessionFields \ {"locked", "lost", "dirty", "table"} : Flush(w)[x] = w[x]
         /\ Flush(w).locked = TRUE /\ Flush(w).lost = Stale /\ Flush(w).dirty = {}
         /\ DOMAIN Flush(w).table = ObsKeys
         /\ \A k \in ObsKeys :
              Flush(w).table[k] = IF k[1] = w.task /\ k[2] \in w.dirty THEN w.mine[k[2]] ELSE Table[k]
  BY DEF Flush, SessionFields, TablesTyped

\* A step of the session that leaves what it would write of a name.
LEMMA FateKept ==
  ASSUME NEW n \in InvNames, Fate(n), obs' = obs,
         worker'.task = worker.task, worker'.e = worker.e, n \in Open' <=> n \in Open,
         worker'.mine[n] = worker.mine[n], Pending(n)' = Pending(n),
         n \in Open => /\ n \in worker'.dirty => n \in worker.dirty
                       /\ Table'[<<worker.task, n>>] = Table[<<worker.task, n>>],
         worker.locked \/ n \in worker.dirty => worker'.locked \/ n \in worker'.dirty,
         worker.audits \subseteq worker'.audits
  PROVE  Fate(n)'
<1>1. ASSUME NEW old, NEW new, HasAudit(n, old, new) PROVE HasAudit(n, old, new)'
  BY <1>1 DEF HasAudit
<1>2. PICK p : p = Pending(n) /\ p = Pending(n)'
  OBVIOUS
<1>3. PICK old : old = obs[<<worker.task, n>>] /\ old = obs'[<<worker'.task, n>>]
  OBVIOUS
<1>4. PICK tab : tab = Table[<<worker.task, n>>] /\ (n \in Open => tab = Table'[<<worker'.task, n>>])
  OBVIOUS
<1> QED
  BY <1>1, <1>2, <1>3, <1>4 DEF Fate

\* A flush that writes the rows dirty with their values in mine gives table.
Leaves(table, dirty, mine) ==
  /\ dirty \subseteq InvNames /\ \A m \in dirty : ObsRow(mine[m])
  /\ DOMAIN table = ObsKeys
  /\ \A k \in ObsKeys :
       table[k] = IF k[1] = worker.task /\ k[2] \in dirty THEN mine[k[2]] ELSE Table[k]

\* What a flush may leave in the table of the session: under the lock it is
\* the committed one but for the rows of the task, and unless the flush found
\* a changed row gone, those have their device.
LEMMA FlushedTable ==
  ASSUME TablesTyped, SessionTyped, SessionTable,
         NEW dirty, NEW mine, NEW table, Leaves(table, dirty, mine)
  PROVE  /\ \A k \in ObsKeys : ObsRow(table[k]) /\ (k[1] # worker.task => table[k] = obs[k])
         /\ ~Stale => \A m \in InvNames :
              table[<<worker.task, m>>] # NoEntry =>
                \/ obs[<<worker.task, m>>] # NoEntry
                \/ DeviceId(worker.task, m) \in DOMAIN worker.rows
                \/ m \in dirty \ worker.dirty
<1>1. \A k \in ObsKeys : ObsRow(table[k]) /\ (k[1] # worker.task => table[k] = obs[k])
  BY TableTyped DEF Leaves
<1>2. ASSUME ~Stale, NEW m \in InvNames, table[<<worker.task, m>>] # NoEntry, m \notin dirty \ worker.dirty
      PROVE  obs[<<worker.task, m>>] # NoEntry \/ DeviceId(worker.task, m) \in DOMAIN worker.rows
  <2>1. <<worker.task, m>> \in ObsKeys
    BY DEF SessionTyped, ObsKeys
  <2>2. Table[<<worker.task, m>>] # NoEntry
    BY <1>2, <2>1 DEF Stale, Leaves
  <2> QED
    BY <1>2, <2>1, <2>2 DEF Table, SessionTable, Stale, SessionTyped
<1> QED
  BY <1>1, <1>2

\* The device of the next name is read, or inserted and flushed.
LEMMA LoadSound ==
  ASSUME TablesTyped, PublicationInv, LoadDevice
  PROVE  PublicationInv'
<1> DEFINE n == Min(worker.todo)
           d == DeviceId(worker.task, n)
           w == [worker EXCEPT !.pc = "archive"]
<1>0. SessionTyped /\ SessionDevices /\ SessionTable /\ \A m \in InvNames : Fate(m)
  BY DEF LoadDevice, PublicationInv
<1>1. n \in worker.todo /\ worker.todo \subseteq InvNames /\ d \in DeviceIds /\ worker.task \in InvTasks
  <2>1. worker.todo \in SUBSET InvNames /\ worker.todo # {} /\ worker.task \in InvTasks
    BY <1>0 DEF SessionTyped, IsEvidence, LoadDevice
  <2>2. n \in worker.todo
    BY <2>1, MinName
  <2>3. Archivable(worker.task)
    BY <1>0, <2>2 DEF SessionTyped, IsEvidence
  <2> QED
    BY <2>1, <2>2, <2>3, KnownId
<1>2. DOMAIN w = SessionFields /\ w.pc = "archive" /\ \A x \in SessionFields \ {"pc"} : w[x] = worker[x]
  BY <1>0 DEF SessionTyped, SessionFields
<1>3. UNCHANGED <<invEvidence, parsed, obs, devices, audits, clock, deletes>> /\ worker.pc = "load"
  BY DEF LoadDevice
<1>4. Open = worker.todo
  BY <1>3 DEF Open
<1> HIDE DEF d, n, w
<1>5. CASE devices[d] # NoEntry
  <2>1. worker' = [w EXCEPT !.rows = WithRow(@, d, devices[d])]
    BY <1>5 DEF LoadDevice, d, n, w
  <2>2. /\ DOMAIN worker' = SessionFields /\ worker'.pc = "archive"
        /\ \A x \in SessionFields \ {"pc", "rows"} : worker'[x] = worker[x]
        /\ worker'.rows = WithRow(worker.rows, d, devices[d])
    BY <1>2, <2>1 DEF SessionFields
  <2>3. /\ DOMAIN worker'.rows = DOMAIN worker.rows \cup {d}
        /\ \A x \in DOMAIN worker'.rows : worker'.rows[x] = IF x = d THEN devices[d] ELSE worker.rows[x]
    BY <2>2 DEF WithRow
  <2>4. IsDevice(devices[d])
    BY <1>1, <1>5 DEF TablesTyped
  <2>5. SessionTyped'
    BY <1>0, <2>2 DEF SessionTyped, SessionFields
  <2>6. SessionDevices'
    BY <1>0, <1>1, <2>2, <2>3, <2>4, <1>3 DEF SessionDevices, SessionFields, d, n
  <2>7. SessionTable'
    BY <1>0, <1>3, <2>2, <2>3 DEF SessionTable, SessionFields
  <2>8. ASSUME NEW m \in InvNames PROVE Fate(m)'
    <3>1. Open' = Open /\ Table' = Table /\ Pending(m)' = Pending(m)
      BY <1>3, <1>4, <2>2 DEF Open, Table, Pending, SessionFields
    <3> QED
      BY <1>0, <1>3, <2>2, <3>1, FateKept DEF SessionFields
  <2> QED
    BY <2>5, <2>6, <2>7, <2>8 DEF PublicationInv
<1>6. CASE devices[d] = NoEntry
  <2>0. PICK f : f = Flush(w)
    OBVIOUS
  <2>f. /\ DOMAIN f = SessionFields
        /\ \A x \in SessionFields \ {"locked", "lost", "dirty", "table"} : f[x] = w[x]
        /\ f.locked = TRUE /\ f.lost = Stale /\ f.dirty = {}
        /\ DOMAIN f.table = ObsKeys
        /\ \A k \in ObsKeys :
             f.table[k] = IF k[1] = w.task /\ k[2] \in w.dirty THEN w.mine[k[2]] ELSE Table[k]
    BY <2>0, <1>2, Flushed
  <2>1. worker' = [f EXCEPT !.rows = WithRow(@, d, Fresh(worker.task)), !.added = @ \cup {d}]
    BY <1>6, <2>0 DEF LoadDevice, d, n, w
  <2>2. /\ DOMAIN worker' = SessionFields /\ worker'.pc = "archive"
        /\ \A x \in SessionFields \ {"pc", "locked", "lost", "dirty", "table", "rows", "added"} : worker'[x] = worker[x]
        /\ worker'.rows = WithRow(worker.rows, d, Fresh(worker.task))
        /\ worker'.locked = TRUE /\ worker'.lost = Stale /\ worker'.dirty = {}
        /\ worker'.table = f.table
    BY <1>2, <2>f, <2>1 DEF SessionFields
  <2>3. /\ DOMAIN worker'.table = ObsKeys
        /\ \A k \in ObsKeys :
             worker'.table[k] = IF k[1] = worker.task /\ k[2] \in worker.dirty THEN worker.mine[k[2]] ELSE Table[k]
    BY <1>2, <2>2, <2>f DEF SessionFields
  <2>4. /\ DOMAIN worker'.rows = DOMAIN worker.rows \cup {d}
        /\ \A x \in DOMAIN worker'.rows : worker'.rows[x] = IF x = d THEN Fresh(worker.task) ELSE worker.rows[x]
    BY <2>2 DEF WithRow
  <2>5. IsDevice(Fresh(worker.task)) /\ Archivable(worker.task)
    BY <1>0, <1>1 DEF IsDevice, Fresh, SessionTyped, IsEvidence
  <2>6. SessionTyped'
    BY <1>0, <2>2, <2>5 DEF SessionTyped, SessionFields, Stale
  <2>7. SessionDevices'
    BY <1>0, <1>1, <2>2, <2>4, <2>5 DEF SessionDevices, SessionFields, d, n
  <2>8. SessionTable'
    <3>1. PICK table, dirty, mine : table = worker'.table /\ dirty = worker.dirty /\ mine = worker.mine
      OBVIOUS
    <3>2. Leaves(table, dirty, mine)
      BY <1>0, <2>3, <3>1 DEF SessionTyped, Leaves
    <3>3. /\ \A k \in ObsKeys : ObsRow(table[k]) /\ (k[1] # worker.task => table[k] = obs[k])
          /\ ~Stale => \A m \in InvNames :
               table[<<worker.task, m>>] # NoEntry =>
                 \/ obs[<<worker.task, m>>] # NoEntry
                 \/ DeviceId(worker.task, m) \in DOMAIN worker.rows
                 \/ m \in dirty \ worker.dirty
      BY <1>0, <3>2, FlushedTable
    <3> QED
      BY <1>3, <2>2, <2>3, <2>4, <3>1, <3>3 DEF SessionFields, SessionTable
  <2>9. ASSUME NEW m \in InvNames PROVE Fate(m)'
    <3>1. <<worker.task, m>> \in ObsKeys
      BY <1>1 DEF ObsKeys
    <3>2. Open' = Open /\ Pending(m)' = Pending(m)
      BY <1>4, <2>2, <2>3, <3>1 DEF Open, Table, Pending, SessionFields
    <3>3. m \in Open => Table'[<<worker.task, m>>] = Table[<<worker.task, m>>]
      BY <1>0, <2>2, <2>3, <3>1 DEF Fate, Table
    <3> QED
      BY <1>0, <1>3, <2>2, <3>2, <3>3, FateKept DEF SessionFields
  <2> QED
    BY <2>6, <2>7, <2>8, <2>9 DEF PublicationInv
<1> QED
  BY <1>5, <1>6
\* The next name is archived: its row is created and flushed, or overwritten
\* in the session, with an audit of what it was.
LEMMA ArchiveSound ==
  ASSUME TablesTyped, PublicationInv, ArchiveDevice
  PROVE  PublicationInv'
<1> DEFINE n   == Min(worker.todo)
           old == worker.mine[n]
           new == Observation(worker.task, worker.e.found[n])
           w   == [worker EXCEPT !.pc = "recalculate", !.mine[n] = new, !.dirty = @ \cup {n}]
           U   == SessionFields \ {"pc", "locked", "lost", "table", "dirty", "mine", "audits"}
<1>0. SessionTyped /\ SessionDevices /\ SessionTable /\ \A m \in InvNames : Fate(m)
  BY DEF ArchiveDevice, PublicationInv
<1>1. /\ n \in worker.todo /\ worker.todo \subseteq DOMAIN worker.e.found
      /\ DOMAIN worker.e.found \subseteq InvNames /\ worker.task \in InvTasks /\ Archivable(worker.task)
  <2>1. worker.todo \in SUBSET InvNames /\ worker.todo # {} /\ worker.task \in InvTasks
    BY <1>0 DEF SessionTyped, SessionDevices, IsEvidence, ArchiveDevice
  <2>2. n \in worker.todo
    BY <2>1, MinName
  <2> QED
    BY <1>0, <2>1, <2>2 DEF SessionTyped, IsEvidence
<1>2. IsObs(new) /\ new # NoEntry
  <2>1. worker.e.found[n].at \in Nat
    BY <1>0, <1>1 DEF SessionTyped, IsEvidence
  <2> QED
    BY <2>1, RowWritten, Present
<1>3. UNCHANGED <<invEvidence, parsed, obs, devices, audits, clock, deletes>> /\ worker.pc = "archive"
  BY DEF ArchiveDevice
<1>4. /\ DOMAIN w = SessionFields /\ w.pc = "recalculate" /\ w.dirty = worker.dirty \cup {n}
      /\ w.mine = [worker.mine EXCEPT ![n] = new]
      /\ \A x \in SessionFields \ {"pc", "dirty", "mine"} : w[x] = worker[x]
  BY <1>0 DEF SessionTyped, SessionFields
<1>5. Open = worker.todo
  BY <1>3 DEF Open
<1>6. \/ old = NoEntry /\ worker' = [Flush(w) EXCEPT !.audits = @ \cup {Audit(worker.task, n, "create", NoEntry, new)}]
      \/ old # NoEntry /\ old = new /\ worker' = w
      \/ old # NoEntry /\ worker' = [w EXCEPT !.audits = @ \cup {Audit(worker.task, n, "update", old, new)}]
  BY DEF ArchiveDevice
<1> HIDE DEF n, old, new, w
\* the fields of the session in all cases
<1>7. /\ DOMAIN worker' = SessionFields /\ worker'.pc = "recalculate"
      /\ worker'.mine = [worker.mine EXCEPT ![n] = new]
      /\ \A x \in U : worker'[x] = worker[x]
      /\ worker.audits \subseteq worker'.audits
      /\ \/ /\ old = NoEntry /\ worker'.locked = TRUE /\ worker'.lost = Stale /\ worker'.dirty = {}
            /\ Leaves(worker'.table, worker.dirty \cup {n}, worker'.mine)
         \/ /\ old # NoEntry /\ worker'.locked = worker.locked /\ worker'.lost = worker.lost
            /\ worker'.dirty = worker.dirty \cup {n} /\ worker'.table = worker.table
            /\ old = new \/ Audit(worker.task, n, "update", old, new) \in worker'.audits
  <2>1. CASE old = NoEntry
    <3>1. PICK f : f = Flush(w)
      OBVIOUS
    <3>2. /\ DOMAIN f = SessionFields
          /\ \A x \in SessionFields \ {"locked", "lost", "dirty", "table"} : f[x] = w[x]
          /\ f.locked = TRUE /\ f.lost = Stale /\ f.dirty = {}
          /\ DOMAIN f.table = ObsKeys
          /\ \A k \in ObsKeys :
               f.table[k] = IF k[1] = w.task /\ k[2] \in w.dirty THEN w.mine[k[2]] ELSE Table[k]
      BY <3>1, <1>4, Flushed
    <3>3. worker' = [f EXCEPT !.audits = @ \cup {Audit(worker.task, n, "create", NoEntry, new)}]
      BY <1>6, <2>1, <3>1
    <3>4. /\ DOMAIN worker' = SessionFields /\ worker'.pc = "recalculate"
          /\ worker'.mine = [worker.mine EXCEPT ![n] = new]
          /\ \A x \in U : worker'[x] = worker[x]
          /\ worker.audits \subseteq worker'.audits
          /\ worker'.locked = TRUE /\ worker'.lost = Stale /\ worker'.dirty = {}
          /\ worker'.table = f.table
      BY <1>4, <3>2, <3>3 DEF SessionFields
    <3>5. \A m \in worker.dirty \cup {n} : m \in InvNames /\ ObsRow(worker'.mine[m])
      BY <1>0, <1>1, <1>2, <3>4 DEF SessionTyped, ObsRow
    <3>6. w.task = worker.task /\ w.mine = worker'.mine
      BY <1>4, <3>4 DEF SessionFields
    <3>7. Leaves(worker'.table, worker.dirty \cup {n}, worker'.mine)
      BY <1>4, <3>2, <3>4, <3>5, <3>6 DEF Leaves
    <3> QED
      BY <2>1, <3>4, <3>7
  <2>2. CASE old # NoEntry /\ worker' = w
    BY <1>4, <1>6, <2>2 DEF SessionFields
  <2>3. CASE old # NoEntry /\ worker' # w
    <3>1. worker' = [w EXCEPT !.audits = @ \cup {Audit(worker.task, n, "update", old, new)}]
      BY <1>6, <2>3
    <3> QED
      BY <1>4, <2>3, <3>1 DEF SessionFields
  <2> QED
    BY <2>1, <2>2, <2>3
<1>8. /\ worker'.task = worker.task /\ worker'.e = worker.e /\ worker'.todo = worker.todo
      /\ worker'.rows = worker.rows /\ worker'.touched = worker.touched
  BY <1>7 DEF SessionFields
<1>9. /\ DOMAIN worker'.mine = InvNames /\ worker'.mine[n] = new
      /\ \A m \in InvNames \ {n} : worker'.mine[m] = worker.mine[m]
  BY <1>0, <1>1, <1>7 DEF SessionTyped
<1>a. SessionTyped'
  <2>1. \A m \in InvNames : ObsRow(worker'.mine[m])
    BY <1>0, <1>2, <1>9 DEF SessionTyped, ObsRow
  <2>2. \A m \in worker'.dirty : worker'.mine[m] # NoEntry
    BY <1>0, <1>2, <1>7, <1>9 DEF SessionTyped
  <2>3. worker'.dirty \subseteq InvNames /\ worker'.locked \in BOOLEAN /\ worker'.lost \in BOOLEAN
    BY <1>0, <1>1, <1>7 DEF SessionTyped, Stale
  <2> QED
    BY <1>0, <1>1, <1>7, <1>8, <1>9, <2>1, <2>2, <2>3 DEF SessionTyped
<1>b. SessionDevices'
  BY <1>0, <1>1, <1>3, <1>7, <1>8 DEF SessionDevices, n
<1>c. SessionTable'
  <2>1. CASE worker'.table = worker.table /\ worker'.locked = worker.locked /\ worker'.lost = worker.lost
    BY <1>0, <1>3, <1>8, <2>1 DEF SessionTable
  <2>2. ASSUME Leaves(worker'.table, worker.dirty \cup {n}, worker'.mine), worker'.lost = Stale
        PROVE  SessionTable'
    <3>1. PICK table, dirty, mine :
            table = worker'.table /\ dirty = worker.dirty \cup {n} /\ mine = worker'.mine
      OBVIOUS
    <3>2. Leaves(table, dirty, mine)
      BY <2>2, <3>1
    <3>3. /\ \A k \in ObsKeys : ObsRow(table[k]) /\ (k[1] # worker.task => table[k] = obs[k])
          /\ ~Stale => \A m \in InvNames :
               table[<<worker.task, m>>] # NoEntry =>
                 \/ obs[<<worker.task, m>>] # NoEntry
                 \/ DeviceId(worker.task, m) \in DOMAIN worker.rows
                 \/ m \in dirty \ worker.dirty
      BY <1>0, <3>2, FlushedTable
    <3>4. DeviceId(worker.task, n) \in DOMAIN worker.rows
      BY <1>0, <1>3 DEF SessionDevices, n
    <3>5. \A m \in dirty \ worker.dirty : DeviceId(worker.task, m) \in DOMAIN worker.rows
      BY <3>1, <3>4
    <3>6. DOMAIN table = ObsKeys
      BY <3>2 DEF Leaves
    <3> QED
      BY <1>3, <1>8, <2>2, <3>1, <3>3, <3>5, <3>6 DEF SessionTable
  <2> QED
    BY <1>7, <2>1, <2>2
<1>d. ASSUME NEW m \in InvNames PROVE Fate(m)'
  <2>1. <<worker.task, m>> \in ObsKeys
    BY <1>1 DEF ObsKeys
  <2>2. Open' = Open \ {n}
    BY <1>5, <1>7, <1>8 DEF Open, n
  <2>3. CASE m # n
    <3>1. Pending(m)' = Pending(m)
      <4>1. PICK row : row = worker.mine[m] /\ row = worker'.mine[m]
        BY <1>9, <2>3
      <4>2. ASSUME worker'.dirty = {}, worker'.locked = TRUE,
                   Leaves(worker'.table, worker.dirty \cup {n}, worker'.mine)
            PROVE  Pending(m)' = Pending(m)
        <5>1. PICK table, dirty, mine :
                table = worker'.table /\ dirty = worker.dirty \cup {n} /\ mine = worker'.mine
          OBVIOUS
        <5>2. table[<<worker.task, m>>] = IF m \in dirty THEN mine[m] ELSE Table[<<worker.task, m>>]
          BY <2>1, <4>2, <5>1 DEF Leaves
        <5>3. Pending(m)' = table[<<worker.task, m>>]
          BY <1>8, <4>2, <5>1 DEF Pending, Table
        <5>4. m \in dirty <=> m \in worker.dirty
          BY <2>3, <5>1
        <5> QED
          BY <4>1, <5>1, <5>2, <5>3, <5>4 DEF Pending
      <4>3. ASSUME worker'.locked = worker.locked, worker'.dirty = worker.dirty \cup {n}, worker'.table = worker.table
            PROVE  Pending(m)' = Pending(m)
        BY <1>3, <1>8, <2>3, <4>1, <4>3 DEF Pending, Table
      <4> QED
        BY <1>7, <4>2, <4>3
    <3>2. m \in Open => Table'[<<worker.task, m>>] = Table[<<worker.task, m>>]
      BY <1>0, <1>7, <1>3, <2>1, <2>3 DEF Fate, Table, Leaves
    <3>3. m \in worker'.dirty => m \in worker.dirty
      BY <1>7, <2>3
    <3>4. worker.locked \/ m \in worker.dirty => worker'.locked \/ m \in worker'.dirty
      BY <1>7
    <3> QED
      BY <1>0, <1>3, <1>7, <1>8, <1>9, <2>2, <2>3, <3>1, <3>2, <3>3, <3>4, FateKept
  <2>4. CASE m = n
    <3>1. m \in Open /\ m \notin Open' /\ m \in DOMAIN worker.e.found
      BY <1>1, <1>5, <2>2, <2>4
    <3>2. Pending(m)' = new
      BY <1>7, <1>8, <1>9, <2>1, <2>4 DEF Pending, Table, Leaves
    <3>3. worker'.locked \/ m \in worker'.dirty
      BY <1>7, <2>4
    <3>4. PICK o : o = obs[<<worker.task, m>>] /\ o = obs'[<<worker'.task, m>>]
      BY <1>3, <1>8
    <3>5. o = NoEntry \/ o = old
      BY <1>0, <2>4, <3>1, <3>4 DEF Fate, old
    <3>6. PICK p : p = new
      OBVIOUS
    <3>7. ASSUME o # NoEntry, p # o PROVE HasAudit(m, o, p)'
      <4>1. o = old /\ Audit(worker.task, n, "update", old, new) \in worker'.audits
        BY <1>7, <3>5, <3>6, <3>7
      <4>2. PICK a : a = Audit(worker.task, n, "update", old, new)
        OBVIOUS
      <4>3. a \in worker'.audits /\ a.task = worker.task /\ a.name = n /\ a.before = old /\ a.after = new
        BY <4>1, <4>2 DEF Audit
      <4>4. a \in worker'.audits /\ a.task = worker'.task /\ a.name = m /\ a.before = o /\ a.after = p
        BY <1>8, <2>4, <3>6, <4>1, <4>3
      <4> HIDE DEF new
      <4> QED
        BY <4>4 DEF HasAudit
    <3>8. p = Observation(worker'.task, worker'.e.found[m])
      BY <1>8, <2>4, <3>6 DEF new, n
    <3>9. p # o /\ o # NoEntry => HasAudit(m, o, p)'
      BY <3>7
    <3> HIDE DEF new
    <3> QED
      BY <1>8, <3>1, <3>2, <3>3, <3>4, <3>6, <3>8, <3>9 DEF Fate
  <2> QED
    BY <2>3, <2>4
<1> QED
  BY <1>a, <1>b, <1>c, <1>d DEF PublicationInv
\* The archived device is recalculated: the name is settled.
LEMMA SettleSound ==
  ASSUME TablesTyped, PublicationInv, RecalculateArchived
  PROVE  PublicationInv'
<1> DEFINE n == Min(worker.todo)
           d == DeviceId(worker.task, n)
<1>0. SessionTyped /\ SessionDevices /\ SessionTable /\ \A m \in InvNames : Fate(m)
  BY DEF RecalculateArchived, PublicationInv
<1>1. worker.pc = "recalculate" /\ d \in DOMAIN worker.rows
  BY <1>0 DEF RecalculateArchived, SessionDevices
<1>2. UNCHANGED <<invEvidence, parsed, obs, devices, audits, clock, deletes>>
  BY DEF RecalculateArchived
<1>3. PICK v : v = Recalculate(d, worker.rows[d])
  OBVIOUS
<1>4. IsDevice(v)
  BY <1>0, <1>1, <1>3, DeviceRecalculated DEF SessionDevices
<1>5. worker' = [worker EXCEPT !.pc = "load", !.todo = worker.todo \ {n}, !.rows = [worker.rows EXCEPT ![d] = v]]
  BY <1>3 DEF RecalculateArchived
<1>6. Open = worker.todo \ {n}
  BY <1>1 DEF Open
<1> HIDE DEF n, d
<1>7. /\ DOMAIN worker' = SessionFields /\ worker'.pc = "load"
      /\ worker'.todo = worker.todo \ {n} /\ worker'.rows = [worker.rows EXCEPT ![d] = v]
      /\ \A x \in SessionFields \ {"pc", "todo", "rows"} : worker'[x] = worker[x]
  BY <1>0, <1>5 DEF SessionTyped, SessionFields
<1>8. SessionTyped'
  BY <1>0, <1>7 DEF SessionTyped, SessionFields
<1>9. DOMAIN worker'.rows = DOMAIN worker.rows
      /\ \A x \in DOMAIN worker.rows : worker'.rows[x] = IF x = d THEN v ELSE worker.rows[x]
  BY <1>7
<1>a. SessionDevices'
  BY <1>0, <1>2, <1>4, <1>7, <1>9 DEF SessionDevices, SessionFields
<1>b. SessionTable'
  BY <1>0, <1>2, <1>7, <1>9 DEF SessionTable, SessionFields
<1>c. ASSUME NEW m \in InvNames PROVE Fate(m)'
  <2>1. Open' = Open /\ Table' = Table /\ Pending(m)' = Pending(m)
    BY <1>2, <1>6, <1>7 DEF Open, Table, Pending, SessionFields
  <2> QED
    BY <1>0, <1>2, <1>7, <2>1, FateKept DEF SessionFields
<1> QED
  BY <1>8, <1>a, <1>b, <1>c DEF PublicationInv

\* A publication that archives nothing recalculates the devices of its rows.
LEMMA TouchSound ==
  ASSUME TablesTyped, PublicationInv, RecalculateTouched
  PROVE  PublicationInv'
<1>0. SessionTyped /\ SessionDevices /\ SessionTable /\ \A m \in InvNames : Fate(m)
  BY DEF RecalculateTouched, PublicationInv
<1>1. UNCHANGED <<invEvidence, parsed, obs, devices, audits, clock, deletes>>
      /\ worker.pc = "load" /\ worker.todo = {} /\ ~worker.locked
  BY <1>0 DEF RecalculateTouched, SessionDevices
<1>2. PICK rows : rows = [d \in {x \in worker.touched : devices[x] # NoEntry} |-> Recalculate(d, devices[d])]
  OBVIOUS
<1>3. worker' = [worker EXCEPT !.touched = {}, !.rows = rows]
  BY <1>2 DEF RecalculateTouched
<1>4. /\ DOMAIN worker' = SessionFields /\ worker'.touched = {} /\ worker'.rows = rows
      /\ \A x \in SessionFields \ {"touched", "rows"} : worker'[x] = worker[x]
  BY <1>0, <1>3 DEF SessionTyped, SessionFields
<1>5. DOMAIN rows \subseteq DeviceIds /\ \A d \in DOMAIN rows : IsDevice(rows[d])
  <2>1. ASSUME NEW d \in DOMAIN rows PROVE d \in DeviceIds /\ IsDevice(devices[d]) /\ rows[d] = Recalculate(d, devices[d])
    BY <1>0, <1>2, <2>1 DEF SessionDevices, TablesTyped
  <2> QED
    BY <2>1, DeviceRecalculated
<1>6. SessionTyped'
  BY <1>0, <1>4 DEF SessionTyped, SessionFields
<1>7. SessionDevices' /\ SessionTable'
  BY <1>0, <1>1, <1>4, <1>5 DEF SessionDevices, SessionTable, SessionFields
<1>8. ASSUME NEW m \in InvNames PROVE Fate(m)'
  <2>1. Open' = Open /\ Table' = Table /\ Pending(m)' = Pending(m)
    BY <1>1, <1>4 DEF Open, Table, Pending, SessionFields
  <2> QED
    BY <1>0, <1>1, <1>4, <2>1, FateKept DEF SessionFields
<1> QED
  BY <1>6, <1>7, <1>8 DEF PublicationInv
\* What the commit writes: of each name of the task its pending row, and the
\* rows of the other tasks as they are.
LEMMA CommittedRows ==
  ASSUME TablesTyped, PublicationInv, Commit
  PROVE  /\ Leaves(obs', worker.dirty, worker.mine)
         /\ \A k \in ObsKeys : k[1] # worker.task => obs'[k] = obs[k]
         /\ \A n \in InvNames : obs'[<<worker.task, n>>] = Pending(n)
<1>0. SessionTyped /\ SessionTable
  BY DEF Commit, Settling, PublicationInv
<1>1. PICK f : f = Flush(worker)
  OBVIOUS
<1>2. /\ DOMAIN f.table = ObsKeys
      /\ \A k \in ObsKeys :
           f.table[k] = IF k[1] = worker.task /\ k[2] \in worker.dirty THEN worker.mine[k[2]] ELSE Table[k]
  BY <1>0, <1>1, Flushed DEF SessionTyped
<1>3. obs' = f.table
  BY <1>1 DEF Commit
<1>4. Leaves(obs', worker.dirty, worker.mine)
  BY <1>0, <1>2, <1>3 DEF SessionTyped, Leaves
<1>5. \A k \in ObsKeys : k[1] # worker.task => obs'[k] = obs[k]
  BY <1>0, <1>2, <1>3, TableTyped
<1>6. ASSUME NEW n \in InvNames PROVE obs'[<<worker.task, n>>] = Pending(n)
  <2>1. <<worker.task, n>> \in ObsKeys
    BY <1>0 DEF SessionTyped, ObsKeys
  <2> QED
    BY <1>2, <1>3, <2>1 DEF Pending
<1> QED
  BY <1>4, <1>5, <1>6

\* The commit publishes the evidence.
LEMMA CommitSound ==
  ASSUME LedgerInv, Commit
  PROVE  LedgerInv'
<1>0. TablesTyped /\ NoOrphans /\ LedgerMirrorsEvidence /\ PublicationInv
  BY DEF LedgerInv
<1>1. SessionTyped /\ SessionDevices /\ SessionTable /\ \A m \in InvNames : Fate(m)
  BY <1>0 DEF Commit, Settling, PublicationInv
<1>2. /\ Leaves(obs', worker.dirty, worker.mine)
      /\ \A k \in ObsKeys : k[1] # worker.task => obs'[k] = obs[k]
      /\ \A n \in InvNames : obs'[<<worker.task, n>>] = Pending(n)
  BY <1>0, CommittedRows
<1>3. ~Stale /\ Open = {} /\ worker.task \in InvTasks /\ IsEvidence(worker.task, worker.e)
  BY <1>1 DEF Commit, Settling, Open, SessionTyped
<1>4. /\ parsed' = [parsed EXCEPT ![worker.task] = worker.e]
      /\ devices' = [d \in DeviceIds |-> IF d \in DOMAIN worker.rows THEN worker.rows[d] ELSE devices[d]]
      /\ clock' = clock /\ deletes' = deletes /\ worker' = IdleSession
  BY DEF Commit, Settling
<1>5. PICK table, dirty, mine : table = obs' /\ dirty = worker.dirty /\ mine = worker.mine
  OBVIOUS
<1>6. /\ \A k \in ObsKeys : ObsRow(table[k])
      /\ \A m \in InvNames :
           table[<<worker.task, m>>] # NoEntry =>
             obs[<<worker.task, m>>] # NoEntry \/ DeviceId(worker.task, m) \in DOMAIN worker.rows
  <2>1. Leaves(table, dirty, mine)
    BY <1>2, <1>5
  <2>2. /\ \A k \in ObsKeys : ObsRow(table[k]) /\ (k[1] # worker.task => table[k] = obs[k])
        /\ ~Stale => \A m \in InvNames :
             table[<<worker.task, m>>] # NoEntry =>
               \/ obs[<<worker.task, m>>] # NoEntry
               \/ DeviceId(worker.task, m) \in DOMAIN worker.rows
               \/ m \in dirty \ worker.dirty
    BY <1>0, <1>1, <2>1, FlushedTable
  <2> QED
    BY <1>3, <1>5, <2>2
<1>7. ASSUME NEW k \in ObsKeys
      PROVE  \E t \in InvTasks, n \in InvNames : k = <<t, n>> /\ k[1] = t /\ k[2] = n
  BY DEF ObsKeys
<1>8. TablesTyped'
  <2>1. ASSUME NEW k \in ObsKeys, obs'[k] # NoEntry PROVE Archivable(k[1])
    <3>1. CASE obs'[k] = obs[k]
      BY <1>0, <2>1, <3>1 DEF TablesTyped
    <3>2. CASE obs'[k] # obs[k]
      <4>1. k[1] = worker.task
        BY <1>2, <3>2
      <4>2. worker.locked \/ worker.dirty # {}
        BY <1>2, <3>2 DEF Leaves, Table
      <4> QED
        BY <1>1, <4>1, <4>2 DEF SessionTyped
    <3> QED
      BY <3>1, <3>2
  <2>2. DOMAIN obs' = ObsKeys /\ \A k \in ObsKeys : ObsRow(obs'[k])
    BY <1>2, <1>5, <1>6 DEF Leaves
  <2>3. DOMAIN devices' = DeviceIds /\ \A d \in DeviceIds : devices'[d] = NoEntry \/ IsDevice(devices'[d])
    BY <1>0, <1>1, <1>4 DEF TablesTyped, SessionDevices
  <2> QED
    BY <1>0, <1>4, <2>1, <2>2, <2>3 DEF TablesTyped
<1>9. NoOrphans'
  <2>1. ASSUME NEW k \in ObsKeys, obs'[k] # NoEntry PROVE devices'[DeviceId(k[1], k[2])] # NoEntry
    <3>1. PICK t \in InvTasks, n \in InvNames : k = <<t, n>> /\ k[1] = t /\ k[2] = n
      BY <1>7
    <3>2. DeviceId(t, n) \in DeviceIds
      <4>1. Archivable(t)
        BY <1>8, <2>1, <3>1 DEF TablesTyped
      <4> QED
        BY <4>1, KnownId
    <3>3. obs[k] # NoEntry \/ DeviceId(t, n) \in DOMAIN worker.rows
      BY <1>2, <1>5, <1>6, <2>1, <3>1
    <3>4. obs[k] # NoEntry => devices[DeviceId(t, n)] # NoEntry
      BY <1>0, <3>1 DEF NoOrphans, TablesTyped
    <3>5. DeviceId(t, n) \in DOMAIN worker.rows => worker.rows[DeviceId(t, n)] # NoEntry
      BY <1>1, Present DEF SessionDevices
    <3> QED
      BY <1>4, <3>1, <3>2, <3>3, <3>4, <3>5
  <2> QED
    BY <1>8, <2>1 DEF NoOrphans, TablesTyped
<1>a. LedgerMirrorsEvidence'
  <2>1. ASSUME NEW t \in InvTasks \ Supplements, NEW n \in InvNames, t # worker.task
        PROVE  parsed'[t] = parsed[t] /\ obs'[<<t, n>>] = obs[<<t, n>>]
    <3>1. <<t, n>> \in ObsKeys /\ <<t, n>>[1] # worker.task
      BY <2>1 DEF ObsKeys
    <3> QED
      BY <1>0, <1>2, <1>4, <2>1, <3>1 DEF TablesTyped
  <2>2. ASSUME NEW n \in InvNames, worker.task \notin Supplements
        PROVE  LET o == obs'[<<worker.task, n>>] IN
               /\ parsed'[worker.task] # NoEntry
               /\ o # NoEntry =>
                    IF n \in DOMAIN parsed'[worker.task].found
                    THEN /\ o.status = "active" /\ o.version = parsed'[worker.task].found[n].version
                         /\ o.at = parsed'[worker.task].found[n].at
                    ELSE o.status = "retired"
    <3>1. parsed'[worker.task] = worker.e /\ worker.e # NoEntry
      BY <1>0, <1>3, <1>4, Present DEF TablesTyped
    <3>2. n \in DOMAIN worker.e.found =>
            obs'[<<worker.task, n>>] = Observation(worker.task, worker.e.found[n])
      BY <1>1, <1>2, <1>3 DEF Fate
    <3>3. n \notin DOMAIN worker.e.found =>
            obs'[<<worker.task, n>>] = NoEntry \/ obs'[<<worker.task, n>>].status = "retired"
      BY <1>1, <1>2, <2>2 DEF Fate
    <3> QED
      BY <3>1, <3>2, <3>3 DEF Observation
  <2>3. ASSUME NEW t \in InvTasks \ Supplements, NEW n \in InvNames
        PROVE  LET o == obs'[<<t, n>>] IN
               /\ parsed'[t] = NoEntry => o = NoEntry
               /\ parsed'[t] # NoEntry /\ o # NoEntry =>
                    IF n \in DOMAIN parsed'[t].found
                    THEN /\ o.status = "active" /\ o.version = parsed'[t].found[n].version
                         /\ o.at = parsed'[t].found[n].at
                    ELSE o.status = "retired"
    <3>1. CASE t = worker.task
      BY <2>2, <3>1
    <3>2. CASE t # worker.task
      BY <1>0, <2>1, <3>2 DEF LedgerMirrorsEvidence
    <3> QED
      BY <3>1, <3>2
  <2> QED
    BY <2>3 DEF LedgerMirrorsEvidence
<1>b. PublicationInv'
  BY <1>4 DEF PublicationInv, IdleSession
<1> QED
  BY <1>8, <1>9, <1>a, <1>b DEF LedgerInv

\* A device goes with its observations, also under a publication that has not
\* written yet.
LEMMA DeleteSound ==
  ASSUME LedgerInv, NEW d \in DeviceIds, DeleteDevice(d)
  PROVE  LedgerInv'
<1>0. TablesTyped /\ NoOrphans /\ LedgerMirrorsEvidence /\ PublicationInv
  BY DEF LedgerInv
<1>1. /\ worker.pc # "idle" => ~worker.locked
      /\ devices' = [devices EXCEPT ![d] = NoEntry]
      /\ obs' = [k \in DOMAIN obs |-> IF DeviceId(k[1], k[2]) = d THEN NoEntry ELSE obs[k]]
      /\ deletes' = deletes + 1 /\ deletes < InvDeletes
      /\ parsed' = parsed /\ worker' = worker /\ clock' = clock
  BY DEF DeleteDevice
<1>2. /\ DOMAIN obs' = ObsKeys
      /\ \A k \in ObsKeys : obs'[k] = IF DeviceId(k[1], k[2]) = d THEN NoEntry ELSE obs[k]
  BY <1>0, <1>1 DEF TablesTyped
<1>3. TablesTyped'
  <2>1. DOMAIN devices' = DeviceIds /\ \A x \in DeviceIds : devices'[x] = NoEntry \/ IsDevice(devices'[x])
    BY <1>0, <1>1 DEF TablesTyped
  <2>2. deletes' \in 0..InvDeletes
    BY <1>0, <1>1, InventoryAssumption DEF TablesTyped
  <2> QED
    BY <1>0, <1>1, <1>2, <2>1, <2>2 DEF TablesTyped, ObsRow
<1>4. NoOrphans'
  BY <1>0, <1>1, <1>2 DEF NoOrphans, TablesTyped
<1>5. ASSUME NEW t \in InvTasks, NEW n \in InvNames
      PROVE  obs'[<<t, n>>] = obs[<<t, n>>] \/ obs'[<<t, n>>] = NoEntry
  BY <1>2, <1>5 DEF ObsKeys
<1>6. LedgerMirrorsEvidence'
  BY <1>0, <1>1, <1>5 DEF LedgerMirrorsEvidence
<1>7. ASSUME worker.pc # "idle", NEW n \in InvNames PROVE Fate(n)'
  <2>1. SessionTyped /\ Fate(n) /\ ~worker.locked /\ worker.task \in InvTasks
    BY <1>0, <1>1, <1>7 DEF PublicationInv, SessionTyped
  <2>2. PICK old, new : old = obs[<<worker.task, n>>] /\ new = obs'[<<worker'.task, n>>]
    OBVIOUS
  <2>3. new = old \/ new = NoEntry
    BY <1>1, <1>5, <2>1, <2>2
  <2>4. PICK p, q : p = Pending(n) /\ q = Pending(n)'
    OBVIOUS
  <2>5. /\ p = IF n \in worker.dirty THEN worker.mine[n] ELSE old
        /\ q = IF n \in worker.dirty THEN worker.mine[n] ELSE new
    BY <1>1, <2>1, <2>2, <2>4 DEF Pending, Table
  <2>6. Open' = Open
    BY <1>1 DEF Open
  <2>7. Table[<<worker.task, n>>] = old /\ Table'[<<worker'.task, n>>] = new
    BY <1>1, <2>1, <2>2 DEF Table
  <2>8. HasAudit(n, old, p) => HasAudit(n, old, p)'
    BY <1>1 DEF HasAudit
  <2>9. new # NoEntry /\ q \notin {new, NoEntry} => HasAudit(n, new, q)'
    <3>1. new # NoEntry => new = old /\ q = p
      BY <2>3, <2>5
    <3>2. old # NoEntry /\ p \notin {old, NoEntry} => HasAudit(n, old, p)
      BY <2>1, <2>2, <2>4 DEF Fate
    <3> QED
      BY <2>8, <3>1, <3>2
  <2>a. /\ n \in Open => n \notin worker.dirty /\ old \in {worker.mine[n], NoEntry}
        /\ n \in DOMAIN worker.e.found \ Open =>
             p = Observation(worker.task, worker.e.found[n]) /\ n \in worker.dirty
        /\ n \notin DOMAIN worker.e.found /\ worker.task \notin Supplements => p = NoEntry \/ p.status = "retired"
    BY <2>1, <2>2, <2>4 DEF Fate
  <2> QED
    BY <1>1, <2>2, <2>3, <2>4, <2>5, <2>6, <2>7, <2>9, <2>a DEF Fate
<1>8. PublicationInv'
  <2>1. ASSUME worker.pc # "idle" PROVE (SessionTyped /\ SessionDevices /\ SessionTable)'
    BY <1>0, <1>1, <2>1 DEF PublicationInv, SessionTyped, SessionDevices, SessionTable
  <2> QED
    BY <1>1, <1>7, <2>1 DEF PublicationInv
<1> QED
  BY <1>3, <1>4, <1>6, <1>8 DEF LedgerInv
-----------------------------------------------------------------------------
(* The ledger                                                              *)

\* The tables stay as they are through the steps of a session, up to its end.
LEMMA SessionKeeps ==
  ASSUME LedgerInv, parsed' = parsed, obs' = obs, devices' = devices, deletes' = deletes,
         clock' \in 0..InvRuns, PublicationInv'
  PROVE  LedgerInv'
  BY DEF LedgerInv, TablesTyped, NoOrphans, LedgerMirrorsEvidence

\* Every step of the model.
LEMMA StepSound == LedgerInv /\ [InvNext]_invVars => LedgerInv'
<1> SUFFICES ASSUME LedgerInv, [InvNext]_invVars PROVE LedgerInv'
  OBVIOUS
<1>0. TablesTyped /\ PublicationInv
  BY DEF LedgerInv
<1>1. ASSUME NEW t \in InvTasks, NEW scan \in Scans, PublishParsed(t, scan) PROVE LedgerInv'
  <2>1. PublicationInv'
    BY <1>0, <1>1, PublishSound
  <2>2. clock' \in 0..InvRuns
    BY <1>0, <1>1, InventoryAssumption DEF TablesTyped, PublishParsed
  <2>3. parsed' = parsed /\ obs' = obs /\ devices' = devices /\ deletes' = deletes
    BY <1>1 DEF PublishParsed
  <2> QED
    BY <2>1, <2>2, <2>3, SessionKeeps
<1>2. CASE LoadDevice
  <2>1. PublicationInv'
    BY <1>0, <1>2, LoadSound
  <2> QED
    BY <1>0, <1>2, <2>1, SessionKeeps DEF LoadDevice, TablesTyped
<1>3. CASE ArchiveDevice
  <2>1. PublicationInv'
    BY <1>0, <1>3, ArchiveSound
  <2> QED
    BY <1>0, <1>3, <2>1, SessionKeeps DEF ArchiveDevice, TablesTyped
<1>4. CASE RecalculateArchived
  <2>1. PublicationInv'
    BY <1>0, <1>4, SettleSound
  <2> QED
    BY <1>0, <1>4, <2>1, SessionKeeps DEF RecalculateArchived, TablesTyped
<1>5. CASE RecalculateTouched
  <2>1. PublicationInv'
    BY <1>0, <1>5, TouchSound
  <2> QED
    BY <1>0, <1>5, <2>1, SessionKeeps DEF RecalculateTouched, TablesTyped
<1>6. CASE Commit
  BY <1>6, CommitSound
<1>7. CASE PublishFails
  <2>1. PublicationInv'
    BY <1>7 DEF PublishFails, Settling, PublicationInv, IdleSession
  <2> QED
    BY <1>0, <1>7, <2>1, SessionKeeps DEF PublishFails, TablesTyped
<1>8. ASSUME NEW d \in DeviceIds, DeleteDevice(d) PROVE LedgerInv'
  BY <1>8, DeleteSound
<1>9. CASE UNCHANGED invVars
  BY <1>9 DEF invVars, LedgerInv, TablesTyped, NoOrphans, LedgerMirrorsEvidence, PublicationInv, SessionTyped,
       SessionDevices, SessionTable, Fate, Open, Pending, Table, HasAudit
<1> QED
  BY <1>1, <1>2, <1>3, <1>4, <1>5, <1>6, <1>7, <1>8, <1>9 DEF InvNext

\* No observation is left without its device, and the observations of a task
\* are what its last published evidence archived: whenever a device was
\* deleted, the publication that had read it is rolled back as a whole
\* (parsing.publish_parsed, archive.archive_evidence, maintenance.delete_device).
THEOREM LedgerIsSound == InvSpec => []LedgerSound
<1>1. LedgerInv => LedgerSound
  BY DEF LedgerInv, LedgerSound
<1> QED
  BY InitSound, StepSound, <1>1, PTL DEF InvSpec

\* A step that overwrites or retires an observation leaves its audit with
\* both versions of it (archive._archive_record, parsing.publish_parsed).
THEOREM OverwritesAudited == InvSpec => ChangesAudited
<1> DEFINE Audited ==
      \A k \in DOMAIN obs :
        obs[k] # NoEntry /\ obs'[k] \notin {obs[k], NoEntry} =>
          \E a \in audits' : a.task = k[1] /\ a.name = k[2] /\ a.before = obs[k] /\ a.after = obs'[k]
<1>1. LedgerInv /\ [InvNext]_invVars => [Audited]_invVars
  <2> SUFFICES ASSUME LedgerInv, InvNext, NEW k \in DOMAIN obs, obs[k] # NoEntry, obs'[k] \notin {obs[k], NoEntry}
               PROVE  \E a \in audits' : a.task = k[1] /\ a.name = k[2] /\ a.before = obs[k] /\ a.after = obs'[k]
    OBVIOUS
  <2>1. CASE Commit
    <3>1. TablesTyped /\ PublicationInv /\ \A m \in InvNames : Fate(m)
      BY <2>1 DEF LedgerInv, PublicationInv, Commit, Settling
    <3>2. PICK t \in InvTasks, n \in InvNames : k = <<t, n>> /\ k[1] = t /\ k[2] = n
      BY <3>1 DEF TablesTyped, ObsKeys
    <3>3. t = worker.task /\ obs'[k] = Pending(n)
      BY <2>1, <3>1, <3>2, CommittedRows DEF ObsKeys
    <3>4. HasAudit(n, obs[k], Pending(n))
      BY <3>1, <3>2, <3>3 DEF Fate
    <3>5. worker.audits \subseteq audits'
      BY <2>1 DEF Commit
    <3> QED
      BY <3>2, <3>3, <3>4, <3>5 DEF HasAudit
  <2>2. ASSUME NEW d \in DeviceIds, DeleteDevice(d)
        PROVE  \E a \in audits' : a.task = k[1] /\ a.name = k[2] /\ a.before = obs[k] /\ a.after = obs'[k]
    BY <2>2 DEF DeleteDevice
  <2>3. CASE obs' = obs
    BY <2>3
  <2> QED
    BY <2>1, <2>2, <2>3 DEF InvNext, PublishParsed, LoadDevice, ArchiveDevice, RecalculateArchived,
         RecalculateTouched, PublishFails
<1> QED
  BY InitSound, StepSound, <1>1, PTL DEF InvSpec, ChangesAudited

\* InvTypeOK: every row has its fields, whatever is published and deleted.
THEOREM InvTypes == InvSpec => []InvTypeOK
<1>1. ASSUME LedgerInv PROVE InvTypeOK
  <2>1. TablesTyped
    BY <1>1 DEF LedgerInv
  <2>2. worker.pc \in {"idle", "load", "archive", "recalculate"}
    BY <1>1 DEF LedgerInv, PublicationInv, SessionTyped
  <2> QED
    BY <2>1, <2>2 DEF TablesTyped, ObsRow, IsObs, IsDevice, InvTypeOK
<1> QED
  BY InitSound, StepSound, <1>1, PTL DEF InvSpec
=============================================================================
