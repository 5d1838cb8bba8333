---------------------------- MODULE TaskRecords ----------------------------
(* Where the records of one task live and how they stay together: the scene   *)
(* directory output/<task>, the backup directories a full rebuild moves aside  *)
(* next to it, the task row, the rule rows, the KPI points, the v6 results,    *)
(* the frozen scope and the device ledger in SQLite.  A full run writes them   *)
(* in place, a full rebuild stages a scene and exchanges it, a failure rolls   *)
(* back, a crash loses the worker's memory and the next start reads the        *)
(* output directory back (src/app/services/tasks.py, task_db.py, cli.py).      *)
(* The content of a record is the number of the run that produced it.          *)
EXTENDS Naturals, FiniteSets

CONSTANTS
    RecRuns,        \* bound: runs and rebuilds
    RecFaults,      \* bound: steps that fail with an exception
    RecCrashes      \* bound: times the process dies

ASSUME RecAssumption == RecRuns \in Nat \ {0} /\ {RecFaults, RecCrashes} \subseteq Nat

VARIABLES
    recScene,       \* output/<task>
    recBackup,      \* the backup the rebuild in progress will put back or drop
    recLeft,        \* backups nobody will ever drop
    recRow, recRules, recPoints, recV6, recScope, recLedger,    \* SQLite
    recQueue,       \* the plan the in-memory queue holds for the task
    recWorker,      \* the worker's step and what it remembers of this run
    recBudget,      \* what is left of the bounds
    recBefore       \* history: the records when the last rebuild began

recDisk   == <<recScene, recBackup, recLeft>>
recTables == <<recRow, recRules, recPoints, recV6, recScope, recLedger>>
recVars   == <<recDisk, recTables, recQueue, recWorker, recBudget, recBefore>>

-----------------------------------------------------------------------------
NoScene == [rules |-> 0, system |-> 0, meta |-> 0, status |-> "none"]
NoRow == [status |-> "none", run |-> 0]
NothingBefore == [scene |-> NoScene, scope |-> 0, rules |-> 0]
IdleWorker == [step |-> "idle", mode |-> "none", run |-> 0, oldScope |-> 0, faults |-> 0, last |-> "none"]

IsScene(s) == s # NoScene
HasTaskFile(s) == s.status # "none"
WholeScene(s) == s.rules # 0 /\ s.system = s.rules /\ s.meta = s.rules
ImportedRules(s) == IF s.rules = 0 THEN s.meta ELSE s.rules   \* else those in task.json
RowOf(s) == [status |-> s.status, run |-> s.meta]
Unsettled == recRow.status \in {"pending", "running"}
NextRun == RecRuns - recBudget.runs + 1

At(step) == recWorker.step = step
Goto(step) == recWorker' = [recWorker EXCEPT !.step = step]
Ends(outcome) == recWorker' = [recWorker EXCEPT !.step = "idle", !.last = outcome]
Pay(kind) == recBudget[kind] > 0 /\ recBudget' = [recBudget EXCEPT ![kind] = @ - 1]
Raises(step) ==
    /\ Pay("faults")
    /\ recWorker' = [recWorker EXCEPT !.step = step, !.faults = @ + 1]

Steps == {"idle", "freeze", "rules", "system", "rows", "meta", "points", "v6", "drop", "except",
          "stage", "out", "in", "ledger", "scope", "remove", "restore", "unscope", "unrows",
          "again", "putback", "failed", "erase", "down", "load"}

(* What a version that kept everything in the scene left, with rules/*.json   *)
(* or with the summary in task.json only: the service starts over it.         *)
OldScenes == [rules : {0, 1}, system : {1}, meta : {1}, status : {"completed"}]

RecInit ==
    /\ \E upgraded \in BOOLEAN :
          /\ recScene \in IF upgraded THEN OldScenes ELSE {NoScene}
          /\ recWorker = [IdleWorker EXCEPT !.step = IF upgraded THEN "down" ELSE "idle"]
          /\ recBudget = [runs |-> IF upgraded THEN RecRuns - 1 ELSE RecRuns,
                          faults |-> RecFaults, crashes |-> RecCrashes]
    /\ recBackup = NoScene /\ recLeft = {}
    /\ recRow = NoRow
    /\ recRules = 0 /\ recPoints = 0 /\ recV6 = 0 /\ recScope = 0 /\ recLedger = 0
    /\ recQueue = "none"
    /\ recBefore = NothingBefore

-----------------------------------------------------------------------------
(* Requests.  Their races with the worker are the subject of TaskService.     *)
Accepts == At("idle") /\ recQueue = "none"

Reserve ==
    /\ Accepts /\ recRow = NoRow
    /\ recRow' = [status |-> "pending", run |-> 0] /\ recQueue' = "full"
    /\ UNCHANGED <<recDisk, recRules, recPoints, recV6, recScope, recLedger, recWorker, recBudget, recBefore>>

(* rerun of all rules: task.json, or what the tables know of it, is written   *)
(* back as pending.                                                           *)
Rerun ==
    /\ Accepts /\ recScope # 0 /\ recRow # NoRow
    /\ \E run \in {IF HasTaskFile(recScene) THEN recScene.meta ELSE recRules} :
          /\ run # 0
          /\ recScene' = [recScene EXCEPT !.meta = run, !.status = "pending"]
          /\ recRow' = [status |-> "pending", run |-> run]
    /\ recQueue' = "full"
    /\ UNCHANGED <<recBackup, recLeft, recRules, recPoints, recV6, recScope, recLedger, recWorker, recBudget, recBefore>>

RequestRebuild ==
    /\ Accepts /\ recRow # NoRow /\ recRules # 0
    /\ (IF HasTaskFile(recScene) THEN recScene.status ELSE recRow.status) \notin {"pending", "running"}
    /\ recRow' = [recRow EXCEPT !.status = "pending"] /\ recQueue' = "rebuild"
    /\ UNCHANGED <<recDisk, recRules, recPoints, recV6, recScope, recLedger, recWorker, recBudget, recBefore>>

(* delete: the scene first; only when all of it is gone, the tables.  The     *)
(* scope and the v6 results are not among them.                               *)
DeleteScene ==
    /\ Accepts /\ recRow # NoRow
    /\ \/ recScene' = NoScene /\ Goto("erase") /\ UNCHANGED recBudget
       \/ IsScene(recScene) /\ Raises("idle")
          /\ recScene' = [recScene EXCEPT !.rules = 0, !.system = 0]
    /\ recBefore' = NothingBefore
    /\ UNCHANGED <<recBackup, recLeft, recTables, recQueue>>

DeleteRows ==
    /\ At("erase")
    /\ recRow' = NoRow /\ recRules' = 0 /\ recPoints' = 0 /\ Goto("idle")
    /\ UNCHANGED <<recDisk, recV6, recScope, recLedger, recQueue, recBudget, recBefore>>

-----------------------------------------------------------------------------
(* A full run, in place.                                                      *)
Begin(mode, step) ==
    /\ At("idle") /\ recQueue = mode /\ Pay("runs")
    /\ recQueue' = "none" /\ recRow' = [recRow EXCEPT !.status = "running"]
    /\ recWorker' = [IdleWorker EXCEPT !.step = step, !.mode = mode, !.run = NextRun, !.oldScope = recScope]

StartFull ==
    /\ Begin("full", "freeze") /\ recBefore' = NothingBefore
    /\ UNCHANGED <<recDisk, recRules, recPoints, recV6, recScope, recLedger>>

FreezeScope ==
    /\ At("freeze")
    /\ recScope' = recWorker.run /\ Goto("rules")
    /\ UNCHANGED <<recDisk, recRow, recRules, recPoints, recV6, recLedger, recQueue, recBudget, recBefore>>

WriteRules ==
    /\ At("rules")
    /\ \/ recScene' = [recScene EXCEPT !.rules = recWorker.run] /\ Goto("system") /\ UNCHANGED recBudget
       \/ Raises("except") /\ UNCHANGED recScene
    /\ UNCHANGED <<recBackup, recLeft, recTables, recQueue, recBefore>>

(* system.json, then the ledger: its failure is only logged.                  *)
WriteSystem ==
    /\ At("system")
    /\ recScene' = [recScene EXCEPT !.system = recWorker.run]
    /\ recLedger' \in {recLedger, recWorker.run} /\ Goto("rows")
    /\ UNCHANGED <<recBackup, recLeft, recRow, recRules, recPoints, recV6, recScope, recQueue, recBudget, recBefore>>

(* What a failing step leads to: the except branch of _execute, or the        *)
(* rollback of the rebuild.                                                   *)
Handler == IF recWorker.mode = "rebuild" THEN "remove" ELSE "except"
Published == [status |-> "completed", run |-> recWorker.run]

(* publish_from_scene(include_kpi=False): one transaction replaces the row,   *)
(* the rule rows and the points.                                              *)
PublishRows ==
    /\ At("rows")
    /\ \/ /\ recRow' = Published /\ recRules' = recScene.rules /\ recPoints' = 0
          /\ Goto("meta") /\ UNCHANGED recBudget
       \/ Raises(Handler) /\ UNCHANGED <<recRow, recRules, recPoints>>
    /\ UNCHANGED <<recDisk, recV6, recScope, recLedger, recQueue, recBefore>>

(* save_task_meta: task.json, then the row once more.                         *)
WriteMeta ==
    /\ At("meta")
    /\ \/ /\ recScene' = [recScene EXCEPT !.meta = recWorker.run, !.status = "completed"]
          /\ recRow' = Published /\ Goto("points") /\ UNCHANGED recBudget
       \/ Raises(Handler) /\ UNCHANGED <<recScene, recRow>>
    /\ UNCHANGED <<recBackup, recLeft, recRules, recPoints, recV6, recScope, recLedger, recQueue, recBefore>>

(* The two mirrors: their failure is logged, the outcome stands.              *)
MirrorPoints ==
    /\ At("points")
    /\ \/ recPoints' = recScene.rules /\ Goto("v6") /\ UNCHANGED recBudget
       \/ Raises("v6") /\ UNCHANGED recPoints
    /\ UNCHANGED <<recDisk, recRow, recRules, recV6, recScope, recLedger, recQueue, recBefore>>

MirrorV6 ==
    /\ At("v6")
    /\ \E after \in {IF recWorker.mode = "rebuild" THEN "drop" ELSE "idle"} :
          \/ /\ recV6' = recWorker.run /\ recRow' = Published
             /\ recWorker' = [recWorker EXCEPT !.step = after, !.last = "completed"]
             /\ UNCHANGED recBudget
          \/ Raises(after) /\ UNCHANGED <<recV6, recRow>>
    /\ UNCHANGED <<recDisk, recRules, recPoints, recScope, recLedger, recQueue, recBefore>>

(* The except branch of _execute: the row, then task.json and the row again.  *)
FailRun ==
    /\ At("except")
    /\ IF HasTaskFile(recScene)
       THEN /\ recScene' = [recScene EXCEPT !.status = "failed"]
            /\ recRow' = [status |-> "failed", run |-> recScene.meta]
       ELSE /\ recRow' = [recRow EXCEPT !.status = "failed"]
            /\ UNCHANGED recScene
    /\ Ends("failed")
    /\ UNCHANGED <<recBackup, recLeft, recRules, recPoints, recV6, recScope, recLedger, recQueue, recBudget, recBefore>>

-----------------------------------------------------------------------------
(* A full rebuild: staged, exchanged, published, or rolled back.              *)
StartRebuild ==
    /\ Begin("rebuild", "stage")
    /\ recBefore' = [scene |-> recScene, scope |-> recScope, rules |-> recRules]
    /\ UNCHANGED <<recDisk, recRules, recPoints, recV6, recScope, recLedger>>

(* The staged run touches neither the scene nor the tables.                   *)
StageScene ==
    /\ At("stage")
    /\ \/ Goto("out") /\ UNCHANGED recBudget
       \/ Raises("failed")
    /\ UNCHANGED <<recDisk, recTables, recQueue, recBefore>>

Aside(scene) == scene

MoveSceneOut ==
    /\ At("out")
    /\ \/ /\ recBackup' = Aside(recScene) /\ recScene' = NoScene
          /\ Goto("in") /\ UNCHANGED recBudget
       \/ Raises("failed") /\ UNCHANGED <<recBackup, recScene>>
    /\ UNCHANGED <<recLeft, recTables, recQueue, recBefore>>

MoveSceneIn ==
    /\ At("in")
    /\ \/ /\ recScene' = [rules |-> recWorker.run, system |-> recWorker.run, meta |-> recWorker.run, status |-> "completed"]
          /\ Goto("ledger") /\ UNCHANGED <<recBackup, recBudget>>
       \/ /\ Raises("failed")
          /\ recScene' = recBackup /\ recBackup' = NoScene
    /\ UNCHANGED <<recLeft, recTables, recQueue, recBefore>>

PublishLedger ==
    /\ At("ledger")
    /\ \/ recLedger' = recWorker.run /\ Goto("scope") /\ UNCHANGED recBudget
       \/ Raises("remove") /\ UNCHANGED recLedger
    /\ UNCHANGED <<recDisk, recRow, recRules, recPoints, recV6, recScope, recQueue, recBefore>>

PublishScope ==
    /\ At("scope")
    /\ \/ recScope' = recWorker.run /\ Goto("rows") /\ UNCHANGED recBudget
       \/ Raises("remove") /\ UNCHANGED recScope
    /\ UNCHANGED <<recDisk, recRow, recRules, recPoints, recV6, recLedger, recQueue, recBefore>>

(* rmtree(..., ignore_errors=True): what it cannot remove stays for good.     *)
DropBackup ==
    /\ At("drop")
    /\ \/ Ends("completed") /\ UNCHANGED <<recLeft, recBudget>>
       \/ /\ IsScene(recBackup) /\ Raises("idle")
          /\ \E part \in {recBackup, [recBackup EXCEPT !.rules = 0, !.system = 0]} :
                recLeft' = recLeft \cup {part}
    /\ recBackup' = NoScene
    /\ UNCHANGED <<recScene, recTables, recQueue, recBefore>>

-----------------------------------------------------------------------------
(* _rollback_full_rebuild.  Without an old scene there is nothing to restore  *)
(* and the new one stays.                                                     *)
RemoveNew ==
    /\ At("remove")
    /\ IF IsScene(recBackup)
       THEN recScene' = NoScene /\ Goto("restore")
       ELSE UNCHANGED recScene /\ Goto("unscope")
    /\ UNCHANGED <<recBackup, recLeft, recTables, recQueue, recBudget, recBefore>>

RestoreOld ==
    /\ At("restore")
    /\ \/ /\ recScene' = recBackup /\ recBackup' = NoScene
          /\ Goto("unscope") /\ UNCHANGED recBudget
       \/ Raises("again") /\ UNCHANGED <<recScene, recBackup>>
    /\ UNCHANGED <<recLeft, recTables, recQueue, recBefore>>

(* Mutant: the scope the rebuild published stays. *)
RestoredScopeKept == recScope

RestoredScope == IF recWorker.oldScope = 0 THEN recScope ELSE recWorker.oldScope

RestoreScope ==
    /\ At("unscope")
    /\ \/ recScope' = RestoredScope /\ Goto("unrows") /\ UNCHANGED recBudget
       \/ recWorker.oldScope # 0 /\ UNCHANGED recScope
          /\ Raises(IF IsScene(recBefore.scene) THEN "again" ELSE "failed")
    /\ UNCHANGED <<recDisk, recRow, recRules, recPoints, recV6, recLedger, recQueue, recBefore>>

(* publish_from_scene and save_task_meta of the old task; only logged if it   *)
(* fails.                                                                     *)
RestoreRows ==
    /\ At("unrows")
    /\ \/ /\ Goto("failed") /\ UNCHANGED recBudget
          /\ IF HasTaskFile(recBefore.scene) /\ IsScene(recScene)
             THEN /\ recRow' = RowOf(recBefore.scene) /\ recRules' = recScene.rules /\ recPoints' = recScene.rules
             ELSE UNCHANGED <<recRow, recRules, recPoints>>
       \/ /\ HasTaskFile(recBefore.scene) /\ Raises("failed")
          /\ UNCHANGED <<recRow, recRules, recPoints>>
    /\ UNCHANGED <<recDisk, recV6, recScope, recLedger, recQueue, recBefore>>

(* The outer handler of _execute_full_rebuild calls _restore_task_output      *)
(* again, whether or not the first call already put the old scene back.       *)
RemoveAgain ==
    /\ At("again")
    /\ recScene' = NoScene /\ Goto("putback")
    /\ UNCHANGED <<recBackup, recLeft, recTables, recQueue, recBudget, recBefore>>

PutBack ==
    /\ At("putback")
    /\ \/ /\ recScene' = recBackup /\ recBackup' = NoScene
          /\ Goto("failed") /\ UNCHANGED <<recLeft, recBudget>>
       \/ /\ IsScene(recBackup) /\ Raises("except")
          /\ recLeft' = recLeft \cup {recBackup} /\ recBackup' = NoScene /\ UNCHANGED recScene
    /\ UNCHANGED <<recTables, recQueue, recBefore>>

(* _finish_run: only the row learns of it.                                    *)
RebuildFails ==
    /\ At("failed")
    /\ recRow' = [recRow EXCEPT !.status = "failed"] /\ Ends("rolled_back")
    /\ UNCHANGED <<recDisk, recRules, recPoints, recV6, recScope, recLedger, recQueue, recBudget, recBefore>>

-----------------------------------------------------------------------------
(* The process dies: queue and worker memory are gone, a backup stays.        *)
RecCrash ==
    /\ ~At("down") /\ Pay("crashes")
    /\ recQueue' = "none" /\ recWorker' = [IdleWorker EXCEPT !.step = "down", !.faults = recWorker.faults]
    /\ recBackup' = NoScene
    /\ recLeft' = IF IsScene(recBackup) THEN recLeft \cup {recBackup} ELSE recLeft
    /\ UNCHANGED <<recScene, recTables, recBefore>>

(* init_db -> ensure_backfilled: every directory under output/ is imported    *)
(* under its own name, ".<task>.rebuild-backup-..." first.  No row has that   *)
(* name, so the task.json in it is published, under the task id it holds; the *)
(* points in its index carry that id too and are not read.                    *)
RecRestart ==
    /\ At("down")
    /\ Goto("load")
    /\ IF \E s \in recLeft : HasTaskFile(s)
       THEN \E s \in {x \in recLeft : HasTaskFile(x)} :
               recRow' = RowOf(s) /\ recRules' = ImportedRules(s) /\ recPoints' = 0
       ELSE UNCHANGED <<recRow, recRules, recPoints>>
    /\ UNCHANGED <<recDisk, recV6, recScope, recLedger, recQueue, recBudget, recBefore>>

(* Mutant: the row is not looked up first. *)
NeedsImportForced == IsScene(recScene)

(* import_task_from_output: a row that has its rule rows is left alone.       *)
NeedsImport == recRow = NoRow \/ (recRules = 0 /\ recScene.rules # 0)

(* Mutant: a row that was running is taken for one still being executed. *)
RecoverableQueued == recRow.status = "pending" /\ recScene.system # 0

(* _recover_terminal_task_from_scene: task.json is missing, system.json is    *)
(* there and the row never reached an outcome.                                *)
Recoverable == Unsettled /\ recScene.system # 0

ImportScene ==
    /\ At("load")
    /\ IF HasTaskFile(recScene)
       THEN IF NeedsImport
            THEN /\ recRow' = RowOf(recScene) /\ recPoints' = recScene.rules
                 /\ recRules' = ImportedRules(recScene)
                 /\ UNCHANGED recScene
            ELSE UNCHANGED <<recScene, recRow, recRules, recPoints>>
       ELSE IF Recoverable
            THEN /\ recScene' = [recScene EXCEPT !.meta = recScene.system, !.status = "completed"]
                 /\ recRow' = [status |-> "completed", run |-> recScene.system]
                 /\ recRules' = recScene.rules /\ recPoints' = 0
            ELSE UNCHANGED <<recScene, recRow, recRules, recPoints>>
    /\ Goto("idle")
    /\ UNCHANGED <<recBackup, recLeft, recV6, recScope, recLedger, recQueue, recBudget, recBefore>>

-----------------------------------------------------------------------------
RecWork ==
    \/ StartFull \/ FreezeScope \/ WriteRules \/ WriteSystem \/ PublishRows \/ WriteMeta
    \/ MirrorPoints \/ MirrorV6 \/ FailRun
    \/ StartRebuild \/ StageScene \/ MoveSceneOut \/ MoveSceneIn \/ PublishLedger \/ PublishScope
    \/ DropBackup \/ RemoveNew \/ RestoreOld \/ RestoreScope \/ RestoreRows \/ RemoveAgain
    \/ PutBack \/ RebuildFails

RecStart == RecRestart \/ ImportScene

RecNext ==
    \/ Reserve \/ Rerun \/ RequestRebuild \/ DeleteScene \/ DeleteRows
    \/ RecWork \/ RecCrash \/ RecStart

RecSpec == RecInit /\ [][RecNext]_recVars /\ WF_recVars(RecWork \/ DeleteRows) /\ WF_recVars(RecStart)

-----------------------------------------------------------------------------
RunNumbers == 0..RecRuns
Scenes == [rules : RunNumbers, system : RunNumbers, meta : RunNumbers,
           status : {"none", "pending", "completed", "failed"}]
Rows == [status : {"none", "pending", "running", "completed", "failed"}, run : RunNumbers]
Workers == [step : Steps, mode : {"none", "full", "rebuild"}, run : RunNumbers,
            oldScope : RunNumbers, faults : Nat,
            last : {"none", "completed", "failed", "rolled_back"}]
Budgets == [runs : RunNumbers, faults : Nat, crashes : Nat]

RecTypeOK ==
    /\ recScene \in Scenes /\ recBackup \in Scenes /\ recLeft \subseteq Scenes
    /\ recRow \in Rows
    /\ {recRules, recPoints, recV6, recScope, recLedger} \subseteq RunNumbers
    /\ recQueue \in {"none", "full", "rebuild"}
    /\ recWorker \in Workers /\ recBudget \in Budgets
    /\ recBefore \in [scene : Scenes, scope : RunNumbers, rules : RunNumbers]

(* A full rebuild that one failing step makes fail leaves the scene, the rule *)
(* rows and the frozen scope as they were when it began, whichever of its      *)
(* steps it was (_execute_full_rebuild, _rollback_full_rebuild).               *)
RebuildFailsWhole ==
    At("failed") /\ recWorker.faults <= 1 /\ HasTaskFile(recBefore.scene)
    /\ recBefore.rules = recBefore.scene.rules /\ recBefore.scope # 0
        => /\ recScene = recBefore.scene
           /\ recScope = recBefore.scope
           /\ recRules = recBefore.rules

(* The same, however many steps fail: what the comment on the outer handler    *)
(* and the docstring of _restore_task_output promise of the scene.             *)
OldSceneComesBack ==
    At("failed") /\ IsScene(recBefore.scene) => recScene = recBefore.scene

(* While a rebuild exchanges the scene, and after a crash in the middle of it,*)
(* a whole scene is somewhere on disk, if there was one when it began and at  *)
(* most one step failed.                                                      *)
CrashKeepsAScene ==
    WholeScene(recBefore.scene) /\ recWorker.faults <= 1
        => \E s \in {recScene, recBackup} \cup recLeft : WholeScene(s)

(* A start changes nothing about a task whose outcome is in the tables with   *)
(* its rules, as long as no backup directory was left behind                  *)
(* (import_task_from_output).                                                 *)
RestartLeavesSettled ==
    [][RecStart /\ recLeft = {} /\ ~Unsettled /\ recRow # NoRow /\ recRules # 0
        => UNCHANGED <<recScene, recTables>>]_recVars

(* A first run that died after system.json was written is recovered: the task *)
(* gets its outcome without being run again (recLeft as above).               *)
LostOutcome ==
    At("down") /\ ~HasTaskFile(recScene) /\ Unsettled /\ recScene.system # 0 /\ recLeft = {}
RestartRecovers == LostOutcome ~> (recRow.status = "completed" /\ recRules = recScene.system)

(* The row names a completed run only together with the rule rows of that run,*)
(* also after an upgrade, a crash and a rollback: outcome and evidence become  *)
(* visible in one transaction.  Without rule files in the scene, a rebuild     *)
(* that is rolled back leaves no rule rows: it takes them from those files.    *)
CompletedHasItsRules ==
    recRow.status = "completed" /\ recScene.rules # 0 => recRules = recRow.run

(* What a rebuild and a crash in the middle of one leave of a task.           *)
RecordsSafe == RebuildFailsWhole /\ CrashKeepsAScene /\ CompletedHasItsRules
=============================================================================
