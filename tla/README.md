# A TLA+ model of PatrolX

PatrolX is an offline inspection system: a FastAPI service receives packages of
network-element data, extracts them, runs inspection rules over the extracted
files and keeps results, KPI measurements and an inventory in SQLite. One
worker thread executes the tasks one after the other; within a task the rules
run on a pool of processes; HTTP handlers create, delete, rerun and rebuild
tasks while all this goes on.

This directory holds TLA+ modules that model parts of it, the configurations
TLC checks them with, and proofs for TLAPS. Paths such as `tasks.py` mean
`src/app/services/tasks.py`; `router.py`, `cli.py` are under `src/app/api` and
`src/app`. Line numbers are those of this commit.

## Running

    tlc -workers 2 -config MCTaskOne.cfg MCTaskService.tla
    tlc -workers 2 -config MCDurable.cfg MCDurable.tla
    tlc -workers 2 -config MCKpi.cfg MCKpi.tla
    tlapm TaskServiceProofs.tla

and likewise the other proof modules: `StageRunnerProofs`, `RecordsProofs`,
`ExtractionProofs`, `AttributionProofs`, `DurableProofs`, `ConfigurationProofs`,
`KpiProofs`.

Every run names its module and configuration in `PROJECT.json`. The runs whose
name begins with `find` end in a counterexample, on purpose (see *Where code
and documents disagree*).

## Inventory

| component | state it keeps | operations | talks to | hard because of |
|---|---|---|---|---|
| task service (`tasks.py`) | queue of task ids, rerun and rebuild plans, active and cancelled marks, execution lock, state lock | reserve/submit/discard, delete, rerun, rebuild, update device, the worker loop with publication and rollback | rows and scenes, the pipeline, retention | worker and handler threads interleave between every two database or file operations; every operation has an error path |
| retention (`retention.py`) | none; reads rows, removes directories | sweep of `uploads/` and `output/` | called by the worker after a publication or a failure | works from a list of rows read once |
| HTTP endpoints (`router.py`) | none | create with duplicate branch and rollback, delete, rerun, rebuild, PATCH, queries | task service | creation runs on the event loop, the rest in a thread pool |
| rows and scenes (`task_db.py`, `store.py`) | `tasks` and its dependent tables; `output/<task>/task.json` | upsert, run start and end, publication of a scene, deletion, import of scenes at start-up | everybody | row and file are two copies of one fact, written one after the other |
| pipeline (`cli.py`) | scene of the task | run_task, run_single_rule, run_incremental_rebuild | executor, rows, scenes | who publishes, and when, depends on the kind of run |
| unit executor (`executor.py`, `parallel.py`, `unit_runtime.py`, `prepare.py`) | process pool, window, results, `prepared/<rule>/` with its marker | plan, run and flush the stages PREPARE and INSPECT; single rules | processes | worker processes die and take other units with them; the cache outlives the run |
| extraction site (`extraction/site.py`, `manifest.py`, `layout.py`) | `.main` evidence, target roots, manifest | replace the evidence, reuse it, publish roots and manifest, roll back | executor | several renames, any of which may fail or be the last before a crash |
| nested archives, classification (`core/archive.py`, `extraction/nested.py`, `classification.py`, `audit.py`, `budget.py`) | none between runs | route, unpack, expand recursively, land, record | site | limits at every depth, two sources that ask for one path |
| classification configuration, scanning (`extraction/config.py`, `scanning/`) | none | validate routes against each other, infer the scene, choose the route of a file; match names | classification | what the validation compares by automata, the scan matches by backtracking |
| rule switches (`rule_states.py`) | a switch per rule | read, write | pipeline | — |
| assignments, team focus, frozen scope (`rule_network_assignments.py`, `kpi_team_focus.py`, `kpi_measurement_scope.py`, `task_execution_scope.py`) | assignments, focus, switches of units, states of bindings, each with a revision; audits; scope rows of a task | assign with expected revision, patch the focus, switch, correct, freeze | creation, pipeline, workbench | sessions that read before they write; a scope frozen from settings that change |
| types of KPI configuration (`kpi_v6_migration.py`, `kpi_measurement_scope.py`) | v6 rows per network element type, pending attributions, audits, operations with idempotency keys | migrate again, resolve, retry | start-up, endpoints | an operation is several transactions |
| KPI catalog and inspection (`kpi_measurement_units.py`) | resources, bindings, derivations; readings of a run | discover, confirm, bind, register, rename, derive; read, merge, judge | executor, endpoints | a discovery is one long transaction next to handlers |
| KPI results, workbench (`kpi_daily_health*.py`, `kpi_v6_results.py`, `kpi_workbench.py`) | mirrored points, results, evidence | judge a day, mirror, publish, show | publication, frozen scope | requests read statement by statement while runs publish |
| inventory (`inventory/*.py`) | evidence, observations, devices, audits | parse, publish, recalculate, delete a device | publication, full rebuild | a session that does not flush by itself; not rolled back with the scene |
| authentication (`auth.py`) | users and sessions, two tables of its own | login, logout, expiry, bootstrap | endpoints | time |
| rules (`inspectors/`) | none | pure functions of files | executor | an executor sees a unit that answers, raises or dies |
| reports, overview, preparation summary | none | read-only | — | — |
| web client, build scripts | — | — | — | — |

### What makes each part correct

* Task service: runs and deletions of scenes exclude each other; a task being
  deleted is not executed; a pending task is queued or about to be; no row stays
  running when its run has ended; nobody brings a deleted task back; every task
  settles and every deletion ends; a publication records the start of the run it closes.
* Retention: what is pending or running is spared; at rest there are no more
  scenes than allowed.
* Executor: every unit gets one answer that its own behaviour explains; only
  lost executions are repeated, once; a marker stands for complete data; a rule
  reads only completely prepared data; every run ends.
* Rows and scenes: after a restart row and scene agree again, and no task is lost.
* Full rebuild: a failure leaves the old scene, and a whole scene is somewhere at every crash point.
* Extraction site: what a passed classification leaves is whole, whatever was on
  disk before; no state wedges the next run.
* Classification: one damaged archive costs its own members, on the record; nothing is dropped silently.
* Classification configuration: once accepted, at most one route of a rank
  matches a file, and every file of the scene has one.
* Assignments and scope: the audits explain the state; a scope is not older than the revision it names.
* Attribution: no old row is lost, no edit overwritten, every accepted operation ends.
* Catalog and measurement: the discovery gives a metric to one unit; every row
  is counted once; trouble is not reported as passed.
* Workbench: a reading past the threshold reaches the attention view; what is
  shown is the verdict with its evidence.
* Inventory: no observation without a device; the ledger is what was last published; changes are audited.

`PROJECT.json` lists the hazards with their lines and the properties aimed at them.

## Modules

1. `TaskService`: the worker, the handlers, retention.
2. `UnitSettlement` (abstract) and `StageRunner`, which implements it.
3. `SceneSite`, `RoutePatterns`, `Classification`, `Expansion`: evidence, scene,
   routes, landing, archives in archives.
4. `TaskRecords`: full rebuilds with rollback, crashes, the import at a start.
5. `Configuration`, `Attribution`: assignments, focus, frozen scope, v5 to v6.
6. `MeasurementCatalog`, `Measurement`, `DailyHealth`, `Workbench`: KPIs from file to screen.
7. `Inventory`: the ledger.

8. Eight modules of proofs (see *Proofs*). A component that is proved about reaches
   no recursive operator; that is why `Expansion` stands beside `Classification`.

How the modules meet: `TaskService` sees a publication as two steps (row, file)
and a rebuild as one backup; `TaskRecords` has the steps in between for one
task. `SceneSite` is what the two extraction units do to the disk when
`StageRunner` runs them; `Expansion` computes what a source holds and
`Classification` lands it, by the routes `RoutePatterns` finds for each file. `Configuration`
freezes the scope that `Workbench` publishes over; `MeasurementCatalog` fills
the bindings by which `Measurement` reads; `DailyHealth` is the arithmetic of
`Workbench`.

## TaskService

One action is the code between two points where another thread can run: a
database call, a file operation, taking or leaving a lock.

| state | code |
|---|---|
| `row` | the row of `tasks`: status, `created_at`, `last_run_at` (0 for NULL) |
| `meta`, `dir`, `package` | `output/<task>/task.json`, the directory, `uploads/<task>/` |
| `frozen` | the task has a rule scope snapshot |
| `queue`, `rerunPlan`, `rebuildPlan`, `active`, `cancelled`, `lock` | `_queue`, `_rerun_plan`, `_rebuild_plan`, `_active_task`, `_cancelled`, `_lock` |
| `worker` | where `_worker_loop` is and its locals: plan, outcome, start time, backup, published snapshot, what a sweep intends to remove |
| `thread` | the same for each handler thread and for the event loop |
| `dropped`, `fresh`, `retold` | history: entries discarded as cancelled; tasks created and not yet executed; whether a rerun or PATCH wrote the task of the run under way since it started |
| `unmarked` | history: deletions whose mark in `cancelled` was dropped before their end |

The worker's steps are `WorkerGet` … `WorkerRefinish`, grouped as in the code:
dequeueing (177–187), executing (`_execute`, `_execute_full_rebuild`, the three
pipeline functions of `cli.py`), publishing (`_publish_terminal`), sweeping
(`cleanup`), closing (`_finish_run` and the error path after the lock). The
handlers' steps are `Create*`, `Delete*`, `Rerun*`, `Rebuild*`, `Device*`.
`Faults` says which operations may fail: copying an upload, removing a
directory, executing, publishing.

What is abstracted:

* What rules compute. A run ends as completed or failed, or raises.
* The existence check and the reservation of a creation are one step, and
  packages lie in `uploads/<task>/` (a loose file directly in `uploads/` is
  treated the same by the code that matters here).
* `append_log`, which creates a missing scene directory, is part of the
  steps whose effect outlasts them and left out of others.
* KPI rows, results and inventory: publication is the row and `task.json`. What
  the KPI publication does to the row is kept: after `task.json` it writes the
  row again from the snapshot (`WorkerMirror`, tasks.py:228-242), a second
  chance to bring back a row that was deleted or changed in between.
* Two handler threads serve delete, rerun, rebuild and PATCH; the code's thread
  pool is larger.

Runs, all with deadlock checking off because the service rests when no request
is left:

| run | instance | shows |
|---|---|---|
| `task_all` | 1 task, 2 handlers, 3 requests of any kind, every fault | `TypeOK`, `RunsAndDeletesExclude`, `NeverRunsCancelled`, `PendingIsHeld` |
| `task_repeat` | 1 task, 2 handlers, 3 requests (no deletions), every fault, fairness | `RunningIsHeld`, `FreshRunsInFull`, `PublishesOwnStart`, `EveryTaskSettles` |
| `task_delete` | 1 task, 2 handlers, 3 requests (create, delete, full rebuild), all faults but copying, fairness | `WorkerNeverRevives`, `EveryTaskSettles`, `EveryDeleteEnds` |
| `task_retention` | 3 tasks, 1 retained scene, 5 creations or restorations, all faults but deletion | `SceneBound`, `CleanupSparesBusy` |

Why these bounds: the properties of the first three runs are about what
happens to one task id — queue entries, plans and marks of different ids touch
only at the lock and at `active`, and a second task adds waiting but no new
order of steps. Three requests are a creation with two more overlapping it; the
counterexamples below that need four or five are runs of their own. Retention
compares tasks, so it gets three with room for one. `Keep` is
`MAX_RETAINED_SCENES`, 50 in the code; nothing depends on the number but
the comparison.

Properties that hold only in part of the instances: `RunningIsHeld`,
`FreshRunsInFull`, `CleanupSparesBusy` and `WorkerNeverRevives` hold where the
requests named in the run cannot bring about a counterexample, and three of them
are refuted where they can (*Where code and documents disagree*); all but
`CleanupSparesBusy` are proved under such a hypothesis. `CleanupSparesBusy` in
`task_retention`, with creations only, is about which scenes a sweep selects. `WorkerNeverRevives` is about deletions among creations and full rebuilds: a
rerun, a rules-only or a device change writes back the row it read and so may
itself bring a deleted task back. `EveryTaskSettles` exempts a
task whose queue entry was discarded because it was being deleted: if that
deletion then fails, the task stays pending for good (`WorkerSkip`, then
`DeleteSceneFails`).

`NeverRunsCancelled` says that from its acceptance to its end a deletion and an
execution of the same task exclude each other, also while the deletion waits for the
lock. It exempts deletions that lost their mark (`unmarked`): `_cancelled` is a set, so
all deletions of a task share one mark, and the worker's discarding of a queue entry
(tasks.py:183) or the end of another deletion (tasks.py:933) takes it from those still
waiting. Without the exemption (`DeletedNeverRuns`) the code does not keep it: a task is
created and two requests delete it before it is queued; the first gets the lock, cannot
remove the scene and drops the mark; the worker claims the task and executes it while
the second deletion, long accepted, waits.

`PublishesOwnStart` exempts runs of a task that a rerun or a PATCH wrote again
while it ran (`retold`). The docstring (`tasks.py:212`) says that old values of the
scene never come back, without exception; but a PATCH that read `task.json`
before an incremental rebuild and writes it back during the run makes the run
publish the older start. Nor is "`last_run_at` never goes back" true of
publications: with a fourth request a rerun's old `task.json` can be written
between two runs. The rollback of a full rebuild and the error path set it
back in any case.

Fairness: weak fairness of the worker as a whole (one thread whose next step is
always determined and which waits only for the queue and the lock), of the
create endpoint, and of each handler once it has taken a request. Requests
themselves are not fair: no one has to ask. A handler waiting for the
execution lock is not continuously enabled while the worker passes through it,
but the number of queue entries is bounded by the requests, so weak fairness
is enough; with an endless stream of tasks a deletion relies on
`threading.Lock` letting it in, which Python does not promise.

## StageRunner and UnitSettlement

`UnitSettlement` is the promise: the units of a stage are asked for, each is
answered at most once, and the answer is one its own behaviour allows.
`StageRunner` is `Executor.run_all` and `run_rule_with_deps` over `StageRunner`
of `parallel.py`; the refinement maps the stage's pending units to `asked`, the
collected outcomes to `answer`, and a unit's nature to what it `may` be
answered. `raised` is a caught exception, `crashed` the outcome
`_crash_outcome` writes.

| state | code |
|---|---|
| `pc`, `stage`, `scope`, `single`, `force` | where the parent is, `STAGE_PREPARE`/`STAGE_INSPECT`, the rules of the run, single-rule run, `force_prepare_rebuild` |
| `data`, `marker`, `version` | `prepared/<rule>/` (nothing, part, whole, and the rule file that wrote it), `.prepare.sha256`, `rule_file_sha256` |
| `state`, `result` | `ctx.prepare_states`, the results |
| `pending`, `queue`, `flight`, `window`, `measured`, `degraded` | the locals of `run_stage` and `_run_parallel` |
| `future` | what the pool knows of each unit: waiting, running, answered or lost |
| `torn` | history: the rules whose marker outlived the last removal of their directory and was not written anew since |
| `runs` | history: executions of each unit in this stage |
| `broken`, `pool` | `_broken`; the `ProcessPoolExecutor` |
| `nature`, `match` | environment: how each unit behaves, what its patterns find |

Between the parent's steps a process may start a unit, finish it, or die; then
the pool breaks and every unit it has not finished is lost. The parent finds out
when it submits (`SubmitRefused`) or collects (`Wait`). `Crash` stops the
parent anywhere; `Upgrade` changes the rule file between runs. In the serial
path a unit that ends its process ends the parent (`SerialDies`).

`_plan_prepare` removes a prepare's directory before it is made anew, with
`rmtree(ignore_errors=True)`: entry by entry, the marker among the entries, an entry
that cannot be removed passed over. `Cleared` therefore takes the directories that
are gone and those of which something is left: of these the data may have become a
part and the marker may be there or not. `PlanPrepare` leaves something of the rules
in `Resisting`; `RemovalCut` ends the process, or fails to make a directory, between
or within the removals. So a marker can outlive its data: after a forced rebuild of
one rule that is cut off within the removal, the next run takes the old marker for a
hit and the rule reads what is left. `MarkerAlwaysSound` (not checked, since it is
false: run rule 1, run it again with `force_prepare_rebuild`, `RemovalCut`) says so;
the checked properties exempt the rules in `torn`, and nothing else. A new rule file
protects from it unless the old file comes back.

Abstractions: the process pool ends its other processes in the same step as it
breaks; workers that survive their parent for a moment are not modelled; rule
files do not change during a run; `whole` means that everything the prepare writes
is there, not that nothing older lies beside it; a pool whose
initialiser fails behaves like one that breaks. Whether the matched files are
large enough for the pool is left open, so both paths are explored from
`MinUnits` units on.

The run `stage_runner` has three rules, two of them with a prepare, a window of two, three
runs (all rules or one, with or without a forced rebuild), two versions of the rule
files, and a directory of rule 1 that may resist removal. Rule 1 raises or dies now
and then, the prepare of rule 2 may be unable to send its answer and its check always
dies, the patterns of rule 2 may be rejected and those of rule 3 find
nothing. Three units are the least with one in flight beside the
guilty one and one in the queue; three runs are the least in which a cache is
filled, torn and used again. Deadlock checking is off: after the last run nothing is left to do.

| property | says |
|---|---|
| `SettlesEachUnit` | `UnitSettlement` is implemented: one answer per unit, never a crash that is not its own |
| `RunsAgainOnlyLost` | only a unit whose first execution was lost is executed again, once |
| `InnocentUnaffected` | a well-behaved rule gets its own result whatever the others do |
| `MarkerSound` | a marker stands for data written completely by that rule file, across crashes, forced rebuilds and upgrades, unless it outlived the last removal of its directory (`torn`) |
| `InspectsReadWhole` | a rule reads only data its current prepare wrote completely, unless the run took such a marker for a hit |
| `EveryRunEnds` | the loop over queue, window and broken pool ends |

Fairness: the parent goes on, and every unit comes to an end (there is no unit
timeout in the code: a rule that never returns stops the worker for good).

## How the other components are run

Twelve modules are checked in two runs. The components of a run share no state, so
`Durable` (with its instances in `MCDurable`) and `MCKpi` bundle them: `turn` names the one that moves, from the
first state on, and the others stay in one initial state. What is explored is the
sum of the components' state spaces, not their product, and every behaviour of
a component is a behaviour of the bundle. In the states where the others stay
no fair action of theirs is enabled, so the fairness of each component can be
assumed of the bundle. Deadlock checking is off: every component stops when its
bounds are used up. Properties that belong together are one conjunction of named
parts (`SceneTrusted` is `DoneIsWhole /\ CrashNeverMixes /\ EvidenceIsPackage`,
`RoutingSound` is `NoTie /\ SelectionDecides /\ DefaultReaches`,
`ScansAndConflicts` is `NothingUnaccounted /\ CleanNeverFails /\ LocalFailuresPublish
/\ ConflictReal`,
`RunsRecover` is `NextRunRecovers /\ RestartRecovers`), and the parts are what the
tables below list.

### Run `durable_steps` (SceneSite, RoutePatterns, Classification, Expansion, TaskRecords, Inventory, Attribution)

**SceneSite** — one task's extraction on disk, one action per rename or write.

| state | code |
|---|---|
| `evidence`, `evidencePrev`, `evidenceStaging` | `.main`, `.main.previous`, `.main.staging` (`extraction/site.py`) |
| `target`, `staged`, `backup` | the target roots, the classification staging, the backup roots |
| `manifest` and its two control files | `manifest.json` (`extraction/manifest.py`) |
| `siteStep`, `swapTodo`, `swapRecords`, `hidden` | where the run is, and the locals of `publish_classification_run` the rollback uses |
| `package`, `layout` | the uploaded file, the classification configuration |
| `putBack` | history: the file was replaced while it was unpacked, and put back |

A tree is one value: the configuration and the evidence it was built from. Every
step may fail (`SiteFaults`), the process may die between any two (`SiteCrash`),
and outside the package, the configuration or a file may change. The checksum of
the package is read before and after it is unpacked, so a file replaced and put
back in between is not noticed: `DoneIsWhole` and `EvidenceIsPackage` exempt that
case (`putBack`) and nothing else. Validation of a
manifest's syntax is left out: a manifest is there and valid, or not there.

**RoutePatterns** — the configuration that classifies. `ParseRoutes`,
`CheckDefaults` and `Accept` follow `parse_classification_config`; a comparison of
two patterns builds two automata and searches their product (`SearchStep`, one turn of
the loop; which pair `pop` yields is open). The states and edges of an automaton are
given by their numbers, as `_PatternNFA` hands them out: state 2i after i elements of
the pattern, 2i - 1 for the loop of a star (`Compile`, with the `Symbols` an element
`Taken` alone leads on by). `ScanTree` infers the scene of a package and chooses
the route of each file. The properties compare the search with the matcher of
the scan (`GlobMatches`, `MemberMatches`), which the code shares nothing with, for
every file up to a length (`SourceDirs`, `SourceNames`). Both are recursive
functions of the positions in pattern and file, so that they can be reasoned about.
Case is folded, routes are in the order of their
ids, and `upper` and `casefold` are one; classes `[..]` of `fnmatch`, which the
automata read as characters, are not among the patterns.

**Classification** — the packages themselves. A path is a sequence of segments, a
body a leaf, a gzip around a body, or an archive of members, any of them torn.
`IgnoreSource`, `ExpandSource`, `LandOne`, `LandFails`, `Publish` follow the
classification of one source after the other, with the disambiguation of targets.
What the expansion of a source gives — files to land, errors, members not selected —
is the parameter `Handling`; the run takes it from **Expansion**, which computes it as
`unpack_zip`/`unpack_tar`, `select_and_decompress` and `_expand_nested_archives` do.
`HandlingAssumption` says of it that no two files of a source are landed as the same
member: the members of an archive differ by more than case (`_member_key`), so at most
one of them is opened to a given name. Packages are
an archive and another source: members that are torn, doubled, unsupported,
conflicting with a directory, at and beyond every limit, and archives nested
just to the depth allowed and one deeper.

**TaskRecords** — one task's scene (`recScene`, `recBackup`, `recLeft`) and its
rows (`recRow`, `recRules`, `recPoints`, `recV6`, `recScope`, `recLedger`). The
content of a record is the number of the run that wrote it, so that a mixture is
visible. `Start*`, `Write*`, `Publish*`, `Move*`, `Restore*` are the steps of
`_execute`, `_execute_full_rebuild`, `_rollback_full_rebuild`; `RecRestart`
and `ImportScene` what the next start does. It may begin with a scene of an older
version that kept its records in files only.

**Inventory** — parsing of `LST ME` text line by line (`ReadLine`), evidence by task,
and the publication through a session that does not flush by itself: the
worker's own objects (`worker.mine`) and the tables are two things until
`Flush`. `DeleteDevice` may come between any two steps; a flush that finds its
row gone rolls the publication back.

**Attribution** — v5 rows, v6 rows per type, pending records, audits, operations. A
migration is one transaction and runs again whenever the old data changed; a
maintainer's request is the sequence `InsertOperation`, `LoadOperation`,
`OpenOperation`, the recovery or materialisation of each target, `FinishOperation`,
with `ServiceCrash` between any two.

| property | says |
|---|---|
| `DoneIsWhole` | a classification that passed left exactly the scene of this package and configuration |
| `CrashNeverMixes` | crashes alone never leave a manifest over roots that are not its catalog |
| `EvidenceIsPackage` | `.main` is never built from another package than the one created with |
| `NoTie` | no file, wherever the scene is, matches two routes of an accepted configuration that only their ids would order |
| `ConflictReal` | two patterns reported in conflict do match one file (routes of the evidence, without `capture_root`), or one member |
| `SelectionDecides`, `DefaultReaches` | no member falls to two services (except by a final `**`); every file of the scene has a route |
| `NextRunRecovers` | whatever faults, crashes and damage left, the next undisturbed run ends with a whole scene |
| `NothingUnaccounted` | what a source is due to give — its leaves, its members, or itself, as its route asks — is landed with its content, or a record names it, an archive around it, or the source |
| `CleanNeverFails` | a damaged source costs a clean one nothing |
| `LocalFailuresPublish` | (`Classification`) without failing copies a manifest is never refused; what raises is a conflict number that `ConflictRecord` refuses, after that many files of one target |
| `NeverOverwrites` | what has been landed stays as it is |
| `RebuildFailsWhole` | a rebuild that one step makes fail leaves scene, rule rows and frozen scope as before |
| `CrashKeepsAScene` | a whole scene is somewhere on disk throughout a rebuild |
| `CompletedHasItsRules` | a completed row comes with the rule rows of its run |
| `RestartLeavesSettled`, `RestartRecovers` | a start changes nothing that is settled, and gives a run that died after `system.json` its outcome |
| `NoOrphans`, `LedgerMirrorsEvidence` | no observation without its device; the ledger is what the task last published |
| `ChangesAudited` | an observation overwritten or retired has an audit with both versions |
| `EveryRowAccounted`, `MaterializedHasRow` | no v5 row is lost, and none is called materialised that is not there |
| `EditsSurvive` | neither migration nor materialisation overwrites an edit |
| `EveryOperationEnds` | without a crash, an accepted operation ends |

Bounds. Site: 3 runs, 2 faults, 1 crash, 1 change from outside (putting the
package back is not counted) — a run that fails, one that recovers, and one whose
own recovery is disturbed; three roots,
of which two configurations use two each, so that a root is new, kept or gone.
Routes: 690 configurations — every pair of 7 directory patterns in both scopes, every
pair of 7 file patterns, ranks and profiles, selections of two includes, defaults
that do and do not cover, GENERIC by itself and mixed; files of up to 3 directories of 3 names and 2 characters
of 3, long enough for every pair of these patterns that meets at all (`ConflictReal`
would fail on a pair that only meets in a longer file). Classification: at most 4 members and 4 units of size an archive, 3 segments, depth
2, 1 failing copy; the packages reach each limit and pass it by one, and one of them has
three files for one target: the code refuses the conflict numbers 10–19, 100–199, …
(`RefusedSlots`), the run the number 2. Records: 2
runs, 3 faults, 1 crash — a rebuild, its rollback, and a fault in the
rollback. Inventory: 4 tasks (two operators, no site, a supplement), 2 names, 3
publications, 1 deletion — a device seen by two tasks, then by one. Attribution: one
row of each kind, 2 maintainers, 1 key, 2 requests, 1 crash, 1 change of old
data; two requests are the least that meet under a key.

Fairness. A run of the site goes on once started (`RunStep`); the worker or the
deletion of a task's records goes on, and the service is started again after a
crash (`RecWork \/ DeleteRows`, `RecStart`); a thread that serves a request
goes on with it (`Continue`). Requests, faults, crashes, edits are not fair.

### Runs `kpi` and `find_live_config` (Configuration, MeasurementCatalog, Measurement, Workbench)

**Configuration** — the shared tables and the freezing of a scope.

| state | code |
|---|---|
| `assigned`, `ruleRev`, `globalRev`, `assignLog` | assignments of rules, their revisions, the audits (`rule_network_assignments.py`) |
| `focusSet`, `focusRev` | team focus (`kpi_team_focus.py`) |
| `unitOn`, `unitRev`, `bindState`, `bindRev` | switches and corrections (`kpi_measurement_scope.py`) |
| `editor` | request, position and what was read, of each thread |
| `freezer`, `frozenScope` | the worker's reads and the scope rows (`task_execution_scope.py`, `rule_scope.py`, `kpi_scope.py`) |

The reads of a session are steps of their own; its writes and commit are one,
for SQLite has one writer. So revisions are compared with, and computed from,
values that may be stale.

**MeasurementCatalog** — the v5 catalog. `ScanStart`, `ScanColumn`, `ScanCommit`,
`ScanDies` are the discovery, with rows it has added and those it has changed
but not flushed apart; `StewardReads`, `StewardWrites` are the handlers, which
check before they hold the write lock.

**Measurement** — one unit's files, one step per file and stage, with cells that are
blank, bad or numbers; averages are compared by cross multiplication. Only a row that
is blank throughout is passed over; a blank metric of any other row counts as
missing. The points of a metric are a set, each with its file and row, in series by
object and period; a row without a time is counted but gives no point. `TrendMirrors` has two exceptions: a dip that recovers has no
counterpart, and a drift within the tolerance is called rising in both directions
(see *Where code and documents disagree*).

**DailyHealth** — operators only: days in UTC+8, folding, thresholds, tolerance,
the worst object, completion from earlier tasks. Values are integers in
tenths; `object` stands for the pair of object and period.

**Workbench** — a run from scope to publication (`Inspect`, `AdoptScope`, `MirrorIndex`,
`PublishVerdicts`), and a request that reads statement by statement (`ReadSnapshot`
… `ReadPoints`). The bindings of the old tables are taken as confirmed, the
scope is resolved in one step (the tearing is in `Configuration`), the old
tables are an input (`Upkeeps`).

| property | says |
|---|---|
| `AuditExplainsAssignments` | assignments and revisions are what the audits say, under any interleaving |
| `FrozenCoversRevision` | what is frozen under a revision includes every change up to it |
| `AddedBindingsOneOwner`, `NameTwiceOnlyByHand` | the discovery gives no metric to two units and registers no name twice |
| `RowsCounted` | every row is counted once, under one outcome, across files |
| `StatusMonotone`, `TrendMirrors` | a worse average is not judged better; opposite series have opposite labels, but for the two exceptions |
| `TroubleNotPassed` | what could not be read is not reported as passed |
| `FailReachesAttention` | a reading past the critical threshold reaches the attention view, whatever other objects say |
| `ShownWithItsVerdict` | a metric that had a verdict during the whole request is not shown without |
| `EvidenceBacksVerdict` | evidence read with no publication in between holds every reading the verdict counted |
| `DetailAgrees` | the detail, computed from the database, has the status computed from the files, where both have the same configuration and no object gets its first pair from an earlier task |

`FrozenCoversRevision` and the catalog's properties name what they leave out:
revisions given out twice by concurrent writers, and metrics a maintainer wrote
about or the discovery gave to a row that existed.

Bounds. Configuration: 1 unit, metric and binding, 2 rules, 2 editors, 2
requests — a lost update needs two of each; the freezing is a third thread.
Catalog: 2 units, 3 metrics, 3 columns, 1 maintainer, 2 discoveries, 2 requests —
a name in two units and a discovery that comes again. Measurement: two files
of a row, one of two — rows of no object, without a time, blank throughout or in
their metrics —, series of two periods, and every series of four values from five; four is the
least at which all labels of a trend occur. Workbench: 4 metrics (a load, a rate
and its parts), 2 runs, 1 edit, readings of the data day, the day before and of an
earlier task — the second run replaces results while a request reads. No
fairness: these properties are about safety.

## Where code and documents disagree

Checked as runs that must end in a counterexample:

* `find_cleanup` — the sweep reads the rows, then removes directories. By then
  the finished task is no longer active, so a rebuild of it is accepted and its
  package removed under it (`retention.py:80`, `tasks.py:228-230`).
* `find_stuck_running` — a run fails before `task.json` exists; an incremental
  rebuild is accepted from the row, executes, and `run_incremental_rebuild`
  publishes nothing because there is no `task.json` (`cli.py:670`): the row stays
  running.
* `find_stale_plan` — a rebuild is planned, its task deleted and created again:
  the plan is still there and the first execution is a rebuild (`tasks.py:988`).
* `find_dirty_prepare` — a prepare lost with the pool is executed again over
  what its first execution left; only planning clears the directory
  (`parallel.py:320`, `executor.py:218-220`).

* `find_live_config` — daily health reads units, bindings, rules and
  derivations from the current tables (`kpi_daily_health_snapshot.py:198`); an
  edit between the freezing and the rule changes verdicts, which
  `specs/041-kpi-result-workbench/data-model.md:24` and
  `task_execution_scope.py:74` exclude. The detail of a metric reads the v5
  tables even later.

Stated in the modules as a property that does not hold, without a run of its own
(added as INVARIANT, each gives a counterexample):

| definition | what happens |
|---|---|
| `OldSceneComesBack` (`TaskRecords`) | two failing steps: the rollback of a rebuild restores the scene only if the move back works (`tasks.py:520-523,544,560`) |
| `FailedPublishRollsBack` (`SceneSite`) | the records of an exchange reach the rollback only when the whole exchange returns; a rename failing in it leaves the rollback nothing to undo, and it removes the backup (`manifest.py:823-841`) |
| `SelectionAlwaysDecides` (`RoutePatterns`) | an include that ends in `**` is compared as one level and matched at any depth, and one without a service is not compared at all: the scan then fails the source (`config.py:902-920,974-982`, `nested.py:160-162,180-192`; the comment there calls it an error of the configuration) |
| `NeighbourLands` (`Expansion`) | a gzip member whose target exists removes that target, its plain neighbour (`core/archive.py:535-541`; specs/038 spec.md:233) |
| `EachPatchIncrements` (`Configuration`) | two patches of the focus computed from one revision (specs/041 data-model.md:243) |
| `UnresolvedStaysOut` (`Attribution`) | a later migration that can map the record inserts its row and leaves the pending record (specs/041 data-model.md 4.19) |
| `OneOwner` (`MeasurementCatalog`) | a maintainer checks the owner before the discovery commits (specs/021 FR-017) |
| `ErrorStatusKept` (`Measurement`) | the next file, or a unit without confirmed bindings, turns the error of the discovery into another status |
| `CountsActive` (`Inventory`) | the observations a publication retires are not flushed when the devices are recalculated, and are still counted (`inventory/ledger.py:108-117`; specs/027 data-model.md:72) |

Seen while modelling, without a property:

* The tenth conflict on one target ends the classification. `resolve_target` names it
  with `-10` (`audit.py:479-491`), `ConflictRecord` accepts only numbers that begin with
  2 to 9 (`audit.py:443`), and the `ValueError` is only caught where the unit fails
  (`inspectors/pkg.py:461`): the files that were landed are not published, against SC-010 and SC-011 (specs/038
  spec.md:232-233). In `Classification` this is `ConflictRefused`, and
  `LocalFailuresPublish` says when it can happen.
* `rerun` has no busy check: a running task becomes pending while it runs
  (`docs/design/task-rerun.md:28`, `docs/data-model.md:45`).
* `rebuild` decides from `task.json` whether a task is busy, but only the row
  becomes pending: a second rebuild of a queued task is accepted
  (`tasks.py:981-989`).
* A deletion that fails on the package after the scene was removed loses
  `task.json`, which is saved back only when the scene's removal failed
  (`tests/test_delete_race.py:45`).
* A queue entry discarded for a deletion that then fails leaves its task pending
  (`docs/design/task-rerun.md:18`).
* The rollback of a full rebuild and the error path bring back an older
  `last_run_at` (`docs/data-model.md:37`); so does `update_device_id`, which
  writes back the `task.json` it read before a run.
* The cancel mark outlives the execution lock: a task created again at that
  moment loses its queue entry.
* When the pool broke among the prepares the rules run in the service process,
  where a rule that ends its process ends the service.

* A steady slow fall is labelled rising, and improved where higher is better:
  `_classify_trend` tries "rising" first and takes any step within 5% of the mean for
  one (`kpi_measurement_units.py:1463-1466`; 112, 108, 104, 100 is such a series),
  while specs/023-kpi-single-task-trend/spec.md:53 wants a value that falls with time
  labelled 下降. `TrendMirrors` holds with this as an exception.
* The detail of a derived metric completes yesterday from an earlier task
  (`kpi_daily_health_query.py`). Where that gives an object its first pair of parts, the
  detail says it cannot be judged while the daily health, which never saw the object,
  says normal: the last premise of `DetailAgrees`.
* `[` and `]` are allowed in a file pattern and are letters to the automata of the
  validation, but a class to `fnmatchcase` in the scan (`classification.py:183-186`):
  two routes can be accepted that match one file. Patterns with brackets are left out
  of `RoutePatterns`.
* The workbench and the evidence view group points by the UTC date
  (`kpi_workbench.py:672-679`, `:1033-1036`), the judgement by the date in UTC+8
  (specs/040 spec.md:208).
* The parts of a derived metric (`_NUMERATOR`, `_DENOMINATOR`) are in the frozen
  scope but not judged, so they are published as not judgeable.
* A crash after a materialisation makes the repeated request answer 400, though
  its work is done.
* v6 results stay when the frozen scope of a rerun is empty, and
  `delete_task_data` leaves them.
* The backup a crashed rebuild leaves next to `output/<task>` is imported as a
  task at every start; the ledger is not rolled back by a failed rebuild.
* The rollback of a rebuild of a scene without `rules/*.json` leaves no rule
  rows (`tasks.py:550`), and if no scope was frozen before, the new one stays.
* The list of quality issues misses changes of ownership
  (`inventory/queries.py:300-322`; specs/027 data-model.md:165); a row of
  `LST ME` without a name ends its table.

## Proofs

TLAPS checks them for every value of the constants: any number of tasks,
threads, rules, roots, rows, requests, faults and crashes, as long as the named
assumptions of the modules hold. These state the types of the constants and that
different kinds of values differ; two say more, and are named below. The
counters that bound the runs of TLC are parameters without an upper limit.

In almost no case is the property inductive: it speaks of states at rest, and
the code makes it true over many steps. The work of each proof is the
strengthened invariant, which says what holds between the steps. Each was first
checked by TLC on the instance of the component's run, then proved with one step
for each action.

**`TaskServiceProofs`** — assumptions `ThreadAssumption` (worker, event loop,
handlers and the null value are different) and `BoundAssumption`.

| theorem | states | along |
|---|---|---|
| `TypeCorrect` | `TypeOK` | inductive as it stands; more than a typing: a thread about to save a snapshot has read one, one in a rebuild carries a rebuild plan, the worker holds a task exactly when it is past `get` |
| `MutualExclusion` | `RunsAndDeletesExclude` | `LockOwner`: whoever is inside owns the lock; nothing in the property says why a deletion cannot enter |
| `CancelledNeverRuns` | `NeverRunsCancelled` | `ClaimInv`: the task being executed is the active one and has no mark; `MarkInv`: a deletion has its mark unless it is in `unmarked` |
| `PendingNeverForgotten` | `PendingIsHeld` | `CopiesTerminal`: the snapshots carried past a step are terminal, so that none turns a row pending behind everybody's back |
| `OwnStartPublished` | `PublishesOwnStart` | `OwnStart`: the row of the run under way has the start of this run or none, unless `retold` |
| `RunningAlwaysHeld` | `RunningIsHeld`, if no request is an incremental rebuild | `NoIncremental` (nobody plans one) and `FilesNeverRun` (no `task.json` says running, nor a copy that becomes one) |
| `DeletedStaysDeleted` | `WorkerNeverRevives`, if no request is a rerun, rules-only run or PATCH and no upload fails | `RowsHeld`: wherever the worker, or a deletion that fails, would write a row or `task.json`, there is a row |
| `FirstRunsInFull` | `FreshRunsInFull`, if no request is a deletion | `FreshInv`: a task that has not run, or a name without a row, is `Untouched` — no scope, no `task.json`, no plan, and no rebuild of it past its first reading |
| `ScenesBounded` | `SceneBound`, if tasks are created, rerun and rebuilt in full and no removal fails | `KeptInv`: whenever no sweep is due, a finished task with a scene has fewer than `Keep` tasks finished after it; `StampInv`: the times of two tasks differ, so at most `Keep` are such; `SceneHasRow` and `QuietInv`: at rest every scene is a finished task's |

The hypotheses of the last four restrict `Requests` and `Faults` to what cannot
bring about the counterexamples: a run that ends without `task.json` needs an
incremental rebuild (`find_stuck_running`), a plan that outlives its task a
deletion (`find_stale_plan`); reruns and PATCHes, and the undoing of a
creation, write back the row they read. `RunningAlwaysHeld` and
`FirstRunsInFull` so show that these counterexamples have no other cause.
`ScenesBounded` leaves out what writes a scene with no sweep after it: an incremental
rebuild or a PATCH under way while the scene is swept, a deletion whose error path
saves `task.json`, and a removal in the sweep that fails. Its run creates only; the theorem
also has reruns and rebuilds. `CleanupSparesBusy` is only model-checked: what keeps the
sweep from a busy task is that nobody makes one busy while it works, and the code does
not see to that.

**`StageRunnerProofs`** — assumption `RunnerAssumption` (no version of a rule file
is the missing marker). Which directories resist removal, and where a removal is cut
off, is arbitrary.

| theorem | states | along |
|---|---|---|
| `StageTypes` | `TypeOK` | inductive |
| `MarkersSound` | `MarkerSound` | `StageInv` (units in queue and window belong to the stage and have no answer) and `MarkerInv` (a prepare to be run has no marker until it is flushed, unless it is torn, and `ok` stands for complete data): after a removal the markers left are as sound as before or torn (`ClearedSound`), only flushing brings one back |
| `ReadsAreWhole` | `InspectsReadWhole` | `Settling` (no unit is forgotten between queue, window, recovery and answers) and `ReadInv` (a prepare reported ready has the marker of the current file; a rule runs only when its prepare is ready) |
| `SettlesUnits` | `SettlesEachUnit`, the refinement of `UnitSettlement` | the initial states map to initial states and each step to a step or a stutter; `AnswerInv`: what was measured, or waits in the pool, is an answer the unit itself may give |
| `AgainOnlyLost` | `RunsAgainOnlyLost` | `RunsInv` counts the executions of the units without an answer: none before the first, one once lost |
| `InnocentsUnaffected` | `InnocentUnaffected` | `InnocentInv`: a rule that behaves is never put aside and what is flushed of it is its own result; by `AnswerInv` it can have no other |

**`RecordsProofs`** — about `TaskRecords` and `Inventory`. `RecordsAreSafe` states `RecordsSafe`: `RebuildFailsWhole`,
`CrashKeepsAScene` and `CompletedHasItsRules`. `RecordsInv` says for each step of a run
how far row, rule files and rule rows have come (`RunInv`), where the old scene is
while it is exchanged and put back (`RebuildInv`), when a scene has a row
(`RowInv`), what waits in the queue (`QueueInv`), and which contents a scene can have
after crashes (`ScenesInv`): a `task.json` that says completed is of the run that wrote
the rule files. `StartKeepsSettled` states `RestartLeavesSettled`; it needs no
invariant, only the conditions of the two steps of a start.

`LedgerIsSound` states `LedgerSound`, `OverwritesAudited`
states `ChangesAudited`. Both are decided when a publication commits.
`PublicationInv` says what its session holds until then: for each name, the row
the commit would write, why, and that its audit is in the session; and that under the
write lock the session's tables differ from the committed ones only in the rows of its
task. A device deleted after the session read it makes the flush fail. `InvTypes` and `RecTypes` state the types.

**`ExtractionProofs`** — about `SceneSite`, `RoutePatterns` and `Classification`.

`SceneIsTrusted` states `SceneTrusted`, for any finite set
of roots and any configurations. `SiteInv` says what a run holds between its renames:
whose evidence is where (`EvidenceInv`), that every manifest was written for
evidence of the task's package (`ManifestsInv`), which roots have been exchanged and
which have not (`ExchangeInv`), and, until a step fails, that every root is in the
catalog of the visible manifest or damaged (`CrashInv`). `SiteTypes` states the types.

`RoutingIsSound` states `RoutingSound`, for any configurations and packages and for
files of any depth and length. The search and the matcher have nothing in common but
the pattern, so the argument goes through a third thing: the places where a file is cut
along the elements of a pattern. The backtracking succeeds exactly where there are such
cuts (`Cuts`, `CutsMatch`); cuts are a run of the automaton over the word of the file,
in which everything that the two patterns do not name is `OTHER` (`Run`, `Path`). If
one file fits two patterns there are two runs over one word, and by `SearchInv` (the
successors of a visited pair are visited or still to visit) a search that ends has been
at their last states: it would have reported the pair (`SearchClears`). `ClearedInv`
collects what the ended searches of an accepted configuration have shown. That every
file has a route needs, besides, that the scene chosen among the candidates and the
route chosen among those that match exist: both are best elements of a finite set
(`MaximalExists`). `RouteAssumption` says what the parser checks of the form of a pattern.
`RouteTypes` states the types, among them that a search only meets states of the two
automata it compares: edges and moves stay inside an automaton (`Closed`), and nothing
is left of a comparison that is over (`WalkInv`).

`NothingOverwritten` states `NeverOverwrites`, `FailuresStayLocal` states
`LocalFailuresPublish` and `ClassTypes` the types. A target is chosen by counting: it is
free because the slots taken of a wanted target are 0, 1, ... without a gap
(`SlotInv`), which a copy that failed half way keeps too, though its file belongs to no entry. The
manifest is accepted because every entry has a target and an identity of its own,
which nothing still to be landed asks for (`CatalogInv`). That counting is also why a
refused number needs as many files of one target before it.

**`ConfigurationProofs`** — `ConfigurationTypes`; `AuditsExplain` states
`AuditExplainsAssignments`, by what `LastChange` of a log becomes when an entry is
appended; `FrozenCovers` states `FrozenCoversRevision`. `CoverInv` carries through the
reads of a freezing which prefix of the log the revision came from, and that the
rows were read from a prefix at least as long: the revision is read first.

**`KpiProofs`** — about `MeasurementCatalog`, `Measurement`, `Workbench` and, in
`KpiTypes` (which states `KpiTypeOK`), about the bundle of the run `kpi`.

`CatalogTypes`; `CatalogIsSafe` states
`CatalogSafe`. The committed tables change when the discovery commits, so
`SessionInv` says the same of the tables as its session has them once it holds the
write lock, and that what it changed but has not flushed is of metrics the
history counts as touched; `StewardInv` says which of a maintainer's readings a
write may rely on. `CatalogAssumption` also says that the tables are in order at
first: names are different, bindings refer to metrics in use, and the counting bindings
of a metric are of one unit. That is what an empty catalog satisfies; the model can
start from others.

`BreachIsShown` states `FailReachesAttention`, `VerdictIsShown` states `VerdictShown`.
`BenchInv` relates what has been published to the readings it came from, and what a
request has read so far to what is published: points and index are readings of the
package (`PointsInv`), the health is the judgement of them (`HealthInv`), a result is such a
judgement or says there was none (`ResultsInv`), and as long as no publication comes in
between, what a request holds is what the tables hold (`KeptInv`, `SeenInv`). The rest is
about operators: a sum, a count or a worst object folded over a finite set, by
induction over the set, and the judgement of one object, which fails for every
breach. `DetailAgrees` needs that the judgement of the database's pairs and of the
files' pairs is of the same objects.

`MeasurementTypes`; `MeasurementIsSafe` states `MeasSafe`. `RowsInv` says after each
file what the counters of an object must be, and which rows its points come from;
`StageInv` that what is judged is what has been read and that trouble has left its mark
on the status. `StatusMonotone` is arithmetic about a threshold and two averages,
`TrendMirrors` about what negating a series does to its sums, extremes and steps.

**`AttributionProofs`** — `AttrIsSafe` states `AttrSafe`, `EditsAreKept` states
`EditsSurvive`. `RowsInv` says that a v5 row is accounted for from its migration or
its audit on; `ThreadsInv` what a request may still rely on of what it read in an
earlier transaction; `KeysInv` that the operation a thread finds again under its
key is one for its own request, because the number of a new operation is
nobody else's. `AttributionAssumption` also says what the parts of the v5 rows
refer to.

**`DurableProofs`** — `DurableIsEach`: a behaviour of the bundle of the run
`durable_steps` is a behaviour of each of its six components, fairness included.
With it `DurableTypes` (which states `DurableTypeOK`) and `DurableIsSafe` carry the theorems of
the components over to the specification the run checks.

Only model-checked:

* everything that needs fairness: `EveryTaskSettles`, `EveryDeleteEnds`,
  `EveryRunEnds`, `RunsRecover`, `EveryOperationEnds`. Liveness and ENABLED are
  beyond the provers used here.
* `NothingUnaccounted` and `CleanNeverFails` of `Expansion`: the expansion of archives
  is a recursive operator, which the prover does not accept; and they are about what it
  computes for archives of any depth.
* `ConflictReal`, the other direction of `NoTie`: that a reported conflict is one. It
  speaks of files up to a length, and for longer patterns it is false by that bound.

Induction over data is otherwise within reach in two forms, both used: over finite sets
and over the numbers up to a bound, by taking a least counterexample. The library's
induction theorems take an operator as parameter and cannot be cited, so each
induction is a proof of its own.

## Not modelled

* Queries, overviews, reports, exports and the preparation summary: read-only.
* The work of single rules and the text of their results; the models see a unit
  that answers, raises or dies, and numbers past or within a threshold.
* Archive formats, the form of the fields of the classification configuration, its
  fingerprint, the patterns by which rules find their files (`scanning/`).
* An upload before its reservation (one step of `TaskService`): the checksum of
  a package is recorded by the first write, and an upload of the same name in
  between is compared with a checksum that may not be there (`router.py:301`).
* Rule switches: single statements, read once when a run starts.
* KPI history (comparisons between tasks), the v5 tables' own maintenance (an
  input of `Workbench`), the import of resources from CSV.
* Authentication: two tables no other component reads, beyond whether a request
  is let in; the models accept requests in any order and from anyone.
* The web client, packaging and process start.
