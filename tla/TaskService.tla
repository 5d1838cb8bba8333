----------------------------- MODULE TaskService -----------------------------
(***************************************************************************)
(* The online task service of PatrolX (app/services/tasks.py) with the     *)
(* retention sweep it triggers (app/services/retention.py) and the create  *)
(* endpoint that feeds it (app/api/router.py).                             *)
(*                                                                         *)
(* One worker thread takes task ids from an in-memory queue and executes   *)
(* them under the execution lock; HTTP handlers run concurrently in a      *)
(* thread pool, the create endpoint on the event loop.  A task lives in    *)
(* three places: its row in SQLite, its scene output/<task> (with          *)
(* task.json inside) and its package uploads/<task>.  Every action below   *)
(* is the code between two points where another thread can run.            *)
(***************************************************************************)
EXTENDS Naturals, Sequences, FiniteSets

CONSTANTS
  Tasks,        \* task ids; an id is derived from the package's file name
  Handlers,     \* thread-pool threads serving delete, rerun, rebuild, PATCH
  Loop,         \* the event-loop thread serving the create endpoint
  Worker,       \* the worker thread
  None,         \* no task, no lock holder
  Keep,         \* MAX_RETAINED_SCENES
  Requests,     \* the kinds of request users issue
  MaxRequests,  \* bound on the number of requests
  Faults        \* the operations that may fail

RequestKinds == {"create", "delete", "rerun", "rules", "full", "incremental", "device"}
FaultKinds   == {"copy", "delete", "execute", "publish"}
Threads      == Handlers \cup {Loop}

ASSUME ThreadAssumption ==
  /\ Worker \notin Threads
  /\ None \notin Threads \cup {Worker}
  /\ None \notin Tasks
  /\ Loop \notin Handlers

ASSUME BoundAssumption ==
  /\ Keep \in Nat \ {0}
  /\ MaxRequests \in Nat
  /\ Requests \subseteq RequestKinds
  /\ Faults \subseteq FaultKinds

VARIABLES
  \* SQLite
  row,          \* tasks table: status, created_at and last_run_at of each task
  frozen,       \* tasks with a frozen rule scope (task_rule_scope_snapshots)
  \* disk
  meta,         \* output/<task>/task.json
  dir,          \* does output/<task>/ exist?
  package,      \* is the package in uploads/<task>/?
  \* memory of the service
  queue, rerunPlan, rebuildPlan, active, cancelled, lock,
  \* program counters and locals
  worker, thread,
  \* time and the request budget
  clock, requests,
  \* history
  dropped,      \* tasks whose last queue entry was discarded as cancelled
  fresh,        \* tasks created whose first execution has not begun
  retold,       \* a request wrote the task of the run since the run started
  unmarked      \* deletion threads that lost their mark before their end

db    == <<row, frozen>>
disk  == <<meta, dir, package>>
plans == <<rerunPlan, rebuildPlan>>
ctl   == <<queue, active, cancelled, lock>>
env   == <<clock, requests>>
hist  == <<dropped, fresh, retold, unmarked>>
vars  == <<db, disk, plans, ctl, worker, thread, env, hist>>

-----------------------------------------------------------------------------
(* Snapshots of a task: the row, task.json and the copies threads hold.    *)

Status    == {"pending", "running", "completed", "failed"}
Exempt    == {"pending", "running"}
Terminal  == {"completed", "failed"}

\* run is last_run_at, 0 when NULL
Absent    == [status |-> "absent", created |-> 0, run |-> 0]
Recorded  == [status : Status, created : Nat, run : Nat]
Snapshot  == {Absent} \cup Recorded

HasRow(t)  == row[t].status # "absent"
HasMeta(t) == meta[t].status # "absent"

\* _upsert_task_row and _apply_task_row: created_at of an existing row is
\* kept, a NULL last_run_at does not overwrite
Upserted(t, m) ==
  [status  |-> m.status,
   created |-> IF HasRow(t) THEN row[t].created ELSE m.created,
   run     |-> IF m.run = 0 THEN row[t].run ELSE m.run]

\* mutant: the row is not checked for
WithStatusBlind(t, s) == [row EXCEPT ![t].status = s]
\* _update_status and save_run_end: a missing row is ignored
WithStatus(t, s) ==
  IF HasRow(t) THEN [row EXCEPT ![t].status = s] ELSE row

\* save_task_meta: write task.json, then bring the row in line with it
SaveTaskMeta(t, m) ==
  /\ meta' = [meta EXCEPT ![t] = m]
  /\ dir'  = [dir EXCEPT ![t] = TRUE]
  /\ row'  = [row EXCEPT ![t] = Upserted(t, m)]

\* _scene_or_db_task: task.json first, the row when the scene is gone
SceneOrRow(t) == IF HasMeta(t) THEN meta[t] ELSE row[t]

\* mutant: the execution lock is not waited for
LockIgnored == TRUE
LockFree == lock = None

-----------------------------------------------------------------------------
(* Retention: keep the scenes of the Keep most recent tasks and of every   *)
(* task that is pending or running.                                        *)

Known    == {t \in Tasks : HasRow(t)}
Recency(t) == IF row[t].run = 0 THEN row[t].created ELSE row[t].run
Newer(t) == {u \in Known : Recency(u) > Recency(t)}

\* mutant: pending and running tasks are not exempt
RetainedByRecency == {t \in Known : Cardinality(Newer(t)) < Keep}
\* mutant: one scene too many is kept
RetainedOneMore == {t \in Known : Cardinality(Newer(t)) <= Keep \/ row[t].status \in Exempt}
Retained == {t \in Known : Cardinality(Newer(t)) < Keep \/ row[t].status \in Exempt}

Doomed == Known \ Retained

-----------------------------------------------------------------------------
(* Program counters and locals.                                            *)

WorkerPc == {"idle", "got", "claimed", "start", "stamp", "plans", "exec", "swap", "publish",
             "file", "release", "mirror", "sweep", "sweepUploads", "sweepOutput",
             "checksum", "finish", "raise", "failFile", "leave", "clear",
             "log", "refinish"}

\* where the sweep returns to
AfterSweep == {"idle", "checksum", "leave", "failFile"}

Plans == {"run", "rules", "full", "incremental"}

IdleWorker ==
  [pc |-> "idle", task |-> None, plan |-> "run", result |-> "failed",
   started |-> 0, saved |-> Absent, backup |-> Absent, hadDir |-> FALSE,
   published |-> Absent, doomed |-> {},
   victims |-> {}, then |-> "idle", raised |-> FALSE]

WorkerState ==
  [pc : WorkerPc, task : Tasks \cup {None}, plan : Plans, result : Terminal,
   started : Nat, saved : Snapshot, backup : Snapshot, hadDir : BOOLEAN,
   published : Snapshot, doomed : SUBSET Tasks,
   victims : SUBSET Tasks, then : AfterSweep, raised : BOOLEAN]

ThreadPc == {"idle", "copy", "put", "undoRow", "undoFiles",
             "delWait", "delScene", "delPackage", "delRows", "delUnlock", "delUnmark",
             "rerunPlan", "rerunMeta", "rerunStatus", "rebuildRead",
             "rebuildPlan", "rebuildStatus", "deviceSave"}

IdleThread ==
  [pc |-> "idle", task |-> None, mode |-> "create", saved |-> Absent, found |-> FALSE]

ThreadState ==
  [pc : ThreadPc, task : Tasks \cup {None}, mode : RequestKinds,
   saved : Snapshot, found : BOOLEAN]

\* the records of the task and the directories
DataOK ==
  /\ row \in [Tasks -> Snapshot]
  /\ meta \in [Tasks -> Snapshot]
  /\ frozen \subseteq Tasks
  /\ dir \in [Tasks -> BOOLEAN]
  /\ package \in [Tasks -> BOOLEAN]

\* what the service and the history keep in memory
MemoryOK ==
  /\ queue \in Seq(Tasks)
  /\ rerunPlan \in [Tasks -> BOOLEAN]
  /\ rebuildPlan \in [Tasks -> {"none", "full", "incremental"}]
  /\ active \in Tasks \cup {None}
  /\ cancelled \subseteq Tasks
  /\ lock \in Threads \cup {Worker, None}
  /\ clock \in Nat
  /\ requests \in Nat
  /\ dropped \subseteq Tasks
  /\ fresh \subseteq Tasks
  /\ retold \in BOOLEAN
  /\ unmarked \subseteq Handlers

WorkerOK ==
  /\ worker \in WorkerState
  /\ worker.pc # "idle" => worker.task \in Tasks
  /\ worker.pc \in {"file", "release", "mirror"} => worker.published \in Recorded

ThreadOK ==
  /\ thread \in [Threads -> ThreadState]
  /\ \A x \in Threads : thread[x].pc # "idle" => thread[x].task \in Tasks
  /\ \A x \in Threads : thread[x].pc \in {"rerunPlan", "rerunMeta", "deviceSave"}
                          => thread[x].saved \in Recorded
  /\ \A x \in Threads : thread[x].pc \in {"rebuildRead", "rebuildPlan"}
                          => thread[x].mode \in {"full", "incremental"}

TypeOK == DataOK /\ MemoryOK /\ WorkerOK /\ ThreadOK

Init ==
  /\ row = [t \in Tasks |-> Absent]
  /\ frozen = {}
  /\ meta = [t \in Tasks |-> Absent]
  /\ dir = [t \in Tasks |-> FALSE]
  /\ package = [t \in Tasks |-> FALSE]
  /\ queue = <<>>
  /\ rerunPlan = [t \in Tasks |-> FALSE]
  /\ rebuildPlan = [t \in Tasks |-> "none"]
  /\ active = None
  /\ cancelled = {}
  /\ lock = None
  /\ worker = IdleWorker
  /\ thread = [x \in Threads |-> IdleThread]
  /\ clock = 0
  /\ requests = 0
  /\ dropped = {}
  /\ fresh = {}
  /\ retold = FALSE
  /\ unmarked = {}

-----------------------------------------------------------------------------
(* The worker.  T is the task in its hands.                                *)

T == worker.task
Step(from, to) == worker.pc = from /\ worker' = [worker EXCEPT !.pc = to]

WorkerGet ==
  /\ worker.pc = "idle"
  /\ queue # <<>>
  /\ worker' = [worker EXCEPT !.pc = "got", !.task = Head(queue)]
  /\ queue' = Tail(queue)
  /\ UNCHANGED <<db, disk, plans, active, cancelled, lock, thread, env, hist>>

\* the threads that are deleting task t, from acceptance to the end
DeletePc == {"delWait", "delScene", "delPackage", "delRows", "delUnlock", "delUnmark"}
Deleters(t) == {x \in Handlers : thread[x].pc \in DeletePc /\ thread[x].task = t}

\* under the state lock: a cancelled entry is dropped, and the mark of every
\* deletion of the task with it
WorkerSkip ==
  /\ worker.pc = "got"
  /\ T \in cancelled
  /\ cancelled' = cancelled \ {T}
  /\ dropped' = dropped \cup {T}
  /\ unmarked' = unmarked \cup Deleters(T)
  /\ worker' = IdleWorker
  /\ UNCHANGED <<db, disk, plans, queue, active, lock, thread, env, fresh, retold>>

\* mutant: the task being claimed is not recorded as active
WorkerClaimUnrecorded ==
  /\ T \notin cancelled
  /\ Step("got", "claimed")
  /\ UNCHANGED <<db, disk, plans, ctl, thread, env, hist>>

WorkerClaim ==
  /\ T \notin cancelled
  /\ Step("got", "claimed")
  /\ active' = T
  /\ UNCHANGED <<db, disk, plans, queue, cancelled, lock, thread, env, hist>>

\* take the execution lock; _task_info finds the task's row or its scene
WorkerEnter ==
  /\ LockFree
  /\ Step("claimed", IF HasRow(T) \/ HasMeta(T) THEN "start" ELSE "leave")
  /\ lock' = Worker
  /\ UNCHANGED <<db, disk, plans, queue, active, cancelled, thread, env, hist>>

\* mutant: the status is left pending
StartedSilently(t) == row
\* _update_status(RUNNING)
Started(t) == WithStatus(t, "running")

\* the time of the start is taken, then two transactions: the status ...
WorkerStart ==
  /\ worker.pc = "start"
  /\ clock' = clock + 1
  /\ worker' = [worker EXCEPT !.pc = "stamp", !.started = clock + 1]
  /\ row' = Started(T)
  /\ UNCHANGED <<frozen, disk, plans, ctl, thread, requests, hist>>

\* ... and save_run_start
WorkerStamp ==
  /\ Step("stamp", "plans")
  /\ row' = IF HasRow(T) THEN [row EXCEPT ![T].run = worker.started] ELSE row
  /\ retold' = FALSE
  /\ UNCHANGED <<frozen, disk, plans, ctl, thread, env, dropped, fresh, unmarked>>

\* pop both plans; a non-empty rerun plan wins over a rebuild plan
WorkerTakePlans ==
  /\ worker.pc = "plans"
  /\ worker' = [worker EXCEPT
       !.pc   = "exec",
       !.plan = IF rerunPlan[T] THEN "rules"
                ELSE IF rebuildPlan[T] # "none" THEN rebuildPlan[T] ELSE "run"]
  /\ rerunPlan' = [rerunPlan EXCEPT ![T] = FALSE]
  /\ rebuildPlan' = [rebuildPlan EXCEPT ![T] = "none"]
  /\ UNCHANGED <<db, disk, ctl, thread, env, hist>>

MayFail(kind) == kind \in Faults

\* the execution raises before anything is published
WorkerRaises(plan) ==
  /\ worker.pc = "exec"
  /\ worker.plan = plan
  /\ MayFail("execute") \/ (plan # "run" /\ ~package[T])
  /\ worker' = [worker EXCEPT !.pc = "raise"]
  /\ fresh' = fresh \ {T}

\* ensure_task_execution_row
EnsureRow(t) ==
  row' = IF HasRow(t) THEN row
         ELSE [row EXCEPT ![t] = [status |-> "running", run |-> 0,
                 created |-> IF HasMeta(t) THEN meta[t].created ELSE clock]]

\* run_task: the row is ensured, the scope frozen, the scene opened; a
\* missing or unreadable package ends in a failed task that is published
WorkerRun ==
  /\ \/ WorkerRaises("run")
     \/ /\ worker.pc = "exec"
        /\ worker.plan = "run"
        /\ \E s \in Terminal :
             /\ s = "completed" => package[T]
             /\ worker' = [worker EXCEPT !.pc = "publish", !.result = s]
        /\ fresh' = fresh \ {T}
  /\ EnsureRow(T)
  /\ frozen' = frozen \cup {T}
  /\ dir' = [dir EXCEPT ![T] = TRUE]
  /\ UNCHANGED <<meta, package, plans, ctl, thread, env, dropped, retold, unmarked>>

\* mutant: a run without task.json is not closed
AfterRulesUnclosed(t) == IF HasMeta(t) THEN "publish" ELSE "leave"
AfterRules(t) == IF HasMeta(t) THEN "publish" ELSE "finish"

\* run_single_rule for each rule of the plan rewrites task.json with the
\* time of this run, also when a later one raises; without task.json the row
\* alone is closed
WorkerRules ==
  /\ worker.plan = "rules"
  /\ \/ WorkerRaises("rules")
     \/ /\ worker.pc = "exec"
        /\ package[T]
        /\ worker' = [worker EXCEPT !.pc = AfterRules(T), !.result = "completed"]
        /\ fresh' = fresh \ {T}
  /\ \/ /\ worker'.pc = "raise" \* in the first rule
        /\ UNCHANGED <<meta, dir>>
     \/ /\ package[T]
        /\ dir' = [dir EXCEPT ![T] = TRUE]
        /\ meta' = IF HasMeta(T) THEN [meta EXCEPT ![T].run = worker.started] ELSE meta
  /\ UNCHANGED <<db, package, plans, ctl, thread, env, dropped, retold, unmarked>>

\* _execute_full_rebuild up to the swap: task.json is remembered, run_task
\* works in a staging area
WorkerStage ==
  /\ \/ /\ WorkerRaises("full")
        /\ UNCHANGED row
     \/ /\ worker.pc = "exec"
        /\ worker.plan = "full"
        /\ package[T]
        /\ worker' = [worker EXCEPT !.pc = "swap", !.saved = meta[T]]
        /\ EnsureRow(T)
        /\ fresh' = fresh \ {T}
  /\ UNCHANGED <<frozen, disk, plans, ctl, thread, env, dropped, retold, unmarked>>

\* the staged scene with its task.json replaces the scene, which is kept as
\* a backup; a failure up to here leaves the scene alone
WorkerSwap ==
  /\ worker.pc = "swap"
  /\ \/ /\ worker' = [worker EXCEPT !.pc = "finish", !.result = "failed"]
        /\ UNCHANGED <<meta, dir>>
     \/ /\ worker' = [worker EXCEPT !.pc = "publish", !.result = "completed",
                                    !.backup = meta[T], !.hadDir = dir[T]]
        /\ meta' = [meta EXCEPT ![T] = [status |-> "completed", run |-> worker.started,
              created |-> IF worker.saved # Absent THEN worker.saved.created ELSE clock]]
        /\ dir' = [dir EXCEPT ![T] = TRUE]
  /\ UNCHANGED <<db, package, plans, ctl, thread, env, hist>>

\* run_incremental_rebuild publishes only when task.json is there
WorkerIncremental ==
  /\ \/ WorkerRaises("incremental")
     \/ /\ worker.pc = "exec"
        /\ worker.plan = "incremental"
        /\ package[T]
        /\ worker' = [worker EXCEPT !.pc = IF HasMeta(T) THEN "publish" ELSE "leave",
                                    !.result = "completed"]
        /\ fresh' = fresh \ {T}
  /\ dir' = [dir EXCEPT ![T] = TRUE]
  /\ UNCHANGED <<db, meta, package, plans, ctl, thread, env, dropped, retold, unmarked>>

-----------------------------------------------------------------------------
(* Publishing the result (_publish_terminal), closing a run without one    *)
(* (_finish_run), and the error path of _execute and _worker_loop.         *)

\* mutant: the start time is taken from the scene
PublishedFromScene(t) ==
  [status  |-> worker.result,
   created |-> IF HasRow(t) THEN row[t].created
               ELSE IF HasMeta(t) THEN meta[t].created ELSE clock,
   run     |-> IF meta[t].run # 0 THEN meta[t].run ELSE worker.started]

\* what the publication writes: last_run_at is the start this run recorded
PublishedSnapshot(t) ==
  [status  |-> worker.result,
   created |-> IF HasRow(t) THEN row[t].created
               ELSE IF HasMeta(t) THEN meta[t].created ELSE clock,
   run     |-> IF row[t].run # 0 THEN row[t].run ELSE worker.started]

\* publishing a full rebuild also freezes the scope it resolved
WorkerPublish ==
  /\ worker.pc = "publish"
  /\ worker' = [worker EXCEPT !.pc = "file", !.published = PublishedSnapshot(T)]
  /\ row' = [row EXCEPT ![T] = PublishedSnapshot(T)]
  /\ frozen' = IF worker.plan = "full" THEN frozen \cup {T} ELSE frozen
  /\ UNCHANGED <<disk, plans, ctl, thread, env, hist>>

WorkerPublishFile ==
  /\ Step("file", "release")
  /\ SaveTaskMeta(T, worker.published)
  /\ UNCHANGED <<frozen, package, plans, ctl, thread, env, hist>>

\* mutant: the row is restored from a task.json that was not there
RolledBackBlind(t, saved) == [row EXCEPT ![t] = Upserted(t, saved)]
RolledBack(t, saved) ==
  IF saved # Absent THEN [row EXCEPT ![t] = Upserted(t, saved)] ELSE row

\* an error while publishing a plan other than a full rebuild
WorkerPublishRaises ==
  /\ worker.pc \in {"publish", "file"}
  /\ MayFail("publish")
  /\ worker.plan # "full"
  /\ worker' = [worker EXCEPT !.pc = "raise"]
  /\ UNCHANGED <<db, disk, plans, ctl, thread, env, hist>>

\* _rollback_full_rebuild: the backup, if there was a scene, is put back,
\* then task.json and the row as they were remembered; the scope stays
\* published if there was none before
WorkerRollback ==
  /\ worker.pc \in {"publish", "file"}
  /\ MayFail("publish")
  /\ worker.plan = "full"
  /\ worker' = [worker EXCEPT !.pc = "finish", !.result = "failed"]
  /\ row' = RolledBack(T, worker.saved)
  /\ meta' = IF worker.saved # Absent THEN [meta EXCEPT ![T] = worker.saved]
             ELSE IF worker.hadDir THEN [meta EXCEPT ![T] = worker.backup]
             ELSE meta
  /\ frozen' \in {frozen, frozen \cup {T}}
  /\ UNCHANGED <<dir, package, plans, ctl, thread, env, hist>>

\* the task can be deleted or requeued from here on
WorkerRelease ==
  /\ worker.pc = "release"
  /\ worker' = [worker EXCEPT !.pc = "mirror",
                              !.then = IF worker.plan = "run" THEN "checksum" ELSE "leave"]
  /\ active' = IF active = T THEN None ELSE active
  /\ UNCHANGED <<db, disk, plans, queue, cancelled, lock, thread, env, hist>>

\* publish_kpi_v6_from_scene: unless the task has no KPI scope, or the
\* publication fails, it writes the published row a second time
WorkerMirror ==
  /\ worker.pc = "mirror"
  /\ worker' = [worker EXCEPT !.pc = "sweep"]
  /\ row' \in {row, [row EXCEPT ![T] = Upserted(T, worker.published)]}
  /\ UNCHANGED <<frozen, disk, plans, ctl, thread, env, hist>>

\* retention.cleanup: the rows are read once, then both areas are swept
WorkerSweep ==
  /\ worker.pc = "sweep"
  /\ worker' = [worker EXCEPT !.pc = "sweepUploads", !.doomed = Doomed,
                              !.victims = {t \in Doomed : package[t]}]
  /\ UNCHANGED <<db, disk, plans, ctl, thread, env, hist>>

\* one directory of uploads/; a failed removal is left for the next sweep
WorkerSweepUploads ==
  /\ worker.pc = "sweepUploads"
  /\ \E t \in worker.victims :
       /\ worker' = [worker EXCEPT !.victims = @ \ {t}]
       /\ \/ package' = [package EXCEPT ![t] = FALSE]
          \/ MayFail("delete") /\ UNCHANGED package
  /\ UNCHANGED <<db, meta, dir, plans, ctl, thread, env, hist>>

WorkerSweepUploaded ==
  /\ worker.pc = "sweepUploads"
  /\ worker.victims = {}
  /\ worker' = [worker EXCEPT !.pc = "sweepOutput", !.victims = {t \in worker.doomed : dir[t]}]
  /\ UNCHANGED <<db, disk, plans, ctl, thread, env, hist>>

WorkerSweepOutput ==
  /\ worker.pc = "sweepOutput"
  /\ \E t \in worker.victims :
       /\ worker' = [worker EXCEPT !.victims = @ \ {t}]
       /\ \/ /\ dir' = [dir EXCEPT ![t] = FALSE]
             /\ meta' = [meta EXCEPT ![t] = Absent]
          \/ MayFail("delete") /\ UNCHANGED <<dir, meta>>
  /\ UNCHANGED <<db, package, plans, ctl, thread, env, hist>>

WorkerSwept ==
  /\ worker.pc = "sweepOutput"
  /\ worker.victims = {}
  /\ worker' = IF worker.then = "idle" THEN IdleWorker
               ELSE [worker EXCEPT !.pc = worker.then, !.doomed = {}]
  /\ UNCHANGED <<db, disk, plans, ctl, thread, env, hist>>

\* run_task records the checksum after its publication; the failed task of
\* a missing package has nothing to compute it from
WorkerChecksum ==
  /\ worker.pc = "checksum"
  /\ worker' = [worker EXCEPT !.pc = IF worker.result = "failed" /\ ~package[T]
                                     THEN "raise" ELSE "leave"]
  /\ UNCHANGED <<db, disk, plans, ctl, thread, env, hist>>

WorkerChecksumFails ==
  /\ MayFail("publish")
  /\ Step("checksum", "raise")
  /\ UNCHANGED <<db, disk, plans, ctl, thread, env, hist>>

\* _finish_run
WorkerFinish ==
  /\ worker.pc = "finish"
  /\ worker' = [worker EXCEPT !.pc = "sweep", !.then = "leave"]
  /\ row' = WithStatus(T, worker.result)
  /\ UNCHANGED <<frozen, disk, plans, ctl, thread, env, hist>>

\* the except clause of _execute: task.json is read before the row is
\* closed and written back as failed after the sweep
WorkerRaise ==
  /\ worker.pc = "raise"
  /\ worker' = [worker EXCEPT !.pc = "sweep", !.then = "failFile",
                              !.saved = meta[T], !.raised = TRUE]
  /\ row' = WithStatus(T, "failed")
  /\ UNCHANGED <<frozen, disk, plans, ctl, thread, env, hist>>

WorkerFailFile ==
  /\ Step("failFile", "leave")
  /\ IF worker.saved # Absent
     THEN SaveTaskMeta(T, [worker.saved EXCEPT !.status = "failed"])
     ELSE UNCHANGED <<row, meta, dir>>
  /\ UNCHANGED <<frozen, package, plans, ctl, thread, env, hist>>

\* mutant: a run that raised keeps the lock
WorkerLeaveHeld ==
  /\ Step("leave", "clear")
  /\ lock' = IF worker.raised THEN Worker ELSE None
  /\ UNCHANGED <<db, disk, plans, queue, active, cancelled, thread, env, hist>>

WorkerLeave ==
  /\ Step("leave", "clear")
  /\ lock' = None
  /\ UNCHANGED <<db, disk, plans, queue, active, cancelled, thread, env, hist>>

WorkerClear ==
  /\ worker.pc = "clear"
  /\ worker' = IF worker.raised THEN [worker EXCEPT !.pc = "log"] ELSE IdleWorker
  /\ active' = None
  /\ UNCHANGED <<db, disk, plans, queue, cancelled, lock, thread, env, hist>>

\* the handler of _worker_loop runs without the lock: append_log recreates
\* the scene directory, and the run is closed a second time
WorkerLog ==
  /\ Step("log", "refinish")
  /\ dir' = [dir EXCEPT ![T] = TRUE]
  /\ UNCHANGED <<db, meta, package, plans, ctl, thread, env, hist>>

WorkerRefinish ==
  /\ worker.pc = "refinish"
  /\ worker' = [worker EXCEPT !.pc = "sweep", !.then = "idle"]
  /\ row' = WithStatus(T, "failed")
  /\ UNCHANGED <<frozen, disk, plans, ctl, thread, env, hist>>

Dequeueing == WorkerGet \/ WorkerSkip \/ WorkerClaim \/ WorkerEnter

Executing ==
  \/ WorkerStart \/ WorkerStamp \/ WorkerTakePlans
  \/ WorkerRun \/ WorkerRules \/ WorkerStage \/ WorkerSwap \/ WorkerIncremental

Publishing ==
  \/ WorkerPublish \/ WorkerPublishFile \/ WorkerPublishRaises \/ WorkerRollback
  \/ WorkerRelease \/ WorkerMirror \/ WorkerChecksum \/ WorkerChecksumFails

Sweeping ==
  \/ WorkerSweep \/ WorkerSweepUploads \/ WorkerSweepUploaded
  \/ WorkerSweepOutput \/ WorkerSwept

Closing ==
  \/ WorkerFinish \/ WorkerRaise \/ WorkerFailFile
  \/ WorkerLeave \/ WorkerClear \/ WorkerLog \/ WorkerRefinish

WorkerNext == Dequeueing \/ Executing \/ Publishing \/ Sweeping \/ Closing

-----------------------------------------------------------------------------
(* The request handlers.  A request is taken by an idle thread and then    *)
(* runs to its end; x is the thread, Of(x) the task it works on.           *)

Of(x) == thread[x].task
Goes(x, from, to) ==
  /\ thread[x].pc = from
  /\ thread' = [thread EXCEPT ![x] = IF to = "idle" THEN IdleThread ELSE [@ EXCEPT !.pc = to]]

\* accept a request of this kind on task t and remember what was read
Begin(x, kind, t, pc, saved) ==
  /\ thread[x].pc = "idle"
  /\ kind \in Requests
  /\ requests < MaxRequests
  /\ requests' = requests + 1
  /\ thread' = [thread EXCEPT ![x] = [IdleThread EXCEPT
       !.pc = pc, !.task = t, !.mode = kind, !.saved = saved]]

\* create_task_v3: after the upload is received nothing is awaited, so the
\* event loop serves one creation at a time; reserve inserts the row
CreateReserve(t) ==
  /\ Begin(Loop, "create", t, "copy", Absent)
  /\ ~HasRow(t) /\ ~HasMeta(t)
  /\ clock' = clock + 1
  /\ row' = [row EXCEPT ![t] = [status |-> "pending", created |-> clock + 1, run |-> 0]]
  /\ dir' = [dir EXCEPT ![t] = TRUE]
  /\ fresh' = fresh \cup {t}
  /\ UNCHANGED <<frozen, meta, package, plans, ctl, worker, dropped, retold, unmarked>>

CreateCopy ==
  /\ Goes(Loop, "copy", "put")
  /\ package' = [package EXCEPT ![Of(Loop)] = TRUE]
  /\ UNCHANGED <<db, meta, dir, plans, ctl, worker, env, hist>>

CreateCopyFails ==
  /\ MayFail("copy")
  /\ Goes(Loop, "copy", "undoRow")
  /\ UNCHANGED <<db, disk, plans, ctl, worker, env, hist>>

CreateUndoRow ==
  /\ Goes(Loop, "undoRow", "undoFiles")
  /\ row' = [row EXCEPT ![Of(Loop)] = Absent]
  /\ UNCHANGED <<frozen, disk, plans, ctl, worker, env, hist>>

CreateUndoFiles ==
  /\ Goes(Loop, "undoFiles", "idle")
  /\ package' = [package EXCEPT ![Of(Loop)] = FALSE]
  /\ dir' = [dir EXCEPT ![Of(Loop)] = FALSE]
  /\ meta' = [meta EXCEPT ![Of(Loop)] = Absent]
  /\ fresh' = fresh \ {Of(Loop)}
  /\ UNCHANGED <<db, plans, ctl, worker, env, dropped, retold, unmarked>>

\* _resolve_existing_task: the same package again restores the uploads copy
\* and nothing else
CreateRestore(t) ==
  /\ thread[Loop].pc = "idle"
  /\ "create" \in Requests
  /\ requests < MaxRequests
  /\ requests' = requests + 1
  /\ HasRow(t)
  /\ ~package[t]
  /\ package' = [package EXCEPT ![t] = TRUE]
  /\ UNCHANGED <<db, meta, dir, plans, ctl, worker, thread, clock, hist>>

\* submit, and the last statement of rerun and rebuild
Put(x) ==
  /\ Goes(x, "put", "idle")
  /\ queue' = Append(queue, Of(x))
  /\ dropped' = dropped \ {Of(x)}
  /\ UNCHANGED <<db, disk, plans, active, cancelled, lock, worker, env, fresh, retold, unmarked>>

\* delete, under the state lock: refuse the active task, mark any other
DeleteMark(x, t) ==
  /\ Begin(x, "delete", t, "delWait", Absent)
  /\ active # t
  /\ cancelled' = cancelled \cup {t}
  /\ UNCHANGED <<db, disk, plans, queue, active, lock, worker, clock, hist>>

\* take the execution lock, remember task.json and whether there is a row
DeleteEnter(x) ==
  /\ thread[x].pc = "delWait"
  /\ LockFree
  /\ lock' = x
  /\ thread' = [thread EXCEPT ![x].pc = "delScene", ![x].saved = meta[Of(x)],
                              ![x].found = HasRow(Of(x))]
  /\ UNCHANGED <<db, disk, plans, queue, active, cancelled, worker, env, hist>>

DeleteScene(x) ==
  /\ thread[x].pc = "delScene"
  /\ thread' = [thread EXCEPT ![x].pc = "delPackage", ![x].found = @ \/ dir[Of(x)]]
  /\ dir' = [dir EXCEPT ![Of(x)] = FALSE]
  /\ meta' = [meta EXCEPT ![Of(x)] = Absent]
  /\ UNCHANGED <<db, package, plans, ctl, worker, env, hist>>

\* the scene is removed in part; a task.json that went with it is put back
DeleteSceneFails(x) ==
  /\ Goes(x, "delScene", "delUnlock")
  /\ MayFail("delete")
  /\ dir[Of(x)]
  /\ \/ UNCHANGED meta
     \/ meta' = [meta EXCEPT ![Of(x)] = thread[x].saved]
  /\ UNCHANGED <<db, dir, package, plans, ctl, worker, env, hist>>

DeletePackage(x) ==
  /\ thread[x].pc = "delPackage"
  /\ thread' = [thread EXCEPT ![x].pc = "delRows", ![x].found = @ \/ package[Of(x)]]
  /\ package' = [package EXCEPT ![Of(x)] = FALSE]
  /\ UNCHANGED <<db, meta, dir, plans, ctl, worker, env, hist>>

\* the scene is gone by now and is not put back
DeletePackageFails(x) ==
  /\ Goes(x, "delPackage", "delUnlock")
  /\ MayFail("delete")
  /\ package[Of(x)]
  /\ \E kept \in BOOLEAN : package' = [package EXCEPT ![Of(x)] = kept]
  /\ UNCHANGED <<db, meta, dir, plans, ctl, worker, env, hist>>

\* delete_task_data; the frozen scope is another table and stays
DeleteRows(x) ==
  /\ Goes(x, "delRows", "delUnlock")
  /\ row' = IF thread[x].found THEN [row EXCEPT ![Of(x)] = Absent] ELSE row
  /\ UNCHANGED <<frozen, disk, plans, ctl, worker, env, hist>>

DeleteUnlock(x) ==
  /\ Goes(x, "delUnlock", "delUnmark")
  /\ lock' = None
  /\ UNCHANGED <<db, disk, plans, queue, active, cancelled, worker, env, hist>>

\* one mark for all deletions of the task: the first that ends drops it
DeleteUnmark(x) ==
  /\ Goes(x, "delUnmark", "idle")
  /\ cancelled' = cancelled \ {Of(x)}
  /\ unmarked' = (unmarked \cup Deleters(Of(x))) \ {x}
  /\ UNCHANGED <<db, disk, plans, queue, active, lock, worker, env, dropped, fresh, retold>>

\* a known task with a frozen scope and a package can be rerun, busy or not
RerunRead(x, t) ==
  /\ \E kind \in {"rerun", "rules"} : Begin(x, kind, t, "rerunPlan", SceneOrRow(t))
  /\ SceneOrRow(t) # Absent
  /\ t \in frozen
  /\ package[t]
  /\ UNCHANGED <<db, disk, plans, ctl, worker, clock, hist>>

\* a rerun of all rules leaves an empty plan, which reads as no plan
RerunPlan(x) ==
  /\ Goes(x, "rerunPlan", "rerunMeta")
  /\ rerunPlan' = [rerunPlan EXCEPT ![Of(x)] = thread[x].mode = "rules"]
  /\ UNCHANGED <<db, disk, rebuildPlan, ctl, worker, env, hist>>

RerunMeta(x) ==
  /\ Goes(x, "rerunMeta", "rerunStatus")
  /\ SaveTaskMeta(Of(x), [thread[x].saved EXCEPT !.status = "pending"])
  /\ retold' = (retold \/ Of(x) = T)
  /\ UNCHANGED <<frozen, package, plans, ctl, worker, env, dropped, fresh, unmarked>>

RerunStatus(x) ==
  /\ Goes(x, "rerunStatus", "put")
  /\ row' = WithStatus(Of(x), "pending")
  /\ UNCHANGED <<frozen, disk, plans, ctl, worker, env, hist>>

\* rebuild, under the state lock: the active task and one being deleted are
\* refused
RebuildCheck(x, t) ==
  /\ \E kind \in {"full", "incremental"} : Begin(x, kind, t, "rebuildRead", Absent)
  /\ active # t
  /\ t \notin cancelled
  /\ UNCHANGED <<db, disk, plans, ctl, worker, clock, hist>>

\* mutant: a pending or running task is accepted
RebuildableAny(t) == SceneOrRow(t) # Absent
Rebuildable(t) == SceneOrRow(t).status \in Terminal

RebuildRead(x) ==
  /\ Goes(x, "rebuildRead", "rebuildPlan")
  /\ Rebuildable(Of(x))
  /\ package[Of(x)]
  /\ thread[x].mode = "incremental" => Of(x) \in frozen
  /\ UNCHANGED <<db, disk, plans, ctl, worker, env, hist>>

RebuildRefuse(x) ==
  /\ Goes(x, "rebuildRead", "idle")
  /\ \/ ~Rebuildable(Of(x))
     \/ ~package[Of(x)]
     \/ thread[x].mode = "incremental" /\ Of(x) \notin frozen
  /\ UNCHANGED <<db, disk, plans, ctl, worker, env, hist>>

RebuildPlan(x) ==
  /\ Goes(x, "rebuildPlan", "rebuildStatus")
  /\ rebuildPlan' = [rebuildPlan EXCEPT ![Of(x)] = thread[x].mode]
  /\ UNCHANGED <<db, disk, rerunPlan, ctl, worker, env, hist>>

\* only the row becomes pending; task.json keeps its terminal status
RebuildStatus(x) ==
  /\ Goes(x, "rebuildStatus", "put")
  /\ row' = WithStatus(Of(x), "pending")
  /\ UNCHANGED <<frozen, disk, plans, ctl, worker, env, hist>>

\* update_device_id: the busy check reads task.json
DeviceRead(x, t) ==
  /\ Begin(x, "device", t, "deviceSave", meta[t])
  /\ meta[t].status \in Terminal
  /\ UNCHANGED <<db, disk, plans, ctl, worker, clock, hist>>

DeviceSave(x) ==
  /\ Goes(x, "deviceSave", "idle")
  /\ SaveTaskMeta(Of(x), thread[x].saved)
  /\ retold' = (retold \/ Of(x) = T)
  /\ UNCHANGED <<frozen, package, plans, ctl, worker, env, dropped, fresh, unmarked>>

-----------------------------------------------------------------------------

\* a user issues a request
Request ==
  \E t \in Tasks :
    \/ CreateReserve(t) \/ CreateRestore(t)
    \/ \E x \in Handlers :
         DeleteMark(x, t) \/ RerunRead(x, t) \/ RebuildCheck(x, t) \/ DeviceRead(x, t)

CreateNext ==
  CreateCopy \/ CreateCopyFails \/ CreateUndoRow \/ CreateUndoFiles \/ Put(Loop)

DeleteNext(x) ==
  \/ DeleteEnter(x) \/ DeleteScene(x) \/ DeleteSceneFails(x) \/ DeletePackage(x)
  \/ DeletePackageFails(x) \/ DeleteRows(x) \/ DeleteUnlock(x) \/ DeleteUnmark(x)

RerunNext(x) == RerunPlan(x) \/ RerunMeta(x) \/ RerunStatus(x)

RebuildNext(x) ==
  RebuildRead(x) \/ RebuildRefuse(x) \/ RebuildPlan(x) \/ RebuildStatus(x)

HandlerNext(x) ==
  Put(x) \/ DeleteNext(x) \/ RerunNext(x) \/ RebuildNext(x) \/ DeviceSave(x)

Next == Request \/ WorkerNext \/ CreateNext \/ \E x \in Handlers : HandlerNext(x)

Spec == Init /\ [][Next]_vars

\* the worker and the threads that took a request keep running
FairSpec ==
  /\ Spec
  /\ WF_vars(WorkerNext)
  /\ WF_vars(CreateNext)
  /\ \A x \in Handlers : WF_vars(HandlerNext(x))

-----------------------------------------------------------------------------
(* Properties.                                                             *)

InSweep == worker.pc \in {"sweep", "sweepUploads", "sweepOutput"}

\* the worker is inside the execution lock
WorkerInside ==
  \/ worker.pc \in {"start", "stamp", "plans", "exec", "swap", "publish", "file", "release",
                    "mirror", "checksum", "finish", "raise", "failFile", "leave"}
  \/ InSweep /\ worker.then # "idle"

DeleteInside(x) ==
  thread[x].pc \in {"delScene", "delPackage", "delRows", "delUnlock"}

\* A deletion never touches scenes, packages or rows while the worker is
\* executing a task, nor while another deletion does (the execution lock of
\* _worker_loop and delete, tasks.py:186 and 906).
RunsAndDeletesExclude ==
  /\ \A x \in Handlers : DeleteInside(x) => ~WorkerInside
  /\ \A x, y \in Handlers : DeleteInside(x) /\ DeleteInside(y) => x = y

\* the worker executes task t: from the claim to the publication of the run
Claimed == {"claimed", "start", "stamp", "plans", "exec", "swap", "publish", "file",
            "release", "finish"}
Claims(t) == worker.task = t /\ worker.pc \in Claimed

\* From its acceptance to its end a deletion and an execution of the same
\* task exclude each other, also while the deletion waits for the lock: the
\* claim (tasks.py:182-185) and the mark (tasks.py:901-904) look at each
\* other.  Excepted is a deletion whose mark was dropped meanwhile, with a
\* queue entry of the task (tasks.py:183) or by another deletion of the task
\* that ended (tasks.py:933).
NeverRunsCancelled ==
  \A x \in Handlers : thread[x].pc \in DeletePc /\ x \notin unmarked => ~Claims(Of(x))

\* The same without the exception, which the code does not keep: of two
\* deletions of a queued task the first fails, and drops the mark of the
\* second, which is waiting; the worker then executes the task
\* (tasks.py:901-935).
DeletedNeverRuns ==
  \A x \in Handlers : thread[x].pc \in DeletePc => ~Claims(Of(x))

Queued(t) == \E i \in 1 .. Len(queue) : queue[i] = t

\* a task is in somebody's hands: the worker has not started it or is about
\* to close it, or a thread that made it pending has not queued it yet
InHand(t) ==
  \/ worker.task = t /\ worker.pc \in {"got", "claimed", "start", "finish"}
  \/ \E x \in Threads : Of(x) = t /\ thread[x].pc \in {"copy", "undoRow", "rerunStatus", "put"}

\* A pending row is never forgotten by accident: the task is queued or in
\* somebody's hands, unless the worker discarded its entry as cancelled
\* (create_task_v3, rerun, rebuild, _worker_loop).
PendingIsHeld ==
  \A t \in Tasks : row[t].status = "pending" => Queued(t) \/ InHand(t) \/ t \in dropped

\* A running row has the worker behind it: whatever way an execution ends,
\* the row does not stay running (_execute, tasks.py:287-360).
RunningIsHeld ==
  \A t \in Tasks : row[t].status = "running" =>
    /\ worker.task = t
    /\ worker.pc \in {"stamp", "plans", "exec", "swap", "publish", "finish", "raise"}

\* No step of the worker brings the row of a task back that a deletion
\* removed: the error path after the lock is released and the second
\* _finish_run only touch rows that exist (tasks.py:190-203).
WorkerNeverRevives ==
  [][worker' # worker => \A t \in Tasks : HasRow(t)' => HasRow(t)]_vars

\* The sweep removes nothing of a task that is pending or running at that
\* moment (retention.py:3-5), though it read the rows before it began.
CleanupSparesBusy ==
  [][InSweep /\ worker' # worker => \A t \in Tasks :
       row[t].status \in Exempt =>
         /\ package[t] => package'[t]
         /\ HasMeta(t) => HasMeta(t)']_vars

\* Once everything has come to rest at most Keep scenes are left: a scene an
\* error path writes after it was swept is swept again (retention.py:28,
\* _publish_terminal, _finish_run and _worker_loop, tasks.py:190-260).
SceneBound ==
  worker.pc = "idle" /\ queue = <<>> /\ (\A x \in Threads : thread[x].pc = "idle")
    => Cardinality({t \in Tasks : dir[t]}) <= Keep

\* The first execution of a newly created task is a full run, whatever
\* happened under the same id before (_execute, tasks.py:290-345).
FreshRunsInFull ==
  [][\A t \in fresh : worker.task = t /\ worker.pc = "plans" /\ worker.pc' = "exec"
       => worker.plan' = "run"]_vars

\* A publication records the start of the very run it closes, whatever old
\* start the scene carries: the run fields follow save_run_start
\* (_publish_terminal, tasks.py:207-225).  Only a rerun or a PATCH that
\* writes back the task.json it read before the run can put another start
\* there (retold).
PublishesOwnStart ==
  [][~retold /\ worker.pc \in {"publish", "file"} /\ worker' # worker
       /\ worker'.pc \notin {"finish", "raise"}
     => row'[T].run = worker.started]_vars

\* Every pending or running task ends up completed, failed or deleted, or
\* its queue entry was discarded because it was being deleted.
EveryTaskSettles ==
  \A t \in Tasks :
    row[t].status \in Exempt ~> row[t].status \notin Exempt \/ t \in dropped

\* Every deletion that was accepted gets the lock and ends.
EveryDeleteEnds ==
  \A x \in Handlers : thread[x].pc = "delWait" ~> thread[x].pc = "idle"

=============================================================================
