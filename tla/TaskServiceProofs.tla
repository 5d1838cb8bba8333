------------------------- MODULE TaskServiceProofs -------------------------
(***************************************************************************)
(* Proofs about TaskService, for any finite number of tasks and handler    *)
(* threads and any bounds.                                                 *)
(*                                                                         *)
(* TypeCorrect: TypeOK is inductive.  Each conjunct (the rows and files,   *)
(* the memory of the service, the worker's record, the threads' records)   *)
(* has a lemma for the steps of the worker and one for those of the        *)
(* handlers; creations and new requests have one each.                     *)
(*                                                                         *)
(* MutualExclusion: the owner of the execution lock is recorded in lock    *)
(* but RunsAndDeletesExclude does not mention it, so it is not inductive.  *)
(* LockOwner adds that whoever is inside is the owner.                     *)
(*                                                                         *)
(* CancelledNeverRuns: ClaimInv says that the task being executed is the   *)
(* active one and has no mark, MarkInv that a deletion has its mark unless *)
(* it is on record as dropped.                                             *)
(*                                                                         *)
(* PendingNeverForgotten: whoever lets go of a pending task queues it or   *)
(* discards it.  CopiesTerminal says that the copies of a snapshot that    *)
(* are carried past a step are terminal, so that none makes a row pending. *)
(*                                                                         *)
(* OwnStartPublished: OwnStart says that the row of the run under way has  *)
(* the start of this run, unless somebody wrote it again.                  *)
(*                                                                         *)
(* RunningAlwaysHeld: without incremental rebuilds (NoIncremental), no     *)
(* task.json says running (FilesNeverRun), so only the run under way does. *)
(*                                                                         *)
(* DeletedStaysDeleted: RowsHeld says that wherever the worker would write *)
(* a row anew there is one.                                                *)
(*                                                                         *)
(* FirstRunsInFull: FreshInv says that nothing is planned for a task that  *)
(* has not run, nor for a name without a row.                              *)
(*                                                                         *)
(* ScenesBounded: KeptInv says that a finished task whose scene is there   *)
(* is one of the Keep most recent whenever no sweep is due; StampInv, that *)
(* the times of two tasks differ, so that at most Keep are.                *)
(***************************************************************************)
EXTENDS TaskService, TLAPS, FiniteSetTheorems

\* The first entry of a queue and the rest of it.
LEMMA HeadTail ==
  ASSUME NEW S, NEW q \in Seq(S), q # <<>>
  PROVE  Head(q) \in S /\ Tail(q) \in Seq(S)
  OBVIOUS

\* A snapshot is either no row (no file) or a complete record.
LEMMA AbsentOrRecorded == \A s \in Snapshot : s.status # "absent" <=> s \in Recorded
  BY DEF Snapshot, Absent, Recorded, Status

\* _update_status keeps the rows' type.
LEMMA StatusType ==
  ASSUME DataOK, NEW t, NEW s \in Status
  PROVE  WithStatus(t, s) \in [Tasks -> Snapshot]
<1>1. CASE t \in Tasks /\ HasRow(t)
  <2>1. row[t] \in Recorded
    BY <1>1, AbsentOrRecorded DEF DataOK, HasRow
  <2>2. [row[t] EXCEPT !.status = s] \in Recorded
    BY <2>1 DEF Recorded
  <2> QED
    BY <1>1, <2>2 DEF WithStatus, DataOK, Snapshot
<1>2. CASE t \notin Tasks \/ ~HasRow(t)
  BY <1>2 DEF WithStatus, DataOK
<1> QED
  BY <1>1, <1>2

\* What save_task_meta merges into a row is a complete record.
LEMMA UpsertedType ==
  ASSUME DataOK, NEW t \in Tasks, NEW m \in Recorded
  PROVE  Upserted(t, m) \in Recorded
  BY DEF Upserted, DataOK, Snapshot, Recorded, Absent, HasRow

\* save_task_meta keeps the types of row, task.json and directory.
LEMMA MetaType ==
  ASSUME DataOK, NEW t \in Tasks, NEW m \in Recorded, SaveTaskMeta(t, m)
  PROVE  /\ row' \in [Tasks -> Snapshot] /\ meta' \in [Tasks -> Snapshot]
         /\ dir' \in [Tasks -> BOOLEAN]
  BY UpsertedType DEF SaveTaskMeta, DataOK, Snapshot

\* ensure_task_execution_row keeps the rows' type.
LEMMA EnsureType ==
  ASSUME DataOK, clock \in Nat, NEW t \in Tasks, EnsureRow(t)
  PROVE  row' \in [Tasks -> Snapshot]
  BY AbsentOrRecorded DEF EnsureRow, DataOK, HasRow, HasMeta, Snapshot, Recorded, Status

\* save_run_start writes a complete record.
LEMMA StampedType ==
  ASSUME DataOK, NEW t \in Tasks, HasRow(t), NEW n \in Nat
  PROVE  [row[t] EXCEPT !.run = n] \in Recorded
<1>1. row[t] \in Recorded
  BY AbsentOrRecorded DEF DataOK, HasRow
<1>2. \A r \in Recorded : [r EXCEPT !.run = n] \in Recorded
  BY DEF Recorded
<1> QED
  BY <1>1, <1>2

\* What _publish_terminal saves is a complete record.
LEMMA PublishedType ==
  ASSUME DataOK, clock \in Nat, NEW t \in Tasks,
         worker.result \in Terminal, worker.started \in Nat
  PROVE  PublishedSnapshot(t) \in Recorded
<1>1. row[t].created \in Nat /\ row[t].run \in Nat /\ meta[t].created \in Nat
  BY DEF DataOK, Snapshot, Recorded, Absent
<1> QED
  BY <1>1 DEF PublishedSnapshot, Recorded, Status, Terminal

\* The worker keeps the types of queue, marks, plans and lock.
LEMMA WorkerMemory == TypeOK /\ WorkerNext => MemoryOK'
<1> SUFFICES ASSUME TypeOK, WorkerNext PROVE MemoryOK'
  OBVIOUS
<1> USE DEF vars, db, disk, plans, ctl, env, hist, T, Step
<1>1. CASE Dequeueing
  <2>1. CASE WorkerGet
    BY <2>1, HeadTail DEF TypeOK, MemoryOK, WorkerOK, WorkerGet
  <2>2. CASE WorkerSkip
    BY <2>2, HeadTail DEF TypeOK, MemoryOK, WorkerOK, WorkerSkip, Deleters
  <2>3. CASE WorkerClaim
    BY <2>3, HeadTail DEF TypeOK, MemoryOK, WorkerOK, WorkerClaim
  <2>4. CASE WorkerEnter
    BY <2>4, HeadTail DEF TypeOK, MemoryOK, WorkerOK, WorkerEnter
  <2> QED
    BY <1>1, <2>1, <2>2, <2>3, <2>4 DEF Dequeueing
<1>2. CASE Executing
  <2>1. CASE WorkerStart
    BY <2>1 DEF TypeOK, MemoryOK, WorkerOK, WorkerStart
  <2>1s. CASE WorkerStamp
    <3>1. retold' \in BOOLEAN
      BY <2>1s, Zenon DEF WorkerStamp
    <3> QED
      BY <2>1s, <3>1 DEF TypeOK, MemoryOK, WorkerOK, WorkerStamp
  <2>2. CASE WorkerTakePlans
    BY <2>2 DEF TypeOK, MemoryOK, WorkerOK, WorkerTakePlans
  <2>3. CASE WorkerRun
    BY <2>3 DEF TypeOK, MemoryOK, WorkerOK, WorkerRun, WorkerRaises
  <2>4. CASE WorkerRules
    BY <2>4 DEF TypeOK, MemoryOK, WorkerOK, WorkerRules, WorkerRaises
  <2>5. CASE WorkerStage
    BY <2>5 DEF TypeOK, MemoryOK, WorkerOK, WorkerStage, WorkerRaises
  <2>6. CASE WorkerSwap
    BY <2>6 DEF TypeOK, MemoryOK, WorkerOK, WorkerSwap
  <2>7. CASE WorkerIncremental
    BY <2>7 DEF TypeOK, MemoryOK, WorkerOK, WorkerIncremental, WorkerRaises
  <2> QED
    BY <1>2, <2>1, <2>1s, <2>2, <2>3, <2>4, <2>5, <2>6, <2>7 DEF Executing
<1>3. CASE Publishing
  BY <1>3
     DEF TypeOK, MemoryOK, WorkerOK, Publishing, WorkerPublish, WorkerPublishFile,
         WorkerPublishRaises, WorkerRollback, WorkerRelease, WorkerMirror,
         WorkerChecksum, WorkerChecksumFails
<1>4. CASE Sweeping
  BY <1>4
     DEF TypeOK, MemoryOK, WorkerOK, Sweeping, WorkerSweep, WorkerSweepUploads,
         WorkerSweepUploaded, WorkerSweepOutput, WorkerSwept
<1>5. CASE Closing
  BY <1>5
     DEF TypeOK, MemoryOK, WorkerOK, Closing, WorkerFinish, WorkerRaise,
         WorkerFailFile, WorkerLeave, WorkerClear, WorkerLog, WorkerRefinish
<1> QED
  BY <1>1, <1>2, <1>3, <1>4, <1>5 DEF WorkerNext

\* The worker keeps the types of rows, files and directories.
LEMMA WorkerData == TypeOK /\ WorkerNext => DataOK'
<1> SUFFICES ASSUME TypeOK, WorkerNext PROVE DataOK'
  OBVIOUS
<1> USE DEF vars, db, disk, plans, ctl, env, hist, T, Step
<1>1. CASE Dequeueing
  BY <1>1, AbsentOrRecorded
     DEF TypeOK, DataOK, Dequeueing, WorkerGet, WorkerSkip, WorkerClaim, WorkerEnter,
         WorkerOK, WorkerState, Snapshot
<1>4. CASE Sweeping
  BY <1>4, AbsentOrRecorded
     DEF TypeOK, DataOK, Sweeping, WorkerSweep, WorkerSweepUploads,
         WorkerSweepUploaded, WorkerSweepOutput, WorkerSwept, WorkerOK, WorkerState,
         Snapshot
<1>2. CASE Executing
  <2>1. CASE WorkerStart
    <3>3. row' \in [Tasks -> Snapshot]
      BY <2>1, StatusType DEF WorkerStart, TypeOK, Started, Status
    <3> QED
      BY <2>1, <3>3 DEF WorkerStart, TypeOK, DataOK
  <2>1s. CASE WorkerStamp
    <3>1. T \in Tasks /\ worker.started \in Nat
      BY <2>1s DEF TypeOK, WorkerOK, WorkerState, WorkerStamp
    <3>2. HasRow(T) => [row[T] EXCEPT !.run = worker.started] \in Recorded
      BY <3>1, StampedType DEF TypeOK
    <3>3. row' \in [Tasks -> Snapshot]
      BY <2>1s, <3>2 DEF WorkerStamp, TypeOK, DataOK, Snapshot
    <3> QED
      BY <2>1s, <3>3 DEF WorkerStamp, TypeOK, DataOK
  <2>2. CASE WorkerTakePlans
    BY <2>2, AbsentOrRecorded
       DEF TypeOK, DataOK, WorkerOK, MemoryOK, WorkerState, WorkerTakePlans, Snapshot,
           Recorded, Status
  <2>3. CASE WorkerRun
    BY <2>3, EnsureType, AbsentOrRecorded
       DEF TypeOK, DataOK, WorkerOK, MemoryOK, WorkerState, WorkerRun, WorkerRaises,
           Snapshot, Recorded, Status
  <2>4. CASE WorkerRules
    <3>1. worker.started \in Nat
      BY DEF TypeOK, WorkerOK, WorkerState
    <3>2. \A t \in Tasks : HasMeta(t) => [meta[t] EXCEPT !.run = worker.started] \in Recorded
      BY <3>1, AbsentOrRecorded DEF TypeOK, DataOK, HasMeta, Recorded
    <3>3. meta' \in [Tasks -> Snapshot]
      BY <2>4, <3>2 DEF WorkerRules, TypeOK, DataOK, Snapshot
    <3> QED
      BY <2>4, <3>3 DEF WorkerRules, TypeOK, DataOK
  <2>5. CASE WorkerStage
    BY <2>5, EnsureType, AbsentOrRecorded
       DEF TypeOK, DataOK, WorkerOK, MemoryOK, WorkerState, WorkerStage, WorkerRaises,
           Snapshot, Recorded, Status
  <2>6. CASE WorkerSwap
    <3>1. worker.started \in Nat /\ worker.saved \in Snapshot /\ clock \in Nat
      BY DEF TypeOK, WorkerOK, WorkerState, MemoryOK
    <3> DEFINE m == [status |-> "completed", run |-> worker.started,
                     created |-> IF worker.saved # Absent THEN worker.saved.created ELSE clock]
    <3>2. m \in Recorded
      BY <3>1 DEF Recorded, Snapshot, Status
    <3>3. meta' = meta \/ meta' = [meta EXCEPT ![T] = m]
      BY <2>6 DEF WorkerSwap
    <3>4. meta' \in [Tasks -> Snapshot]
      BY <3>2, <3>3 DEF TypeOK, DataOK, Snapshot
    <3> QED
      BY <2>6, <3>4 DEF WorkerSwap, TypeOK, DataOK
  <2>7. CASE WorkerIncremental
    BY <2>7, AbsentOrRecorded
       DEF TypeOK, DataOK, WorkerOK, MemoryOK, WorkerState, WorkerIncremental,
           WorkerRaises, Snapshot, Recorded, HasMeta, Status
  <2> QED
    BY <1>2, <2>1, <2>1s, <2>2, <2>3, <2>4, <2>5, <2>6, <2>7 DEF Executing
<1>3. CASE Publishing
  <2>1. CASE WorkerPublish
    <3>1. T \in Tasks /\ clock \in Nat /\ worker.result \in Terminal /\ worker.started \in Nat
      BY <2>1 DEF TypeOK, WorkerOK, WorkerState, MemoryOK, WorkerPublish
    <3>2. PublishedSnapshot(T) \in Recorded
      BY <3>1, PublishedType DEF TypeOK
    <3>3. row' \in [Tasks -> Snapshot]
      BY <2>1, <3>2 DEF WorkerPublish, TypeOK, DataOK, Snapshot
    <3> QED
      BY <2>1, <3>1, <3>3 DEF WorkerPublish, TypeOK, DataOK
  <2>2. CASE WorkerPublishFile
    BY <2>2, MetaType, AbsentOrRecorded
       DEF TypeOK, DataOK, WorkerOK, MemoryOK, WorkerState, WorkerPublishFile,
           Snapshot, Recorded, Status, Terminal
  <2>3. CASE WorkerPublishRaises
    BY <2>3, AbsentOrRecorded
       DEF TypeOK, DataOK, WorkerOK, MemoryOK, WorkerState, WorkerPublishRaises,
           Snapshot, Recorded, Status, Terminal
  <2>4. CASE WorkerRollback
    BY <2>4, UpsertedType, AbsentOrRecorded
       DEF TypeOK, DataOK, WorkerOK, MemoryOK, WorkerState, WorkerRollback, RolledBack,
           Snapshot, Recorded, Status, Terminal
  <2>5. CASE WorkerRelease
    BY <2>5, AbsentOrRecorded
       DEF TypeOK, DataOK, WorkerOK, MemoryOK, WorkerState, WorkerRelease, Snapshot,
           Recorded, Status, Terminal
  <2>6. CASE WorkerChecksum
    BY <2>6, AbsentOrRecorded
       DEF TypeOK, DataOK, WorkerOK, MemoryOK, WorkerState, WorkerChecksum, Snapshot,
           Recorded, Status, Terminal
  <2>7. CASE WorkerChecksumFails
    BY <2>7, AbsentOrRecorded
       DEF TypeOK, DataOK, WorkerOK, MemoryOK, WorkerState, WorkerChecksumFails,
           Snapshot, Recorded, Status, Terminal
  <2>8. CASE WorkerMirror
    <3>1. T \in Tasks /\ worker.published \in Recorded
      BY <2>8 DEF TypeOK, WorkerOK, WorkerMirror
    <3>2. Upserted(T, worker.published) \in Recorded
      BY <3>1, UpsertedType DEF TypeOK
    <3>3. row' \in [Tasks -> Snapshot]
      BY <2>8, <3>2 DEF WorkerMirror, TypeOK, DataOK, Snapshot
    <3> QED
      BY <2>8, <3>3 DEF WorkerMirror, TypeOK, DataOK
  <2> QED
    BY <1>3, <2>1, <2>2, <2>3, <2>4, <2>5, <2>6, <2>7, <2>8 DEF Publishing
<1>5. CASE Closing
  <2>1. CASE WorkerFinish
    BY <2>1, StatusType, AbsentOrRecorded
       DEF TypeOK, DataOK, WorkerOK, MemoryOK, WorkerState, WorkerFinish, Snapshot,
           Recorded, Status, Terminal
  <2>2. CASE WorkerRaise
    BY <2>2, StatusType, AbsentOrRecorded
       DEF TypeOK, DataOK, WorkerOK, MemoryOK, WorkerState, WorkerRaise, Snapshot,
           Recorded, Status, Terminal
  <2>3. CASE WorkerFailFile
    BY <2>3, MetaType, AbsentOrRecorded
       DEF TypeOK, DataOK, WorkerOK, MemoryOK, WorkerState, WorkerFailFile, Snapshot,
           Recorded, Status, Terminal
  <2>4. CASE WorkerLeave
    BY <2>4, AbsentOrRecorded
       DEF TypeOK, DataOK, WorkerOK, MemoryOK, WorkerState, WorkerLeave, Snapshot,
           Recorded, Status, Terminal
  <2>5. CASE WorkerClear
    BY <2>5, AbsentOrRecorded
       DEF TypeOK, DataOK, WorkerOK, MemoryOK, WorkerState, WorkerClear, Snapshot,
           Recorded, Status, Terminal
  <2>6. CASE WorkerLog
    BY <2>6, AbsentOrRecorded
       DEF TypeOK, DataOK, WorkerOK, MemoryOK, WorkerState, WorkerLog, Snapshot,
           Recorded, Status, Terminal
  <2>7. CASE WorkerRefinish
    BY <2>7, StatusType, AbsentOrRecorded
       DEF TypeOK, DataOK, WorkerOK, MemoryOK, WorkerState, WorkerRefinish, Snapshot,
           Recorded, Status, Terminal
  <2> QED
    BY <1>5, <2>1, <2>2, <2>3, <2>4, <2>5, <2>6, <2>7 DEF Closing
<1> QED
  BY <1>1, <1>2, <1>3, <1>4, <1>5 DEF WorkerNext

\* The worker keeps the type of its own variables: what it saved and
\* published is what it read, and it holds a task exactly when it is past get.
LEMMA WorkerRecord == TypeOK /\ WorkerNext => WorkerOK'
<1> SUFFICES ASSUME TypeOK, WorkerNext PROVE WorkerOK'
  OBVIOUS
<1> USE DEF vars, db, disk, plans, ctl, env, hist, T, Step
<1>1. CASE Dequeueing
  <2>1. CASE WorkerGet
    BY <2>1, HeadTail
       DEF TypeOK, WorkerOK, WorkerState, WorkerPc, MemoryOK, Plans, Terminal,
           AfterSweep, Snapshot, WorkerGet
  <2>2. CASE WorkerSkip
    BY <2>2, HeadTail
       DEF TypeOK, WorkerOK, WorkerState, WorkerPc, MemoryOK, IdleWorker, Plans,
           Terminal, AfterSweep, Snapshot, WorkerSkip
  <2>3. CASE WorkerClaim
    BY <2>3, HeadTail
       DEF TypeOK, WorkerOK, WorkerState, WorkerPc, MemoryOK, Plans, Terminal,
           AfterSweep, Snapshot, WorkerClaim
  <2>4. CASE WorkerEnter
    BY <2>4, HeadTail
       DEF TypeOK, WorkerOK, WorkerState, WorkerPc, MemoryOK, Plans, Terminal,
           AfterSweep, Snapshot, WorkerEnter
  <2> QED
    BY <1>1, <2>1, <2>2, <2>3, <2>4 DEF Dequeueing
<1>2. CASE Executing
  <2>1. CASE WorkerStart
    <3>1. clock + 1 \in Nat
      BY DEF TypeOK, MemoryOK
    <3>2. worker' = [worker EXCEPT !.pc = "stamp", !.started = clock + 1]
      BY <2>1 DEF WorkerStart
    <3>3. worker' \in WorkerState
      BY <3>1, <3>2 DEF TypeOK, WorkerOK, WorkerState, WorkerPc
    <3> QED
      BY <2>1, <3>2, <3>3 DEF WorkerStart, TypeOK, WorkerOK, WorkerState
  <2>1s. CASE WorkerStamp
    <3>1. worker' = [worker EXCEPT !.pc = "plans"]
      BY <2>1s DEF WorkerStamp
    <3>2. worker' \in WorkerState
      BY <3>1 DEF TypeOK, WorkerOK, WorkerState, WorkerPc
    <3> QED
      BY <2>1s, <3>1, <3>2 DEF WorkerStamp, TypeOK, WorkerOK, WorkerState
  <2>2. CASE WorkerTakePlans
    BY <2>2
       DEF TypeOK, WorkerOK, WorkerState, WorkerPc, WorkerTakePlans, MemoryOK, DataOK,
           Plans, Terminal
  <2>3. CASE WorkerRun
    <3>1. worker.pc = "exec"
      BY <2>3 DEF WorkerRun, WorkerRaises
    <3>2. CASE worker' = [worker EXCEPT !.pc = "raise"]
      BY <3>1, <3>2 DEF TypeOK, WorkerOK, WorkerState, WorkerPc
    <3>3. ASSUME NEW s \in Terminal, worker' = [worker EXCEPT !.pc = "publish", !.result = s]
          PROVE  WorkerOK'
      BY <3>1, <3>3 DEF TypeOK, WorkerOK, WorkerState, WorkerPc
    <3> QED
      BY <2>3, <3>2, <3>3 DEF WorkerRun, WorkerRaises
  <2>4. CASE WorkerRules
    <3>1. worker.pc = "exec"
      BY <2>4 DEF WorkerRules, WorkerRaises
    <3>2. CASE worker' = [worker EXCEPT !.pc = "raise"]
      BY <3>1, <3>2 DEF TypeOK, WorkerOK, WorkerState, WorkerPc
    <3>3. ASSUME NEW p \in {"publish", "finish"},
                 worker' = [worker EXCEPT !.pc = p, !.result = "completed"]
          PROVE  WorkerOK'
      BY <3>1, <3>3 DEF TypeOK, WorkerOK, WorkerState, WorkerPc, Terminal
    <3> QED
      BY <2>4, <3>2, <3>3 DEF WorkerRules, WorkerRaises, AfterRules
  <2>5. CASE WorkerStage
    <3>1. meta[T] \in Snapshot
      BY <2>5 DEF WorkerStage, WorkerRaises, TypeOK, WorkerOK, DataOK
    <3>2. \/ worker' = [worker EXCEPT !.pc = "raise"]
          \/ worker' = [worker EXCEPT !.pc = "swap", !.saved = meta[T]]
      BY <2>5 DEF WorkerStage, WorkerRaises
    <3>3. worker.pc = "exec"
      BY <2>5 DEF WorkerStage, WorkerRaises
    <3>4. CASE worker' = [worker EXCEPT !.pc = "raise"]
      BY <3>3, <3>4 DEF TypeOK, WorkerOK, WorkerState, WorkerPc
    <3>5. CASE worker' = [worker EXCEPT !.pc = "swap", !.saved = meta[T]]
      BY <3>1, <3>3, <3>5 DEF TypeOK, WorkerOK, WorkerState, WorkerPc
    <3> QED
      BY <3>2, <3>4, <3>5
  <2>6. CASE WorkerSwap
    <3>1. meta[T] \in Snapshot /\ dir[T] \in BOOLEAN
      BY <2>6 DEF WorkerSwap, TypeOK, WorkerOK, DataOK
    <3>2. \/ worker' = [worker EXCEPT !.pc = "finish", !.result = "failed"]
          \/ worker' = [worker EXCEPT !.pc = "publish", !.result = "completed",
                                      !.backup = meta[T], !.hadDir = dir[T]]
      BY <2>6 DEF WorkerSwap
    <3>3. worker.pc = "swap"
      BY <2>6 DEF WorkerSwap
    <3>4. CASE worker' = [worker EXCEPT !.pc = "finish", !.result = "failed"]
      BY <3>3, <3>4 DEF TypeOK, WorkerOK, WorkerState, WorkerPc, Terminal
    <3>5. CASE worker' = [worker EXCEPT !.pc = "publish", !.result = "completed",
                                        !.backup = meta[T], !.hadDir = dir[T]]
      <4>1. ASSUME NEW m \in Snapshot, NEW b \in BOOLEAN,
                   worker' = [worker EXCEPT !.pc = "publish", !.result = "completed",
                                            !.backup = m, !.hadDir = b]
            PROVE  WorkerOK'
        BY <3>3, <4>1 DEF TypeOK, WorkerOK, WorkerState, WorkerPc, Terminal
      <4> QED
        BY <3>1, <3>5, <4>1
    <3> QED
      BY <3>2, <3>4, <3>5
  <2>7. CASE WorkerIncremental
    <3>1. worker.pc = "exec"
      BY <2>7 DEF WorkerIncremental, WorkerRaises
    <3>2. CASE worker' = [worker EXCEPT !.pc = "raise"]
      BY <3>1, <3>2 DEF TypeOK, WorkerOK, WorkerState, WorkerPc
    <3>3. ASSUME NEW p \in {"publish", "leave"},
                 worker' = [worker EXCEPT !.pc = p, !.result = "completed"]
          PROVE  WorkerOK'
      BY <3>1, <3>3 DEF TypeOK, WorkerOK, WorkerState, WorkerPc, Terminal
    <3> QED
      BY <2>7, <3>2, <3>3 DEF WorkerIncremental, WorkerRaises
  <2> QED
    BY <1>2, <2>1, <2>1s, <2>2, <2>3, <2>4, <2>5, <2>6, <2>7 DEF Executing
<1>3. CASE Publishing
  <2>1. CASE WorkerPublish
    <3>1. T \in Tasks /\ clock \in Nat /\ worker.result \in Terminal /\ worker.started \in Nat
      BY <2>1 DEF TypeOK, WorkerOK, WorkerState, MemoryOK, WorkerPublish
    <3>2. PublishedSnapshot(T) \in Recorded
      BY <3>1, PublishedType DEF TypeOK
    <3>3. worker' = [worker EXCEPT !.pc = "file", !.published = PublishedSnapshot(T)]
      BY <2>1 DEF WorkerPublish
    <3>4. worker' \in WorkerState
      BY <3>2, <3>3 DEF TypeOK, WorkerOK, WorkerState, WorkerPc, Snapshot
    <3> QED
      BY <3>1, <3>2, <3>3, <3>4 DEF TypeOK, WorkerOK, WorkerState
  <2>2. CASE WorkerPublishFile
    BY <2>2
       DEF TypeOK, WorkerOK, WorkerState, WorkerPc, WorkerPublishFile, DataOK,
           MemoryOK, Snapshot, Recorded, Status, Terminal, AfterSweep, Absent
  <2>3. CASE WorkerPublishRaises
    BY <2>3
       DEF TypeOK, WorkerOK, WorkerState, WorkerPc, WorkerPublishRaises, DataOK,
           MemoryOK, Snapshot, Recorded, Status, Terminal, AfterSweep, Absent
  <2>4. CASE WorkerRollback
    BY <2>4
       DEF TypeOK, WorkerOK, WorkerState, WorkerPc, WorkerRollback, DataOK, MemoryOK,
           Snapshot, Recorded, Status, Terminal, AfterSweep, Absent
  <2>5. CASE WorkerRelease
    <3>1. worker' = [worker EXCEPT !.pc = "mirror",
                       !.then = IF worker.plan = "run" THEN "checksum" ELSE "leave"]
      BY <2>5 DEF WorkerRelease
    <3>2. worker' \in WorkerState
      BY <3>1 DEF TypeOK, WorkerOK, WorkerState, WorkerPc, AfterSweep
    <3> QED
      BY <2>5, <3>1, <3>2 DEF WorkerRelease, TypeOK, WorkerOK, WorkerState
  <2>6. CASE WorkerChecksum
    <3>1. PICK p \in {"raise", "leave"} : worker' = [worker EXCEPT !.pc = p]
      BY <2>6 DEF WorkerChecksum
    <3>2. worker.pc = "checksum"
      BY <2>6 DEF WorkerChecksum
    <3> QED
      BY <3>1, <3>2 DEF TypeOK, WorkerOK, WorkerState, WorkerPc
  <2>7. CASE WorkerChecksumFails
    BY <2>7
       DEF TypeOK, WorkerOK, WorkerState, WorkerPc, WorkerChecksumFails, DataOK,
           MemoryOK, Snapshot, Recorded, Status, Terminal, AfterSweep, Absent
  <2>8. CASE WorkerMirror
    BY <2>8 DEF TypeOK, WorkerOK, WorkerState, WorkerPc, WorkerMirror
  <2> QED
    BY <1>3, <2>1, <2>2, <2>3, <2>4, <2>5, <2>6, <2>7, <2>8 DEF Publishing
<1>4. CASE Sweeping
  <2>1. CASE WorkerSweep
    BY <2>1
       DEF TypeOK, WorkerOK, WorkerState, WorkerPc, WorkerSweep, Doomed, Known,
           AfterSweep, Plans, Terminal, Snapshot
  <2>2. CASE WorkerSweepUploads
    BY <2>2
       DEF TypeOK, WorkerOK, WorkerState, WorkerPc, WorkerSweepUploads, AfterSweep,
           Plans, Terminal, Snapshot
  <2>3. CASE WorkerSweepUploaded
    BY <2>3
       DEF TypeOK, WorkerOK, WorkerState, WorkerPc, WorkerSweepUploaded, AfterSweep,
           Plans, Terminal, Snapshot
  <2>4. CASE WorkerSweepOutput
    BY <2>4
       DEF TypeOK, WorkerOK, WorkerState, WorkerPc, WorkerSweepOutput, AfterSweep,
           Plans, Terminal, Snapshot
  <2>5. CASE WorkerSwept
    BY <2>5
       DEF TypeOK, WorkerOK, WorkerState, WorkerPc, WorkerSwept, AfterSweep,
           IdleWorker, Plans, Terminal, Snapshot
  <2> QED
    BY <1>4, <2>1, <2>2, <2>3, <2>4, <2>5 DEF Sweeping
<1>5. CASE Closing
  <2>1. CASE WorkerFinish
    BY <2>1
       DEF TypeOK, WorkerOK, WorkerState, WorkerPc, WorkerFinish, DataOK, AfterSweep,
           Plans, Terminal, Snapshot
  <2>2. CASE WorkerRaise
    BY <2>2
       DEF TypeOK, WorkerOK, WorkerState, WorkerPc, WorkerRaise, DataOK, AfterSweep,
           Plans, Terminal, Snapshot
  <2>3. CASE WorkerFailFile
    BY <2>3
       DEF TypeOK, WorkerOK, WorkerState, WorkerPc, WorkerFailFile, DataOK, AfterSweep,
           Plans, Terminal, Snapshot
  <2>4. CASE WorkerLeave
    BY <2>4
       DEF TypeOK, WorkerOK, WorkerState, WorkerPc, WorkerLeave, DataOK, AfterSweep,
           Plans, Terminal, Snapshot
  <2>5. CASE WorkerClear
    BY <2>5
       DEF TypeOK, WorkerOK, WorkerState, WorkerPc, WorkerClear, DataOK, AfterSweep,
           IdleWorker, Plans, Terminal, Snapshot
  <2>6. CASE WorkerLog
    BY <2>6
       DEF TypeOK, WorkerOK, WorkerState, WorkerPc, WorkerLog, DataOK, AfterSweep,
           Plans, Terminal, Snapshot
  <2>7. CASE WorkerRefinish
    BY <2>7
       DEF TypeOK, WorkerOK, WorkerState, WorkerPc, WorkerRefinish, DataOK, AfterSweep,
           Plans, Terminal, Snapshot
  <2> QED
    BY <1>5, <2>1, <2>2, <2>3, <2>4, <2>5, <2>6, <2>7 DEF Closing
<1> QED
  BY <1>1, <1>2, <1>3, <1>4, <1>5 DEF WorkerNext

\* The worker changes no thread.
LEMMA WorkerThread == WorkerNext => UNCHANGED thread
  BY DEF WorkerNext, Dequeueing, Executing, Publishing, Sweeping, Closing, WorkerGet,
         WorkerSkip, WorkerClaim, WorkerEnter, WorkerStart, WorkerStamp, WorkerTakePlans, WorkerRun,
         WorkerRules, WorkerStage, WorkerSwap, WorkerIncremental, WorkerPublish,
         WorkerPublishFile, WorkerPublishRaises, WorkerRollback, WorkerRelease,
         WorkerMirror, WorkerChecksum, WorkerChecksumFails, WorkerSweep, WorkerSweepUploads,
         WorkerSweepUploaded, WorkerSweepOutput, WorkerSwept, WorkerFinish,
         WorkerRaise, WorkerFailFile, WorkerLeave, WorkerClear, WorkerLog,
         WorkerRefinish, db, disk, plans, ctl, env, hist

\* A step of the worker preserves the types (_worker_loop, _execute).
LEMMA WorkerType == TypeOK /\ WorkerNext => TypeOK'
<1> SUFFICES ASSUME TypeOK, WorkerNext PROVE TypeOK'
  OBVIOUS
<1>1. UNCHANGED thread
  BY WorkerThread
<1>2. ThreadOK'
  BY <1>1 DEF TypeOK, ThreadOK
<1> QED
  BY <1>2, WorkerMemory, WorkerData, WorkerRecord DEF TypeOK

SavedPc == {"rerunPlan", "rerunMeta", "deviceSave"}
RebuildPc == {"rebuildRead", "rebuildPlan"}

\* A handler that goes on in its operation keeps a well-formed record.
LEMMA GoesType ==
  ASSUME ThreadOK, NEW x \in Threads, NEW from, NEW to \in ThreadPc,
         from # "idle", Goes(x, from, to),
         to \in SavedPc => thread[x].saved \in Recorded,
         to \in RebuildPc => from \in RebuildPc
  PROVE  ThreadOK'
<1>1. CASE to = "idle"
  BY <1>1 DEF Goes, ThreadOK, ThreadState, ThreadPc, IdleThread, RequestKinds, Snapshot
<1>2. CASE to # "idle"
  <2>1. thread' = [thread EXCEPT ![x] = [thread[x] EXCEPT !.pc = to]]
    BY <1>2 DEF Goes
  <2>2. thread' \in [Threads -> ThreadState]
    BY <2>1 DEF ThreadOK, ThreadState
  <2> QED
    BY <1>2, <2>1, <2>2 DEF Goes, ThreadOK, ThreadState, SavedPc, RebuildPc
<1> QED
  BY <1>1, <1>2

\* A handler that takes an operation gets a well-formed record.
LEMMA BeginType ==
  ASSUME ThreadOK, NEW x \in Threads, NEW kind, NEW t \in Tasks,
         NEW pc \in ThreadPc, NEW saved \in Snapshot, Begin(x, kind, t, pc, saved),
         pc \in SavedPc => saved \in Recorded,
         pc \in RebuildPc => kind \in {"full", "incremental"}
  PROVE  ThreadOK'
<1> DEFINE r == [IdleThread EXCEPT !.pc = pc, !.task = t, !.mode = kind, !.saved = saved]
<1>1. kind \in RequestKinds
  BY BoundAssumption DEF Begin
<1>2. r \in ThreadState /\ r.task = t /\ r.saved = saved /\ r.pc = pc /\ r.mode = kind
  BY <1>1 DEF IdleThread, ThreadState
<1>3. thread' = [thread EXCEPT ![x] = r]
  BY DEF Begin
<1> QED
  BY <1>2, <1>3 DEF ThreadOK, SavedPc, RebuildPc

\* what Begin and Goes do to the threads, in the form later proofs use
LEMMA BeginEffect ==
  ASSUME ThreadOK, NEW x \in Threads, NEW kind, NEW t, NEW pc, NEW saved,
         Begin(x, kind, t, pc, saved)
  PROVE  /\ thread[x].pc = "idle"
         /\ thread'[x].pc = pc /\ thread'[x].task = t /\ thread'[x].saved = saved
         /\ \A y \in Threads : y # x => thread'[y] = thread[y]
  BY DEF Begin, ThreadOK, IdleThread

LEMMA GoesEffect ==
  ASSUME ThreadOK, NEW x \in Threads, NEW from, NEW to, Goes(x, from, to)
  PROVE  /\ thread[x].pc = from
         /\ thread'[x].pc = to
         /\ to # "idle" => /\ thread'[x].task = thread[x].task
                          /\ thread'[x].saved = thread[x].saved
         /\ \A y \in Threads : y # x => thread'[y] = thread[y]
  BY DEF Goes, ThreadOK, ThreadState, IdleThread

\* A handler keeps its own record well-formed: a snapshot it will save is
\* one it has read, and a rebuild has a plan.
LEMMA HandlerThread ==
  ASSUME TypeOK, NEW x \in Handlers, HandlerNext(x)
  PROVE  ThreadOK'
<1>1. x \in Threads
  BY DEF Threads
<1>2. CASE Put(x)
  BY <1>1, <1>2, GoesType DEF Put, TypeOK, ThreadOK, ThreadPc, SavedPc, RebuildPc
<1>3. CASE DeleteEnter(x)
  <2>1. thread[x] \in ThreadState /\ thread[x].task \in Tasks
    BY <1>1, <1>3 DEF DeleteEnter, TypeOK, ThreadOK
  <2>2. meta[Of(x)] \in Snapshot /\ HasRow(Of(x)) \in BOOLEAN
    BY <2>1 DEF TypeOK, DataOK, ThreadState, HasRow, Of
  <2>3. \A m \in Snapshot, b \in BOOLEAN :
          [thread[x] EXCEPT !.pc = "delScene", !.saved = m, !.found = b] \in ThreadState
    BY <2>1 DEF ThreadState, ThreadPc
  <2>4. thread' \in [Threads -> ThreadState]
    BY <1>1, <1>3, <2>2, <2>3 DEF DeleteEnter, TypeOK, ThreadOK
  <2> QED
    BY <1>1, <1>3, <2>1, <2>4 DEF DeleteEnter, TypeOK, ThreadOK, ThreadState
<1>4. CASE DeleteScene(x)
  <2>1. thread[x] \in ThreadState /\ thread[x].task \in Tasks
    BY <1>1, <1>4 DEF DeleteScene, TypeOK, ThreadOK
  <2>2. (thread[x].found \/ dir[Of(x)]) \in BOOLEAN
    BY <2>1 DEF TypeOK, DataOK, ThreadState, Of
  <2>3. \A b \in BOOLEAN : [thread[x] EXCEPT !.pc = "delPackage", !.found = b] \in ThreadState
    BY <2>1 DEF ThreadState, ThreadPc
  <2>4. thread' \in [Threads -> ThreadState]
    BY <1>1, <1>4, <2>2, <2>3 DEF DeleteScene, TypeOK, ThreadOK
  <2> QED
    BY <1>1, <1>4, <2>1, <2>4 DEF DeleteScene, TypeOK, ThreadOK, ThreadState
<1>5. CASE DeleteSceneFails(x)
  BY <1>1, <1>5, GoesType
     DEF DeleteSceneFails, TypeOK, ThreadOK, ThreadPc, SavedPc, RebuildPc
<1>6. CASE DeletePackage(x)
  <2>1. thread[x] \in ThreadState /\ thread[x].task \in Tasks
    BY <1>1, <1>6 DEF DeletePackage, TypeOK, ThreadOK
  <2>2. (thread[x].found \/ package[Of(x)]) \in BOOLEAN
    BY <2>1 DEF TypeOK, DataOK, ThreadState, Of
  <2>3. \A b \in BOOLEAN : [thread[x] EXCEPT !.pc = "delRows", !.found = b] \in ThreadState
    BY <2>1 DEF ThreadState, ThreadPc
  <2>4. thread' \in [Threads -> ThreadState]
    BY <1>1, <1>6, <2>2, <2>3 DEF DeletePackage, TypeOK, ThreadOK
  <2> QED
    BY <1>1, <1>6, <2>1, <2>4 DEF DeletePackage, TypeOK, ThreadOK, ThreadState
<1>7. CASE DeletePackageFails(x)
  BY <1>1, <1>7, GoesType
     DEF DeletePackageFails, TypeOK, ThreadOK, ThreadPc, SavedPc, RebuildPc
<1>8. CASE DeleteRows(x)
  BY <1>1, <1>8, GoesType DEF DeleteRows, TypeOK, ThreadOK, ThreadPc, SavedPc, RebuildPc
<1>9. CASE DeleteUnlock(x)
  BY <1>1, <1>9, GoesType
     DEF DeleteUnlock, TypeOK, ThreadOK, ThreadPc, SavedPc, RebuildPc
<1>10. CASE DeleteUnmark(x)
  BY <1>1, <1>10, GoesType
     DEF DeleteUnmark, TypeOK, ThreadOK, ThreadPc, SavedPc, RebuildPc
<1>11. CASE RerunPlan(x)
  <2>1. thread[x].saved \in Recorded
    BY <1>1, <1>11 DEF RerunPlan, Goes, TypeOK, ThreadOK
  <2> QED
    BY <1>1, <1>11, <2>1, GoesType DEF RerunPlan, TypeOK, ThreadPc, RebuildPc
<1>12. CASE RerunMeta(x)
  BY <1>1, <1>12, GoesType DEF RerunMeta, TypeOK, ThreadOK, ThreadPc, SavedPc, RebuildPc
<1>13. CASE RerunStatus(x)
  BY <1>1, <1>13, GoesType
     DEF RerunStatus, TypeOK, ThreadOK, ThreadPc, SavedPc, RebuildPc
<1>14. CASE RebuildRead(x)
  BY <1>1, <1>14, GoesType
     DEF RebuildRead, TypeOK, ThreadOK, ThreadPc, SavedPc, RebuildPc, Of
<1>15. CASE RebuildRefuse(x)
  BY <1>1, <1>15, GoesType
     DEF RebuildRefuse, TypeOK, ThreadOK, ThreadPc, SavedPc, RebuildPc
<1>16. CASE RebuildPlan(x)
  BY <1>1, <1>16, GoesType
     DEF RebuildPlan, TypeOK, ThreadOK, ThreadPc, SavedPc, RebuildPc
<1>17. CASE RebuildStatus(x)
  BY <1>1, <1>17, GoesType
     DEF RebuildStatus, TypeOK, ThreadOK, ThreadPc, SavedPc, RebuildPc
<1>18. CASE DeviceSave(x)
  BY <1>1, <1>18, GoesType
     DEF DeviceSave, TypeOK, ThreadOK, ThreadPc, SavedPc, RebuildPc
<1> QED
  BY <1>2, <1>3, <1>4, <1>5, <1>6, <1>7, <1>8, <1>9, <1>10, <1>11, <1>12, <1>13, <1>14,
     <1>15, <1>16, <1>17, <1>18
     DEF HandlerNext, DeleteNext, RerunNext, RebuildNext

\* A handler keeps the types of rows, files and directories.
LEMMA HandlerData ==
  ASSUME TypeOK, NEW x \in Handlers, HandlerNext(x)
  PROVE  DataOK'
<1>1. x \in Threads
  BY DEF Threads
<1> USE DEF vars, db, disk, plans, ctl, env, hist
<1>2. CASE Put(x)
  BY <1>1, <1>2
     DEF Put, Goes, Of, TypeOK, DataOK, ThreadOK, ThreadState, Snapshot, Recorded,
         Status
<1>3. CASE DeleteEnter(x)
  BY <1>1, <1>3
     DEF DeleteEnter, Of, TypeOK, DataOK, ThreadOK, ThreadState, Snapshot, Recorded,
         Status
<1>4. CASE DeleteScene(x)
  BY <1>1, <1>4
     DEF DeleteScene, Of, TypeOK, DataOK, ThreadOK, ThreadState, Snapshot, Recorded,
         Status
<1>5. CASE DeleteSceneFails(x)
  BY <1>1, <1>5
     DEF DeleteSceneFails, Goes, Of, TypeOK, DataOK, ThreadOK, ThreadState, Snapshot,
         Recorded, Status
<1>6. CASE DeletePackage(x)
  BY <1>1, <1>6
     DEF DeletePackage, Of, TypeOK, DataOK, ThreadOK, ThreadState, Snapshot, Recorded,
         Status
<1>7. CASE DeletePackageFails(x)
  BY <1>1, <1>7
     DEF DeletePackageFails, Goes, Of, TypeOK, DataOK, ThreadOK, ThreadState, Snapshot,
         Recorded, Status
<1>8. CASE DeleteRows(x)
  BY <1>1, <1>8
     DEF DeleteRows, Goes, Of, TypeOK, DataOK, ThreadOK, ThreadState, Snapshot,
         Recorded, Status
<1>9. CASE DeleteUnlock(x)
  BY <1>1, <1>9
     DEF DeleteUnlock, Goes, TypeOK, DataOK, ThreadOK, ThreadState, Snapshot, Recorded,
         Status
<1>10. CASE DeleteUnmark(x)
  BY <1>1, <1>10
     DEF DeleteUnmark, Goes, Of, TypeOK, DataOK, ThreadOK, ThreadState, Snapshot,
         Recorded, Status
<1>11. CASE RerunPlan(x)
  BY <1>1, <1>11
     DEF RerunPlan, Goes, Of, TypeOK, DataOK, ThreadOK, ThreadState, Snapshot,
         Recorded, Status
<1>12. CASE RerunMeta(x)
  BY <1>1, <1>12, MetaType
     DEF RerunMeta, Goes, Of, TypeOK, DataOK, ThreadOK, ThreadState, Snapshot,
         Recorded, Status
<1>13. CASE RerunStatus(x)
  BY <1>1, <1>13, StatusType
     DEF RerunStatus, Goes, Of, TypeOK, DataOK, ThreadOK, ThreadState, Snapshot,
         Recorded, Status
<1>14. CASE RebuildRead(x)
  BY <1>1, <1>14
     DEF RebuildRead, Goes, Of, TypeOK, DataOK, ThreadOK, ThreadState, Snapshot,
         Recorded, Status
<1>15. CASE RebuildRefuse(x)
  BY <1>1, <1>15
     DEF RebuildRefuse, Goes, Of, TypeOK, DataOK, ThreadOK, ThreadState, Snapshot,
         Recorded, Status
<1>16. CASE RebuildPlan(x)
  BY <1>1, <1>16
     DEF RebuildPlan, Goes, Of, TypeOK, DataOK, ThreadOK, ThreadState, Snapshot,
         Recorded, Status
<1>17. CASE RebuildStatus(x)
  BY <1>1, <1>17, StatusType
     DEF RebuildStatus, Goes, Of, TypeOK, DataOK, ThreadOK, ThreadState, Snapshot,
         Recorded, Status
<1>18. CASE DeviceSave(x)
  BY <1>1, <1>18, MetaType
     DEF DeviceSave, Goes, Of, TypeOK, DataOK, ThreadOK, ThreadState, Snapshot,
         Recorded, Status
<1> QED
  BY <1>2, <1>3, <1>4, <1>5, <1>6, <1>7, <1>8, <1>9, <1>10, <1>11, <1>12, <1>13, <1>14,
     <1>15, <1>16, <1>17, <1>18
     DEF HandlerNext, DeleteNext, RerunNext, RebuildNext

\* A handler keeps the types of queue, marks, plans and lock.
LEMMA HandlerMemory ==
  ASSUME TypeOK, NEW x \in Handlers, HandlerNext(x)
  PROVE  MemoryOK'
<1>1. x \in Threads
  BY DEF Threads
<1> USE DEF vars, db, disk, plans, ctl, env, hist
<1>2. CASE Put(x)
  BY <1>1, <1>2 DEF Put, Goes, Of, TypeOK, MemoryOK, ThreadOK, ThreadState, RequestKinds
<1>3. CASE DeleteEnter(x)
  BY <1>1, <1>3
     DEF DeleteEnter, Of, TypeOK, MemoryOK, ThreadOK, ThreadState, RequestKinds
<1>4. CASE DeleteScene(x)
  BY <1>1, <1>4
     DEF DeleteScene, Of, TypeOK, MemoryOK, ThreadOK, ThreadState, RequestKinds
<1>5. CASE DeleteSceneFails(x)
  BY <1>1, <1>5
     DEF DeleteSceneFails, Goes, Of, TypeOK, MemoryOK, ThreadOK, ThreadState,
         RequestKinds
<1>6. CASE DeletePackage(x)
  BY <1>1, <1>6
     DEF DeletePackage, Of, TypeOK, MemoryOK, ThreadOK, ThreadState, RequestKinds
<1>7. CASE DeletePackageFails(x)
  BY <1>1, <1>7
     DEF DeletePackageFails, Goes, Of, TypeOK, MemoryOK, ThreadOK, ThreadState,
         RequestKinds
<1>8. CASE DeleteRows(x)
  BY <1>1, <1>8
     DEF DeleteRows, Goes, Of, TypeOK, MemoryOK, ThreadOK, ThreadState, RequestKinds
<1>9. CASE DeleteUnlock(x)
  BY <1>1, <1>9
     DEF DeleteUnlock, Goes, TypeOK, MemoryOK, ThreadOK, ThreadState, RequestKinds
<1>10. CASE DeleteUnmark(x)
  BY <1>1, <1>10
     DEF DeleteUnmark, Goes, Of, Deleters, TypeOK, MemoryOK, ThreadOK, ThreadState, RequestKinds
<1>11. CASE RerunPlan(x)
  BY <1>1, <1>11
     DEF RerunPlan, Goes, Of, TypeOK, MemoryOK, ThreadOK, ThreadState, RequestKinds
<1>12. CASE RerunMeta(x)
  BY <1>1, <1>12
     DEF RerunMeta, Goes, Of, TypeOK, MemoryOK, ThreadOK, ThreadState, RequestKinds
<1>13. CASE RerunStatus(x)
  BY <1>1, <1>13
     DEF RerunStatus, Goes, Of, TypeOK, MemoryOK, ThreadOK, ThreadState, RequestKinds
<1>14. CASE RebuildRead(x)
  BY <1>1, <1>14
     DEF RebuildRead, Goes, Of, TypeOK, MemoryOK, ThreadOK, ThreadState, RequestKinds
<1>15. CASE RebuildRefuse(x)
  BY <1>1, <1>15
     DEF RebuildRefuse, Goes, Of, TypeOK, MemoryOK, ThreadOK, ThreadState, RequestKinds
<1>16. CASE RebuildPlan(x)
  BY <1>1, <1>16
     DEF RebuildPlan, Goes, Of, TypeOK, MemoryOK, ThreadOK, ThreadState, RequestKinds
<1>17. CASE RebuildStatus(x)
  BY <1>1, <1>17
     DEF RebuildStatus, Goes, Of, TypeOK, MemoryOK, ThreadOK, ThreadState, RequestKinds
<1>18. CASE DeviceSave(x)
  BY <1>1, <1>18
     DEF DeviceSave, Goes, Of, TypeOK, MemoryOK, ThreadOK, ThreadState, RequestKinds
<1> QED
  BY <1>2, <1>3, <1>4, <1>5, <1>6, <1>7, <1>8, <1>9, <1>10, <1>11, <1>12, <1>13, <1>14,
     <1>15, <1>16, <1>17, <1>18
     DEF HandlerNext, DeleteNext, RerunNext, RebuildNext

\* A handler does not touch the worker's variables.
LEMMA HandlerWorker ==
  ASSUME TypeOK, NEW x \in Handlers, HandlerNext(x)
  PROVE  UNCHANGED worker
  BY DEF HandlerNext, DeleteNext, RerunNext, RebuildNext, Put, DeleteEnter,
         DeleteScene, DeleteSceneFails, DeletePackage, DeletePackageFails, DeleteRows,
         DeleteUnlock, DeleteUnmark, RerunPlan, RerunMeta, RerunStatus, RebuildRead,
         RebuildRefuse, RebuildPlan, RebuildStatus, DeviceSave

\* A step of a handler thread preserves the types (delete, rerun, rebuild,
\* update_device_id).
LEMMA HandlerType ==
  ASSUME TypeOK, NEW x \in Handlers, HandlerNext(x)
  PROVE  TypeOK'
<1>1. WorkerOK'
  BY HandlerWorker DEF TypeOK, WorkerOK
<1> QED
  BY <1>1, HandlerThread, HandlerData, HandlerMemory DEF TypeOK

\* A step of the create endpoint after the row is reserved preserves the
\* types (create_task_v3).
LEMMA CreateType == TypeOK /\ CreateNext => TypeOK'
<1> SUFFICES ASSUME TypeOK, CreateNext PROVE TypeOK'
  OBVIOUS
<1>1. Loop \in Threads
  BY DEF Threads
<1>2. ThreadOK'
  BY <1>1, GoesType
     DEF CreateNext, CreateCopy, CreateCopyFails, CreateUndoRow, CreateUndoFiles, Put,
         TypeOK, ThreadPc, SavedPc, RebuildPc
<1>3. UNCHANGED worker
  BY DEF CreateNext, CreateCopy, CreateCopyFails, CreateUndoRow, CreateUndoFiles, Put
<1>4. DataOK'
  BY DEF CreateNext, CreateCopy, CreateCopyFails, CreateUndoRow, CreateUndoFiles, Put,
         db, disk, TypeOK, DataOK, Snapshot
<1>5. MemoryOK'
  <2>1. Of(Loop) \in Tasks
    BY <1>1
       DEF CreateNext, CreateCopy, CreateCopyFails, CreateUndoRow, CreateUndoFiles,
           Put, Goes, Of, TypeOK, ThreadOK
  <2>2. CASE Put(Loop)
    BY <2>1, <2>2 DEF Put, plans, env, TypeOK, MemoryOK
  <2>3. CASE ~Put(Loop)
    BY <2>3
       DEF CreateNext, CreateCopy, CreateCopyFails, CreateUndoRow, CreateUndoFiles,
           plans, ctl, env, hist, TypeOK, MemoryOK
  <2> QED
    BY <2>2, <2>3
<1> QED
  BY <1>2, <1>3, <1>4, <1>5 DEF TypeOK, WorkerOK

\* Taking a request preserves the types.
LEMMA RequestType == TypeOK /\ Request => TypeOK'
<1> SUFFICES ASSUME TypeOK, NEW t \in Tasks, NEW x \in Threads,
                    \/ CreateReserve(t) \/ CreateRestore(t)
                    \/ DeleteMark(x, t) \/ RerunRead(x, t)
                    \/ RebuildCheck(x, t) \/ DeviceRead(x, t)
             PROVE  TypeOK'
  BY DEF Request, Threads
<1>1. Loop \in Threads
  BY DEF Threads
<1>2. UNCHANGED worker
  BY DEF CreateReserve, CreateRestore, DeleteMark, RerunRead, RebuildCheck,
         DeviceRead
<1>3. ThreadOK'
  <2>1. CASE CreateReserve(t)
    BY <1>1, <2>1, BeginType
       DEF CreateReserve, TypeOK, ThreadPc, SavedPc, RebuildPc, Snapshot
  <2>2. CASE CreateRestore(t)
    BY <2>2 DEF CreateRestore, TypeOK, ThreadOK
  <2>3. CASE DeleteMark(x, t)
    BY <1>1, <2>3, BeginType
       DEF DeleteMark, TypeOK, ThreadPc, SavedPc, RebuildPc, Snapshot
  <2>4. CASE RerunRead(x, t)
    <3>1. SceneOrRow(t) \in Recorded
      BY <2>4 DEF RerunRead, SceneOrRow, TypeOK, DataOK, Snapshot
    <3> QED
      BY <1>1, <2>4, <3>1, BeginType
         DEF RerunRead, TypeOK, ThreadPc, SavedPc, RebuildPc, Snapshot
  <2>5. CASE RebuildCheck(x, t)
    BY <1>1, <2>5, BeginType
       DEF RebuildCheck, TypeOK, ThreadPc, SavedPc, RebuildPc, Snapshot
  <2>6. CASE DeviceRead(x, t)
    <3>1. meta[t] \in Recorded
      BY <2>6, AbsentOrRecorded DEF DeviceRead, TypeOK, DataOK, Terminal
    <3> QED
      BY <1>1, <2>6, <3>1, BeginType
         DEF DeviceRead, TypeOK, ThreadPc, SavedPc, RebuildPc, Snapshot
  <2> QED
    BY <2>1, <2>2, <2>3, <2>4, <2>5, <2>6
<1>4. DataOK'
  <2>1. CASE CreateReserve(t)
    <3>1. [status |-> "pending", created |-> clock + 1, run |-> 0] \in Recorded
      BY DEF TypeOK, MemoryOK, Recorded, Status
    <3> QED
      BY <2>1, <3>1 DEF CreateReserve, TypeOK, DataOK, Snapshot
  <2>2. CASE ~CreateReserve(t)
    BY <2>2 DEF CreateRestore, DeleteMark, RerunRead, RebuildCheck, DeviceRead,
                db, disk, TypeOK, DataOK
  <2> QED
    BY <2>1, <2>2
<1>5. MemoryOK'
  BY DEF CreateReserve, CreateRestore, DeleteMark, RerunRead, RebuildCheck,
         DeviceRead, Begin, db, disk, plans, ctl, env, hist, TypeOK, MemoryOK
<1> QED
  BY <1>2, <1>3, <1>4, <1>5 DEF TypeOK, WorkerOK

\* Every reachable state has the types the code's records have.
THEOREM TypeCorrect == Spec => []TypeOK
<1>1. Init => TypeOK
  <2> SUFFICES ASSUME Init PROVE TypeOK
    OBVIOUS
  <2>1. DataOK
    BY DEF Init, DataOK, Snapshot
  <2>2. retold \in BOOLEAN
    BY Zenon DEF Init
  <2>3. MemoryOK
    BY <2>2, BoundAssumption DEF Init, MemoryOK
  <2>4. WorkerOK
    BY DEF Init, WorkerOK, Snapshot, IdleWorker, WorkerState, WorkerPc, Plans, Terminal, AfterSweep
  <2>5. ThreadOK
    BY DEF Init, ThreadOK, Snapshot, IdleThread, ThreadState, ThreadPc, RequestKinds
  <2> QED
    BY <2>1, <2>3, <2>4, <2>5 DEF TypeOK
<1>2. TypeOK /\ [Next]_vars => TypeOK'
  <2> SUFFICES ASSUME TypeOK, [Next]_vars PROVE TypeOK'
    OBVIOUS
  <2>1. CASE UNCHANGED vars
    BY <2>1
       DEF vars, db, disk, plans, ctl, env, hist, TypeOK, DataOK, MemoryOK, WorkerOK,
           ThreadOK
  <2> QED
    BY <2>1, WorkerType, CreateType, HandlerType, RequestType DEF Next
<1> QED
  BY <1>1, <1>2, PTL DEF Spec

-----------------------------------------------------------------------------
(* Mutual exclusion.                                                       *)

\* Whoever is inside holds the execution lock.
LockOwner ==
  /\ WorkerInside => lock = Worker
  /\ \A x \in Handlers : DeleteInside(x) => lock = x

\* The worker enters with the lock free and keeps it until WorkerLeave.
LEMMA LockOwnerWorker == TypeOK /\ LockOwner /\ WorkerNext => LockOwner'
<1> SUFFICES ASSUME TypeOK, LockOwner, WorkerNext PROVE LockOwner'
  OBVIOUS
<1> USE DEF LockOwner, WorkerInside, InSweep, DeleteInside, ctl, T, Step
<1>0. worker \in WorkerState /\ \A x \in Handlers : x # None /\ x # Worker
  BY ThreadAssumption DEF TypeOK, WorkerOK, Threads
<1>1. CASE Dequeueing
  <2>1. CASE WorkerGet
    BY <1>0, <2>1 DEF WorkerGet, WorkerState
  <2>2. CASE WorkerSkip
    BY <1>0, <2>2 DEF WorkerSkip, IdleWorker, WorkerState
  <2>3. CASE WorkerClaim
    BY <1>0, <2>3 DEF WorkerClaim, WorkerState
  <2>4. CASE WorkerEnter
    BY <1>0, <2>4 DEF WorkerEnter, LockFree, WorkerState
  <2> QED
    BY <1>1, <2>1, <2>2, <2>3, <2>4 DEF Dequeueing
<1>2. CASE Executing
  BY <1>0, <1>2
     DEF Executing, WorkerStart, WorkerStamp, WorkerTakePlans, WorkerRun, WorkerRules, WorkerStage,
         WorkerSwap, WorkerIncremental, WorkerRaises, AfterRules
<1>3. CASE Publishing
  BY <1>0, <1>3
     DEF Publishing, WorkerPublish, WorkerPublishFile, WorkerPublishRaises,
         WorkerRollback, WorkerRelease, WorkerMirror, WorkerChecksum,
         WorkerChecksumFails
<1>4. CASE Sweeping
  <2>1. CASE WorkerSweep
    BY <1>0, <2>1 DEF WorkerSweep, WorkerState, AfterSweep
  <2>2. CASE WorkerSweepUploads
    BY <1>0, <2>2 DEF WorkerSweepUploads, WorkerState, AfterSweep
  <2>3. CASE WorkerSweepUploaded
    BY <1>0, <2>3 DEF WorkerSweepUploaded, WorkerState, AfterSweep
  <2>4. CASE WorkerSweepOutput
    BY <1>0, <2>4 DEF WorkerSweepOutput, WorkerState, AfterSweep
  <2>5. CASE WorkerSwept
    BY <1>0, <2>5 DEF WorkerSwept, WorkerState, AfterSweep, IdleWorker
  <2> QED
    BY <1>4, <2>1, <2>2, <2>3, <2>4, <2>5 DEF Sweeping
<1>5. CASE Closing
  <2>1. CASE WorkerFinish
    BY <1>0, <2>1 DEF WorkerFinish, WorkerState, AfterSweep
  <2>2. CASE WorkerRaise
    BY <1>0, <2>2 DEF WorkerRaise, WorkerState, AfterSweep
  <2>3. CASE WorkerFailFile
    BY <1>0, <2>3 DEF WorkerFailFile, WorkerState, AfterSweep
  <2>4. CASE WorkerLeave
    BY <1>0, <2>4 DEF WorkerLeave, WorkerState, AfterSweep
  <2>5. CASE WorkerClear
    BY <1>0, <2>5 DEF WorkerClear, WorkerState, AfterSweep, IdleWorker
  <2>6. CASE WorkerLog
    BY <1>0, <2>6 DEF WorkerLog, WorkerState, AfterSweep
  <2>7. CASE WorkerRefinish
    BY <1>0, <2>7 DEF WorkerRefinish, WorkerState, AfterSweep
  <2> QED
    BY <1>5, <2>1, <2>2, <2>3, <2>4, <2>5, <2>6, <2>7 DEF Closing
<1> QED
  BY <1>1, <1>2, <1>3, <1>4, <1>5 DEF WorkerNext

\* A deletion enters with the lock free and keeps it until DeleteUnlock.
LEMMA LockOwnerHandler ==
  ASSUME TypeOK, LockOwner, NEW h \in Handlers, HandlerNext(h)
  PROVE  LockOwner'
<1> USE DEF LockOwner, WorkerInside, InSweep, DeleteInside, ctl
<1>0. /\ Worker # None /\ None \notin Handlers /\ h # None /\ h # Worker
      /\ thread \in [Threads -> ThreadState] /\ h \in Threads /\ Handlers \subseteq Threads
  BY ThreadAssumption DEF TypeOK, ThreadOK, Threads
<1>1. CASE DeleteNext(h)
  <2>1. CASE DeleteEnter(h)
    BY <1>0, <2>1 DEF DeleteEnter, LockFree, ThreadState
  <2>2. CASE DeleteScene(h)
    BY <1>0, HandlerWorker, <2>2 DEF DeleteScene, ThreadState
  <2>3. CASE DeleteSceneFails(h)
    BY <1>0, HandlerWorker, <2>3 DEF DeleteSceneFails, Goes, IdleThread, ThreadState
  <2>4. CASE DeletePackage(h)
    BY <1>0, HandlerWorker, <2>4 DEF DeletePackage, ThreadState
  <2>5. CASE DeletePackageFails(h)
    BY <1>0, HandlerWorker, <2>5 DEF DeletePackageFails, Goes, IdleThread, ThreadState
  <2>6. CASE DeleteRows(h)
    BY <1>0, HandlerWorker, <2>6 DEF DeleteRows, Goes, IdleThread, ThreadState
  <2>7. CASE DeleteUnlock(h)
    BY <1>0, HandlerWorker, <2>7 DEF DeleteUnlock, Goes, IdleThread, ThreadState
  <2>8. CASE DeleteUnmark(h)
    BY <1>0, HandlerWorker, <2>8 DEF DeleteUnmark, Goes, IdleThread, ThreadState
  <2> QED
    BY <1>1, <2>1, <2>2, <2>3, <2>4, <2>5, <2>6, <2>7, <2>8 DEF DeleteNext
<1>2. CASE ~DeleteNext(h)
  BY <1>0, <1>2
     DEF HandlerNext, Put, RerunNext, RerunPlan, RerunMeta, RerunStatus, RebuildNext,
         RebuildRead, RebuildRefuse, RebuildPlan, RebuildStatus, DeviceSave, Goes,
         IdleThread, ThreadState
<1> QED
  BY <1>1, <1>2

\* Creations and new requests leave the lock alone.
LEMMA LockOwnerCreate == TypeOK /\ LockOwner /\ (CreateNext \/ Request) => LockOwner'
<1> SUFFICES ASSUME TypeOK, LockOwner, CreateNext \/ Request PROVE LockOwner'
  OBVIOUS
<1> USE DEF LockOwner, WorkerInside, InSweep, DeleteInside, ctl
<1>0. /\ Loop \notin Handlers /\ thread \in [Threads -> ThreadState]
      /\ Loop \in Threads /\ Handlers \subseteq Threads
  BY ThreadAssumption DEF TypeOK, ThreadOK, Threads
<1>1. CASE CreateNext
  BY <1>0, <1>1
     DEF CreateNext, CreateCopy, CreateCopyFails, CreateUndoRow, CreateUndoFiles, Put,
         Goes
<1>2. CASE Request
  <2> SUFFICES ASSUME NEW t \in Tasks, NEW x \in Threads,
                      \/ CreateReserve(t) \/ CreateRestore(t)
                      \/ DeleteMark(x, t) \/ RerunRead(x, t)
                      \/ RebuildCheck(x, t) \/ DeviceRead(x, t)
               PROVE  LockOwner'
    BY <1>2 DEF Request, Threads
  <2>1. UNCHANGED <<lock, worker>>
    BY DEF CreateReserve, CreateRestore, DeleteMark, RerunRead, RebuildCheck,
           DeviceRead
  <2>2. \A y \in Handlers : ~DeleteInside(y) => ~DeleteInside(y)'
    <3>1. CASE CreateRestore(t)
      BY <3>1 DEF CreateRestore
    <3>2. CASE ~CreateRestore(t)
      <4>1. PICK z \in Threads, kind \in RequestKinds, saved \in Snapshot,
                 pc \in {"copy", "delWait", "rerunPlan", "rebuildRead", "deviceSave"} :
              Begin(z, kind, t, pc, saved)
        BY <1>0, <3>2
           DEF CreateReserve, DeleteMark, RerunRead, RebuildCheck, DeviceRead,
               RequestKinds, Snapshot, SceneOrRow, TypeOK, DataOK
      <4> QED
        BY <1>0, <4>1, BeginEffect DEF TypeOK
    <3> QED
      BY <3>1, <3>2
  <2> QED
    BY <2>1, <2>2
<1> QED
  BY <1>1, <1>2

\* Whoever is inside the execution lock owns it.
LEMMA OwnedLock == Spec => []LockOwner
<1>1. Init => LockOwner
  BY ThreadAssumption
     DEF Init, LockOwner, WorkerInside, InSweep, DeleteInside, IdleWorker, IdleThread,
         Threads
<1>2. TypeOK /\ LockOwner /\ [Next]_vars => LockOwner'
  <2>1. ASSUME TypeOK, LockOwner, UNCHANGED vars PROVE LockOwner'
    BY <2>1 DEF vars, ctl, LockOwner, WorkerInside, InSweep, DeleteInside
  <2> QED
    BY <2>1, LockOwnerWorker, LockOwnerHandler, LockOwnerCreate DEF Next
<1> QED
  BY <1>1, <1>2, TypeCorrect, PTL DEF Spec

\* Runs and deletions exclude each other, for any number of handlers.
THEOREM MutualExclusion == Spec => []RunsAndDeletesExclude
<1>1. LockOwner => RunsAndDeletesExclude
  BY ThreadAssumption DEF LockOwner, RunsAndDeletesExclude, Threads
<1> QED
  BY <1>1, OwnedLock, PTL
-----------------------------------------------------------------------------
(* Claims and deletion marks.                                              *)

\* A claimed task is the active one and has no mark.
ClaimInv == worker.pc \in Claimed => active = T /\ T \notin cancelled

\* The mark of a deletion stays as long as nobody dropped it.
MarkInv ==
  \A x \in Handlers : thread[x].pc \in DeletePc /\ x \notin unmarked => Of(x) \in cancelled

\* From the claim to the publication the worker keeps its task active and
\* drops no mark of another one.
LEMMA ClaimedWorker == TypeOK /\ ClaimInv /\ WorkerNext => ClaimInv'
<1> SUFFICES ASSUME TypeOK, ClaimInv, WorkerNext PROVE ClaimInv'
  OBVIOUS
<1> USE DEF ClaimInv, Claimed, ctl, T, Step
<1>0. worker \in WorkerState
  BY DEF TypeOK, WorkerOK
<1>1. CASE Dequeueing
  <2>1. CASE WorkerGet
    BY <1>0, <2>1 DEF WorkerGet, WorkerState
  <2>2. CASE WorkerSkip
    BY <2>2 DEF WorkerSkip, IdleWorker
  <2>3. CASE WorkerClaim
    BY <1>0, <2>3 DEF WorkerClaim, WorkerState
  <2>4. CASE WorkerEnter
    BY <1>0, <2>4 DEF WorkerEnter, WorkerState
  <2> QED
    BY <1>1, <2>1, <2>2, <2>3, <2>4 DEF Dequeueing
<1>2. CASE Executing
  <2>1. CASE WorkerStart
    BY <1>0, <2>1 DEF WorkerStart, WorkerState
  <2>1s. CASE WorkerStamp
    BY <1>0, <2>1s DEF WorkerStamp, WorkerState
  <2>2. CASE WorkerTakePlans
    BY <1>0, <2>2 DEF WorkerTakePlans, WorkerState
  <2>3. CASE WorkerRun
    BY <1>0, <2>3 DEF WorkerRun, WorkerState, WorkerRaises
  <2>4. CASE WorkerRules
    BY <1>0, <2>4 DEF WorkerRules, WorkerState, WorkerRaises, AfterRules
  <2>5. CASE WorkerStage
    BY <1>0, <2>5 DEF WorkerStage, WorkerState, WorkerRaises
  <2>6. CASE WorkerSwap
    BY <1>0, <2>6 DEF WorkerSwap, WorkerState
  <2>7. CASE WorkerIncremental
    BY <1>0, <2>7 DEF WorkerIncremental, WorkerState, WorkerRaises
  <2> QED
    BY <1>2, <2>1, <2>1s, <2>2, <2>3, <2>4, <2>5, <2>6, <2>7 DEF Executing
<1>3. CASE Publishing
  <2>1. CASE WorkerPublish
    BY <1>0, <2>1 DEF WorkerPublish, WorkerState
  <2>2. CASE WorkerPublishFile
    BY <1>0, <2>2 DEF WorkerPublishFile, WorkerState
  <2>3. CASE WorkerPublishRaises
    BY <1>0, <2>3 DEF WorkerPublishRaises, WorkerState
  <2>4. CASE WorkerRollback
    BY <1>0, <2>4 DEF WorkerRollback, WorkerState
  <2>5. CASE WorkerRelease
    BY <1>0, <2>5 DEF WorkerRelease, WorkerState
  <2>6. CASE WorkerMirror
    BY <1>0, <2>6 DEF WorkerMirror, WorkerState
  <2>7. CASE WorkerChecksum
    BY <1>0, <2>7 DEF WorkerChecksum, WorkerState
  <2>8. CASE WorkerChecksumFails
    BY <1>0, <2>8 DEF WorkerChecksumFails, WorkerState
  <2> QED
    BY <1>3, <2>1, <2>2, <2>3, <2>4, <2>5, <2>6, <2>7, <2>8 DEF Publishing
<1>4. CASE Sweeping
  <2>1. CASE WorkerSweep
    BY <1>0, <2>1 DEF WorkerSweep, WorkerState
  <2>2. CASE WorkerSweepUploads
    BY <1>0, <2>2 DEF WorkerSweepUploads, WorkerState
  <2>3. CASE WorkerSweepUploaded
    BY <1>0, <2>3 DEF WorkerSweepUploaded, WorkerState
  <2>4. CASE WorkerSweepOutput
    BY <1>0, <2>4 DEF WorkerSweepOutput, WorkerState
  <2>5. CASE WorkerSwept
    BY <1>0, <2>5 DEF WorkerSwept, WorkerState, AfterSweep, IdleWorker
  <2> QED
    BY <1>4, <2>1, <2>2, <2>3, <2>4, <2>5 DEF Sweeping
<1>5. CASE Closing
  <2>1. CASE WorkerFinish
    BY <1>0, <2>1 DEF WorkerFinish, WorkerState
  <2>2. CASE WorkerRaise
    BY <1>0, <2>2 DEF WorkerRaise, WorkerState
  <2>3. CASE WorkerFailFile
    BY <1>0, <2>3 DEF WorkerFailFile, WorkerState
  <2>4. CASE WorkerLeave
    BY <1>0, <2>4 DEF WorkerLeave, WorkerState
  <2>5. CASE WorkerClear
    BY <1>0, <2>5 DEF WorkerClear, WorkerState, IdleWorker
  <2>6. CASE WorkerLog
    BY <1>0, <2>6 DEF WorkerLog, WorkerState
  <2>7. CASE WorkerRefinish
    BY <1>0, <2>7 DEF WorkerRefinish, WorkerState
  <2> QED
    BY <1>5, <2>1, <2>2, <2>3, <2>4, <2>5, <2>6, <2>7 DEF Closing
<1> QED
  BY <1>1, <1>2, <1>3, <1>4, <1>5 DEF WorkerNext

\* Only DeleteMark sets a mark, and never one of the active task.
LEMMA ClaimedOthers ==
  ASSUME TypeOK, ClaimInv, Request \/ CreateNext \/ \E x \in Handlers : HandlerNext(x)
  PROVE  ClaimInv'
<1> USE DEF ctl
<1>1. CASE Request
  BY <1>1 DEF Request, CreateReserve, CreateRestore, DeleteMark, RerunRead, RebuildCheck, DeviceRead,
     ClaimInv, T
<1>2. CASE CreateNext
  BY <1>2 DEF CreateNext, CreateCopy, CreateCopyFails, CreateUndoRow, CreateUndoFiles, Put, ClaimInv, T
<1>3. ASSUME NEW x \in Handlers, HandlerNext(x) PROVE ClaimInv'
  <2>1. UNCHANGED worker
    BY <1>3, HandlerWorker
  <2>2. active' = active /\ cancelled' \subseteq cancelled
    BY <1>3
       DEF HandlerNext, DeleteNext, RerunNext, RebuildNext, Put, DeleteEnter, DeleteScene, DeleteSceneFails,
           DeletePackage, DeletePackageFails, DeleteRows, DeleteUnlock, DeleteUnmark, RerunPlan, RerunMeta,
           RerunStatus, RebuildRead, RebuildRefuse, RebuildPlan, RebuildStatus, DeviceSave
  <2> QED
    BY <2>1, <2>2 DEF ClaimInv, T
<1> QED
  BY <1>1, <1>2, <1>3

\* Whoever drops a mark records every deletion that loses it.
LEMMA MarksWorker ==
  ASSUME TypeOK, MarkInv, WorkerNext
  PROVE  MarkInv'
<1>1. UNCHANGED thread
  BY WorkerThread
<1>2. CASE WorkerSkip
  BY <1>1, <1>2 DEF MarkInv, WorkerSkip, Deleters, Of
<1>3. CASE ~WorkerSkip
  <2>1. UNCHANGED <<cancelled, unmarked>>
    BY <1>3 DEF WorkerNext, Dequeueing, Executing, Publishing, Sweeping, Closing,
       WorkerGet, WorkerClaim, WorkerEnter, Step, WorkerRaises, ctl, hist,
       WorkerStart, WorkerStamp, WorkerTakePlans, WorkerRun, WorkerRules, WorkerStage,
       WorkerSwap, WorkerIncremental, WorkerPublish, WorkerPublishFile, WorkerPublishRaises,
       WorkerRollback, WorkerRelease, WorkerMirror, WorkerChecksum, WorkerChecksumFails,
       WorkerSweep, WorkerSweepUploads, WorkerSweepUploaded, WorkerSweepOutput, WorkerSwept,
       WorkerFinish, WorkerRaise, WorkerFailFile, WorkerLeave, WorkerClear, WorkerLog,
       WorkerRefinish
  <2> QED
    BY <1>1, <2>1 DEF MarkInv, Of
<1> QED
  BY <1>2, <1>3

\* A deletion that is accepted has its mark; one that ends takes it along.
LEMMA MarksOthers ==
  ASSUME TypeOK, MarkInv, Request \/ CreateNext \/ \E x \in Handlers : HandlerNext(x)
  PROVE  MarkInv'
<1>0. thread \in [Threads -> ThreadState] /\ Handlers \subseteq Threads /\ Loop \notin Handlers
  BY ThreadAssumption DEF TypeOK, ThreadOK, Threads
<1> USE DEF MarkInv, Of, DeletePc, ctl, hist, IdleThread, ThreadState
<1>1. CASE Request
  <2>1. PICK t \in Tasks : \/ CreateReserve(t) \/ CreateRestore(t)
                           \/ \E x \in Handlers :
                                DeleteMark(x, t) \/ RerunRead(x, t) \/ RebuildCheck(x, t)
                                \/ DeviceRead(x, t)
    BY <1>1 DEF Request
  <2>2. CASE CreateReserve(t) \/ CreateRestore(t)
    BY <1>0, <2>2 DEF CreateReserve, CreateRestore, Begin
  <2>3. ASSUME NEW x \in Handlers, DeleteMark(x, t) PROVE MarkInv'
    BY <1>0, <2>3 DEF DeleteMark, Begin
  <2>4. ASSUME NEW x \in Handlers, RerunRead(x, t) PROVE MarkInv'
    BY <1>0, <2>4 DEF RerunRead, Begin
  <2>5. ASSUME NEW x \in Handlers, RebuildCheck(x, t) PROVE MarkInv'
    BY <1>0, <2>5 DEF RebuildCheck, Begin
  <2>6. ASSUME NEW x \in Handlers, DeviceRead(x, t) PROVE MarkInv'
    BY <1>0, <2>6 DEF DeviceRead, Begin
  <2> QED
    BY <2>1, <2>2, <2>3, <2>4, <2>5, <2>6
<1>2. CASE CreateNext
  BY <1>0, <1>2 DEF CreateNext, CreateCopy, CreateCopyFails, CreateUndoRow, CreateUndoFiles, Put, Goes
<1>3. ASSUME NEW x \in Handlers, HandlerNext(x) PROVE MarkInv'
  <2>1. CASE DeleteUnmark(x)
    BY <1>0, <2>1 DEF DeleteUnmark, Goes, Deleters
  <2>2. CASE DeleteEnter(x)
    BY <1>0, <2>2 DEF DeleteEnter
  <2>3. CASE DeleteScene(x)
    BY <1>0, <2>3 DEF DeleteScene
  <2>4. CASE DeletePackage(x)
    BY <1>0, <2>4 DEF DeletePackage
  <2>5. CASE DeleteSceneFails(x) \/ DeletePackageFails(x) \/ DeleteRows(x) \/ DeleteUnlock(x)
    BY <1>0, <2>5 DEF DeleteSceneFails, DeletePackageFails, DeleteRows, DeleteUnlock, Goes
  <2>6. CASE Put(x) \/ RerunNext(x) \/ RebuildNext(x) \/ DeviceSave(x)
    BY <1>0, <2>6
       DEF Put, RerunNext, RebuildNext, RerunPlan, RerunMeta, RerunStatus, RebuildRead,
           RebuildRefuse, RebuildPlan, RebuildStatus, DeviceSave, Goes
  <2> QED
    BY <1>3, <2>1, <2>2, <2>3, <2>4, <2>5, <2>6 DEF HandlerNext, DeleteNext
<1> QED
  BY <1>1, <1>2, <1>3

\* From its acceptance to its end a deletion and an execution of the same
\* task exclude each other, for any number of tasks and handlers, unless the
\* mark of the deletion was dropped with a queue entry or by another deletion
\* of the task (the state lock of _worker_loop and delete, tasks.py:182-185,
\* 901-904 and 933).
THEOREM CancelledNeverRuns == Spec => []NeverRunsCancelled
<1>1. Init => ClaimInv /\ MarkInv
  BY DEF Init, ClaimInv, MarkInv, Claimed, IdleWorker, IdleThread, DeletePc, Threads
<1>2. TypeOK /\ ClaimInv /\ [Next]_vars => ClaimInv'
  <2>1. ASSUME ClaimInv, UNCHANGED vars PROVE ClaimInv'
    BY <2>1 DEF vars, ctl, ClaimInv, T
  <2> QED
    BY <2>1, ClaimedWorker, ClaimedOthers DEF Next
<1>3. TypeOK /\ MarkInv /\ [Next]_vars => MarkInv'
  <2>1. ASSUME MarkInv, UNCHANGED vars PROVE MarkInv'
    BY <2>1 DEF vars, ctl, hist, MarkInv, Of
  <2> QED
    BY <2>1, MarksWorker, MarksOthers DEF Next
<1>4. ClaimInv /\ MarkInv => NeverRunsCancelled
  BY DEF ClaimInv, MarkInv, NeverRunsCancelled, Claims, T
<1> QED
  BY <1>1, <1>2, <1>3, <1>4, TypeCorrect, PTL DEF Spec
-----------------------------------------------------------------------------
(* What the next three theorems rest on: what the copies of a snapshot that *)
(* the worker and the threads carry may write into a row.                   *)

\* A snapshot about to be published or put back by a PATCH is terminal.
CopiesTerminal ==
  /\ worker.pc \in {"file", "release", "mirror"} => worker.published.status \in Terminal
  /\ \A x \in Threads : thread[x].pc = "deviceSave" => thread[x].saved.status \in Terminal

\* No task.json, and no copy that becomes one, says running.
FilesNeverRun ==
  /\ \A t \in Tasks : meta[t].status # "running"
  /\ worker.saved.status # "running" /\ worker.backup.status # "running"
  /\ \A x \in Threads : thread[x].pc = "delScene" => thread[x].saved.status # "running"

\* Where nobody asks for an incremental rebuild, nobody makes one.
NoIncremental ==
  /\ worker.plan # "incremental"
  /\ \A t \in Tasks : rebuildPlan[t] # "incremental"
  /\ \A x \in Threads : thread[x].mode # "incremental"

\* The row of the run under way carries its own start or none.
OwnStart ==
  /\ worker.pc \in {"stamp", "plans", "exec", "swap", "publish", "file"} => worker.started > 0
  /\ ~retold /\ worker.pc \in {"plans", "exec", "swap", "publish"} => row[T].run \in {0, worker.started}
  /\ ~retold /\ worker.pc = "file" => worker.published.run = worker.started

-----------------------------------------------------------------------------
(* Pending rows.                                                           *)

BeforeStart == {"got", "claimed", "start", "finish"}

\* The first entry of the queue goes to the worker, the others stay.
LEMMA QueueTail ==
  ASSUME NEW S, NEW q \in Seq(S), q # <<>>, NEW i \in 1 .. Len(q)
  PROVE  q[i] = Head(q) \/ \E j \in 1 .. Len(Tail(q)) : Tail(q)[j] = q[i]
<1>1. CASE i = 1
  BY <1>1
<1>2. CASE i # 1
  <2>1. i - 1 \in 1 .. Len(Tail(q)) /\ Tail(q)[i - 1] = q[i]
    BY <1>2
  <2> QED
    BY <2>1
<1> QED
  BY <1>1, <1>2

\* The worker makes a row pending only when it rolls a rebuild back, and lets
\* go of a pending row only when it discards its entry.
WorkerHolds(t) ==
  /\ row'[t].status = "pending" => row[t].status = "pending" \/ (worker'.task = t /\ worker'.pc = "finish")
  /\ row'[t].status = "pending" /\ worker.task = t /\ worker.pc \in BeforeStart
       => (worker'.task = t /\ worker'.pc \in BeforeStart) \/ t \in dropped'

LEMMA PendingRows ==
  ASSUME TypeOK, CopiesTerminal, WorkerNext, ~WorkerGet, NEW t \in Tasks
  PROVE  WorkerHolds(t)
<1> USE DEF WorkerHolds, BeforeStart, CopiesTerminal, T, Step, db, disk, hist
<1>0. /\ worker \in WorkerState /\ row \in [Tasks -> Snapshot]
      /\ worker.pc # "idle" => T \in Tasks
  BY DEF TypeOK, WorkerOK, DataOK
<1>1. CASE Dequeueing /\ ~WorkerGet
  <2>1. CASE WorkerSkip
    BY <1>0, <2>1 DEF WorkerSkip, WorkerState, Snapshot, Terminal, IdleWorker
  <2>2. CASE WorkerClaim
    BY <1>0, <2>2 DEF WorkerClaim, WorkerState, Snapshot, Terminal
  <2>3. CASE WorkerEnter
    BY <1>0, <2>3 DEF WorkerEnter, WorkerState, Snapshot, Terminal, HasRow
  <2> QED
    BY <1>1, <2>1, <2>2, <2>3 DEF Dequeueing
<1>2. CASE Executing
  <2>1. CASE WorkerStart
    BY <1>0, <2>1 DEF WorkerStart, WorkerState, Snapshot, Terminal, Started, WithStatus, HasRow
  <2>1s. CASE WorkerStamp
    BY <1>0, <2>1s DEF WorkerStamp, WorkerState, Snapshot, Terminal, HasRow
  <2>2. CASE WorkerTakePlans
    BY <1>0, <2>2 DEF WorkerTakePlans, WorkerState, Snapshot, Terminal
  <2>3. CASE WorkerRun
    BY <1>0, <2>3 DEF WorkerRun, WorkerState, Snapshot, Terminal, WorkerRaises, EnsureRow, HasRow
  <2>4. CASE WorkerRules
    BY <1>0, <2>4 DEF WorkerRules, WorkerState, Snapshot, Terminal, WorkerRaises, AfterRules
  <2>5. CASE WorkerStage
    BY <1>0, <2>5 DEF WorkerStage, WorkerState, Snapshot, Terminal, WorkerRaises, EnsureRow, HasRow
  <2>6. CASE WorkerSwap
    BY <1>0, <2>6 DEF WorkerSwap, WorkerState, Snapshot, Terminal
  <2>7. CASE WorkerIncremental
    BY <1>0, <2>7 DEF WorkerIncremental, WorkerState, Snapshot, Terminal, WorkerRaises
  <2> QED
    BY <1>2, <2>1, <2>1s, <2>2, <2>3, <2>4, <2>5, <2>6, <2>7 DEF Executing
<1>3. CASE Publishing
  <2>1. CASE WorkerPublish
    BY <1>0, <2>1 DEF WorkerPublish, WorkerState, Snapshot, Terminal, PublishedSnapshot
  <2>2. CASE WorkerPublishFile
    BY <1>0, <2>2 DEF WorkerPublishFile, WorkerState, Snapshot, Terminal, SaveTaskMeta, Upserted
  <2>3. CASE WorkerPublishRaises
    BY <1>0, <2>3 DEF WorkerPublishRaises, WorkerState, Snapshot, Terminal
  <2>4. CASE WorkerRollback
    BY <1>0, <2>4 DEF WorkerRollback, WorkerState, Snapshot, Terminal, RolledBack
  <2>5. CASE WorkerRelease
    BY <1>0, <2>5 DEF WorkerRelease, WorkerState, Snapshot, Terminal
  <2>6. CASE WorkerMirror
    BY <1>0, <2>6 DEF WorkerMirror, WorkerState, Snapshot, Terminal, Upserted
  <2>7. CASE WorkerChecksum
    BY <1>0, <2>7 DEF WorkerChecksum, WorkerState, Snapshot, Terminal
  <2>8. CASE WorkerChecksumFails
    BY <1>0, <2>8 DEF WorkerChecksumFails, WorkerState, Snapshot, Terminal
  <2> QED
    BY <1>3, <2>1, <2>2, <2>3, <2>4, <2>5, <2>6, <2>7, <2>8 DEF Publishing
<1>4. CASE Sweeping
  <2>1. CASE WorkerSweep
    BY <1>0, <2>1 DEF WorkerSweep, WorkerState, Snapshot, Terminal
  <2>2. CASE WorkerSweepUploads
    BY <1>0, <2>2 DEF WorkerSweepUploads, WorkerState, Snapshot, Terminal
  <2>3. CASE WorkerSweepUploaded
    BY <1>0, <2>3 DEF WorkerSweepUploaded, WorkerState, Snapshot, Terminal
  <2>4. CASE WorkerSweepOutput
    BY <1>0, <2>4 DEF WorkerSweepOutput, WorkerState, Snapshot, Terminal
  <2>5. CASE WorkerSwept
    BY <1>0, <2>5 DEF WorkerSwept, WorkerState, Snapshot, Terminal, AfterSweep, IdleWorker
  <2> QED
    BY <1>4, <2>1, <2>2, <2>3, <2>4, <2>5 DEF Sweeping
<1>5. CASE Closing
  <2>1. CASE WorkerFinish
    BY <1>0, <2>1 DEF WorkerFinish, WorkerState, Snapshot, Terminal, WithStatus, HasRow
  <2>2. CASE WorkerRaise
    BY <1>0, <2>2 DEF WorkerRaise, WorkerState, Snapshot, Terminal, WithStatus, HasRow
  <2>3. CASE WorkerFailFile
    BY <1>0, <2>3 DEF WorkerFailFile, WorkerState, Snapshot, Terminal, SaveTaskMeta, Upserted
  <2>4. CASE WorkerLeave
    BY <1>0, <2>4 DEF WorkerLeave, WorkerState, Snapshot, Terminal
  <2>5. CASE WorkerClear
    BY <1>0, <2>5 DEF WorkerClear, WorkerState, Snapshot, Terminal, IdleWorker
  <2>6. CASE WorkerLog
    BY <1>0, <2>6 DEF WorkerLog, WorkerState, Snapshot, Terminal
  <2>7. CASE WorkerRefinish
    BY <1>0, <2>7 DEF WorkerRefinish, WorkerState, Snapshot, Terminal, WithStatus, HasRow
  <2> QED
    BY <1>5, <2>1, <2>2, <2>3, <2>4, <2>5, <2>6, <2>7 DEF Closing
<1> QED
  BY <1>1, <1>2, <1>3, <1>4, <1>5 DEF WorkerNext
\* The worker leaves the threads alone, and takes one entry of the queue.
LEMMA WorkerQueue ==
  ASSUME TypeOK, WorkerNext
  PROVE  /\ UNCHANGED thread /\ dropped \subseteq dropped'
         /\ ~WorkerGet => queue' = queue
  BY DEF WorkerNext, Dequeueing, Executing, Publishing, Sweeping, Closing,
     WorkerGet, WorkerSkip, WorkerClaim, WorkerEnter,
     WorkerStart, WorkerStamp, WorkerTakePlans, WorkerRun, WorkerRules, WorkerStage, WorkerSwap, WorkerIncremental,
     WorkerPublish, WorkerPublishFile, WorkerPublishRaises, WorkerRollback, WorkerRelease, WorkerMirror, WorkerChecksum, WorkerChecksumFails,
     WorkerSweep, WorkerSweepUploads, WorkerSweepUploaded, WorkerSweepOutput, WorkerSwept,
     WorkerFinish, WorkerRaise, WorkerFailFile, WorkerLeave, WorkerClear, WorkerLog, WorkerRefinish,
     WorkerRaises, ctl, hist

\* The worker holds every pending row it has taken, or discards its entry.
LEMMA PendingWorker ==
  ASSUME TypeOK, CopiesTerminal, PendingIsHeld, WorkerNext
  PROVE  PendingIsHeld'
<1> SUFFICES ASSUME NEW t \in Tasks, row'[t].status = "pending"
             PROVE  Queued(t)' \/ InHand(t)' \/ t \in dropped'
  BY DEF PendingIsHeld
<1>1. UNCHANGED thread /\ dropped \subseteq dropped' /\ queue \in Seq(Tasks)
  BY WorkerQueue DEF TypeOK, MemoryOK
<1>2. CASE WorkerGet
  <2>1. /\ worker.pc = "idle" /\ worker' = [worker EXCEPT !.pc = "got", !.task = Head(queue)]
        /\ row' = row /\ queue # <<>> /\ queue' = Tail(queue)
    BY <1>2 DEF WorkerGet, db
  <2>2. worker'.pc = "got" /\ worker'.task = Head(queue)
    BY <2>1 DEF TypeOK, WorkerOK, WorkerState
  <2>3. Queued(t) \/ InHand(t) \/ t \in dropped
    BY <2>1 DEF PendingIsHeld
  <2>4. CASE Queued(t)
    <3>1. PICK i \in 1 .. Len(queue) : queue[i] = t
      BY <2>4 DEF Queued
    <3>2. t = Head(queue) \/ \E j \in 1 .. Len(Tail(queue)) : Tail(queue)[j] = t
      BY <1>1, <2>1, <3>1, QueueTail
    <3> QED
      BY <2>1, <2>2, <3>2 DEF Queued, InHand
  <2>5. CASE InHand(t)
    BY <1>1, <2>1, <2>5 DEF InHand, Of
  <2> QED
    BY <1>1, <2>3, <2>4, <2>5
<1>3. CASE ~WorkerGet
  <2>1. WorkerHolds(t) /\ queue' = queue
    BY <1>3, PendingRows, WorkerQueue
  <2>2. (row[t].status = "pending" /\ (Queued(t) \/ InHand(t) \/ t \in dropped)) \/ (worker'.task = t /\ worker'.pc = "finish")
    BY <2>1 DEF WorkerHolds, PendingIsHeld
  <2>3. Queued(t) => Queued(t)'
    BY <2>1 DEF Queued
  <2>4. InHand(t) => InHand(t)' \/ t \in dropped'
    BY <1>1, <2>1 DEF InHand, Of, WorkerHolds, BeforeStart
  <2>5. worker'.task = t /\ worker'.pc = "finish" => InHand(t)'
    BY DEF InHand
  <2> QED
    BY <1>1, <2>2, <2>3, <2>4, <2>5
<1> QED
  BY <1>2, <1>3

\* What a step of a thread does to the rows it can disturb: it makes only its
\* own task pending and then holds it, and lets go of it only into the queue.
Holding(x) == thread[x].pc \in {"copy", "undoRow", "rerunStatus", "put"}

ThreadHolds(x) ==
  /\ UNCHANGED worker
  /\ \A y \in Threads : y # x => thread'[y] = thread[y]
  /\ \A t \in Tasks : row'[t].status = "pending" => row[t].status = "pending" \/ (thread'[x].task = t /\ Holding(x)')
  /\ \/ queue' = queue /\ dropped' = dropped
     \/ queue' = Append(queue, Of(x)) /\ dropped' = dropped \ {Of(x)}
  /\ Holding(x) => \/ Holding(x)' /\ thread'[x].task = Of(x)
                   \/ queue' = Append(queue, Of(x))
                   \/ row'[Of(x)] = Absent

LEMMA PendingThread ==
  ASSUME TypeOK, CopiesTerminal, PendingIsHeld, NEW x \in Threads, ThreadHolds(x)
  PROVE  PendingIsHeld'
<1> SUFFICES ASSUME NEW t \in Tasks, row'[t].status = "pending"
             PROVE  Queued(t)' \/ InHand(t)' \/ t \in dropped'
  BY DEF PendingIsHeld
<1>1. queue \in Seq(Tasks)
  BY DEF TypeOK, MemoryOK
<1>2. CASE thread'[x].task = t /\ Holding(x)'
  BY <1>2 DEF InHand, Of, Holding
<1>3. CASE queue' = Append(queue, t)
  <2>1. Len(queue') \in 1 .. Len(queue') /\ queue'[Len(queue')] = t
    BY <1>1, <1>3
  <2> QED
    BY <2>1 DEF Queued
<1>4. CASE row[t].status = "pending" /\ queue' # Append(queue, t) /\ ~(thread'[x].task = t /\ Holding(x)')
  <2>1. Queued(t) \/ InHand(t) \/ t \in dropped
    BY <1>4 DEF PendingIsHeld
  <2>2. Queued(t) => Queued(t)'
    <3> SUFFICES ASSUME Queued(t) PROVE Queued(t)'
      OBVIOUS
    <3>1. PICK i \in 1 .. Len(queue) : queue[i] = t
      BY DEF Queued
    <3>2. i \in 1 .. Len(queue') /\ queue'[i] = t
      BY <1>1, <3>1 DEF ThreadHolds
    <3> QED
      BY <3>2 DEF Queued
  <2>3. t \in dropped => t \in dropped'
    BY <1>4 DEF ThreadHolds
  <2>4. InHand(t) => InHand(t)'
    <3>1. Of(x) = t /\ Holding(x) => FALSE
      BY <1>4 DEF ThreadHolds, Absent, Of
    <3> QED
      BY <3>1 DEF ThreadHolds, InHand, Holding, Of
  <2> QED
    BY <2>1, <2>2, <2>3, <2>4
<1> QED
  BY <1>2, <1>3, <1>4 DEF ThreadHolds
LEMMA HandlerHolds ==
  ASSUME TypeOK, CopiesTerminal, NEW x \in Handlers, HandlerNext(x)
  PROVE  ThreadHolds(x)
<1> USE DEF ThreadHolds, Holding, Of, db, ctl, hist
<1>0. /\ x \in Threads /\ thread \in [Threads -> ThreadState] /\ row \in [Tasks -> Snapshot]
      /\ thread[x].pc # "idle" => thread[x].task \in Tasks
      /\ thread[x].pc = "deviceSave" => thread[x].saved.status \in Terminal
  BY DEF TypeOK, ThreadOK, DataOK, Threads, CopiesTerminal
<1>1. CASE Put(x)
  BY <1>0, <1>1 DEF Put, Goes, IdleThread, ThreadState, Snapshot
<1>2. CASE DeleteEnter(x)
  BY <1>0, <1>2 DEF DeleteEnter, ThreadState, Snapshot
<1>3. CASE DeleteScene(x)
  BY <1>0, <1>3 DEF DeleteScene, ThreadState, Snapshot
<1>4. CASE DeleteSceneFails(x)
  BY <1>0, <1>4 DEF DeleteSceneFails, Goes, IdleThread, ThreadState, Snapshot
<1>5. CASE DeletePackage(x)
  BY <1>0, <1>5 DEF DeletePackage, ThreadState, Snapshot
<1>6. CASE DeletePackageFails(x)
  BY <1>0, <1>6 DEF DeletePackageFails, Goes, IdleThread, ThreadState, Snapshot
<1>7. CASE DeleteRows(x)
  BY <1>0, <1>7 DEF DeleteRows, Goes, IdleThread, ThreadState, Snapshot, Absent
<1>8. CASE DeleteUnlock(x)
  BY <1>0, <1>8 DEF DeleteUnlock, Goes, IdleThread, ThreadState, Snapshot
<1>9. CASE DeleteUnmark(x)
  BY <1>0, <1>9 DEF DeleteUnmark, Goes, IdleThread, ThreadState, Snapshot
<1>10. CASE RerunPlan(x)
  BY <1>0, <1>10 DEF RerunPlan, Goes, IdleThread, ThreadState, Snapshot
<1>11. CASE RerunMeta(x)
  BY <1>0, <1>11 DEF RerunMeta, Goes, IdleThread, ThreadState, Snapshot, SaveTaskMeta, Upserted
<1>12. CASE RerunStatus(x)
  BY <1>0, <1>12 DEF RerunStatus, Goes, IdleThread, ThreadState, Snapshot, WithStatus, HasRow
<1>13. CASE RebuildRead(x)
  BY <1>0, <1>13 DEF RebuildRead, Goes, IdleThread, ThreadState, Snapshot
<1>14. CASE RebuildRefuse(x)
  BY <1>0, <1>14 DEF RebuildRefuse, Goes, IdleThread, ThreadState, Snapshot
<1>15. CASE RebuildPlan(x)
  BY <1>0, <1>15 DEF RebuildPlan, Goes, IdleThread, ThreadState, Snapshot
<1>16. CASE RebuildStatus(x)
  BY <1>0, <1>16 DEF RebuildStatus, Goes, IdleThread, ThreadState, Snapshot, WithStatus, HasRow
<1>17. CASE DeviceSave(x)
  BY <1>0, <1>17 DEF DeviceSave, Goes, IdleThread, ThreadState, Snapshot, SaveTaskMeta, Upserted, Terminal
<1> QED
  BY <1>1, <1>2, <1>3, <1>4, <1>5, <1>6, <1>7, <1>8, <1>9, <1>10, <1>11, <1>12, <1>13, <1>14, <1>15, <1>16, <1>17
     DEF HandlerNext, DeleteNext, RerunNext, RebuildNext

LEMMA CreateHolds ==
  ASSUME TypeOK, CreateNext
  PROVE  ThreadHolds(Loop)
<1> USE DEF ThreadHolds, Holding, Of, Goes, IdleThread, db, ctl, hist
<1>0. /\ Loop \in Threads /\ thread \in [Threads -> ThreadState] /\ row \in [Tasks -> Snapshot]
      /\ thread[Loop].pc # "idle" => thread[Loop].task \in Tasks
  BY DEF TypeOK, ThreadOK, DataOK, Threads
<1>1. CASE CreateCopy \/ CreateCopyFails
  BY <1>0, <1>1 DEF CreateCopy, CreateCopyFails, ThreadState
<1>2. CASE CreateUndoRow
  BY <1>0, <1>2 DEF CreateUndoRow, ThreadState, Absent
<1>3. CASE CreateUndoFiles
  BY <1>0, <1>3 DEF CreateUndoFiles, ThreadState
<1>4. CASE Put(Loop)
  BY <1>0, <1>4 DEF Put, ThreadState
<1> QED
  BY <1>1, <1>2, <1>3, <1>4 DEF CreateNext

LEMMA LoopHolds ==
  ASSUME TypeOK, NEW t \in Tasks, CreateReserve(t) \/ CreateRestore(t)
  PROVE  \E y \in Threads : ThreadHolds(y)
<1> USE DEF Holding, Of, db, ctl, hist
<1>0. ThreadOK /\ Loop \in Threads /\ row \in [Tasks -> Snapshot]
  BY DEF TypeOK, DataOK, Threads
<1>1. CASE CreateReserve(t)
  <2>1. /\ thread[Loop].pc = "idle" /\ thread'[Loop].pc = "copy" /\ thread'[Loop].task = t
        /\ \A y \in Threads : y # Loop => thread'[y] = thread[y]
    BY <1>0, <1>1, BeginEffect DEF CreateReserve
  <2> QED
    BY <1>0, <1>1, <2>1 DEF CreateReserve, ThreadHolds
<1>2. CASE CreateRestore(t)
  BY <1>0, <1>2 DEF CreateRestore, ThreadHolds
<1> QED
  BY <1>1, <1>2

LEMMA RequestHolds ==
  ASSUME TypeOK, NEW t \in Tasks, NEW x \in Handlers,
         DeleteMark(x, t) \/ RerunRead(x, t) \/ RebuildCheck(x, t) \/ DeviceRead(x, t)
  PROVE  ThreadHolds(x)
<1>1. ThreadOK /\ x \in Threads
  BY DEF TypeOK, Threads
<1>2. \E kind, pc, saved : Begin(x, kind, t, pc, saved)
  BY DEF DeleteMark, RerunRead, RebuildCheck, DeviceRead
<1>3. thread[x].pc = "idle" /\ \A y \in Threads : y # x => thread'[y] = thread[y]
  BY <1>1, <1>2, BeginEffect
<1>4. UNCHANGED <<row, queue, dropped, worker>>
  BY DEF DeleteMark, RerunRead, RebuildCheck, DeviceRead, db, ctl, hist
<1> QED
  BY <1>3, <1>4 DEF ThreadHolds, Holding
\* What is published, and what a PATCH puts back, is terminal.
LEMMA CopiesWorker ==
  ASSUME TypeOK, CopiesTerminal, WorkerNext
  PROVE  CopiesTerminal'
<1> USE DEF T, Step
<1>0. worker \in WorkerState /\ UNCHANGED thread
  BY WorkerQueue DEF TypeOK, WorkerOK
<1> SUFFICES ASSUME worker'.pc \in {"file", "release", "mirror"} PROVE worker'.published.status \in Terminal
  BY <1>0 DEF CopiesTerminal
<1>1. CASE WorkerPublish
  BY <1>0, <1>1 DEF WorkerPublish, PublishedSnapshot, WorkerState
<1>2. CASE WorkerPublishFile \/ WorkerRelease
  BY <1>0, <1>2 DEF WorkerPublishFile, WorkerRelease, WorkerState, CopiesTerminal
<1>3. CASE ~WorkerPublish /\ ~WorkerPublishFile /\ ~WorkerRelease
  <2>1. CASE Dequeueing
    <3>1. CASE WorkerGet
      BY <1>0, <3>1 DEF WorkerGet, WorkerState
    <3>2. CASE WorkerSkip
      BY <1>0, <3>2 DEF WorkerSkip, WorkerState, IdleWorker
    <3>3. CASE WorkerClaim
      BY <1>0, <3>3 DEF WorkerClaim, WorkerState
    <3>4. CASE WorkerEnter
      BY <1>0, <3>4 DEF WorkerEnter, WorkerState
    <3> QED
      BY <2>1, <3>1, <3>2, <3>3, <3>4 DEF Dequeueing
  <2>2. CASE Executing
    BY <1>0, <2>2 DEF Executing, WorkerStart, WorkerStamp, WorkerTakePlans, WorkerRun, WorkerRules, WorkerStage, WorkerSwap,
       WorkerIncremental, WorkerRaises, AfterRules, WorkerState
  <2>3. CASE Publishing
    BY <1>0, <1>3, <2>3 DEF Publishing, WorkerPublishRaises, WorkerRollback, WorkerMirror, WorkerChecksum,
       WorkerChecksumFails, WorkerState
  <2>4. CASE Sweeping
    <3>1. CASE WorkerSweep
      BY <1>0, <3>1 DEF WorkerSweep, WorkerState
    <3>2. CASE WorkerSweepUploads
      BY <1>0, <3>2 DEF WorkerSweepUploads, WorkerState
    <3>3. CASE WorkerSweepUploaded
      BY <1>0, <3>3 DEF WorkerSweepUploaded, WorkerState
    <3>4. CASE WorkerSweepOutput
      BY <1>0, <3>4 DEF WorkerSweepOutput, WorkerState
    <3>5. CASE WorkerSwept
      BY <1>0, <3>5 DEF WorkerSwept, WorkerState, AfterSweep, IdleWorker
    <3> QED
      BY <2>4, <3>1, <3>2, <3>3, <3>4, <3>5 DEF Sweeping
  <2>5. CASE Closing
    <3>1. CASE WorkerFinish
      BY <1>0, <3>1 DEF WorkerFinish, WorkerState
    <3>2. CASE WorkerRaise
      BY <1>0, <3>2 DEF WorkerRaise, WorkerState
    <3>3. CASE WorkerFailFile
      BY <1>0, <3>3 DEF WorkerFailFile, WorkerState
    <3>4. CASE WorkerLeave
      BY <1>0, <3>4 DEF WorkerLeave, WorkerState
    <3>5. CASE WorkerClear
      BY <1>0, <3>5 DEF WorkerClear, WorkerState, IdleWorker
    <3>6. CASE WorkerLog
      BY <1>0, <3>6 DEF WorkerLog, WorkerState
    <3>7. CASE WorkerRefinish
      BY <1>0, <3>7 DEF WorkerRefinish, WorkerState
    <3> QED
      BY <2>5, <3>1, <3>2, <3>3, <3>4, <3>5, <3>6, <3>7 DEF Closing
  <2> QED
    BY <2>1, <2>2, <2>3, <2>4, <2>5 DEF WorkerNext
<1> QED
  BY <1>1, <1>2, <1>3

LEMMA CopiesOthers ==
  ASSUME TypeOK, CopiesTerminal, Request \/ CreateNext \/ \E x \in Handlers : HandlerNext(x)
  PROVE  CopiesTerminal'
<1>0. /\ ThreadOK /\ thread \in [Threads -> ThreadState] /\ Loop \in Threads /\ Handlers \subseteq Threads
      /\ \A t \in Tasks : meta[t] \in Snapshot
  BY DEF TypeOK, ThreadOK, DataOK, Threads
<1> SUFFICES ASSUME UNCHANGED worker, NEW y \in Threads, thread'[y].pc = "deviceSave"
             PROVE  thread'[y].saved.status \in Terminal
  <2>1. UNCHANGED worker
    <3>1. Request \/ CreateNext => UNCHANGED worker
      BY DEF Request, CreateReserve, CreateRestore, DeleteMark, RerunRead, RebuildCheck, DeviceRead,
         CreateNext, CreateCopy, CreateCopyFails, CreateUndoRow, CreateUndoFiles, Put
    <3> QED
      BY <3>1, HandlerWorker
  <2> QED
    BY <2>1 DEF CopiesTerminal
<1>1. CASE thread'[y] = thread[y]
  BY <1>1 DEF CopiesTerminal
<1>2. ASSUME NEW x \in Handlers, HandlerNext(x) PROVE thread'[y] = thread[y]
  <2>1. x \in Threads /\ thread[x] \in ThreadState
    BY <1>0
  <2>2. CASE DeleteNext(x)
    BY <1>0, <2>1, <2>2
       DEF DeleteNext, DeleteEnter, DeleteScene, DeleteSceneFails, DeletePackage, DeletePackageFails, DeleteRows,
           DeleteUnlock, DeleteUnmark, Goes, IdleThread, ThreadState
  <2>3. CASE Put(x) \/ RerunNext(x) \/ RebuildNext(x) \/ DeviceSave(x)
    BY <1>0, <2>1, <2>3
       DEF Put, RerunNext, RebuildNext, RerunPlan, RerunMeta, RerunStatus, RebuildRead, RebuildRefuse, RebuildPlan,
           RebuildStatus, DeviceSave, Goes, IdleThread, ThreadState
  <2> QED
    BY <1>2, <2>2, <2>3 DEF HandlerNext
<1>3. CASE CreateNext
  BY <1>0, <1>1, <1>3 DEF CreateNext, CreateCopy, CreateCopyFails, CreateUndoRow, CreateUndoFiles, Put, Goes, IdleThread, ThreadState
<1>5. ASSUME NEW t \in Tasks, CreateReserve(t) \/ CreateRestore(t) PROVE thread'[y] = thread[y]
  <2>1. CASE CreateReserve(t)
    BY <1>0, <2>1, BeginEffect DEF CreateReserve
  <2>2. CASE CreateRestore(t)
    BY <2>2 DEF CreateRestore
  <2> QED
    BY <1>5, <2>1, <2>2
<1>4. ASSUME NEW t \in Tasks, NEW x \in Handlers,
             DeleteMark(x, t) \/ RerunRead(x, t) \/ RebuildCheck(x, t) \/ DeviceRead(x, t)
      PROVE  thread'[y].saved.status \in Terminal
  <2>3. CASE DeleteMark(x, t)
    BY <1>0, <1>1, <2>3, BeginEffect DEF DeleteMark
  <2>4. CASE RerunRead(x, t)
    BY <1>0, <1>1, <2>4, BeginEffect DEF RerunRead
  <2>5. CASE RebuildCheck(x, t)
    BY <1>0, <1>1, <2>5, BeginEffect DEF RebuildCheck
  <2>6. CASE DeviceRead(x, t)
    BY <1>0, <1>1, <2>6, BeginEffect DEF DeviceRead
  <2> QED
    BY <1>4, <2>3, <2>4, <2>5, <2>6
<1> QED
  BY <1>1, <1>2, <1>3, <1>4, <1>5 DEF Request

LEMMA PendingOthers ==
  ASSUME TypeOK, CopiesTerminal, PendingIsHeld, Request \/ CreateNext \/ \E x \in Handlers : HandlerNext(x)
  PROVE  PendingIsHeld'
<1>1. \E y \in Threads : ThreadHolds(y)
  <2>1. CASE CreateNext
    BY <2>1, CreateHolds DEF Threads
  <2>2. ASSUME NEW x \in Handlers, HandlerNext(x) PROVE \E y \in Threads : ThreadHolds(y)
    BY <2>2, HandlerHolds DEF Threads
  <2>3. ASSUME NEW t \in Tasks, NEW x \in Handlers,
               DeleteMark(x, t) \/ RerunRead(x, t) \/ RebuildCheck(x, t) \/ DeviceRead(x, t)
        PROVE  \E y \in Threads : ThreadHolds(y)
    BY <2>3, RequestHolds DEF Threads
  <2>4. ASSUME NEW t \in Tasks, CreateReserve(t) \/ CreateRestore(t) PROVE \E y \in Threads : ThreadHolds(y)
    BY <2>4, LoopHolds
  <2> QED
    BY <2>1, <2>2, <2>3, <2>4 DEF Request
<1> QED
  BY <1>1, PendingThread

\* A pending row is always queued or in somebody's hands, or its entry was
\* discarded as cancelled, for any number of tasks, handlers and requests and
\* with every fault (create_task_v3, rerun, rebuild, _worker_loop).
THEOREM PendingNeverForgotten == Spec => []PendingIsHeld
<1>1. Init => CopiesTerminal /\ PendingIsHeld
  BY DEF Init, CopiesTerminal, PendingIsHeld, IdleWorker, IdleThread, Absent
<1>2. TypeOK /\ CopiesTerminal /\ PendingIsHeld /\ [Next]_vars => CopiesTerminal' /\ PendingIsHeld'
  <2>1. ASSUME CopiesTerminal, PendingIsHeld, UNCHANGED vars PROVE CopiesTerminal' /\ PendingIsHeld'
    BY <2>1 DEF vars, db, ctl, hist, CopiesTerminal, PendingIsHeld, Queued, InHand, Of
  <2> QED
    BY <2>1, CopiesWorker, CopiesOthers, PendingWorker, PendingOthers DEF Next
<1> QED
  BY <1>1, <1>2, TypeCorrect, PTL DEF Spec
-----------------------------------------------------------------------------
(* The start a publication records.                                        *)

LEMMA OwnStartWorker ==
  ASSUME TypeOK, OwnStart, WorkerNext
  PROVE  OwnStart'
<1> USE DEF OwnStart, T, Step, db, disk, env, hist
<1>0. /\ worker \in WorkerState /\ row \in [Tasks -> Snapshot] /\ clock \in Nat /\ retold \in BOOLEAN
      /\ worker.pc # "idle" => T \in Tasks
  BY DEF TypeOK, WorkerOK, DataOK, MemoryOK
<1>1. CASE Dequeueing
  <2>1. CASE WorkerGet
    BY <1>0, <2>1 DEF WorkerGet, WorkerState, Snapshot
  <2>2. CASE WorkerSkip
    BY <1>0, <2>2 DEF WorkerSkip, WorkerState, Snapshot, IdleWorker
  <2>3. CASE WorkerClaim
    BY <1>0, <2>3 DEF WorkerClaim, WorkerState, Snapshot
  <2>4. CASE WorkerEnter
    BY <1>0, <2>4 DEF WorkerEnter, WorkerState, Snapshot
  <2> QED
    BY <1>1, <2>1, <2>2, <2>3, <2>4 DEF Dequeueing
<1>2. CASE Executing
  <2>1. CASE WorkerStart
    BY <1>0, <2>1 DEF WorkerStart, WorkerState, Snapshot, Started, WithStatus, HasRow, Absent, Recorded, Status
  <2>1s. CASE WorkerStamp
    BY <1>0, <2>1s DEF WorkerStamp, WorkerState, Snapshot, HasRow, Absent, Recorded, Status
  <2>2. CASE WorkerTakePlans
    BY <1>0, <2>2 DEF WorkerTakePlans, WorkerState, Snapshot
  <2>3. CASE WorkerRun
    BY <1>0, <2>3 DEF WorkerRun, WorkerState, Snapshot, WorkerRaises, EnsureRow, HasRow
  <2>4. CASE WorkerRules
    BY <1>0, <2>4 DEF WorkerRules, WorkerState, Snapshot, WorkerRaises, AfterRules
  <2>5. CASE WorkerStage
    <3>1. worker.pc = "exec" /\ (worker'.pc = "raise" \/ (EnsureRow(T) /\ worker' = [worker EXCEPT !.pc = "swap", !.saved = meta[T]]))
      BY <1>0, <2>5 DEF WorkerStage, WorkerRaises, WorkerState
    <3>2. retold' = retold
      BY <2>5 DEF WorkerStage
    <3>3. CASE worker'.pc = "raise"
      BY <3>3
    <3>4. CASE EnsureRow(T) /\ worker' = [worker EXCEPT !.pc = "swap", !.saved = meta[T]]
      <4>1. row'[T].run \in {0, row[T].run}
        BY <1>0, <3>1, <3>4 DEF EnsureRow
      <4> QED
        BY <1>0, <3>1, <3>2, <3>4, <4>1 DEF WorkerState
    <3> QED
      BY <3>1, <3>3, <3>4
  <2>6. CASE WorkerSwap
    BY <1>0, <2>6 DEF WorkerSwap, WorkerState, Snapshot
  <2>7. CASE WorkerIncremental
    BY <1>0, <2>7 DEF WorkerIncremental, WorkerState, Snapshot, WorkerRaises
  <2> QED
    BY <1>2, <2>1, <2>1s, <2>2, <2>3, <2>4, <2>5, <2>6, <2>7 DEF Executing
<1>3. CASE Publishing
  <2>1. CASE WorkerPublish
    BY <1>0, <2>1 DEF WorkerPublish, WorkerState, Snapshot, PublishedSnapshot
  <2>2. CASE WorkerPublishFile
    BY <1>0, <2>2 DEF WorkerPublishFile, WorkerState, Snapshot
  <2>3. CASE WorkerPublishRaises
    BY <1>0, <2>3 DEF WorkerPublishRaises, WorkerState, Snapshot
  <2>4. CASE WorkerRollback
    BY <1>0, <2>4 DEF WorkerRollback, WorkerState, Snapshot
  <2>5. CASE WorkerRelease
    BY <1>0, <2>5 DEF WorkerRelease, WorkerState, Snapshot
  <2>6. CASE WorkerMirror
    BY <1>0, <2>6 DEF WorkerMirror, WorkerState, Snapshot
  <2>7. CASE WorkerChecksum
    BY <1>0, <2>7 DEF WorkerChecksum, WorkerState, Snapshot
  <2>8. CASE WorkerChecksumFails
    BY <1>0, <2>8 DEF WorkerChecksumFails, WorkerState, Snapshot
  <2> QED
    BY <1>3, <2>1, <2>2, <2>3, <2>4, <2>5, <2>6, <2>7, <2>8 DEF Publishing
<1>4. CASE Sweeping
  <2>1. CASE WorkerSweep
    BY <1>0, <2>1 DEF WorkerSweep, WorkerState, Snapshot
  <2>2. CASE WorkerSweepUploads
    BY <1>0, <2>2 DEF WorkerSweepUploads, WorkerState, Snapshot
  <2>3. CASE WorkerSweepUploaded
    BY <1>0, <2>3 DEF WorkerSweepUploaded, WorkerState, Snapshot
  <2>4. CASE WorkerSweepOutput
    BY <1>0, <2>4 DEF WorkerSweepOutput, WorkerState, Snapshot
  <2>5. CASE WorkerSwept
    BY <1>0, <2>5 DEF WorkerSwept, WorkerState, Snapshot, AfterSweep, IdleWorker
  <2> QED
    BY <1>4, <2>1, <2>2, <2>3, <2>4, <2>5 DEF Sweeping
<1>5. CASE Closing
  <2>1. CASE WorkerFinish
    BY <1>0, <2>1 DEF WorkerFinish, WorkerState, Snapshot
  <2>2. CASE WorkerRaise
    BY <1>0, <2>2 DEF WorkerRaise, WorkerState, Snapshot
  <2>3. CASE WorkerFailFile
    BY <1>0, <2>3 DEF WorkerFailFile, WorkerState, Snapshot
  <2>4. CASE WorkerLeave
    BY <1>0, <2>4 DEF WorkerLeave, WorkerState, Snapshot
  <2>5. CASE WorkerClear
    BY <1>0, <2>5 DEF WorkerClear, WorkerState, Snapshot, IdleWorker
  <2>6. CASE WorkerLog
    BY <1>0, <2>6 DEF WorkerLog, WorkerState, Snapshot
  <2>7. CASE WorkerRefinish
    BY <1>0, <2>7 DEF WorkerRefinish, WorkerState, Snapshot
  <2> QED
    BY <1>5, <2>1, <2>2, <2>3, <2>4, <2>5, <2>6, <2>7 DEF Closing
<1> QED
  BY <1>1, <1>2, <1>3, <1>4, <1>5 DEF WorkerNext

\* A request changes the start in the row of the run under way only if it
\* writes task.json, and this is on record (retold).
Untold ==
  /\ UNCHANGED worker
  /\ ~retold' => ~retold /\ (T \in Tasks => row'[T].run \in {0, row[T].run})

LEMMA UntoldOthers ==
  ASSUME TypeOK, Request \/ CreateNext \/ \E x \in Handlers : HandlerNext(x)
  PROVE  Untold
<1> USE DEF Untold, T, Of, db, env, hist
<1>0. row \in [Tasks -> Snapshot]
  BY DEF TypeOK, DataOK
<1>1. CASE Request
  BY <1>0, <1>1 DEF Request, CreateReserve, CreateRestore, DeleteMark, RerunRead, RebuildCheck, DeviceRead
<1>2. CASE CreateNext
  BY <1>0, <1>2 DEF CreateNext, CreateCopy, CreateCopyFails, CreateUndoRow, CreateUndoFiles, Put, Absent
<1>3. ASSUME NEW x \in Handlers, HandlerNext(x) PROVE Untold
  <2>1. CASE DeleteNext(x) \/ Put(x)
    BY <1>0, <2>1 DEF DeleteNext, DeleteEnter, DeleteScene, DeleteSceneFails, DeletePackage, DeletePackageFails,
       DeleteRows, DeleteUnlock, DeleteUnmark, Put, Absent
  <2>2. CASE RerunMeta(x) \/ DeviceSave(x)
    <3>1. UNCHANGED worker /\ retold' = (retold \/ Of(x) = T)
      BY <2>2 DEF RerunMeta, DeviceSave
    <3>2. PICK m : row' = [row EXCEPT ![Of(x)] = m]
      BY <2>2 DEF RerunMeta, DeviceSave, SaveTaskMeta
    <3>3. ~retold' => ~retold /\ Of(x) # T
      BY <3>1, Zenon
    <3> QED
      BY <1>0, <3>1, <3>2, <3>3
  <2>3. CASE RerunPlan(x) \/ RebuildRead(x) \/ RebuildRefuse(x) \/ RebuildPlan(x)
    BY <1>0, <2>3 DEF RerunPlan, RebuildRead, RebuildRefuse, RebuildPlan
  <2>4. CASE RerunStatus(x) \/ RebuildStatus(x)
    <3>1. UNCHANGED <<worker, retold>> /\ row' = WithStatus(Of(x), "pending")
      BY <2>4 DEF RerunStatus, RebuildStatus
    <3> HIDE DEF Of
    <3>2. T \in Tasks => row'[T].run = row[T].run
      BY <1>0, <3>1 DEF WithStatus, Snapshot, Recorded, Absent
    <3> QED
      BY <3>1, <3>2
  <2> QED
    BY <1>3, <2>1, <2>2, <2>3, <2>4 DEF HandlerNext, RerunNext, RebuildNext
<1> QED
  BY <1>1, <1>2, <1>3

\* A publication that nobody overtook records the start of its own run, for
\* any number of tasks, handlers and requests of every kind and with every
\* fault (_publish_terminal, tasks.py:207-225).
THEOREM OwnStartPublished == Spec => PublishesOwnStart
<1>1. Init => OwnStart
  BY DEF Init, OwnStart, IdleWorker
<1>2. TypeOK /\ OwnStart /\ [Next]_vars => OwnStart'
  <2>1. ASSUME OwnStart, UNCHANGED vars PROVE OwnStart'
    BY <2>1 DEF vars, db, hist, OwnStart, T
  <2>2. ASSUME TypeOK, OwnStart, Untold PROVE OwnStart'
    <3>1. worker.pc # "idle" => T \in Tasks
      BY <2>2 DEF TypeOK, WorkerOK, T
    <3> QED
      BY <2>2, <3>1 DEF OwnStart, Untold, T
  <2> QED
    BY <2>1, <2>2, OwnStartWorker, UntoldOthers DEF Next
<1>3. TypeOK /\ OwnStart /\ [Next]_vars
        => (~retold /\ worker.pc \in {"publish", "file"} /\ worker' # worker /\ worker'.pc \notin {"finish", "raise"}
              => row'[T].run = worker.started)
  <2> SUFFICES ASSUME TypeOK, OwnStart, [Next]_vars, ~retold, worker.pc \in {"publish", "file"},
                      worker' # worker, worker'.pc \notin {"finish", "raise"}
               PROVE  row'[T].run = worker.started
    OBVIOUS
  <2>1. /\ worker \in WorkerState /\ row \in [Tasks -> Snapshot] /\ T \in Tasks
        /\ worker.started > 0 /\ worker.started \in Nat
    BY DEF TypeOK, DataOK, WorkerOK, WorkerState, OwnStart, T
  <2>2. WorkerNext
    BY UntoldOthers DEF Untold, Next, vars
  <2>3. WorkerPublish \/ WorkerPublishFile
    BY <2>1, <2>2
       DEF WorkerNext, Dequeueing, Executing, Publishing, Sweeping, Closing, WorkerGet, WorkerSkip, WorkerClaim, WorkerEnter,
           WorkerStart, WorkerStamp, WorkerTakePlans, WorkerRun, WorkerRules, WorkerStage, WorkerSwap, WorkerIncremental, WorkerRaises,
           WorkerPublishRaises, WorkerRollback, WorkerRelease, WorkerMirror, WorkerChecksum, WorkerChecksumFails,
           WorkerSweep, WorkerSweepUploads, WorkerSweepUploaded, WorkerSweepOutput, WorkerSwept, WorkerFinish, WorkerRaise,
           WorkerFailFile, WorkerLeave, WorkerClear, WorkerLog, WorkerRefinish, Step, WorkerState
  <2>4. CASE WorkerPublish
    BY <2>1, <2>4 DEF WorkerPublish, PublishedSnapshot, OwnStart, T
  <2>5. CASE WorkerPublishFile
    BY <2>1, <2>5 DEF WorkerPublishFile, SaveTaskMeta, Upserted, OwnStart, Step, T
  <2> QED
    BY <2>3, <2>4, <2>5
<1> QED
  BY <1>1, <1>2, <1>3, TypeCorrect, PTL DEF Spec, PublishesOwnStart
-----------------------------------------------------------------------------
(* Running rows.                                                           *)

\* Only the worker makes a row running, and it closes the row before it lets
\* go of the task; an incremental rebuild without task.json is the exception.
LEMMA RunningWorker ==
  ASSUME TypeOK, RunningIsHeld, FilesNeverRun, NoIncremental, CopiesTerminal, WorkerNext, NEW t \in Tasks,
         row'[t].status = "running"
  PROVE  worker'.task = t /\ worker'.pc \in {"stamp", "plans", "exec", "swap", "publish", "finish", "raise"}
<1> USE DEF RunningIsHeld, FilesNeverRun, NoIncremental, CopiesTerminal, T, Step, db, disk
<1>0. /\ worker \in WorkerState /\ row \in [Tasks -> Snapshot]
      /\ worker.pc # "idle" => T \in Tasks
  BY DEF TypeOK, WorkerOK, DataOK
<1>1. CASE Dequeueing
  <2>1. CASE WorkerGet
    BY <1>0, <2>1 DEF WorkerGet, WorkerState, Snapshot, Terminal
  <2>2. CASE WorkerSkip
    BY <1>0, <2>2 DEF WorkerSkip, WorkerState, Snapshot, Terminal, IdleWorker
  <2>3. CASE WorkerClaim
    BY <1>0, <2>3 DEF WorkerClaim, WorkerState, Snapshot, Terminal
  <2>4. CASE WorkerEnter
    BY <1>0, <2>4 DEF WorkerEnter, WorkerState, Snapshot, Terminal, HasRow, Absent
  <2> QED
    BY <1>1, <2>1, <2>2, <2>3, <2>4 DEF Dequeueing
<1>2. CASE Executing
  <2>1. CASE WorkerStart
    BY <1>0, <2>1 DEF WorkerStart, WorkerState, Snapshot, Terminal, Started, WithStatus, HasRow
  <2>1s. CASE WorkerStamp
    BY <1>0, <2>1s DEF WorkerStamp, WorkerState, Snapshot, Terminal, HasRow
  <2>2. CASE WorkerTakePlans
    BY <1>0, <2>2 DEF WorkerTakePlans, WorkerState, Snapshot, Terminal
  <2>3. CASE WorkerRun
    BY <1>0, <2>3 DEF WorkerRun, WorkerState, Snapshot, Terminal, WorkerRaises, EnsureRow, HasRow
  <2>4. CASE WorkerRules
    BY <1>0, <2>4 DEF WorkerRules, WorkerState, Snapshot, Terminal, WorkerRaises, AfterRules
  <2>5. CASE WorkerStage
    BY <1>0, <2>5 DEF WorkerStage, WorkerState, Snapshot, Terminal, WorkerRaises, EnsureRow, HasRow
  <2>6. CASE WorkerSwap
    BY <1>0, <2>6 DEF WorkerSwap, WorkerState, Snapshot, Terminal
  <2>7. CASE WorkerIncremental
    BY <1>0, <2>7 DEF WorkerIncremental, WorkerState, Snapshot, Terminal, WorkerRaises
  <2> QED
    BY <1>2, <2>1, <2>1s, <2>2, <2>3, <2>4, <2>5, <2>6, <2>7 DEF Executing
<1>3. CASE Publishing
  <2>1. CASE WorkerPublish
    BY <1>0, <2>1 DEF WorkerPublish, WorkerState, Snapshot, Terminal, PublishedSnapshot
  <2>2. CASE WorkerPublishFile
    BY <1>0, <2>2 DEF WorkerPublishFile, WorkerState, Snapshot, Terminal, SaveTaskMeta, Upserted
  <2>3. CASE WorkerPublishRaises
    BY <1>0, <2>3 DEF WorkerPublishRaises, WorkerState, Snapshot, Terminal
  <2>4. CASE WorkerRollback
    BY <1>0, <2>4 DEF WorkerRollback, WorkerState, Snapshot, Terminal, RolledBack, Upserted
  <2>5. CASE WorkerRelease
    BY <1>0, <2>5 DEF WorkerRelease, WorkerState, Snapshot, Terminal
  <2>6. CASE WorkerMirror
    BY <1>0, <2>6 DEF WorkerMirror, WorkerState, Snapshot, Terminal, Upserted
  <2>7. CASE WorkerChecksum
    BY <1>0, <2>7 DEF WorkerChecksum, WorkerState, Snapshot, Terminal
  <2>8. CASE WorkerChecksumFails
    BY <1>0, <2>8 DEF WorkerChecksumFails, WorkerState, Snapshot, Terminal
  <2> QED
    BY <1>3, <2>1, <2>2, <2>3, <2>4, <2>5, <2>6, <2>7, <2>8 DEF Publishing
<1>4. CASE Sweeping
  <2>1. CASE WorkerSweep
    BY <1>0, <2>1 DEF WorkerSweep, WorkerState, Snapshot, Terminal
  <2>2. CASE WorkerSweepUploads
    BY <1>0, <2>2 DEF WorkerSweepUploads, WorkerState, Snapshot, Terminal
  <2>3. CASE WorkerSweepUploaded
    BY <1>0, <2>3 DEF WorkerSweepUploaded, WorkerState, Snapshot, Terminal
  <2>4. CASE WorkerSweepOutput
    BY <1>0, <2>4 DEF WorkerSweepOutput, WorkerState, Snapshot, Terminal, Absent
  <2>5. CASE WorkerSwept
    BY <1>0, <2>5 DEF WorkerSwept, WorkerState, Snapshot, Terminal, AfterSweep, IdleWorker
  <2> QED
    BY <1>4, <2>1, <2>2, <2>3, <2>4, <2>5 DEF Sweeping
<1>5. CASE Closing
  <2>1. CASE WorkerFinish
    BY <1>0, <2>1 DEF WorkerFinish, WorkerState, Snapshot, Terminal, WithStatus, HasRow
  <2>2. CASE WorkerRaise
    BY <1>0, <2>2 DEF WorkerRaise, WorkerState, Snapshot, Terminal, WithStatus, HasRow
  <2>3. CASE WorkerFailFile
    BY <1>0, <2>3 DEF WorkerFailFile, WorkerState, Snapshot, Terminal, SaveTaskMeta, Upserted
  <2>4. CASE WorkerLeave
    BY <1>0, <2>4 DEF WorkerLeave, WorkerState, Snapshot, Terminal
  <2>5. CASE WorkerClear
    BY <1>0, <2>5 DEF WorkerClear, WorkerState, Snapshot, Terminal, IdleWorker
  <2>6. CASE WorkerLog
    BY <1>0, <2>6 DEF WorkerLog, WorkerState, Snapshot, Terminal
  <2>7. CASE WorkerRefinish
    BY <1>0, <2>7 DEF WorkerRefinish, WorkerState, Snapshot, Terminal, WithStatus, HasRow
  <2> QED
    BY <1>5, <2>1, <2>2, <2>3, <2>4, <2>5, <2>6, <2>7 DEF Closing
<1> QED
  BY <1>1, <1>2, <1>3, <1>4, <1>5 DEF WorkerNext

LEMMA FilesWorker ==
  ASSUME TypeOK, FilesNeverRun, CopiesTerminal, WorkerNext
  PROVE  FilesNeverRun'
<1> USE DEF FilesNeverRun, CopiesTerminal, T, Step, db, disk
<1>0. /\ worker \in WorkerState /\ meta \in [Tasks -> Snapshot] /\ UNCHANGED thread
      /\ worker.pc # "idle" => T \in Tasks
  BY WorkerQueue DEF TypeOK, WorkerOK, DataOK
<1>1. CASE Dequeueing
  <2>1. CASE WorkerGet
    BY <1>0, <2>1 DEF WorkerGet, WorkerState, Snapshot, Terminal
  <2>2. CASE WorkerSkip
    BY <1>0, <2>2 DEF WorkerSkip, WorkerState, Snapshot, Terminal, IdleWorker, Absent
  <2>3. CASE WorkerClaim
    BY <1>0, <2>3 DEF WorkerClaim, WorkerState, Snapshot, Terminal
  <2>4. CASE WorkerEnter
    BY <1>0, <2>4 DEF WorkerEnter, WorkerState, Snapshot, Terminal, HasRow, Absent
  <2> QED
    BY <1>1, <2>1, <2>2, <2>3, <2>4 DEF Dequeueing
<1>2. CASE Executing
  <2>1. CASE WorkerStart
    BY <1>0, <2>1 DEF WorkerStart, WorkerState, Snapshot, Terminal, Started, WithStatus, HasRow
  <2>1s. CASE WorkerStamp
    BY <1>0, <2>1s DEF WorkerStamp, WorkerState, Snapshot, Terminal, HasRow
  <2>2. CASE WorkerTakePlans
    BY <1>0, <2>2 DEF WorkerTakePlans, WorkerState, Snapshot, Terminal
  <2>3. CASE WorkerRun \/ WorkerIncremental
    <3>1. worker'.saved = worker.saved /\ worker'.backup = worker.backup /\ meta' = meta
      BY <1>0, <2>3 DEF WorkerRun, WorkerIncremental, WorkerRaises, WorkerState
    <3> QED
      BY <1>0, <3>1
  <2>4. CASE WorkerRules
    <3>1. worker'.saved = worker.saved /\ worker'.backup = worker.backup
      BY <1>0, <2>4 DEF WorkerRules, WorkerRaises, WorkerState
    <3>2. meta' = meta \/ meta' = [meta EXCEPT ![T].run = worker.started]
      BY <2>4 DEF WorkerRules
    <3>3. \A t \in Tasks : meta'[t].status = meta[t].status
      BY <1>0, <3>2 DEF Snapshot, Recorded, Absent
    <3> QED
      BY <1>0, <3>1, <3>3
  <2>5. CASE WorkerStage
    <3>1. T \in Tasks /\ meta' = meta
      BY <1>0, <2>5 DEF WorkerStage, WorkerRaises
    <3>2. worker'.backup = worker.backup /\ worker'.saved \in {worker.saved, meta[T]}
      BY <1>0, <2>5 DEF WorkerStage, WorkerRaises, WorkerState
    <3> QED
      BY <1>0, <3>1, <3>2
  <2>6. CASE WorkerSwap
    <3>1. T \in Tasks /\ worker'.saved = worker.saved /\ worker'.backup \in {worker.backup, meta[T]}
      BY <1>0, <2>6 DEF WorkerSwap, WorkerState
    <3>2. \A t \in Tasks : meta'[t].status \in {meta[t].status, "completed"}
      BY <1>0, <2>6 DEF WorkerSwap
    <3> QED
      BY <1>0, <3>1, <3>2
  <2> QED
    BY <1>2, <2>1, <2>1s, <2>2, <2>3, <2>4, <2>5, <2>6 DEF Executing
<1>3. CASE Publishing
  <2>1. CASE WorkerPublish
    BY <1>0, <2>1 DEF WorkerPublish, WorkerState, Snapshot, Terminal, PublishedSnapshot
  <2>2. CASE WorkerPublishFile
    BY <1>0, <2>2 DEF WorkerPublishFile, WorkerState, Snapshot, Terminal, SaveTaskMeta, Upserted
  <2>3. CASE WorkerPublishRaises
    BY <1>0, <2>3 DEF WorkerPublishRaises, WorkerState, Snapshot, Terminal
  <2>4. CASE WorkerRollback
    BY <1>0, <2>4 DEF WorkerRollback, WorkerState, Snapshot, Terminal, RolledBack, Upserted
  <2>5. CASE WorkerRelease
    BY <1>0, <2>5 DEF WorkerRelease, WorkerState, Snapshot, Terminal
  <2>6. CASE WorkerMirror
    BY <1>0, <2>6 DEF WorkerMirror, WorkerState, Snapshot, Terminal, Upserted
  <2>7. CASE WorkerChecksum
    BY <1>0, <2>7 DEF WorkerChecksum, WorkerState, Snapshot, Terminal
  <2>8. CASE WorkerChecksumFails
    BY <1>0, <2>8 DEF WorkerChecksumFails, WorkerState, Snapshot, Terminal
  <2> QED
    BY <1>3, <2>1, <2>2, <2>3, <2>4, <2>5, <2>6, <2>7, <2>8 DEF Publishing
<1>4. CASE Sweeping
  <2>1. CASE WorkerSweep
    BY <1>0, <2>1 DEF WorkerSweep, WorkerState, Snapshot, Terminal
  <2>2. CASE WorkerSweepUploads
    BY <1>0, <2>2 DEF WorkerSweepUploads, WorkerState, Snapshot, Terminal
  <2>3. CASE WorkerSweepUploaded
    BY <1>0, <2>3 DEF WorkerSweepUploaded, WorkerState, Snapshot, Terminal
  <2>4. CASE WorkerSweepOutput
    BY <1>0, <2>4 DEF WorkerSweepOutput, WorkerState, Snapshot, Terminal, Absent
  <2>5. CASE WorkerSwept
    BY <1>0, <2>5 DEF WorkerSwept, WorkerState, Snapshot, Terminal, AfterSweep, IdleWorker, Absent
  <2> QED
    BY <1>4, <2>1, <2>2, <2>3, <2>4, <2>5 DEF Sweeping
<1>5. CASE Closing
  <2>1. CASE WorkerFinish
    BY <1>0, <2>1 DEF WorkerFinish, WorkerState, Snapshot, Terminal, WithStatus, HasRow
  <2>2. CASE WorkerRaise
    BY <1>0, <2>2 DEF WorkerRaise, WorkerState, Snapshot, Terminal, WithStatus, HasRow
  <2>3. CASE WorkerFailFile
    <3>1. T \in Tasks /\ worker'.saved = worker.saved /\ worker'.backup = worker.backup
      BY <1>0, <2>3 DEF WorkerFailFile, WorkerState
    <3>2. meta' = meta \/ meta' = [meta EXCEPT ![T] = [worker.saved EXCEPT !.status = "failed"]]
      BY <2>3 DEF WorkerFailFile, SaveTaskMeta
    <3>3. worker.saved # Absent => [worker.saved EXCEPT !.status = "failed"].status = "failed"
      BY <1>0 DEF WorkerState, Snapshot, Recorded
    <3>4. worker.saved = Absent => meta' = meta
      BY <2>3 DEF WorkerFailFile
    <3>5. \A t \in Tasks : meta'[t].status \in {meta[t].status, "failed"}
      BY <1>0, <3>1, <3>2, <3>3, <3>4
    <3> QED
      BY <1>0, <3>1, <3>5
  <2>4. CASE WorkerLeave
    BY <1>0, <2>4 DEF WorkerLeave, WorkerState, Snapshot, Terminal
  <2>5. CASE WorkerClear
    BY <1>0, <2>5 DEF WorkerClear, WorkerState, Snapshot, Terminal, IdleWorker, Absent
  <2>6. CASE WorkerLog
    BY <1>0, <2>6 DEF WorkerLog, WorkerState, Snapshot, Terminal
  <2>7. CASE WorkerRefinish
    BY <1>0, <2>7 DEF WorkerRefinish, WorkerState, Snapshot, Terminal, WithStatus, HasRow
  <2> QED
    BY <1>5, <2>1, <2>2, <2>3, <2>4, <2>5, <2>6, <2>7 DEF Closing
<1> QED
  BY <1>1, <1>2, <1>3, <1>4, <1>5 DEF WorkerNext

LEMMA PlansWorker ==
  ASSUME TypeOK, NoIncremental, WorkerNext
  PROVE  NoIncremental'
<1> USE DEF NoIncremental, T, Step, plans
<1>0. /\ worker \in WorkerState /\ rebuildPlan \in [Tasks -> {"none", "full", "incremental"}] /\ UNCHANGED thread
      /\ worker.pc # "idle" => T \in Tasks
  BY WorkerQueue DEF TypeOK, WorkerOK, MemoryOK
<1>1. CASE Dequeueing
  <2>1. CASE WorkerGet
    BY <1>0, <2>1 DEF WorkerGet, WorkerState
  <2>2. CASE WorkerSkip
    BY <1>0, <2>2 DEF WorkerSkip, WorkerState, IdleWorker
  <2>3. CASE WorkerClaim
    BY <1>0, <2>3 DEF WorkerClaim, WorkerState
  <2>4. CASE WorkerEnter
    BY <1>0, <2>4 DEF WorkerEnter, WorkerState
  <2> QED
    BY <1>1, <2>1, <2>2, <2>3, <2>4 DEF Dequeueing
<1>2. CASE Executing
  <2>1. CASE WorkerStart
    BY <1>0, <2>1 DEF WorkerStart, WorkerState
  <2>1s. CASE WorkerStamp
    BY <1>0, <2>1s DEF WorkerStamp, WorkerState
  <2>2. CASE WorkerTakePlans
    BY <1>0, <2>2 DEF WorkerTakePlans, WorkerState
  <2>3. CASE WorkerRun
    BY <1>0, <2>3 DEF WorkerRun, WorkerState, WorkerRaises, EnsureRow, HasRow
  <2>4. CASE WorkerRules
    BY <1>0, <2>4 DEF WorkerRules, WorkerState, WorkerRaises, AfterRules
  <2>5. CASE WorkerStage
    BY <1>0, <2>5 DEF WorkerStage, WorkerState, WorkerRaises, EnsureRow, HasRow
  <2>6. CASE WorkerSwap
    BY <1>0, <2>6 DEF WorkerSwap, WorkerState
  <2>7. CASE WorkerIncremental
    BY <1>0, <2>7 DEF WorkerIncremental, WorkerState, WorkerRaises
  <2> QED
    BY <1>2, <2>1, <2>1s, <2>2, <2>3, <2>4, <2>5, <2>6, <2>7 DEF Executing
<1>3. CASE Publishing
  <2>1. CASE WorkerPublish
    BY <1>0, <2>1 DEF WorkerPublish, WorkerState
  <2>2. CASE WorkerPublishFile
    BY <1>0, <2>2 DEF WorkerPublishFile, WorkerState
  <2>3. CASE WorkerPublishRaises
    BY <1>0, <2>3 DEF WorkerPublishRaises, WorkerState
  <2>4. CASE WorkerRollback
    BY <1>0, <2>4 DEF WorkerRollback, WorkerState
  <2>5. CASE WorkerRelease
    BY <1>0, <2>5 DEF WorkerRelease, WorkerState
  <2>6. CASE WorkerMirror
    BY <1>0, <2>6 DEF WorkerMirror, WorkerState
  <2>7. CASE WorkerChecksum
    BY <1>0, <2>7 DEF WorkerChecksum, WorkerState
  <2>8. CASE WorkerChecksumFails
    BY <1>0, <2>8 DEF WorkerChecksumFails, WorkerState
  <2> QED
    BY <1>3, <2>1, <2>2, <2>3, <2>4, <2>5, <2>6, <2>7, <2>8 DEF Publishing
<1>4. CASE Sweeping
  <2>1. CASE WorkerSweep
    BY <1>0, <2>1 DEF WorkerSweep, WorkerState
  <2>2. CASE WorkerSweepUploads
    BY <1>0, <2>2 DEF WorkerSweepUploads, WorkerState
  <2>3. CASE WorkerSweepUploaded
    BY <1>0, <2>3 DEF WorkerSweepUploaded, WorkerState
  <2>4. CASE WorkerSweepOutput
    BY <1>0, <2>4 DEF WorkerSweepOutput, WorkerState
  <2>5. CASE WorkerSwept
    BY <1>0, <2>5 DEF WorkerSwept, WorkerState, AfterSweep, IdleWorker
  <2> QED
    BY <1>4, <2>1, <2>2, <2>3, <2>4, <2>5 DEF Sweeping
<1>5. CASE Closing
  <2>1. CASE WorkerFinish
    BY <1>0, <2>1 DEF WorkerFinish, WorkerState
  <2>2. CASE WorkerRaise
    BY <1>0, <2>2 DEF WorkerRaise, WorkerState
  <2>3. CASE WorkerFailFile
    BY <1>0, <2>3 DEF WorkerFailFile, WorkerState
  <2>4. CASE WorkerLeave
    BY <1>0, <2>4 DEF WorkerLeave, WorkerState
  <2>5. CASE WorkerClear
    BY <1>0, <2>5 DEF WorkerClear, WorkerState, IdleWorker
  <2>6. CASE WorkerLog
    BY <1>0, <2>6 DEF WorkerLog, WorkerState
  <2>7. CASE WorkerRefinish
    BY <1>0, <2>7 DEF WorkerRefinish, WorkerState
  <2> QED
    BY <1>5, <2>1, <2>2, <2>3, <2>4, <2>5, <2>6, <2>7 DEF Closing
<1> QED
  BY <1>1, <1>2, <1>3, <1>4, <1>5 DEF WorkerNext
\* No request makes a row running, or writes a task.json that says so.
LEMMA RunningOthers ==
  ASSUME TypeOK, FilesNeverRun, CopiesTerminal, Request \/ CreateNext \/ \E x \in Handlers : HandlerNext(x)
  PROVE  /\ UNCHANGED worker
         /\ \A t \in Tasks : row'[t].status = "running" => row[t].status = "running"
         /\ \A t \in Tasks : meta'[t].status # "running"
<1> USE DEF Of, db, disk
<1>0. /\ row \in [Tasks -> Snapshot] /\ meta \in [Tasks -> Snapshot] /\ \A t \in Tasks : meta[t].status # "running"
      /\ Handlers \subseteq Threads /\ thread \in [Threads -> ThreadState]
  BY DEF TypeOK, DataOK, ThreadOK, FilesNeverRun, Threads
<1>1. CASE Request
  BY <1>0, <1>1 DEF Request, CreateReserve, CreateRestore, DeleteMark, RerunRead, RebuildCheck, DeviceRead
<1>2. CASE CreateNext
  BY <1>0, <1>2 DEF CreateNext, CreateCopy, CreateCopyFails, CreateUndoRow, CreateUndoFiles, Put, Absent
<1>3. ASSUME NEW x \in Handlers, HandlerNext(x)
      PROVE  /\ \A t \in Tasks : row'[t].status = "running" => row[t].status = "running"
             /\ \A t \in Tasks : meta'[t].status # "running"
  <2>1. CASE DeleteSceneFails(x)
    BY <1>0, <2>1 DEF DeleteSceneFails, Goes, FilesNeverRun
  <2>2. CASE DeleteNext(x) /\ ~DeleteSceneFails(x)
    BY <1>0, <2>2 DEF DeleteNext, DeleteEnter, DeleteScene, DeletePackage, DeletePackageFails,
       DeleteRows, DeleteUnlock, DeleteUnmark, Absent
  <2>3. CASE RerunMeta(x) \/ DeviceSave(x)
    <3>1. PICK m : SaveTaskMeta(Of(x), m) /\ m.status \in {"pending", "completed", "failed"}
      <4>1. CASE RerunMeta(x)
        <5>1. thread[x].saved \in Recorded
          BY <1>0, <4>1 DEF RerunMeta, Goes, TypeOK, ThreadOK
        <5>2. [thread[x].saved EXCEPT !.status = "pending"].status = "pending"
          BY <5>1 DEF Recorded
        <5> QED
          BY <4>1, <5>2 DEF RerunMeta
      <4>2. CASE DeviceSave(x)
        BY <1>0, <4>2 DEF DeviceSave, Goes, CopiesTerminal, Terminal
      <4> QED
        BY <2>3, <4>1, <4>2
    <3>2. \A t \in Tasks : meta'[t] = meta[t] \/ meta'[t] = m
      BY <1>0, <3>1 DEF SaveTaskMeta
    <3>3. \A t \in Tasks : row'[t] = row[t] \/ row'[t].status = m.status
      BY <1>0, <3>1 DEF SaveTaskMeta, Upserted
    <3> QED
      BY <1>0, <3>1, <3>2, <3>3
  <2>4. CASE RerunStatus(x) \/ RebuildStatus(x)
    <3>1. UNCHANGED meta /\ row' = WithStatus(Of(x), "pending")
      BY <2>4 DEF RerunStatus, RebuildStatus
    <3> HIDE DEF Of
    <3> QED
      BY <1>0, <3>1 DEF WithStatus, Snapshot, Recorded, Absent
  <2>5. CASE Put(x) \/ RerunPlan(x) \/ RebuildRead(x) \/ RebuildRefuse(x) \/ RebuildPlan(x)
    BY <1>0, <2>5 DEF Put, RerunPlan, RebuildRead, RebuildRefuse, RebuildPlan
  <2> QED
    BY <1>3, <2>1, <2>2, <2>3, <2>4, <2>5 DEF HandlerNext, RerunNext, RebuildNext
<1> QED
  BY <1>1, <1>2, <1>3, UntoldOthers DEF Untold

\* What a step leaves in the record of a thread y and in the rebuild plans.
KeepsThread(y) ==
  /\ thread'[y].pc = "delScene" => thread'[y].saved = meta[Of(y)] /\ Of(y) \in Tasks
  /\ thread'[y].mode \in {thread[y].mode, "create"} \cup Requests

LEMMA ThreadsKept ==
  ASSUME TypeOK, Request \/ CreateNext \/ \E x \in Handlers : HandlerNext(x), NEW y \in Threads
  PROVE  thread'[y] = thread[y] \/ KeepsThread(y)
<1>0. ThreadOK /\ thread \in [Threads -> ThreadState] /\ Loop \in Threads /\ Handlers \subseteq Threads
  BY DEF TypeOK, ThreadOK, Threads
<1> USE DEF KeepsThread
<1>1. ASSUME NEW x \in Threads, NEW kind, NEW t, NEW pc, NEW saved, Begin(x, kind, t, pc, saved), pc # "delScene"
      PROVE  thread'[y] = thread[y] \/ KeepsThread(y)
  <2>1. thread'[x].mode = kind /\ kind \in Requests
    BY <1>0, <1>1 DEF Begin, IdleThread
  <2> QED
    BY <1>0, <1>1, <2>1, BeginEffect
<1>2. ASSUME NEW x \in Threads, NEW from, NEW to, Goes(x, from, to), to # "delScene"
      PROVE  thread'[y] = thread[y] \/ KeepsThread(y)
  <2>1. thread'[x].mode \in {thread[x].mode, "create"}
    BY <1>0, <1>2 DEF Goes, IdleThread, ThreadState
  <2> QED
    BY <1>0, <1>2, <2>1, GoesEffect
<1>3. CASE Request
  <2>1. PICK t \in Tasks : CreateReserve(t) \/ CreateRestore(t)
                           \/ \E x \in Handlers : DeleteMark(x, t) \/ RerunRead(x, t) \/ RebuildCheck(x, t) \/ DeviceRead(x, t)
    BY <1>3 DEF Request
  <2>2. CASE CreateRestore(t)
    BY <2>2 DEF CreateRestore
  <2>3. CASE CreateReserve(t)
    BY <1>0, <1>1, <2>3 DEF CreateReserve
  <2>4. ASSUME NEW x \in Handlers, DeleteMark(x, t) \/ RerunRead(x, t) \/ RebuildCheck(x, t) \/ DeviceRead(x, t)
        PROVE  thread'[y] = thread[y] \/ KeepsThread(y)
    <3>1. x \in Threads /\ \E kind, pc, saved : Begin(x, kind, t, pc, saved) /\ pc # "delScene"
      BY <1>0, <2>4 DEF DeleteMark, RerunRead, RebuildCheck, DeviceRead
    <3> QED
      BY <1>1, <3>1
  <2> QED
    BY <2>1, <2>2, <2>3, <2>4
<1>4. CASE CreateNext
  <2>1. \E from, to : Goes(Loop, from, to) /\ to # "delScene"
    BY <1>4 DEF CreateNext, CreateCopy, CreateCopyFails, CreateUndoRow, CreateUndoFiles, Put
  <2> QED
    BY <1>0, <1>2, <2>1
<1>5. ASSUME NEW x \in Handlers, HandlerNext(x) PROVE thread'[y] = thread[y] \/ KeepsThread(y)
  <2>0. x \in Threads
    BY <1>0
  <2>1. CASE DeleteEnter(x) \/ DeleteScene(x) \/ DeletePackage(x)
    BY <1>0, <2>0, <2>1 DEF DeleteEnter, DeleteScene, DeletePackage, ThreadState, Of, TypeOK, ThreadOK
  <2>2. CASE ~(DeleteEnter(x) \/ DeleteScene(x) \/ DeletePackage(x))
    <3>1. \E from, to : Goes(x, from, to) /\ to # "delScene"
      BY <1>5, <2>2 DEF HandlerNext, DeleteNext, RerunNext, RebuildNext, Put, DeleteSceneFails, DeletePackageFails, DeleteRows,
         DeleteUnlock, DeleteUnmark, RerunPlan, RerunMeta, RerunStatus, RebuildRead, RebuildRefuse, RebuildPlan,
         RebuildStatus, DeviceSave
    <3> QED
      BY <1>2, <2>0, <3>1
  <2> QED
    BY <2>1, <2>2
<1> QED
  BY <1>3, <1>4, <1>5

RunsHeld == RunningIsHeld /\ FilesNeverRun /\ NoIncremental /\ CopiesTerminal

\* The invariant behind RunningIsHeld.
LEMMA RunsHeldHolds ==
  ASSUME "incremental" \notin Requests
  PROVE  Spec => []RunsHeld
<1> DEFINE Inv == RunsHeld
<1> USE DEF RunsHeld
<1>1. Init => Inv
  BY DEF Init, RunningIsHeld, FilesNeverRun, NoIncremental, CopiesTerminal, IdleWorker, IdleThread, Absent
<1>2. TypeOK /\ Inv /\ [Next]_vars => Inv'
  <2> SUFFICES ASSUME TypeOK, Inv, [Next]_vars PROVE Inv'
    OBVIOUS
  <2>1. CASE WorkerNext
    <3>1. RunningIsHeld'
      BY <2>1, RunningWorker DEF RunningIsHeld
    <3> QED
      BY <2>1, <3>1, FilesWorker, PlansWorker, CopiesWorker
  <2>2. CASE Request \/ CreateNext \/ \E x \in Handlers : HandlerNext(x)
    <3>1. /\ UNCHANGED worker
          /\ \A t \in Tasks : row'[t].status = "running" => row[t].status = "running"
          /\ \A t \in Tasks : meta'[t].status # "running"
      BY <2>2, RunningOthers
    <3>2. \A y \in Threads : thread'[y] = thread[y] \/ KeepsThread(y)
      BY <2>2, ThreadsKept
    <3>3. RunningIsHeld'
      BY <3>1 DEF RunningIsHeld
    <3>4. FilesNeverRun'
      BY <3>1, <3>2 DEF FilesNeverRun, KeepsThread
    <3>5. \A y \in Threads : thread'[y].mode # "incremental"
      BY <3>2 DEF KeepsThread, NoIncremental
    <3>6. \A t \in Tasks : rebuildPlan'[t] # "incremental"
      <4>1. rebuildPlan' = rebuildPlan \/ \E x \in Handlers : rebuildPlan' = [rebuildPlan EXCEPT ![Of(x)] = thread[x].mode]
        BY <2>2 DEF plans, Request, CreateReserve, CreateRestore, DeleteMark, RerunRead, RebuildCheck, DeviceRead,
           CreateNext, CreateCopy, CreateCopyFails, CreateUndoRow, CreateUndoFiles, Put, HandlerNext, DeleteNext, DeleteEnter,
           DeleteScene, DeleteSceneFails, DeletePackage, DeletePackageFails, DeleteRows, DeleteUnlock, DeleteUnmark,
           RerunNext, RerunPlan, RerunMeta, RerunStatus, RebuildNext, RebuildRead, RebuildRefuse, RebuildPlan,
           RebuildStatus, DeviceSave
      <4>2. rebuildPlan \in [Tasks -> {"none", "full", "incremental"}]
        BY DEF TypeOK, MemoryOK
      <4> QED
        BY <4>1, <4>2 DEF NoIncremental, Threads
    <3>7. NoIncremental'
      BY <3>1, <3>5, <3>6 DEF NoIncremental
    <3> QED
      BY <2>2, <3>3, <3>4, <3>7, CopiesOthers
  <2>3. CASE UNCHANGED vars
    BY <2>3 DEF vars, db, disk, plans, RunningIsHeld, FilesNeverRun, NoIncremental, CopiesTerminal
  <2> QED
    BY <2>1, <2>2, <2>3 DEF Next
<1> HIDE DEF Inv, RunsHeld
<1> QED
  BY <1>1, <1>2, TypeCorrect, PTL DEF Spec, Inv

\* Unless somebody asks for an incremental rebuild, no row stays running
\* without the worker behind it: an incremental rebuild that finds no
\* task.json is the only way an execution ends without closing its row
\* (_execute, tasks.py:287-360; run_incremental_rebuild, cli.py:670).
THEOREM RunningAlwaysHeld ==
  ASSUME "incremental" \notin Requests
  PROVE  Spec => []RunningIsHeld
<1>1. RunsHeld => RunningIsHeld
  BY DEF RunsHeld
<1> QED
  BY <1>1, RunsHeldHolds, PTL
-----------------------------------------------------------------------------
(* No row comes back where nobody but the worker writes rows of tasks that *)
(* may be gone: no rerun and no PATCH, which write back what they read     *)
(* before, and no creation that is rolled back.                            *)

\* The worker relies on the row of its task, or is about to write task.json.
RowNeeded ==
  \/ worker.pc \in {"start", "stamp", "plans", "exec", "swap", "publish", "file", "release", "mirror",
                    "checksum", "finish", "raise", "failFile"}
  \/ InSweep /\ worker.then \in {"checksum", "failFile"}

Writers == {"rerunPlan", "rerunMeta", "rerunStatus", "deviceSave", "undoRow", "undoFiles"}

\* A scene has a row, the worker's task has one as long as it is in use, and
\* so does a task.json a deletion may put back; a deletion that comes to the
\* rows has no task.json left.
RowsHeld ==
  /\ \A t \in Tasks : HasMeta(t) => HasRow(t)
  /\ RowNeeded => HasRow(T)
  /\ \A x \in Handlers : thread[x].pc = "delScene" /\ thread[x].saved # Absent => HasRow(Of(x))
  /\ \A x \in Handlers : thread[x].pc \in {"delPackage", "delRows"} => ~HasMeta(Of(x))
  /\ \A x \in Threads : thread[x].pc \notin Writers

\* The worker creates and removes no row, and writes task.json only of a task
\* whose row it relies on.
KeepsRows ==
  /\ \A t \in Tasks : row'[t].status = "absent" <=> row[t].status = "absent"
  /\ \A t \in Tasks : meta'[t].status # "absent" => meta[t].status # "absent" \/ (t = T /\ RowNeeded)
  /\ RowNeeded' => worker'.task \in Tasks /\ row[worker'.task].status # "absent"

LEMMA KeepsRowsWorker ==
  ASSUME TypeOK, RowsHeld, WorkerNext
  PROVE  KeepsRows
<1> USE DEF KeepsRows, RowNeeded, HasRow, HasMeta, InSweep, T, Step, db, disk
<1>0. /\ worker \in WorkerState /\ row \in [Tasks -> Snapshot] /\ meta \in [Tasks -> Snapshot]
      /\ worker.pc # "idle" => T \in Tasks
      /\ worker.pc \in {"file", "release", "mirror"} => worker.published \in Recorded
      /\ \A t \in Tasks : meta[t].status # "absent" => row[t].status # "absent"
      /\ RowNeeded => row[T].status # "absent"
      /\ \A s \in Recorded : s.status # "absent"
      /\ \A s \in Snapshot : s # Absent => s \in Recorded
  BY DEF TypeOK, WorkerOK, DataOK, RowsHeld, Recorded, Snapshot, Status
<1>1. CASE Dequeueing
  <2>1. CASE WorkerGet
    BY <1>0, <2>1 DEF WorkerGet, WorkerState
  <2>2. CASE WorkerSkip
    BY <1>0, <2>2 DEF WorkerSkip, IdleWorker
  <2>3. CASE WorkerClaim
    BY <1>0, <2>3 DEF WorkerClaim, WorkerState
  <2>4. CASE WorkerEnter
    BY <1>0, <2>4 DEF WorkerEnter, WorkerState
  <2> QED
    BY <1>1, <2>1, <2>2, <2>3, <2>4 DEF Dequeueing
<1>2. CASE Executing
  <2>1. CASE WorkerStart
    BY <1>0, <2>1 DEF WorkerStart, WorkerState, Started, WithStatus, Snapshot, Recorded, Absent
  <2>1s. CASE WorkerStamp
    BY <1>0, <2>1s DEF WorkerStamp, WorkerState, Snapshot, Recorded, Absent
  <2>2. CASE WorkerTakePlans
    BY <1>0, <2>2 DEF WorkerTakePlans, WorkerState
  <2>3. CASE WorkerRun
    <3>1. worker.pc = "exec" /\ worker'.task = T /\ meta' = meta
      BY <1>0, <2>3 DEF WorkerRun, WorkerRaises, WorkerState
    <3>2. row' = row
      BY <1>0, <3>1, <2>3 DEF WorkerRun, EnsureRow
    <3> QED
      BY <1>0, <3>1, <3>2
  <2>4. CASE WorkerRules
    <3>1. worker.pc = "exec" /\ worker'.task = T /\ row' = row
      BY <1>0, <2>4 DEF WorkerRules, WorkerRaises, WorkerState
    <3>2. meta' = meta \/ meta' = [meta EXCEPT ![T].run = worker.started]
      BY <2>4 DEF WorkerRules
    <3>3. \A t \in Tasks : meta'[t].status = meta[t].status
      BY <1>0, <3>2 DEF Snapshot, Recorded, Absent
    <3> QED
      BY <1>0, <3>1, <3>3
  <2>5. CASE WorkerStage
    <3>1. worker.pc = "exec" /\ worker'.task = T /\ meta' = meta
      BY <1>0, <2>5 DEF WorkerStage, WorkerRaises, WorkerState
    <3>2. row' = row
      BY <1>0, <3>1, <2>5 DEF WorkerStage, EnsureRow
    <3> QED
      BY <1>0, <3>1, <3>2
  <2>6. CASE WorkerSwap
    BY <1>0, <2>6 DEF WorkerSwap, WorkerState
  <2>7. CASE WorkerIncremental
    <3>1. worker.pc = "exec" /\ worker'.task = T /\ meta' = meta /\ row' = row
      BY <1>0, <2>7 DEF WorkerIncremental, WorkerRaises, WorkerState
    <3> QED
      BY <1>0, <3>1
  <2> QED
    BY <1>2, <2>1, <2>1s, <2>2, <2>3, <2>4, <2>5, <2>6, <2>7 DEF Executing
<1>3. CASE Publishing
  <2>1. CASE WorkerPublish
    BY <1>0, <2>1 DEF WorkerPublish, WorkerState, PublishedSnapshot, Terminal
  <2>2. CASE WorkerPublishFile
    BY <1>0, <2>2 DEF WorkerPublishFile, WorkerState, SaveTaskMeta, Upserted
  <2>3. CASE WorkerPublishRaises
    BY <1>0, <2>3 DEF WorkerPublishRaises, WorkerState
  <2>4. CASE WorkerRollback
    <3>1. worker.pc \in {"publish", "file"} /\ worker'.task = T
      BY <1>0, <2>4 DEF WorkerRollback, WorkerState
    <3>2. row' = row \/ (worker.saved \in Recorded /\ row' = [row EXCEPT ![T] = Upserted(T, worker.saved)])
      BY <1>0, <2>4 DEF WorkerRollback, RolledBack, WorkerState
    <3>3. \A t \in Tasks : row'[t].status = "absent" <=> row[t].status = "absent"
      BY <1>0, <3>1, <3>2 DEF Upserted
    <3>4. \A t \in Tasks : t # T => meta'[t] = meta[t]
      BY <1>0, <2>4 DEF WorkerRollback
    <3> QED
      BY <1>0, <3>1, <3>3, <3>4
  <2>5. CASE WorkerRelease
    BY <1>0, <2>5 DEF WorkerRelease, WorkerState
  <2>6. CASE WorkerMirror
    BY <1>0, <2>6 DEF WorkerMirror, WorkerState, Upserted
  <2>7. CASE WorkerChecksum
    BY <1>0, <2>7 DEF WorkerChecksum, WorkerState
  <2>8. CASE WorkerChecksumFails
    BY <1>0, <2>8 DEF WorkerChecksumFails, WorkerState
  <2> QED
    BY <1>3, <2>1, <2>2, <2>3, <2>4, <2>5, <2>6, <2>7, <2>8 DEF Publishing
<1>4. CASE Sweeping
  <2>1. CASE WorkerSweep
    BY <1>0, <2>1 DEF WorkerSweep, WorkerState
  <2>2. CASE WorkerSweepUploads
    BY <1>0, <2>2 DEF WorkerSweepUploads, WorkerState
  <2>3. CASE WorkerSweepUploaded
    BY <1>0, <2>3 DEF WorkerSweepUploaded, WorkerState
  <2>4. CASE WorkerSweepOutput
    <3>1. worker'.pc = worker.pc /\ worker'.then = worker.then /\ worker'.task = T /\ row' = row
      BY <1>0, <2>4 DEF WorkerSweepOutput, WorkerState
    <3>2. \A t \in Tasks : meta'[t] \in {meta[t], Absent}
      BY <1>0, <2>4 DEF WorkerSweepOutput
    <3> QED
      BY <1>0, <3>1, <3>2, <2>4 DEF Absent, WorkerSweepOutput
  <2>5. CASE WorkerSwept
    BY <1>0, <2>5 DEF WorkerSwept, WorkerState, IdleWorker, AfterSweep
  <2> QED
    BY <1>4, <2>1, <2>2, <2>3, <2>4, <2>5 DEF Sweeping
<1>5. CASE Closing
  <2>1. CASE WorkerFinish
    BY <1>0, <2>1 DEF WorkerFinish, WorkerState, WithStatus, Terminal, Snapshot, Recorded
  <2>2. CASE WorkerRaise
    BY <1>0, <2>2 DEF WorkerRaise, WorkerState, WithStatus, Snapshot, Recorded
  <2>3. CASE WorkerFailFile
    <3>1. worker.pc = "failFile" /\ worker'.task = T /\ worker'.pc = "leave"
      BY <1>0, <2>3 DEF WorkerFailFile, WorkerState
    <3>2. CASE worker.saved # Absent
      <4>1. [worker.saved EXCEPT !.status = "failed"].status = "failed"
        BY <1>0, <3>2 DEF WorkerState, Recorded
      <4> QED
        BY <1>0, <2>3, <3>1, <3>2, <4>1 DEF WorkerFailFile, SaveTaskMeta, Upserted
    <3>3. CASE worker.saved = Absent
      BY <1>0, <2>3, <3>1, <3>3 DEF WorkerFailFile
    <3> QED
      BY <3>2, <3>3
  <2>4. CASE WorkerLeave
    BY <1>0, <2>4 DEF WorkerLeave, WorkerState
  <2>5. CASE WorkerClear
    BY <1>0, <2>5 DEF WorkerClear, WorkerState, IdleWorker
  <2>6. CASE WorkerLog
    BY <1>0, <2>6 DEF WorkerLog, WorkerState
  <2>7. CASE WorkerRefinish
    BY <1>0, <2>7 DEF WorkerRefinish, WorkerState, WithStatus, Snapshot, Recorded
  <2> QED
    BY <1>5, <2>1, <2>2, <2>3, <2>4, <2>5, <2>6, <2>7 DEF Closing
<1> QED
  BY <1>1, <1>2, <1>3, <1>4, <1>5 DEF WorkerNext
LEMMA RowsHeldWorker ==
  ASSUME TypeOK, LockOwner, RowsHeld, WorkerNext
  PROVE  RowsHeld'
<1>0. KeepsRows /\ UNCHANGED thread
  BY KeepsRowsWorker, WorkerQueue
<1>1. worker.pc # "idle" => T \in Tasks
  BY DEF TypeOK, WorkerOK, T
<1>2. \A t \in Tasks : HasRow(t)' <=> HasRow(t)
  BY <1>0 DEF KeepsRows, HasRow
<1>3. \A t \in Tasks : HasMeta(t)' => HasMeta(t) \/ (t = T /\ RowNeeded)
  BY <1>0 DEF KeepsRows, HasMeta
<1>4. RowNeeded => \A x \in Handlers : ~DeleteInside(x)
  BY ThreadAssumption DEF RowNeeded, LockOwner, WorkerInside, InSweep, Threads
<1>5. \A x \in Handlers : thread[x].pc \in {"delScene", "delPackage", "delRows"} => Of(x) \in Tasks /\ DeleteInside(x)
  BY DEF TypeOK, ThreadOK, Threads, Of, DeleteInside
<1>6. \A t \in Tasks : HasMeta(t)' => HasRow(t)'
  BY <1>2, <1>3 DEF RowsHeld
<1>7. RowNeeded' => HasRow(T)'
  BY <1>0 DEF KeepsRows, HasRow, T
<1>8. \A x \in Handlers : thread'[x].pc = "delScene" /\ thread'[x].saved # Absent => HasRow(Of(x))'
  BY <1>0, <1>2, <1>5 DEF RowsHeld, HasRow, Of
<1>9. \A x \in Handlers : thread'[x].pc \in {"delPackage", "delRows"} => ~HasMeta(Of(x))'
  BY <1>0, <1>3, <1>4, <1>5 DEF RowsHeld, HasMeta, Of
<1> QED
  BY <1>0, <1>6, <1>7, <1>8, <1>9 DEF RowsHeld

LEMMA RowsHeldOthers ==
  ASSUME Requests \cap {"rerun", "rules", "device"} = {}, "copy" \notin Faults,
         TypeOK, LockOwner, RowsHeld, Request \/ CreateNext \/ \E x \in Handlers : HandlerNext(x)
  PROVE  RowsHeld'
<1> USE DEF RowsHeld, RowNeeded, InSweep, HasRow, HasMeta, Writers, T, Of, db, disk, Goes, IdleThread
<1>0. /\ row \in [Tasks -> Snapshot] /\ meta \in [Tasks -> Snapshot] /\ thread \in [Threads -> ThreadState]
      /\ \A x \in Threads : thread[x].pc # "idle" => thread[x].task \in Tasks
      /\ worker.pc # "idle" => T \in Tasks
      /\ Handlers \subseteq Threads /\ Loop \in Threads /\ Loop \notin Handlers
  BY ThreadAssumption DEF TypeOK, DataOK, ThreadOK, WorkerOK, Threads
<1>1. CASE Request
  <2>1. PICK t \in Tasks : \/ CreateReserve(t) \/ CreateRestore(t)
                           \/ \E x \in Handlers : DeleteMark(x, t) \/ RebuildCheck(x, t)
    BY <1>1 DEF Request, RerunRead, DeviceRead, Begin
  <2>2. CASE CreateReserve(t)
    BY <1>0, <2>2 DEF CreateReserve, Begin, ThreadState
  <2>3. CASE CreateRestore(t)
    BY <1>0, <2>3 DEF CreateRestore
  <2>4. ASSUME NEW x \in Handlers, DeleteMark(x, t) \/ RebuildCheck(x, t) PROVE RowsHeld'
    <3>1. UNCHANGED <<row, meta, worker>>
      BY <2>4 DEF DeleteMark, RebuildCheck
    <3>2. /\ thread'[x].pc \in {"delWait", "rebuildRead"}
          /\ \A y \in Threads : y # x => thread'[y] = thread[y]
      BY <1>0, <2>4 DEF DeleteMark, RebuildCheck, Begin
    <3> QED
      BY <1>0, <3>1, <3>2
  <2> QED
    BY <2>1, <2>2, <2>3, <2>4
<1>2. CASE CreateNext
  <2>1. CreateCopy \/ Put(Loop)
    BY <1>0, <1>2 DEF CreateNext, CreateCopyFails, MayFail, CreateUndoRow, CreateUndoFiles
  <2>2. CASE CreateCopy
    BY <1>0, <2>2 DEF CreateCopy
  <2>3. CASE Put(Loop)
    BY <1>0, <2>3 DEF Put
  <2> QED
    BY <2>1, <2>2, <2>3
<1>3. ASSUME NEW x \in Handlers, HandlerNext(x) PROVE RowsHeld'
  <2>0. UNCHANGED worker /\ \A y \in Threads : y # x => thread'[y] = thread[y]
    <3>1. UNCHANGED worker
      BY <1>3, HandlerWorker
    <3>2. CASE \/ Put(x) \/ RerunNext(x) \/ RebuildNext(x) \/ DeviceSave(x)
               \/ DeleteSceneFails(x) \/ DeletePackageFails(x) \/ DeleteRows(x) \/ DeleteUnlock(x) \/ DeleteUnmark(x)
      <4>1. PICK from, to : Goes(x, from, to)
        BY Zenon, <3>2 DEF Put, RerunNext, RerunPlan, RerunMeta, RerunStatus, RebuildNext, RebuildRead, RebuildRefuse,
           RebuildPlan, RebuildStatus, DeviceSave, DeleteSceneFails, DeletePackageFails, DeleteRows, DeleteUnlock, DeleteUnmark
      <4> QED
        BY <1>0, <3>1, <4>1
    <3>3. CASE DeleteEnter(x) \/ DeleteScene(x) \/ DeletePackage(x)
      BY <1>0, <3>3 DEF DeleteEnter, DeleteScene, DeletePackage
    <3> QED
      BY <1>3, <3>1, <3>2, <3>3 DEF HandlerNext, DeleteNext
  <2>1. CASE Put(x) \/ DeleteUnlock(x) \/ DeleteUnmark(x) \/ RebuildRead(x) \/ RebuildRefuse(x) \/ RebuildPlan(x)
    <3>1. UNCHANGED <<row, meta>>
      BY <2>1 DEF Put, DeleteUnlock, DeleteUnmark, RebuildRead, RebuildRefuse, RebuildPlan
    <3>2. \E pc \in {"idle", "put", "delUnlock", "delUnmark", "rebuildRead", "rebuildPlan"},
             to \in {"idle", "delUnmark", "rebuildPlan", "rebuildStatus"} : Goes(x, pc, to)
      BY <2>1 DEF Put, DeleteUnlock, DeleteUnmark, RebuildRead, RebuildRefuse, RebuildPlan
    <3>3. thread'[x].pc \in {"idle", "delUnmark", "rebuildPlan", "rebuildStatus"}
      BY <1>0, <3>2 DEF ThreadState
    <3> QED
      BY <1>0, <2>0, <3>1, <3>3
  <2>2. CASE RebuildStatus(x)
    <3>1. UNCHANGED meta /\ thread'[x].pc = "put"
      BY <1>0, <2>2 DEF RebuildStatus
    <3>2. \A t \in Tasks : row'[t].status = "absent" <=> row[t].status = "absent"
      BY <1>0, <2>2 DEF RebuildStatus, WithStatus, Snapshot, Recorded
    <3> QED
      BY <1>0, <2>0, <3>1, <3>2
  <2>3. CASE DeleteEnter(x)
    <3>1. /\ thread'[x].pc = "delScene" /\ thread'[x].saved = meta[Of(x)] /\ Of(x)' = Of(x)
          /\ UNCHANGED <<row, meta>> /\ Of(x) \in Tasks
      BY <1>0, <2>3 DEF DeleteEnter, ThreadState
    <3>2. meta[Of(x)] # Absent => meta[Of(x)].status # "absent"
      BY <1>0, <3>1 DEF Snapshot, Recorded, Status
    <3> QED
      BY <1>0, <2>0, <3>1, <3>2
  <2>4. CASE DeleteScene(x)
    BY <1>0, <2>0, <2>4 DEF DeleteScene, Absent
  <2>5. CASE DeleteSceneFails(x)
    <3>1. thread[x].pc = "delScene" /\ thread'[x].pc = "delUnlock" /\ UNCHANGED row
      BY <1>0, <2>5 DEF DeleteSceneFails
    <3>2. meta' = meta \/ meta' = [meta EXCEPT ![Of(x)] = thread[x].saved]
      BY <2>5 DEF DeleteSceneFails
    <3>3. thread[x].saved = Absent => thread[x].saved.status = "absent"
      BY DEF Absent
    <3>4. \A t \in Tasks : meta'[t].status # "absent" => row'[t].status # "absent"
      BY <1>0, <3>1, <3>2, <3>3
    <3>5. \A y \in Handlers : ~(y # x /\ thread[y].pc \in {"delPackage", "delRows"})
      BY <3>1 DEF LockOwner, DeleteInside
    <3> QED
      BY <1>0, <2>0, <3>1, <3>4, <3>5
  <2>6. CASE DeletePackage(x)
    BY <1>0, <2>0, <2>6 DEF DeletePackage
  <2>7. CASE DeletePackageFails(x)
    BY <1>0, <2>0, <2>7 DEF DeletePackageFails
  <2>8. CASE DeleteRows(x)
    <3>1. thread[x].pc = "delRows" /\ thread'[x].pc = "delUnlock" /\ UNCHANGED meta
      BY <1>0, <2>8 DEF DeleteRows
    <3>2. lock = x /\ ~RowNeeded /\ \A y \in Handlers : y # x => thread[y].pc # "delScene"
      BY <3>1, ThreadAssumption DEF LockOwner, DeleteInside, WorkerInside, Threads
    <3>3. \A t \in Tasks : t # Of(x) => row'[t] = row[t]
      BY <1>0, <2>8 DEF DeleteRows
    <3> QED
      BY <1>0, <2>0, <3>1, <3>2, <3>3
  <2> QED
    BY <1>0, <1>3, <2>1, <2>2, <2>3, <2>4, <2>5, <2>6, <2>7, <2>8
       DEF HandlerNext, DeleteNext, RerunNext, RerunPlan, RerunMeta, RerunStatus, RebuildNext, DeviceSave
<1> QED
  BY <1>1, <1>2, <1>3

\* Where no request writes back what it read of a task and no creation is
\* rolled back, a deleted task stays deleted: the worker never writes the row
\* of a task that has none, however it ends (_execute, _worker_loop).
THEOREM DeletedStaysDeleted ==
  ASSUME Requests \cap {"rerun", "rules", "device"} = {}, "copy" \notin Faults
  PROVE  Spec => WorkerNeverRevives
<1> DEFINE Inv == TypeOK /\ LockOwner /\ RowsHeld
<1>1. Init => RowsHeld
  BY DEF Init, RowsHeld, RowNeeded, InSweep, HasRow, HasMeta, Absent, IdleWorker, IdleThread, Threads, Writers
<1>2. TypeOK /\ LockOwner /\ RowsHeld /\ [Next]_vars => RowsHeld'
  <2> SUFFICES ASSUME TypeOK, LockOwner, RowsHeld, [Next]_vars PROVE RowsHeld'
    OBVIOUS
  <2>1. CASE UNCHANGED vars
    BY <2>1 DEF vars, db, disk, RowsHeld, RowNeeded, InSweep, HasRow, HasMeta, T, Of
  <2> QED
    BY <2>1, RowsHeldWorker, RowsHeldOthers DEF Next
<1>3. TypeOK /\ RowsHeld /\ [Next]_vars => [worker' # worker => \A t \in Tasks : HasRow(t)' => HasRow(t)]_vars
  <2> SUFFICES ASSUME TypeOK, RowsHeld, Next, worker' # worker PROVE \A t \in Tasks : HasRow(t)' => HasRow(t)
    OBVIOUS
  <2>1. WorkerNext
    BY HandlerWorker DEF Next, Request, CreateReserve, CreateRestore, DeleteMark, RerunRead, RebuildCheck, DeviceRead,
       CreateNext, CreateCopy, CreateCopyFails, CreateUndoRow, CreateUndoFiles, Put
  <2> QED
    BY <2>1, KeepsRowsWorker DEF KeepsRows, HasRow
<1> QED
  BY <1>1, <1>2, <1>3, TypeCorrect, OwnedLock, PTL DEF Spec, WorkerNeverRevives
-----------------------------------------------------------------------------
(* First executions.  Without deletions a row goes away only when its own  *)
(* creation is undone, before the task is queued for the first time.       *)

Early    == {"got", "claimed", "start", "stamp", "plans", "exec"}
Deleting == {"delWait", "delScene", "delPackage", "delRows", "delUnlock", "delUnmark"}

\* Nothing is left of an earlier task of this name, and nobody plans anything
\* for it: a rebuild may have been accepted, but will be refused.
Untouched(t) ==
  /\ t \notin frozen /\ ~HasMeta(t)
  /\ rerunPlan[t] = FALSE /\ rebuildPlan[t] = "none"
  /\ \A x \in Handlers : Of(x) = t => thread[x].pc = "rebuildRead"
  /\ worker.task = t => worker.pc \in Early /\ (worker.pc = "exec" => worker.plan = "run")

Creating(t) == thread[Loop].pc \in {"copy", "undoRow", "undoFiles", "put"} /\ Of(Loop) = t

FreshInv ==
  /\ \A t \in Tasks : t \in fresh \/ ~HasRow(t) => Untouched(t)
  /\ \A t \in Tasks : ~HasRow(t) \/ Creating(t) => ~Queued(t) /\ worker.task # t
  /\ \A t \in Tasks : Creating(t) => t \in fresh
  /\ \A t \in fresh : row[t].status \notin Terminal
  /\ thread[Loop].pc \in {"copy", "put"} => HasRow(Of(Loop))
  /\ \A x \in Threads : thread[x].pc \notin Deleting

\* What the worker does to a task: nothing, unless the task is in its hands.
Executes ==
  /\ \A t \in Tasks \ {T} : /\ row'[t] = row[t] /\ meta'[t] \in {meta[t], Absent}
                            /\ rerunPlan'[t] = rerunPlan[t] /\ rebuildPlan'[t] = rebuildPlan[t]
                            /\ t \in frozen' => t \in frozen
                            /\ t \in fresh' <=> t \in fresh
  /\ T \in Tasks /\ HasRow(T) => row'[T].status # "absent"
  /\ worker'.task \in {T, None} \/ (worker'.pc = "got" /\ Queued(worker'.task))
  /\ \A t \in Tasks : t \in fresh' => t \in fresh
  /\ worker.pc = "exec" \/ worker.pc \notin Early \cup {"idle"} => T \notin fresh'

LEMMA ExecutesWorker ==
  ASSUME TypeOK, FreshInv, WorkerNext
  PROVE  Executes
<1> USE DEF Executes, HasRow, Early, T, Step, db, disk, plans, hist
<1>0. /\ worker \in WorkerState /\ row \in [Tasks -> Snapshot] /\ meta \in [Tasks -> Snapshot]
      /\ rerunPlan \in [Tasks -> BOOLEAN] /\ rebuildPlan \in [Tasks -> {"none", "full", "incremental"}]
      /\ queue \in Seq(Tasks) /\ fresh \subseteq Tasks
      /\ worker.pc # "idle" => T \in Tasks
      /\ worker.pc \in {"file", "release", "mirror"} => worker.published \in Recorded
      /\ \A s \in Recorded : s.status # "absent"
      /\ \A s \in Snapshot : s # Absent => s \in Recorded
      /\ T \in fresh => worker.pc \in Early
  BY DEF TypeOK, WorkerOK, DataOK, MemoryOK, Recorded, Snapshot, Status, FreshInv, Untouched
<1>1. CASE Dequeueing
  <2>1. CASE WorkerGet
    <3>1. 1 \in 1 .. Len(queue) /\ queue[1] = Head(queue)
      BY <1>0, <2>1 DEF WorkerGet
    <3>2. worker'.task = Head(queue) /\ worker'.pc = "got"
      BY <1>0, <2>1, HeadTail DEF WorkerGet, WorkerState
    <3>3. Queued(worker'.task)
      BY <3>1, <3>2 DEF Queued
    <3> QED
      BY <1>0, <2>1, <3>2, <3>3 DEF WorkerGet
  <2>2. CASE WorkerSkip
    BY <1>0, <2>2 DEF WorkerSkip, IdleWorker
  <2>3. CASE WorkerClaim
    BY <1>0, <2>3 DEF WorkerClaim, WorkerState
  <2>4. CASE WorkerEnter
    BY <1>0, <2>4 DEF WorkerEnter, WorkerState
  <2> QED
    BY <1>1, <2>1, <2>2, <2>3, <2>4 DEF Dequeueing
<1>2. CASE Executing
  <2>1. CASE WorkerStart
    BY <1>0, <2>1 DEF WorkerStart, WorkerState, Started, WithStatus, Snapshot, Recorded, Absent
  <2>1s. CASE WorkerStamp
    BY <1>0, <2>1s DEF WorkerStamp, WorkerState, Snapshot, Recorded, Absent
  <2>2. CASE WorkerTakePlans
    BY <1>0, <2>2 DEF WorkerTakePlans, WorkerState
  <2>3. CASE WorkerRun
    <3>1. worker.pc = "exec" /\ worker'.task = T /\ fresh' = fresh \ {T} /\ UNCHANGED <<meta, plans>>
      BY <1>0, <2>3 DEF WorkerRun, WorkerRaises, WorkerState
    <3>2. frozen' = frozen \cup {T}
      BY <2>3 DEF WorkerRun
    <3>3. (\A t \in Tasks \ {T} : row'[t] = row[t]) /\ (row[T].status # "absent" => row' = row)
      BY <1>0, <3>1, <2>3 DEF WorkerRun, EnsureRow
    <3> QED
      BY <1>0, <3>1, <3>2, <3>3
  <2>4. CASE WorkerRules
    <3>1. worker.pc = "exec" /\ worker'.task = T /\ fresh' = fresh \ {T} /\ UNCHANGED <<row, frozen, plans>>
      BY <1>0, <2>4 DEF WorkerRules, WorkerRaises, WorkerState
    <3>2. meta' = meta \/ meta' = [meta EXCEPT ![T].run = worker.started]
      BY <2>4 DEF WorkerRules
    <3> QED
      BY <1>0, <3>1, <3>2
  <2>5. CASE WorkerStage
    <3>1. worker.pc = "exec" /\ worker'.task = T /\ fresh' = fresh \ {T} /\ UNCHANGED <<meta, frozen, plans>>
      BY <1>0, <2>5 DEF WorkerStage, WorkerRaises, WorkerState
    <3>2. (\A t \in Tasks \ {T} : row'[t] = row[t]) /\ (row[T].status # "absent" => row' = row)
      BY <1>0, <3>1, <2>5 DEF WorkerStage, EnsureRow
    <3> QED
      BY <1>0, <3>1, <3>2
  <2>6. CASE WorkerSwap
    <3>1. worker.pc = "swap" /\ worker'.task = T /\ UNCHANGED <<row, frozen, plans, fresh>>
      BY <1>0, <2>6 DEF WorkerSwap, WorkerState
    <3>2. \A t \in Tasks : t # T => meta'[t] = meta[t]
      BY <1>0, <2>6 DEF WorkerSwap
    <3> QED
      BY <1>0, <3>1, <3>2
  <2>7. CASE WorkerIncremental
    <3>1. worker.pc = "exec" /\ worker'.task = T /\ fresh' = fresh \ {T} /\ UNCHANGED <<meta, row, frozen, plans>>
      BY <1>0, <2>7 DEF WorkerIncremental, WorkerRaises, WorkerState
    <3> QED
      BY <1>0, <3>1
  <2> QED
    BY <1>2, <2>1, <2>1s, <2>2, <2>3, <2>4, <2>5, <2>6, <2>7 DEF Executing
<1>3. CASE Publishing
  <2>1. CASE WorkerPublish
    BY <1>0, <2>1 DEF WorkerPublish, WorkerState, PublishedSnapshot, Terminal
  <2>2. CASE WorkerPublishFile
    BY <1>0, <2>2 DEF WorkerPublishFile, WorkerState, SaveTaskMeta, Upserted
  <2>3. CASE WorkerPublishRaises
    BY <1>0, <2>3 DEF WorkerPublishRaises, WorkerState
  <2>4. CASE WorkerRollback
    <3>1. worker.pc \in {"publish", "file"} /\ worker'.task = T /\ UNCHANGED <<plans, fresh>>
      BY <1>0, <2>4 DEF WorkerRollback, WorkerState
    <3>2. row' = row \/ (worker.saved \in Recorded /\ row' = [row EXCEPT ![T] = Upserted(T, worker.saved)])
      BY <1>0, <2>4 DEF WorkerRollback, RolledBack, WorkerState
    <3>3. (\A t \in Tasks \ {T} : row'[t] = row[t]) /\ (row[T].status # "absent" => row'[T].status # "absent")
      BY <1>0, <3>1, <3>2 DEF Upserted
    <3>4. (\A t \in Tasks : t # T => meta'[t] = meta[t]) /\ frozen' \subseteq frozen \cup {T}
      BY <1>0, <2>4 DEF WorkerRollback
    <3> QED
      BY <1>0, <3>1, <3>3, <3>4
  <2>5. CASE WorkerRelease
    BY <1>0, <2>5 DEF WorkerRelease, WorkerState
  <2>6. CASE WorkerMirror
    BY <1>0, <2>6 DEF WorkerMirror, WorkerState, Upserted
  <2>7. CASE WorkerChecksum
    BY <1>0, <2>7 DEF WorkerChecksum, WorkerState
  <2>8. CASE WorkerChecksumFails
    BY <1>0, <2>8 DEF WorkerChecksumFails, WorkerState
  <2> QED
    BY <1>3, <2>1, <2>2, <2>3, <2>4, <2>5, <2>6, <2>7, <2>8 DEF Publishing
<1>4. CASE Sweeping
  <2>1. CASE WorkerSweep
    BY <1>0, <2>1 DEF WorkerSweep, WorkerState
  <2>2. CASE WorkerSweepUploads
    BY <1>0, <2>2 DEF WorkerSweepUploads, WorkerState
  <2>3. CASE WorkerSweepUploaded
    BY <1>0, <2>3 DEF WorkerSweepUploaded, WorkerState
  <2>4. CASE WorkerSweepOutput
    <3>1. worker.pc = "sweepOutput" /\ worker'.task = T /\ UNCHANGED <<row, frozen, plans, fresh>>
      BY <1>0, <2>4 DEF WorkerSweepOutput, WorkerState
    <3>2. \A t \in Tasks : meta'[t] \in {meta[t], Absent}
      BY <1>0, <2>4 DEF WorkerSweepOutput
    <3> QED
      BY <1>0, <3>1, <3>2
  <2>5. CASE WorkerSwept
    BY <1>0, <2>5 DEF WorkerSwept, WorkerState, IdleWorker
  <2> QED
    BY <1>4, <2>1, <2>2, <2>3, <2>4, <2>5 DEF Sweeping
<1>5. CASE Closing
  <2>1. CASE WorkerFinish
    BY <1>0, <2>1 DEF WorkerFinish, WorkerState, WithStatus, Terminal, Snapshot, Recorded
  <2>2. CASE WorkerRaise
    BY <1>0, <2>2 DEF WorkerRaise, WorkerState, WithStatus, Snapshot, Recorded
  <2>3. CASE WorkerFailFile
    <3>1. worker.pc = "failFile" /\ worker'.task = T /\ UNCHANGED <<frozen, plans, fresh>>
      BY <1>0, <2>3 DEF WorkerFailFile, WorkerState
    <3>2. CASE worker.saved # Absent
      <4>1. [worker.saved EXCEPT !.status = "failed"].status = "failed"
        BY <1>0, <3>2 DEF WorkerState, Recorded
      <4> QED
        BY <1>0, <2>3, <3>1, <3>2, <4>1 DEF WorkerFailFile, SaveTaskMeta, Upserted
    <3>3. CASE worker.saved = Absent
      BY <1>0, <2>3, <3>1, <3>3 DEF WorkerFailFile
    <3> QED
      BY <3>2, <3>3
  <2>4. CASE WorkerLeave
    BY <1>0, <2>4 DEF WorkerLeave, WorkerState
  <2>5. CASE WorkerClear
    BY <1>0, <2>5 DEF WorkerClear, WorkerState, IdleWorker
  <2>6. CASE WorkerLog
    BY <1>0, <2>6 DEF WorkerLog, WorkerState
  <2>7. CASE WorkerRefinish
    BY <1>0, <2>7 DEF WorkerRefinish, WorkerState, WithStatus, Snapshot, Recorded
  <2> QED
    BY <1>5, <2>1, <2>2, <2>3, <2>4, <2>5, <2>6, <2>7 DEF Closing
<1> QED
  BY <1>1, <1>2, <1>3, <1>4, <1>5 DEF WorkerNext
\* The worker carries out a first execution as a full run.
LEMMA FirstWorker ==
  ASSUME TypeOK, FreshInv, WorkerNext, T \in fresh'
  PROVE  /\ meta'[T] = meta[T] /\ UNCHANGED <<frozen, rerunPlan>> /\ rebuildPlan'[T] = rebuildPlan[T]
         /\ row'[T].status \in {row[T].status, "running"}
         /\ worker'.task = T => worker'.pc \in Early /\ (worker'.pc = "exec" => worker'.plan = "run")
<1> USE DEF HasRow, Early, T, Step, db, disk, plans, hist
<1>0. /\ worker \in WorkerState /\ row \in [Tasks -> Snapshot]
      /\ rerunPlan \in [Tasks -> BOOLEAN] /\ rebuildPlan \in [Tasks -> {"none", "full", "incremental"}]
      /\ fresh \subseteq Tasks /\ fresh' \subseteq fresh
      /\ None \notin Tasks
  BY ThreadAssumption, ExecutesWorker, WorkerType DEF TypeOK, WorkerOK, DataOK, MemoryOK, Executes
<1>1. /\ worker.pc \in Early \ {"exec"} /\ row[T].status # "absent"
      /\ rerunPlan[T] = FALSE /\ rebuildPlan[T] = "none"
  BY <1>0, ExecutesWorker DEF FreshInv, Untouched, Executes
<1>2. CASE WorkerSkip
  BY <1>0, <1>1, <1>2 DEF WorkerSkip, IdleWorker
<1>3. CASE WorkerClaim
  BY <1>0, <1>1, <1>3 DEF WorkerClaim, WorkerState
<1>4. CASE WorkerEnter
  BY <1>0, <1>1, <1>4 DEF WorkerEnter, WorkerState
<1>5. CASE WorkerStart
  BY <1>0, <1>1, <1>5 DEF WorkerStart, WorkerState, Started, WithStatus, Snapshot, Recorded, Absent
<1>5s. CASE WorkerStamp
  BY <1>0, <1>1, <1>5s DEF WorkerStamp, WorkerState, Snapshot, Recorded, Absent
<1>6. CASE WorkerTakePlans
  <2>1. rerunPlan' = rerunPlan /\ rebuildPlan' = rebuildPlan
    BY <1>0, <1>1, <1>6 DEF WorkerTakePlans
  <2> QED
    BY <1>0, <1>1, <1>6, <2>1 DEF WorkerTakePlans, WorkerState
<1>7. WorkerSkip \/ WorkerClaim \/ WorkerEnter \/ WorkerStart \/ WorkerStamp \/ WorkerTakePlans
  <2>1. ~WorkerGet
    BY <1>1 DEF WorkerGet
  <2>2. ~(WorkerRun \/ WorkerRules \/ WorkerStage \/ WorkerSwap \/ WorkerIncremental)
    BY <1>1 DEF WorkerRun, WorkerRules, WorkerStage, WorkerSwap, WorkerIncremental, WorkerRaises
  <2>3. ~Publishing
    BY <1>1 DEF Publishing, WorkerPublish, WorkerPublishFile, WorkerPublishRaises, WorkerRollback,
       WorkerRelease, WorkerMirror, WorkerChecksum, WorkerChecksumFails
  <2>4. ~Sweeping
    BY <1>1 DEF Sweeping, WorkerSweep, WorkerSweepUploads, WorkerSweepUploaded, WorkerSweepOutput, WorkerSwept
  <2>5. ~Closing
    BY <1>1 DEF Closing, WorkerFinish, WorkerRaise, WorkerFailFile, WorkerLeave, WorkerClear, WorkerLog, WorkerRefinish
  <2> QED
    BY <2>1, <2>2, <2>3, <2>4, <2>5 DEF WorkerNext, Dequeueing, Executing
<1> QED
  BY <1>2, <1>3, <1>4, <1>5, <1>5s, <1>6, <1>7

LEMMA FreshWorker ==
  ASSUME TypeOK, FreshInv, WorkerNext
  PROVE  FreshInv'
<1>0. /\ UNCHANGED thread /\ None \notin Tasks /\ fresh \subseteq Tasks /\ fresh' \subseteq Tasks
      /\ thread[Loop].pc # "idle" => Of(Loop) \in Tasks
      /\ meta \in [Tasks -> Snapshot]
      /\ Absent.status = "absent"
  <2>1. TypeOK'
    BY WorkerType
  <2> QED
    BY <2>1, WorkerQueue, ThreadAssumption DEF TypeOK, MemoryOK, DataOK, ThreadOK, Threads, Of, Absent
<1>q. \A t \in Tasks : Queued(t)' => Queued(t)
  <2>1. CASE queue' = queue
    BY <2>1 DEF Queued
  <2>2. CASE WorkerGet
    <3>1. queue \in Seq(Tasks) /\ queue # <<>> /\ queue' = Tail(queue)
      BY <2>2 DEF TypeOK, MemoryOK, WorkerGet
    <3>2. \A i \in 1 .. Len(queue') : i + 1 \in 1 .. Len(queue) /\ queue'[i] = queue[i + 1]
      BY <3>1
    <3> QED
      BY <3>2 DEF Queued
  <2> QED
    BY <2>1, <2>2, WorkerQueue
<1>1. Executes
  BY ExecutesWorker
<1>2. \A t \in Tasks : HasRow(t) => HasRow(t)'
  BY <1>1 DEF Executes, HasRow
<1>3. T \in Tasks => HasRow(T)
  BY DEF FreshInv, T
<1>4. \A t \in Tasks : t \in fresh' => t \in fresh
  BY <1>1 DEF Executes
<1>5. ASSUME NEW t \in Tasks, t \in fresh' \/ ~HasRow(t)' PROVE Untouched(t)'
  <2>1. Untouched(t)
    BY <1>2, <1>4, <1>5 DEF FreshInv
  <2>2. CASE t = T
    <3>1. t \in fresh'
      BY <1>2, <1>3, <1>5, <2>2
    <3> QED
      BY <1>0, <2>1, <2>2, <3>1, FirstWorker DEF Untouched, HasMeta, T, Of
  <2>3. CASE t # T
    <3>1. meta'[t] \in {meta[t], Absent} /\ rerunPlan'[t] = rerunPlan[t] /\ rebuildPlan'[t] = rebuildPlan[t]
          /\ t \notin frozen'
      BY <1>1, <2>1, <2>3 DEF Executes, Untouched
    <3>2. worker'.task = t => worker'.pc = "got"
      BY <1>0, <1>1, <2>3 DEF Executes
    <3> QED
      BY <1>0, <2>1, <3>1, <3>2 DEF Untouched, HasMeta, Early, Of
  <2> QED
    BY <2>2, <2>3
<1>6. ASSUME NEW t \in Tasks, ~HasRow(t)' \/ Creating(t)' PROVE ~Queued(t)' /\ worker'.task # t
  <2>1. ~Queued(t) /\ worker.task # t
    BY <1>0, <1>2, <1>6 DEF FreshInv, Creating, Of
  <2> QED
    BY <1>0, <1>q, <1>1, <2>1 DEF Executes, T
<1>7. ASSUME NEW t \in Tasks, Creating(t)' PROVE t \in fresh'
  <2>1. t \in fresh /\ t # T
    BY <1>0, <1>7 DEF FreshInv, Creating, Of, T
  <2> QED
    BY <1>1, <2>1 DEF Executes
<1>8. ASSUME NEW t \in fresh' PROVE row'[t].status \notin Terminal
  <2>1. row[t].status \notin Terminal
    BY <1>0, <1>4, <1>8 DEF FreshInv
  <2>2. CASE t = T
    BY <1>8, <2>1, <2>2, FirstWorker DEF Terminal
  <2>3. CASE t # T
    BY <1>0, <1>1, <2>1, <2>3 DEF Executes
  <2> QED
    BY <2>2, <2>3
<1>9. thread'[Loop].pc \in {"copy", "put"} => HasRow(Of(Loop))'
  BY <1>0, <1>2 DEF FreshInv, Of, HasRow
<1> QED
  BY <1>0, <1>5, <1>6, <1>7, <1>8, <1>9 DEF FreshInv
\* What a thread that deletes nothing does: it changes the records of its own
\* task, and none before a rebuild was found to be possible.
Handles(x) ==
  /\ UNCHANGED <<worker, fresh, frozen>>
  /\ \A y \in Threads : y # x => thread'[y] = thread[y]
  /\ thread'[x].task \in {Of(x), None} /\ thread'[x].pc \notin Deleting
  /\ \A t \in Tasks \ {Of(x)} : /\ row'[t] = row[t] /\ meta'[t] = meta[t]
                                /\ rerunPlan'[t] = rerunPlan[t] /\ rebuildPlan'[t] = rebuildPlan[t]
  /\ HasRow(Of(x)) => row'[Of(x)].status # "absent"
  /\ queue' = queue \/ (queue' = Append(queue, Of(x)) /\ thread[x].pc = "put")
  /\ thread[x].pc = "rebuildRead" =>
       /\ UNCHANGED <<row, meta, rerunPlan, rebuildPlan>>
       /\ thread'[x].task = None \/ SceneOrRow(Of(x)).status \in Terminal

LEMMA HandlesHandler ==
  ASSUME TypeOK, FreshInv, NEW x \in Handlers, HandlerNext(x)
  PROVE  Handles(x) /\ thread[x].pc # "idle"
<1> USE DEF Handles, HasRow, HasMeta, Of, db, disk, plans, hist, ctl, Goes, IdleThread, Deleting
<1>0. /\ row \in [Tasks -> Snapshot] /\ meta \in [Tasks -> Snapshot] /\ thread \in [Threads -> ThreadState]
      /\ rerunPlan \in [Tasks -> BOOLEAN] /\ rebuildPlan \in [Tasks -> {"none", "full", "incremental"}]
      /\ thread[x].pc # "idle" => Of(x) \in Tasks
      /\ x \in Threads
      /\ thread[x].pc \in {"rerunMeta", "deviceSave"} => thread[x].saved \in Recorded
      /\ \A s \in Recorded : s.status # "absent" /\ [s EXCEPT !.status = "pending"].status = "pending"
      /\ thread[x].pc \notin Deleting
  BY ThreadAssumption DEF TypeOK, DataOK, MemoryOK, ThreadOK, Threads, Recorded, Status, FreshInv
<1>1. CASE Put(x)
  BY <1>0, <1>1 DEF Put
<1>2. CASE RerunPlan(x)
  BY <1>0, <1>2 DEF RerunPlan, ThreadState
<1>3. CASE RerunMeta(x)
  BY <1>0, <1>3 DEF RerunMeta, SaveTaskMeta, Upserted, ThreadState
<1>4. CASE RerunStatus(x)
  BY <1>0, <1>4 DEF RerunStatus, WithStatus, ThreadState, Snapshot, Recorded
<1>5. CASE RebuildRead(x)
  BY <1>0, <1>5 DEF RebuildRead, Rebuildable, ThreadState
<1>6. CASE RebuildRefuse(x)
  BY <1>0, <1>6 DEF RebuildRefuse
<1>7. CASE RebuildPlan(x)
  BY <1>0, <1>7 DEF RebuildPlan, ThreadState
<1>8. CASE RebuildStatus(x)
  BY <1>0, <1>8 DEF RebuildStatus, WithStatus, ThreadState, Snapshot, Recorded
<1>9. CASE DeviceSave(x)
  BY <1>0, <1>9 DEF DeviceSave, SaveTaskMeta, Upserted
<1>10. ~DeleteNext(x)
  BY <1>0 DEF DeleteNext, DeleteEnter, DeleteScene, DeleteSceneFails, DeletePackage, DeletePackageFails,
     DeleteRows, DeleteUnlock, DeleteUnmark
<1> QED
  BY <1>1, <1>2, <1>3, <1>4, <1>5, <1>6, <1>7, <1>8, <1>9, <1>10 DEF HandlerNext, RerunNext, RebuildNext

\* An entry added to the queue is the only one that is new.
LEMMA QueueAppend ==
  ASSUME TypeOK, NEW u \in Tasks, queue' = Append(queue, u), NEW t \in Tasks, Queued(t)'
  PROVE  Queued(t) \/ t = u
<1>1. queue \in Seq(Tasks)
  BY DEF TypeOK, MemoryOK
<1>2. PICK i \in 1 .. Len(queue') : queue'[i] = t
  BY DEF Queued
<1>3. (i \in 1 .. Len(queue) /\ queue[i] = t) \/ t = u
  BY <1>1, <1>2
<1> QED
  BY <1>3 DEF Queued

LEMMA FreshHandler ==
  ASSUME TypeOK, FreshInv, NEW x \in Handlers, HandlerNext(x)
  PROVE  FreshInv'
<1>0. /\ Handles(x) /\ thread[x].pc # "idle" /\ Of(x) \in Tasks /\ None \notin Tasks
      /\ x \in Threads /\ Loop \in Threads /\ x # Loop /\ Handlers \subseteq Threads
      /\ thread[Loop].pc # "idle" => Of(Loop) \in Tasks
      /\ fresh \subseteq Tasks
  BY HandlesHandler, ThreadAssumption DEF TypeOK, MemoryOK, ThreadOK, Threads, Of
<1>1. thread[x].pc # "rebuildRead" => HasRow(Of(x)) /\ Of(x) \notin fresh
  BY <1>0 DEF FreshInv, Untouched
<1>2. \A t \in Tasks : HasRow(t)' <=> HasRow(t)
  BY <1>0, <1>1 DEF Handles, HasRow
<1>3. \A t \in Tasks : Creating(t)' <=> Creating(t)
  BY <1>0 DEF Handles, Creating, Of
<1>4. ASSUME NEW t \in Tasks, t \in fresh' \/ ~HasRow(t)' PROVE Untouched(t)'
  <2>1. Untouched(t) /\ (t \in fresh \/ ~HasRow(t))
    BY <1>0, <1>2, <1>4 DEF FreshInv, Handles
  <2>2. UNCHANGED <<worker, frozen>> /\ meta'[t] = meta[t] /\ rerunPlan'[t] = rerunPlan[t] /\ rebuildPlan'[t] = rebuildPlan[t]
    BY <1>0, <1>1, <2>1 DEF Handles
  <2>3. thread'[x].task # t
    <3>1. CASE Of(x) # t
      BY <1>0, <3>1 DEF Handles
    <3>2. CASE Of(x) = t
      <4>1. thread[x].pc = "rebuildRead"
        BY <1>0, <2>1, <3>2 DEF Untouched
      <4>2. ~HasMeta(t) /\ row[t].status \notin Terminal
        BY <1>0, <2>1 DEF FreshInv, Untouched, HasRow, Terminal
      <4> QED
        BY <1>0, <3>2, <4>1, <4>2 DEF Handles, SceneOrRow
    <3> QED
      BY <3>1, <3>2
  <2>4. \A y \in Handlers : thread'[y].task = t => thread'[y].pc = "rebuildRead"
    BY <1>0, <2>1, <2>3 DEF Handles, Untouched, Of
  <2> QED
    BY <2>1, <2>2, <2>4 DEF Untouched, HasMeta, Of
<1>5. ASSUME NEW t \in Tasks, ~HasRow(t)' \/ Creating(t)' PROVE ~Queued(t)' /\ worker'.task # t
  <2>1. ~Queued(t) /\ worker'.task # t
    BY <1>0, <1>2, <1>3, <1>5 DEF FreshInv, Handles
  <2>2. CASE queue' = queue
    BY <2>1, <2>2 DEF Queued
  <2>3. CASE queue' = Append(queue, Of(x)) /\ thread[x].pc = "put"
    <3>1. t # Of(x)
      BY <1>0, <1>1, <1>2, <1>3, <1>5, <2>3 DEF FreshInv
    <3> QED
      BY <1>0, <2>1, <2>3, <3>1, QueueAppend
  <2> QED
    BY <1>0, <2>2, <2>3 DEF Handles
<1>6. ASSUME NEW t \in fresh' PROVE row'[t].status \notin Terminal
  BY <1>0, <1>1, <1>6 DEF FreshInv, Handles
<1> QED
  BY <1>0, <1>2, <1>3, <1>4, <1>5, <1>6 DEF FreshInv, Handles, Creating, Of
LEMMA FreshRequest ==
  ASSUME "delete" \notin Requests, TypeOK, FreshInv, Request
  PROVE  FreshInv'
<1> USE DEF HasRow, HasMeta, Of, db, disk, plans, hist, ctl, Begin, IdleThread
<1>0. /\ row \in [Tasks -> Snapshot] /\ meta \in [Tasks -> Snapshot] /\ thread \in [Threads -> ThreadState]
      /\ fresh \subseteq Tasks /\ Loop \in Threads /\ Loop \notin Handlers /\ Handlers \subseteq Threads
  BY ThreadAssumption DEF TypeOK, DataOK, MemoryOK, ThreadOK, Threads
<1>1. PICK t \in Tasks : \/ CreateReserve(t) \/ CreateRestore(t)
                         \/ \E x \in Handlers : RerunRead(x, t) \/ RebuildCheck(x, t) \/ DeviceRead(x, t)
  BY DEF Request, DeleteMark
<1>2. CASE CreateReserve(t)
  <2>1. /\ UNCHANGED <<meta, frozen, rerunPlan, rebuildPlan, queue, worker>>
        /\ fresh' = fresh \cup {t} /\ row'[t].status = "pending"
        /\ \A u \in Tasks \ {t} : row'[u] = row[u]
        /\ \A y \in Handlers : thread'[y] = thread[y]
        /\ thread[Loop].pc = "idle" /\ thread'[Loop].pc = "copy" /\ thread'[Loop].task = t
        /\ row[t].status = "absent"
    BY <1>0, <1>2 DEF CreateReserve
  <2>2. Untouched(t) /\ ~Queued(t) /\ worker.task # t
    BY <2>1 DEF FreshInv
  <2>3. \A u \in Tasks : Untouched(u) => Untouched(u)'
    BY <2>1 DEF Untouched
  <2>4. \A u \in Tasks : Creating(u)' => u = t
    BY <2>1 DEF Creating
  <2>5. \A u \in Tasks : Queued(u)' <=> Queued(u)
    BY <2>1 DEF Queued
  <2>6. \A u \in Tasks : u \in fresh' \/ ~HasRow(u)' => Untouched(u)'
    BY <2>1, <2>2, <2>3 DEF FreshInv
  <2>7. \A u \in Tasks : ~HasRow(u)' \/ Creating(u)' => ~Queued(u)' /\ worker'.task # u
    BY <2>1, <2>2, <2>4, <2>5 DEF FreshInv
  <2>8. \A u \in fresh' : row'[u].status \notin Terminal
    BY <1>0, <2>1 DEF FreshInv, Terminal
  <2>9. \A y \in Threads : thread'[y].pc \notin Deleting
    BY <2>1 DEF FreshInv, Deleting, Threads
  <2> QED
    BY <2>1, <2>4, <2>6, <2>7, <2>8, <2>9 DEF FreshInv
<1>3. CASE CreateRestore(t)
  BY <1>3 DEF CreateRestore, FreshInv, Untouched, Creating, Queued
<1>4. ASSUME NEW x \in Handlers, RerunRead(x, t) \/ RebuildCheck(x, t) \/ DeviceRead(x, t) PROVE FreshInv'
  <2>1. UNCHANGED <<row, meta, frozen, rerunPlan, rebuildPlan, queue, worker, fresh>>
    BY <1>4 DEF RerunRead, RebuildCheck, DeviceRead
  <2>2. /\ thread'[x].task = t /\ thread'[x].pc \in {"rerunPlan", "rebuildRead", "deviceSave"}
        /\ \A y \in Threads : y # x => thread'[y] = thread[y]
    <3>1. PICK kind, pc, saved : Begin(x, kind, t, pc, saved) /\ pc \in {"rerunPlan", "rebuildRead", "deviceSave"}
      BY Zenon, <1>4 DEF RerunRead, RebuildCheck, DeviceRead
    <3> QED
      BY <1>0, <1>4, <3>1
  <2>3. thread'[x].pc = "rebuildRead" \/ ~Untouched(t)
    BY <1>0, <1>4 DEF RerunRead, RebuildCheck, DeviceRead, Untouched, Terminal
  <2>4. \A u \in Tasks : Untouched(u) => Untouched(u)'
    BY <1>0, <2>1, <2>2, <2>3 DEF Untouched
  <2>5. thread'[Loop] = thread[Loop]
    BY <1>0, <1>4, <2>2
  <2>6. \A y \in Threads : thread'[y].pc \notin Deleting
    BY <2>2 DEF FreshInv, Deleting
  <2> QED
    BY <2>1, <2>4, <2>5, <2>6 DEF FreshInv, Creating, Queued
<1> QED
  BY <1>1, <1>2, <1>3, <1>4

LEMMA FreshCreate ==
  ASSUME TypeOK, FreshInv, CreateNext
  PROVE  FreshInv'
<1> USE DEF HasRow, HasMeta, Of, db, disk, plans, hist, ctl, Goes, IdleThread
<1>0. /\ row \in [Tasks -> Snapshot] /\ meta \in [Tasks -> Snapshot] /\ thread \in [Threads -> ThreadState]
      /\ fresh \subseteq Tasks /\ Loop \in Threads /\ Loop \notin Handlers /\ Handlers \subseteq Threads
      /\ thread[Loop].pc # "idle" => Of(Loop) \in Tasks
      /\ None \notin Tasks /\ Absent.status = "absent"
  BY ThreadAssumption DEF TypeOK, DataOK, MemoryOK, ThreadOK, Threads, Absent
<1> DEFINE t == Of(Loop)
<1>1. /\ UNCHANGED <<frozen, rerunPlan, rebuildPlan, worker>> /\ thread[Loop].pc # "idle"
      /\ \A y \in Handlers : thread'[y] = thread[y]
      /\ thread'[Loop].pc \in {"idle", "put", "undoRow", "undoFiles"}
      /\ thread'[Loop].pc # "idle" => thread'[Loop].task = t
      /\ \A u \in Tasks \ {t} : row'[u] = row[u] /\ meta'[u] = meta[u]
      /\ meta'[t] \in {meta[t], Absent} /\ row'[t] \in {row[t], Absent}
      /\ thread'[Loop].pc = "put" => thread[Loop].pc = "copy" /\ row' = row
      /\ fresh' = fresh \/ (fresh' = fresh \ {t} /\ thread'[Loop].pc = "idle")
      /\ row' = row \/ thread[Loop].pc = "undoRow"
      /\ queue' = queue \/ (queue' = Append(queue, t) /\ thread[Loop].pc = "put" /\ row' = row /\ thread'[Loop].pc = "idle")
  <2>1. CASE CreateCopy
    BY <1>0, <2>1 DEF CreateCopy, ThreadState
  <2>2. CASE CreateCopyFails
    BY <1>0, <2>2 DEF CreateCopyFails, ThreadState
  <2>3. CASE CreateUndoRow
    BY <1>0, <2>3 DEF CreateUndoRow, ThreadState
  <2>4. CASE CreateUndoFiles
    BY <1>0, <2>4 DEF CreateUndoFiles
  <2>5. CASE Put(Loop)
    BY <1>0, <2>5 DEF Put
  <2> QED
    BY <2>1, <2>2, <2>3, <2>4, <2>5 DEF CreateNext
<1>2. t \in Tasks /\ (thread[Loop].pc = "undoRow" => t \in fresh /\ Creating(t))
  BY <1>0, <1>1 DEF FreshInv, Creating
<1>3. \A u \in Tasks : Untouched(u) => Untouched(u)'
  BY <1>0, <1>1 DEF Untouched
<1>4. \A u \in Tasks : Creating(u)' => Creating(u)
  <2>1. thread[Loop].pc \in {"copy", "undoRow", "undoFiles", "put"}
    BY DEF CreateNext, CreateCopy, CreateCopyFails, CreateUndoRow, CreateUndoFiles, Put
  <2> QED
    BY <1>0, <1>1, <2>1 DEF Creating
<1>5. \A u \in Tasks : ~HasRow(u)' => ~HasRow(u) \/ Creating(u)
  BY <1>0, <1>1, <1>2
<1>6. \A u \in Tasks : u \in fresh' \/ ~HasRow(u)' => Untouched(u)'
  BY <1>1, <1>3, <1>5 DEF FreshInv
<1>7. ASSUME NEW u \in Tasks, ~HasRow(u)' \/ Creating(u)' PROVE ~Queued(u)' /\ worker'.task # u
  <2>1. ~Queued(u) /\ worker'.task # u
    BY <1>1, <1>4, <1>5, <1>7 DEF FreshInv
  <2>2. CASE queue' = queue
    BY <2>1, <2>2 DEF Queued
  <2>3. CASE queue' # queue
    <3>1. queue' = Append(queue, t) /\ thread[Loop].pc = "put" /\ row' = row /\ thread'[Loop].pc = "idle"
      BY <1>1, <2>3
    <3>2. row[t].status # "absent"
      BY <3>1 DEF FreshInv
    <3>3. u # t
      BY <1>7, <3>1, <3>2 DEF Creating
    <3> QED
      BY <1>2, <2>1, <3>1, <3>3, QueueAppend
  <2> QED
    BY <2>2, <2>3
<1>8. \A u \in Tasks : Creating(u)' => u \in fresh'
  BY <1>1, <1>4 DEF FreshInv, Creating
<1>9. \A u \in fresh' : row'[u].status \notin Terminal
  BY <1>0, <1>1 DEF FreshInv, Terminal
<1>10. thread'[Loop].pc \in {"copy", "put"} => HasRow(Of(Loop))'
  BY <1>1 DEF FreshInv
<1>11. \A y \in Threads : thread'[y].pc \notin Deleting
  BY <1>1 DEF FreshInv, Deleting, Threads
<1> QED
  BY <1>6, <1>7, <1>8, <1>9, <1>10, <1>11 DEF FreshInv

LEMMA FreshHolds ==
  ASSUME "delete" \notin Requests
  PROVE  Spec => []FreshInv
<1>1. Init => FreshInv
  BY ThreadAssumption
     DEF Init, FreshInv, Untouched, Creating, Queued, HasRow, HasMeta, Of, Absent, IdleWorker, IdleThread, Threads, Deleting
<1>2. TypeOK /\ FreshInv /\ [Next]_vars => FreshInv'
  <2> SUFFICES ASSUME TypeOK, FreshInv, [Next]_vars PROVE FreshInv'
    OBVIOUS
  <2>1. CASE UNCHANGED vars
    BY <2>1 DEF vars, db, disk, plans, ctl, env, hist, FreshInv, Untouched, Creating, Queued, HasRow, HasMeta, Of
  <2> QED
    BY <2>1, FreshWorker, FreshRequest, FreshCreate, FreshHandler DEF Next
<1> QED
  BY <1>1, <1>2, TypeCorrect, PTL DEF Spec

\* Where no task is deleted, the first execution of every task is a full run:
\* no plan for it is there, and none is accepted before it has run
\* (_execute, rerun, rebuild).  The counterexample of find_stale_plan needs a
\* deletion.
THEOREM FirstRunsInFull ==
  ASSUME "delete" \notin Requests
  PROVE  Spec => FreshRunsInFull
<1> DEFINE First == \A t \in fresh : worker.task = t /\ worker.pc = "plans" /\ worker.pc' = "exec"
                      => worker.plan' = "run"
<1>1. TypeOK /\ FreshInv /\ [Next]_vars => [First]_vars
  <2> SUFFICES ASSUME TypeOK, FreshInv, Next, NEW t \in fresh,
                      worker.task = t, worker.pc = "plans", worker.pc' = "exec"
               PROVE  worker.plan' = "run"
    OBVIOUS
  <2>1. WorkerNext
    BY HandlerWorker DEF Next, Request, CreateReserve, CreateRestore, DeleteMark, RerunRead, RebuildCheck, DeviceRead,
       CreateNext, CreateCopy, CreateCopyFails, CreateUndoRow, CreateUndoFiles, Put
  <2>2. t \in Tasks
    BY DEF TypeOK, MemoryOK
  <2>3. T \in fresh'
    BY <2>1, <2>2 DEF WorkerNext, Dequeueing, Executing, Publishing, Sweeping, Closing,
       WorkerGet, WorkerSkip, WorkerClaim, WorkerEnter, Step, T, hist,
       WorkerStart, WorkerStamp, WorkerTakePlans, WorkerRun, WorkerRules, WorkerStage, WorkerSwap, WorkerIncremental,
       WorkerPublish, WorkerPublishFile, WorkerPublishRaises, WorkerRollback, WorkerRelease, WorkerMirror, WorkerChecksum, WorkerChecksumFails,
       WorkerSweep, WorkerSweepUploads, WorkerSweepUploaded, WorkerSweepOutput, WorkerSwept,
       WorkerFinish, WorkerRaise, WorkerFailFile, WorkerLeave, WorkerClear, WorkerLog, WorkerRefinish, WorkerRaises
  <2>4. worker'.task = t
    BY <2>1, <2>2 DEF TypeOK, WorkerOK, WorkerState, WorkerNext, Dequeueing, Executing, Publishing, Sweeping, Closing,
       WorkerGet, WorkerSkip, WorkerClaim, WorkerEnter, Step, T, hist,
       WorkerStart, WorkerStamp, WorkerTakePlans, WorkerRun, WorkerRules, WorkerStage, WorkerSwap, WorkerIncremental,
       WorkerPublish, WorkerPublishFile, WorkerPublishRaises, WorkerRollback, WorkerRelease, WorkerMirror, WorkerChecksum, WorkerChecksumFails,
       WorkerSweep, WorkerSweepUploads, WorkerSweepUploaded, WorkerSweepOutput, WorkerSwept,
       WorkerFinish, WorkerRaise, WorkerFailFile, WorkerLeave, WorkerClear, WorkerLog, WorkerRefinish, WorkerRaises
  <2> QED
    BY <2>1, <2>3, <2>4, FirstWorker DEF T
<1> QED
  BY <1>1, FreshHolds, TypeCorrect, PTL DEF Spec, FreshRunsInFull
-----------------------------------------------------------------------------
(* The number of scenes.  A sweep keeps a finished task only if fewer than *)
(* Keep tasks are more recent, and whatever makes a task finished or       *)
(* writes the scene of a finished one is followed by a sweep.              *)

FinishedAfter(t) == {u \in Tasks : row[u].status \in Terminal /\ Recency(u) > Recency(t)}

\* The scene of a finished task is one of the Keep most recent.
Kept(t) == dir[t] /\ row[t].status \in Terminal => Cardinality(FinishedAfter(t)) < Keep

\* No sweep is due: the worker has not closed a run, or swept after it did.
NoSweepDue ==
  \/ worker.pc \in {"idle", "got", "claimed", "start", "stamp", "plans", "exec", "swap", "checksum"}
  \/ worker.pc \in {"leave", "clear"} /\ ~worker.raised

KeptInv ==
  /\ NoSweepDue => \A t \in Tasks : Kept(t)
  /\ worker.pc = "sweepUploads" => \A t \in Tasks \ worker.doomed : Kept(t)
  /\ worker.pc = "sweepOutput" => \A t \in Tasks \ worker.victims : Kept(t)
  /\ worker.pc = "failFile" \/ worker.then = "failFile" => worker.raised

\* No task becomes finished, and no finished one gets a scene.
FinishesNone ==
  /\ \A t \in Tasks : row'[t].status \in Terminal => row'[t] = row[t]
  /\ \A t \in Tasks : dir'[t] /\ row'[t].status \in Terminal => dir[t]

LEMMA KeptStays ==
  ASSUME IsFiniteSet(Tasks), TypeOK, FinishesNone, NEW t \in Tasks, Kept(t)
  PROVE  Kept(t)'
<1> SUFFICES ASSUME dir'[t], row'[t].status \in Terminal PROVE Cardinality(FinishedAfter(t)') < Keep
  BY DEF Kept
<1>1. row'[t] = row[t] /\ Cardinality(FinishedAfter(t)) < Keep
  BY DEF FinishesNone, Kept
<1>2. FinishedAfter(t)' \subseteq FinishedAfter(t) /\ FinishedAfter(t) \subseteq Tasks
  BY <1>1 DEF FinishedAfter, FinishesNone, Recency
<1>3. /\ Cardinality(FinishedAfter(t)') \in Nat /\ Cardinality(FinishedAfter(t)) \in Nat
      /\ Cardinality(FinishedAfter(t)') <= Cardinality(FinishedAfter(t))
  BY <1>2, FS_Subset, FS_CardinalityType, Zenon
<1> QED
  BY <1>1, <1>3, BoundAssumption

\* What the sweep decides to keep is kept.
LEMMA KeptDecided ==
  ASSUME IsFiniteSet(Tasks), TypeOK
  PROVE  \A t \in Tasks \ Doomed : Kept(t)
<1> SUFFICES ASSUME NEW t \in Tasks, t \notin Doomed, row[t].status \in Terminal
             PROVE  Cardinality(FinishedAfter(t)) < Keep
  BY DEF Kept
<1>1. t \in Known /\ row[t].status \notin Exempt
  BY DEF Known, HasRow, Exempt, Terminal
<1>2. Cardinality(Newer(t)) < Keep
  BY <1>1 DEF Doomed, Retained
<1>3. FinishedAfter(t) \subseteq Newer(t) /\ Newer(t) \subseteq Tasks
  BY DEF FinishedAfter, Newer, Known, HasRow, Terminal
<1>4. /\ Cardinality(FinishedAfter(t)) \in Nat /\ Cardinality(Newer(t)) \in Nat
      /\ Cardinality(FinishedAfter(t)) <= Cardinality(Newer(t))
  BY <1>3, FS_Subset, FS_CardinalityType, Zenon
<1> QED
  BY <1>2, <1>4, BoundAssumption

\* The row that save_run_start dates is not finished.
StartedInv == worker.pc = "stamp" => row[T].status \notin Terminal

LEMMA StartedWorker ==
  ASSUME TypeOK, WorkerNext
  PROVE  StartedInv'
<1>0. worker \in WorkerState /\ row \in [Tasks -> Snapshot] /\ (worker.pc # "idle" => T \in Tasks)
  BY DEF TypeOK, WorkerOK, DataOK, T
<1> SUFFICES ASSUME worker'.pc = "stamp" PROVE row'[worker'.task].status \notin Terminal
  BY DEF StartedInv, T
<1>1. WorkerStart
  <2> USE DEF T, Step
  <2>1. ~Dequeueing
    <3>1. ~WorkerSkip
      BY DEF WorkerSkip, IdleWorker
    <3>2. ~(WorkerGet \/ WorkerClaim \/ WorkerEnter)
      BY <1>0 DEF WorkerGet, WorkerClaim, WorkerEnter, WorkerState
    <3> QED
      BY <3>1, <3>2 DEF Dequeueing
  <2>2. ~(WorkerStamp \/ WorkerTakePlans)
    BY <1>0 DEF WorkerStamp, WorkerTakePlans, WorkerState
  <2>3. ~(WorkerRun \/ WorkerRules)
    BY <1>0 DEF WorkerRun, WorkerRules, AfterRules, WorkerRaises, WorkerState
  <2>4. ~(WorkerStage \/ WorkerSwap \/ WorkerIncremental)
    <3>0. ASSUME NEW plan, WorkerRaises(plan) PROVE FALSE
      <4>1. worker' = [worker EXCEPT !.pc = "raise"]
        BY <3>0 DEF WorkerRaises
      <4> QED
        BY <1>0, <4>1 DEF WorkerState
    <3>1. ~WorkerStage
      <4>1. [worker EXCEPT !.pc = "swap", !.saved = meta[T]].pc = "swap"
        BY <1>0 DEF WorkerState
      <4> QED
        BY <3>0, <4>1 DEF WorkerStage
    <3>2. ~WorkerSwap
      BY <1>0 DEF WorkerSwap, WorkerState
    <3>3. ~WorkerIncremental
      <4>1. \A pc \in {"publish", "leave"} :
              [worker EXCEPT !.pc = pc, !.result = "completed"].pc = pc
        BY <1>0 DEF WorkerState
      <4> QED
        BY <3>0, <4>1 DEF WorkerIncremental
    <3> QED
      BY <3>1, <3>2, <3>3
  <2>5. ~Publishing
    BY <1>0 DEF Publishing, WorkerPublish, WorkerPublishFile, WorkerPublishRaises, WorkerRollback,
       WorkerRelease, WorkerMirror, WorkerChecksum, WorkerChecksumFails, WorkerState
  <2>6. ~Sweeping
    <3>1. ~WorkerSwept
      <4>1. worker.then \in AfterSweep /\ IdleWorker.pc = "idle"
        BY <1>0 DEF WorkerState, IdleWorker
      <4>2. [worker EXCEPT !.pc = worker.then, !.doomed = {}].pc = worker.then
        BY <1>0 DEF WorkerState
      <4> QED
        BY <4>1, <4>2 DEF WorkerSwept, AfterSweep
    <3>2. ~(WorkerSweep \/ WorkerSweepUploads \/ WorkerSweepUploaded \/ WorkerSweepOutput)
      BY <1>0 DEF WorkerSweep, WorkerSweepUploads, WorkerSweepUploaded, WorkerSweepOutput, WorkerState
    <3> QED
      BY <3>1, <3>2 DEF Sweeping
  <2>7. ~Closing
    <3>1. ~WorkerClear
      BY <1>0 DEF WorkerClear, IdleWorker, WorkerState
    <3>2. ~(WorkerFinish \/ WorkerRaise)
      BY <1>0 DEF WorkerFinish, WorkerRaise, WorkerState
    <3>3. ~(WorkerFailFile \/ WorkerLeave \/ WorkerLog \/ WorkerRefinish)
      BY <1>0 DEF WorkerFailFile, WorkerLeave, WorkerLog, WorkerRefinish, WorkerState
    <3> QED
      BY <3>1, <3>2, <3>3 DEF Closing
  <2> QED
    BY <2>1, <2>2, <2>3, <2>4, <2>5, <2>6, <2>7 DEF WorkerNext, Executing
<1>2. worker'.task = T /\ T \in Tasks
  BY <1>0, <1>1 DEF WorkerStart, WorkerState, T
<1> QED
  BY <1>0, <1>1, <1>2 DEF WorkerStart, Started, WithStatus, HasRow, Terminal, Snapshot, Recorded, Absent

LEMMA KeptWorker ==
  ASSUME IsFiniteSet(Tasks), "delete" \notin Faults, TypeOK, NoIncremental, StartedInv, KeptInv, WorkerNext
  PROVE  KeptInv'
<1> USE DEF T, Step, db, disk, HasRow, InSweep
<1>0. /\ worker \in WorkerState /\ row \in [Tasks -> Snapshot] /\ dir \in [Tasks -> BOOLEAN]
      /\ worker.pc # "idle" => T \in Tasks
  BY DEF TypeOK, WorkerOK, DataOK
<1>r. worker.pc = "failFile" \/ worker.then = "failFile" => worker.raised
  BY DEF KeptInv
<1>s. worker'.pc = "failFile" \/ worker'.then = "failFile" => worker'.raised
  <2>1. CASE WorkerRaise
    BY <1>0, <2>1 DEF WorkerRaise, WorkerState
  <2>2. CASE worker' = IdleWorker
    BY <2>2 DEF IdleWorker
  <2>3. CASE ~WorkerRaise /\ worker' # IdleWorker
    <3>1. worker'.raised = worker.raised
      BY <1>0, <2>3 DEF WorkerNext, Dequeueing, WorkerGet, WorkerSkip, WorkerClaim, WorkerEnter,
         Executing, WorkerStart, WorkerStamp, WorkerTakePlans, WorkerRun, WorkerRules, WorkerStage, WorkerSwap, WorkerIncremental, WorkerRaises,
         Publishing, WorkerPublish, WorkerPublishFile, WorkerPublishRaises, WorkerRollback, WorkerRelease, WorkerMirror,
         WorkerChecksum, WorkerChecksumFails, Sweeping, WorkerSweep, WorkerSweepUploads, WorkerSweepUploaded, WorkerSweepOutput,
         WorkerSwept, Closing, WorkerFinish, WorkerFailFile, WorkerLeave, WorkerClear, WorkerLog, WorkerRefinish, WorkerState
    <3>2. worker'.then = "failFile" => worker.then = "failFile"
      BY <1>0, <2>3 DEF WorkerNext, Dequeueing, WorkerGet, WorkerSkip, WorkerClaim, WorkerEnter,
         Executing, WorkerStart, WorkerStamp, WorkerTakePlans, WorkerRun, WorkerRules, WorkerStage, WorkerSwap, WorkerIncremental, WorkerRaises,
         Publishing, WorkerPublish, WorkerPublishFile, WorkerPublishRaises, WorkerRollback, WorkerRelease, WorkerMirror,
         WorkerChecksum, WorkerChecksumFails, Sweeping, WorkerSweep, WorkerSweepUploads, WorkerSweepUploaded, WorkerSweepOutput,
         WorkerSwept, Closing, WorkerFinish, WorkerFailFile, WorkerLeave, WorkerClear, WorkerLog, WorkerRefinish, WorkerState
    <3>3. worker'.pc = "failFile" => worker.then = "failFile"
      BY <1>0, <2>3 DEF WorkerNext, Dequeueing, WorkerGet, WorkerSkip, WorkerClaim, WorkerEnter,
         Executing, WorkerStart, WorkerStamp, WorkerTakePlans, WorkerRun, WorkerRules, WorkerStage, WorkerSwap, WorkerIncremental, WorkerRaises,
         AfterRules,
         Publishing, WorkerPublish, WorkerPublishFile, WorkerPublishRaises, WorkerRollback, WorkerRelease, WorkerMirror,
         WorkerChecksum, WorkerChecksumFails, Sweeping, WorkerSweep, WorkerSweepUploads, WorkerSweepUploaded, WorkerSweepOutput,
         WorkerSwept, Closing, WorkerFinish, WorkerFailFile, WorkerLeave, WorkerClear, WorkerLog, WorkerRefinish, WorkerState
    <3> QED
      BY <1>r, <3>1, <3>2, <3>3
  <2> QED
    BY <2>1, <2>2, <2>3
\* a step that finishes no task keeps what there is to keep
<1>a. ASSUME NoSweepDue, FinishesNone, worker'.pc \notin {"sweepUploads", "sweepOutput"}
      PROVE  KeptInv'
  <2>1. \A t \in Tasks : Kept(t)'
    BY <1>a, KeptStays DEF KeptInv
  <2> QED
    BY <1>a, <1>s, <2>1 DEF KeptInv
\* a step after which a sweep is due has nothing to keep
<1>b. ASSUME worker'.pc \in {"publish", "file", "release", "mirror", "sweep", "finish", "raise", "failFile", "leave", "clear",
                             "log", "refinish"},
             worker'.pc \in {"leave", "clear"} => worker'.raised
      PROVE  KeptInv'
  BY <1>b, <1>s DEF KeptInv, NoSweepDue
<1>1. CASE Dequeueing
  <2>1. NoSweepDue /\ UNCHANGED <<row, dir>>
    BY <1>1 DEF Dequeueing, WorkerGet, WorkerSkip, WorkerClaim, WorkerEnter, NoSweepDue
  <2>2. worker'.pc \in {"idle", "got", "claimed", "start", "leave"}
    <3>1. CASE WorkerSkip
      BY <3>1 DEF WorkerSkip, IdleWorker
    <3>2. CASE WorkerGet \/ WorkerClaim \/ WorkerEnter
      BY <1>0, <3>2 DEF WorkerGet, WorkerClaim, WorkerEnter, WorkerState
    <3> QED
      BY <1>1, <3>1, <3>2 DEF Dequeueing
  <2> QED
    BY <1>a, <2>1, <2>2 DEF FinishesNone
<1>2. CASE Executing
  <2>1. CASE WorkerStart
    <3>1. NoSweepDue /\ worker'.pc = "stamp" /\ dir' = dir
      BY <1>0, <2>1 DEF WorkerStart, NoSweepDue, WorkerState
    <3>2. \A t \in Tasks : row'[t] = row[t] \/ row'[t].status = "running"
      BY <1>0, <2>1 DEF WorkerStart, Started, WithStatus, Snapshot, Recorded, Absent
    <3> QED
      BY <1>a, <3>1, <3>2 DEF FinishesNone, Terminal
  <2>1s. CASE WorkerStamp
    <3>1. NoSweepDue /\ worker'.pc = "plans" /\ dir' = dir
      BY <1>0, <2>1s DEF WorkerStamp, NoSweepDue, WorkerState
    <3>2. \A t \in Tasks : row'[t] = row[t] \/ row'[t].status \notin Terminal
      BY <1>0, <2>1s DEF WorkerStamp, StartedInv, Snapshot, Recorded, Absent
    <3> QED
      BY <1>a, <3>1, <3>2 DEF FinishesNone, Terminal
  <2>2. CASE WorkerTakePlans
    <3>1. NoSweepDue /\ worker'.pc = "exec" /\ dir' = dir /\ row' = row
      BY <1>0, <2>2 DEF WorkerTakePlans, NoSweepDue, WorkerState
    <3> QED
      BY <1>a, <3>1 DEF FinishesNone
  <2>3. CASE WorkerRun \/ WorkerSwap
    <3>1. worker'.pc \in {"publish", "finish", "raise"}
      BY <1>0, <2>3 DEF WorkerRun, WorkerRaises, WorkerSwap, WorkerState
    <3> QED
      BY <1>b, <3>1
  <2>4. CASE WorkerRules
    <3>1. worker'.pc \in {"publish", "finish", "raise"}
      BY <1>0, <2>4 DEF WorkerRules, WorkerRaises, AfterRules, WorkerState
    <3> QED
      BY <1>b, <3>1
  <2>5. CASE WorkerStage
    <3>1. CASE WorkerRaises("full")
      <4>1. worker'.pc = "raise"
        BY <1>0, <3>1 DEF WorkerRaises, WorkerState
      <4> QED
        BY <1>b, <4>1
    <3>2. CASE ~WorkerRaises("full")
      <4>1. NoSweepDue /\ worker'.pc = "swap" /\ dir' = dir /\ EnsureRow(T)
        BY <1>0, <2>5, <3>2 DEF WorkerStage, WorkerState, NoSweepDue
      <4>2. \A t \in Tasks : row'[t] = row[t] \/ row'[t].status = "running"
        BY <1>0, <4>1 DEF EnsureRow
      <4> QED
        BY <1>a, <4>1, <4>2 DEF FinishesNone, Terminal
    <3> QED
      BY <3>1, <3>2
  <2>6. ~WorkerIncremental
    BY DEF WorkerIncremental, WorkerRaises, NoIncremental
  <2> QED
    BY <1>2, <2>1, <2>1s, <2>2, <2>3, <2>4, <2>5, <2>6 DEF Executing
<1>3. CASE Publishing
  <2>1. CASE WorkerPublish \/ WorkerPublishFile \/ WorkerPublishRaises \/ WorkerRollback \/ WorkerRelease
    <3>1. worker'.pc \in {"file", "release", "raise", "finish", "mirror"}
      BY <1>0, <2>1 DEF WorkerPublish, WorkerPublishFile, WorkerPublishRaises, WorkerRollback, WorkerRelease, WorkerState
    <3> QED
      BY <1>b, <3>1
  <2>2. CASE WorkerMirror
    <3>1. worker'.pc = "sweep"
      BY <1>0, <2>2 DEF WorkerMirror, WorkerState
    <3> QED
      BY <1>b, <3>1
  <2>3. CASE WorkerChecksum
    <3>1. NoSweepDue /\ worker'.pc \in {"raise", "leave"} /\ dir' = dir /\ row' = row
      BY <1>0, <2>3 DEF WorkerChecksum, NoSweepDue, WorkerState
    <3> QED
      BY <1>a, <3>1 DEF FinishesNone
  <2>4. CASE WorkerChecksumFails
    <3>1. worker'.pc = "raise"
      BY <1>0, <2>4 DEF WorkerChecksumFails, WorkerState
    <3> QED
      BY <1>b, <3>1
  <2> QED
    BY <1>3, <2>1, <2>2, <2>3, <2>4 DEF Publishing
<1>4. CASE Sweeping
  <2>1. CASE WorkerSweep
    <3>1. worker'.pc = "sweepUploads" /\ worker'.doomed = Doomed /\ UNCHANGED <<row, dir>>
      BY <1>0, <2>1 DEF WorkerSweep, WorkerState
    <3>2. \A t \in Tasks \ worker'.doomed : Kept(t)'
      BY <3>1, KeptDecided, KeptStays DEF FinishesNone
    <3> QED
      BY <1>s, <3>1, <3>2 DEF KeptInv, NoSweepDue
  <2>2. CASE WorkerSweepUploads
    <3>1. worker.pc = "sweepUploads" /\ worker'.pc = "sweepUploads" /\ worker'.doomed = worker.doomed /\ UNCHANGED <<row, dir>>
      BY <1>0, <2>2 DEF WorkerSweepUploads, WorkerState
    <3>2. \A t \in Tasks \ worker'.doomed : Kept(t)'
      BY <3>1, KeptStays DEF FinishesNone, KeptInv
    <3> QED
      BY <1>s, <3>1, <3>2 DEF KeptInv, NoSweepDue
  <2>3. CASE WorkerSweepUploaded
    <3>1. worker.pc = "sweepUploads" /\ worker'.pc = "sweepOutput"
          /\ worker'.victims = {t \in worker.doomed : dir[t]} /\ UNCHANGED <<row, dir>>
      BY <1>0, <2>3 DEF WorkerSweepUploaded, WorkerState
    <3>2. \A t \in Tasks \ worker'.victims : Kept(t)
      BY <3>1 DEF KeptInv, Kept
    <3>3. \A t \in Tasks \ worker'.victims : Kept(t)'
      BY <3>1, <3>2, KeptStays DEF FinishesNone
    <3> QED
      BY <1>s, <3>1, <3>3 DEF KeptInv, NoSweepDue
  <2>4. CASE WorkerSweepOutput
    <3>1. worker.pc = "sweepOutput" /\ worker'.pc = "sweepOutput" /\ row' = row
      BY <1>0, <2>4 DEF WorkerSweepOutput, WorkerState
    <3>2. PICK v \in worker.victims : worker'.victims = worker.victims \ {v} /\ dir' = [dir EXCEPT ![v] = FALSE]
      BY <1>0, <2>4 DEF WorkerSweepOutput, WorkerState, MayFail
    <3>3. FinishesNone
      BY <1>0, <3>1, <3>2 DEF FinishesNone
    <3>4. v \in Tasks => ~dir'[v]
      BY <1>0, <3>2
    <3>5. \A t \in Tasks \ worker'.victims : Kept(t)'
      <4>1. \A t \in Tasks \ worker.victims : Kept(t)'
        BY <3>1, <3>3, KeptStays DEF KeptInv
      <4>2. v \in Tasks => Kept(v)'
        BY <3>4 DEF Kept
      <4> QED
        BY <3>2, <4>1, <4>2
    <3> QED
      BY <1>s, <3>1, <3>5 DEF KeptInv, NoSweepDue
  <2>5. CASE WorkerSwept
    <3>1. worker.pc = "sweepOutput" /\ worker.victims = {} /\ UNCHANGED <<row, dir>>
      BY <2>5 DEF WorkerSwept
    <3>2. \A t \in Tasks : Kept(t)'
      BY <3>1, KeptStays DEF FinishesNone, KeptInv
    <3>3. worker'.pc \in AfterSweep
      BY <1>0, <2>5 DEF WorkerSwept, WorkerState, IdleWorker, AfterSweep
    <3> QED
      BY <1>s, <3>2, <3>3 DEF KeptInv, AfterSweep
  <2> QED
    BY <1>4, <2>1, <2>2, <2>3, <2>4, <2>5 DEF Sweeping
<1>5. CASE Closing
  <2>1. CASE WorkerFinish \/ WorkerRaise \/ WorkerLog \/ WorkerRefinish
    <3>1. worker'.pc \in {"sweep", "refinish"}
      BY <1>0, <2>1 DEF WorkerFinish, WorkerRaise, WorkerLog, WorkerRefinish, WorkerState
    <3> QED
      BY <1>b, <3>1
  <2>2. CASE WorkerFailFile
    <3>1. worker.pc = "failFile" /\ worker'.pc = "leave" /\ worker'.raised = worker.raised
      BY <1>0, <2>2 DEF WorkerFailFile, WorkerState
    <3> QED
      BY <1>b, <1>r, <3>1
  <2>3. CASE WorkerLeave
    <3>1. worker.pc = "leave" /\ worker'.pc = "clear" /\ worker'.raised = worker.raised /\ UNCHANGED <<row, dir>>
      BY <1>0, <2>3 DEF WorkerLeave, WorkerState
    <3> QED
      BY <1>0, <1>a, <1>b, <3>1 DEF FinishesNone, NoSweepDue
  <2>4. CASE WorkerClear
    <3>1. CASE worker.raised
      <4>1. worker'.pc = "log"
        BY <1>0, <2>4, <3>1 DEF WorkerClear, WorkerState
      <4> QED
        BY <1>b, <4>1
    <3>2. CASE ~worker.raised
      <4>1. worker.pc = "clear" /\ worker'.pc = "idle" /\ UNCHANGED <<row, dir>>
        BY <2>4, <3>2 DEF WorkerClear, IdleWorker
      <4> QED
        BY <1>a, <3>2, <4>1 DEF FinishesNone, NoSweepDue
    <3> QED
      BY <3>1, <3>2
  <2> QED
    BY <1>5, <2>1, <2>2, <2>3, <2>4 DEF Closing
<1> QED
  BY <1>1, <1>2, <1>3, <1>4, <1>5 DEF WorkerNext

\* Nobody deletes a task or writes its device, and whoever is idle holds
\* nothing.
QuietInv ==
  /\ \A x \in Threads : thread[x].pc # "deviceSave"
  /\ cancelled = {} /\ dropped = {}
  /\ worker.pc = "idle" => worker = IdleWorker
  /\ \A x \in Threads : thread[x].pc = "idle" => thread[x] = IdleThread

LEMMA QuietWorker ==
  ASSUME TypeOK, QuietInv, WorkerNext
  PROVE  QuietInv'
<1> USE DEF T, Step, ctl, hist
<1>0. worker \in WorkerState /\ UNCHANGED thread
  BY WorkerQueue DEF TypeOK, WorkerOK
<1>1. cancelled' = cancelled /\ dropped' = dropped
  BY DEF QuietInv, WorkerNext, Dequeueing, WorkerGet, WorkerSkip, WorkerClaim, WorkerEnter,
     Executing, WorkerStart, WorkerStamp, WorkerTakePlans, WorkerRun, WorkerRules, WorkerStage, WorkerSwap, WorkerIncremental, WorkerRaises,
     Publishing, WorkerPublish, WorkerPublishFile, WorkerPublishRaises, WorkerRollback, WorkerRelease, WorkerMirror,
     WorkerChecksum, WorkerChecksumFails, Sweeping, WorkerSweep, WorkerSweepUploads, WorkerSweepUploaded, WorkerSweepOutput,
     WorkerSwept, Closing, WorkerFinish, WorkerRaise, WorkerFailFile, WorkerLeave, WorkerClear, WorkerLog, WorkerRefinish
<1>2. worker'.pc = "idle" => worker' = IdleWorker
  BY <1>0 DEF WorkerNext, Dequeueing, WorkerGet, WorkerSkip, WorkerClaim, WorkerEnter,
     Executing, WorkerStart, WorkerStamp, WorkerTakePlans, WorkerRun, WorkerRules, WorkerStage, WorkerSwap, WorkerIncremental, WorkerRaises,
     Publishing, WorkerPublish, WorkerPublishFile, WorkerPublishRaises, WorkerRollback, WorkerRelease, WorkerMirror, AfterRules,
     WorkerChecksum, WorkerChecksumFails, Sweeping, WorkerSweep, WorkerSweepUploads, WorkerSweepUploaded, WorkerSweepOutput,
     WorkerSwept, Closing, WorkerFinish, WorkerRaise, WorkerFailFile, WorkerLeave, WorkerClear, WorkerLog, WorkerRefinish,
     WorkerState, IdleWorker
<1> QED
  BY <1>0, <1>1, <1>2 DEF QuietInv

LEMMA QuietOthers ==
  ASSUME Requests \cap {"delete", "device"} = {}, TypeOK, FreshInv, QuietInv,
         Request \/ CreateNext \/ \E x \in Handlers : HandlerNext(x)
  PROVE  /\ QuietInv'
         /\ UNCHANGED worker
         /\ FinishesNone
<1> USE DEF Of, HasRow, HasMeta
<1>0. /\ ThreadOK /\ row \in [Tasks -> Snapshot] /\ thread \in [Threads -> ThreadState] /\ dir \in [Tasks -> BOOLEAN]
      /\ Loop \in Threads /\ Loop \notin Handlers /\ Handlers \subseteq Threads
      /\ \A x \in Threads : thread[x].pc # "idle" => Of(x) \in Tasks
      /\ \A x \in Threads : thread[x].pc \notin Deleting /\ thread[x].pc # "deviceSave"
      /\ \A x \in Threads : thread[x].pc = "rerunMeta" => thread[x].saved \in Recorded
  BY ThreadAssumption DEF TypeOK, DataOK, ThreadOK, Threads, FreshInv, QuietInv
<1> DEFINE Quiet(x) == thread'[x].pc # "deviceSave" /\ (thread'[x].pc = "idle" => thread'[x] = IdleThread)
<1>g. ASSUME NEW x \in Threads, NEW from, NEW to, Goes(x, from, to), to # "deviceSave"
      PROVE  \A y \in Threads : Quiet(y)
  <2>1. Quiet(x)
    BY <1>0, <1>g DEF Goes, IdleThread, ThreadState
  <2> QED
    BY <1>0, <1>g, <2>1, GoesEffect DEF QuietInv
<1>b. ASSUME NEW x \in Threads, NEW kind, NEW t, NEW pc, NEW saved, Begin(x, kind, t, pc, saved), pc \notin {"deviceSave", "idle"}
      PROVE  \A y \in Threads : Quiet(y)
  <2>1. thread'[x].pc = pc
    BY <1>0, <1>b DEF Begin, IdleThread
  <2> QED
    BY <1>0, <1>b, <2>1, BeginEffect DEF QuietInv
<1>1. CASE Request
  <2>1. PICK t \in Tasks : CreateReserve(t) \/ CreateRestore(t) \/ \E x \in Handlers : RerunRead(x, t) \/ RebuildCheck(x, t)
    BY Zenon, <1>1 DEF Request, DeleteMark, DeviceRead, Begin
  <2>2. CASE CreateReserve(t)
    <3>1. \A y \in Threads : Quiet(y)
      BY <1>0, <1>b, <2>2 DEF CreateReserve
    <3>2. FinishesNone
      BY <1>0, <2>2 DEF CreateReserve, FinishesNone, Terminal
    <3> QED
      BY <2>2, <3>1, <3>2 DEF CreateReserve, ctl, QuietInv
  <2>3. CASE CreateRestore(t)
    BY <2>3 DEF CreateRestore, ctl, QuietInv, FinishesNone, db, hist
  <2>4. ASSUME NEW x \in Handlers, RerunRead(x, t) \/ RebuildCheck(x, t)
        PROVE  QuietInv' /\ UNCHANGED worker /\ FinishesNone
    <3>1. PICK kind, pc, saved : Begin(x, kind, t, pc, saved) /\ pc \notin {"deviceSave", "idle"}
      BY <2>4 DEF RerunRead, RebuildCheck
    <3>2. \A y \in Threads : Quiet(y)
      BY <1>0, <1>b, <3>1
    <3> QED
      BY <2>4, <3>2 DEF RerunRead, RebuildCheck, ctl, QuietInv, FinishesNone, db, disk, hist
  <2> QED
    BY <2>1, <2>2, <2>3, <2>4
<1>2. CASE CreateNext
  <2>1. PICK from, to : Goes(Loop, from, to) /\ from # "idle" /\ to # "deviceSave"
    BY <1>2 DEF CreateNext, CreateCopy, CreateCopyFails, CreateUndoRow, CreateUndoFiles, Put
  <2>2. Of(Loop) \in Tasks
    BY <1>0, <2>1 DEF Goes
  <2>3. \A y \in Threads : Quiet(y)
    BY <1>0, <1>g, <2>1
  <2>4. cancelled' = cancelled /\ dropped' \subseteq dropped /\ UNCHANGED worker
    BY <1>2 DEF CreateNext, CreateCopy, CreateCopyFails, CreateUndoRow, CreateUndoFiles, Put, ctl, hist
  <2>5. FinishesNone
    BY <1>0, <1>2, <2>2 DEF CreateNext, CreateCopy, CreateCopyFails, CreateUndoRow, CreateUndoFiles, Put, db, disk,
       FinishesNone, Absent, Terminal
  <2> QED
    BY <2>3, <2>4, <2>5 DEF QuietInv
<1>3. ASSUME NEW x \in Handlers, HandlerNext(x) PROVE QuietInv' /\ UNCHANGED worker /\ FinishesNone
  <2>0. x \in Threads /\ thread[x].pc # "idle" /\ Of(x) \in Tasks /\ UNCHANGED worker
    BY <1>0, <1>3, HandlesHandler DEF Handles
  <2>1. Put(x) \/ RerunPlan(x) \/ RerunMeta(x) \/ RerunStatus(x) \/ RebuildRead(x) \/ RebuildRefuse(x) \/ RebuildPlan(x) \/ RebuildStatus(x)
    <3>1. ~DeleteNext(x)
      BY <1>0, <2>0 DEF Deleting, Goes, DeleteNext, DeleteEnter, DeleteScene, DeleteSceneFails, DeletePackage, DeletePackageFails,
         DeleteRows, DeleteUnlock, DeleteUnmark
    <3>2. ~DeviceSave(x)
      BY <1>0, <2>0 DEF DeviceSave, Goes
    <3> QED
      BY <1>3, <3>1, <3>2 DEF HandlerNext, RerunNext, RebuildNext
  <2>2. PICK from, to : Goes(x, from, to) /\ to # "deviceSave"
    BY <2>1 DEF Put, RerunPlan, RerunMeta, RerunStatus, RebuildRead, RebuildRefuse, RebuildPlan, RebuildStatus
  <2>3. \A y \in Threads : Quiet(y)
    BY <1>g, <2>0, <2>2
  <2>4. cancelled' = cancelled /\ dropped' \subseteq dropped
    BY <2>1 DEF Put, RerunPlan, RerunMeta, RerunStatus, RebuildRead, RebuildRefuse, RebuildPlan, RebuildStatus, ctl, hist
  <2>5. FinishesNone
    <3>1. CASE RerunMeta(x)
      <4>1. [thread[x].saved EXCEPT !.status = "pending"].status = "pending"
        BY <1>0, <2>0, <3>1 DEF RerunMeta, Goes, Recorded
      <4> QED
        BY <1>0, <2>0, <3>1, <4>1 DEF RerunMeta, SaveTaskMeta, Upserted, FinishesNone, Terminal
    <3>2. CASE RerunStatus(x) \/ RebuildStatus(x)
      <4>1. row' = row \/ (row[Of(x)] \in Recorded /\ row' = [row EXCEPT ![Of(x)].status = "pending"])
        BY <1>0, <2>0, <3>2, AbsentOrRecorded DEF RerunStatus, RebuildStatus, WithStatus
      <4>2. \A t \in Tasks : row'[t] = row[t] \/ row'[t].status = "pending"
        BY <1>0, <2>0, <4>1 DEF Recorded
      <4> QED
        BY <3>2, <4>2 DEF RerunStatus, RebuildStatus, FinishesNone, Terminal, disk
    <3>3. CASE Put(x) \/ RerunPlan(x) \/ RebuildRead(x) \/ RebuildRefuse(x) \/ RebuildPlan(x)
      BY <3>3 DEF Put, RerunPlan, RebuildRead, RebuildRefuse, RebuildPlan, FinishesNone, db, disk
    <3> QED
      BY <2>1, <3>1, <3>2, <3>3
  <2> QED
    BY <2>0, <2>3, <2>4, <2>5 DEF QuietInv
<1> QED
  BY <1>1, <1>2, <1>3

LEMMA KeptOthers ==
  ASSUME IsFiniteSet(Tasks), TypeOK, KeptInv, UNCHANGED worker, FinishesNone
  PROVE  KeptInv'
<1>1. \A t \in Tasks : Kept(t) => Kept(t)'
  BY KeptStays
<1> QED
  BY <1>1 DEF KeptInv, NoSweepDue

\* A time that the row, the task.json or a copy of task t carries as the
\* creation or the start of a run.
Stamp(t, v) ==
  \/ v \in {row[t].created, row[t].run, meta[t].run}
  \/ worker.task = t /\ v \in {worker.started, worker.saved.run, worker.backup.run, worker.published.run}
  \/ \E x \in Threads : Of(x) = t /\ v = thread[x].saved.run

Times == Nat \ {0}

\* The clock gives every creation and every start a time of its own, so no
\* two tasks carry the same.
StampInv ==
  /\ \A t \in Tasks : HasRow(t) => row[t].created > 0
  /\ \A t \in Tasks, v \in Times : Stamp(t, v) => v <= clock
  /\ \A t, u \in Tasks, v \in Times : Stamp(t, v) /\ Stamp(u, v) => t = u

\* The times of a task are its old ones, and at most one task gets a new one.
StampsStay == \A t \in Tasks, v \in Times : Stamp(t, v)' => Stamp(t, v)
StampGiven(o) == \A t \in Tasks, v \in Times : Stamp(t, v)' => Stamp(t, v) \/ (t = o /\ v = clock + 1)

LEMMA StampStep ==
  ASSUME TypeOK, StampInv,
         \/ clock' = clock /\ StampsStay
         \/ clock' = clock + 1 /\ \E o \in Tasks : StampGiven(o),
         \A t \in Tasks : HasRow(t)' => row'[t].created > 0
  PROVE  StampInv'
<1>1. clock \in Nat
  BY DEF TypeOK, MemoryOK
<1>2. CASE clock' = clock /\ StampsStay
  BY <1>1, <1>2 DEF StampInv, StampsStay
<1>3. ASSUME NEW o \in Tasks, clock' = clock + 1, StampGiven(o) PROVE StampInv'
  <2>1. \A t \in Tasks, v \in Times : Stamp(t, v)' => v <= clock'
    BY <1>1, <1>3 DEF StampInv, StampGiven, Times
  <2>2. \A t, u \in Tasks, v \in Times : Stamp(t, v)' /\ Stamp(u, v)' => t = u
    <3> SUFFICES ASSUME NEW t \in Tasks, NEW u \in Tasks, NEW v \in Times, Stamp(t, v)', Stamp(u, v)' PROVE t = u
      OBVIOUS
    <3>1. Stamp(t, v) \/ (t = o /\ v = clock + 1)
      BY <1>3 DEF StampGiven
    <3>2. Stamp(u, v) \/ (u = o /\ v = clock + 1)
      BY <1>3 DEF StampGiven
    <3>3. Stamp(t, v) => v <= clock
      BY DEF StampInv
    <3>4. Stamp(u, v) => v <= clock
      BY DEF StampInv
    <3>5. Stamp(t, v) /\ Stamp(u, v) => t = u
      BY DEF StampInv
    <3>6. v \in Nat /\ (v <= clock => v # clock + 1)
      BY <1>1 DEF Times
    <3> QED
      BY <3>1, <3>2, <3>3, <3>4, <3>5, <3>6
  <2> QED
    BY <2>1, <2>2 DEF StampInv
<1> QED
  BY <1>2, <1>3

\* The times the task of the worker has, or is just given.
Own(v) == v \in {0, row[T].run, meta[T].run, worker.started, worker.saved.run, worker.backup.run, worker.published.run}
          \/ (worker.pc = "start" /\ v = clock + 1)

\* The worker copies times from the records of its task to others of them.
CopiesOwn ==
  /\ worker'.task \in {T, None}
  /\ Own(row'[T].run) /\ Own(meta'[T].run)
  /\ row'[T].created = row[T].created
  /\ Own(worker'.started) /\ Own(worker'.saved.run) /\ Own(worker'.backup.run) /\ Own(worker'.published.run)

LEMMA OwnWorker ==
  ASSUME TypeOK, QuietInv, WorkerNext, T \in Tasks, HasRow(T)
  PROVE  CopiesOwn /\ clock' = IF worker.pc = "start" THEN clock + 1 ELSE clock
<1> USE DEF CopiesOwn, Own, T, Step, db, disk, HasRow, HasMeta, env
<1>0. /\ worker \in WorkerState /\ row \in [Tasks -> Snapshot] /\ meta \in [Tasks -> Snapshot]
      /\ worker.pc \in {"file", "release", "mirror"} => worker.published \in Recorded
      /\ row[T] \in Recorded /\ None \notin Tasks
      /\ Absent.run = 0
  BY AbsentOrRecorded, ThreadAssumption DEF TypeOK, WorkerOK, DataOK, Absent
<1>i. worker.pc # "idle"
  BY <1>0 DEF QuietInv, IdleWorker
<1>z. IdleWorker.task = None /\ IdleWorker.started = 0 /\ IdleWorker.saved.run = 0 /\ IdleWorker.backup.run = 0 /\ IdleWorker.published.run = 0
  BY DEF IdleWorker, Absent
<1>1. CASE Dequeueing
  <2>1. CASE WorkerSkip
    BY <1>0, <1>z, <2>1 DEF WorkerSkip
  <2>2. CASE WorkerClaim \/ WorkerEnter
    BY <1>0, <2>2 DEF WorkerClaim, WorkerEnter, WorkerState
  <2> QED
    BY <1>1, <1>i, <2>1, <2>2 DEF Dequeueing, WorkerGet
<1>2. CASE Executing
  <2>1. CASE WorkerStart
    BY <1>0, <2>1 DEF WorkerStart, WorkerState, Started, WithStatus, Recorded
  <2>1s. CASE WorkerStamp
    BY <1>0, <2>1s DEF WorkerStamp, WorkerState, Recorded
  <2>2. CASE WorkerTakePlans
    BY <1>0, <2>2 DEF WorkerTakePlans, WorkerState
  <2>3. CASE WorkerRun
    <3>1. row' = row /\ meta' = meta /\ clock' = clock /\ worker.pc = "exec"
      BY <1>0, <2>3 DEF WorkerRun, EnsureRow, WorkerRaises
    <3> QED
      BY <1>0, <2>3, <3>1 DEF WorkerRun, WorkerRaises, WorkerState
  <2>4. CASE WorkerRules
    <3>1. row' = row /\ clock' = clock /\ worker.pc = "exec"
          /\ (meta' = meta \/ (meta[T] \in Recorded /\ meta' = [meta EXCEPT ![T].run = worker.started]))
      BY <1>0, <2>4, AbsentOrRecorded DEF WorkerRules, WorkerRaises
    <3>2. meta'[T].run \in {meta[T].run, worker.started}
      BY <1>0, <3>1 DEF Recorded
    <3> QED
      BY <1>0, <2>4, <3>1, <3>2 DEF WorkerRules, WorkerRaises, WorkerState
  <2>5. CASE WorkerStage
    <3>1. row' = row /\ meta' = meta /\ clock' = clock /\ worker.pc = "exec"
      BY <1>0, <2>5 DEF WorkerStage, EnsureRow, WorkerRaises
    <3> QED
      BY <1>0, <2>5, <3>1 DEF WorkerStage, WorkerRaises, WorkerState
  <2>6. CASE WorkerSwap
    <3>1. row' = row /\ clock' = clock /\ worker.pc = "swap"
      BY <2>6 DEF WorkerSwap
    <3>2. meta'[T].run \in {meta[T].run, worker.started}
      BY <1>0, <2>6 DEF WorkerSwap
    <3> QED
      BY <1>0, <2>6, <3>1, <3>2 DEF WorkerSwap, WorkerState
  <2>7. CASE WorkerIncremental
    <3>1. row' = row /\ meta' = meta /\ clock' = clock /\ worker.pc = "exec"
      BY <1>0, <2>7 DEF WorkerIncremental, WorkerRaises
    <3> QED
      BY <1>0, <2>7, <3>1 DEF WorkerIncremental, WorkerRaises, WorkerState
  <2> QED
    BY <1>2, <2>1, <2>1s, <2>2, <2>3, <2>4, <2>5, <2>6, <2>7 DEF Executing
<1>3. CASE Publishing
  <2>1. CASE WorkerPublish
    BY <1>0, <2>1 DEF WorkerPublish, WorkerState, PublishedSnapshot
  <2>2. CASE WorkerPublishFile
    BY <1>0, <2>2 DEF WorkerPublishFile, WorkerState, SaveTaskMeta, Upserted
  <2>3. CASE WorkerPublishRaises
    BY <1>0, <2>3 DEF WorkerPublishRaises, WorkerState
  <2>4. CASE WorkerRollback
    <3>1. worker.pc \in {"publish", "file"} /\ clock' = clock
      BY <2>4 DEF WorkerRollback
    <3>2. row' = row \/ row' = [row EXCEPT ![T] = Upserted(T, worker.saved)]
      BY <2>4 DEF WorkerRollback, RolledBack
    <3>3. row'[T].created = row[T].created /\ row'[T].run \in {row[T].run, worker.saved.run}
      BY <1>0, <3>2 DEF Upserted
    <3>4. meta'[T].run \in {meta[T].run, worker.saved.run, worker.backup.run}
      BY <1>0, <2>4 DEF WorkerRollback
    <3> QED
      BY <1>0, <2>4, <3>1, <3>3, <3>4 DEF WorkerRollback, WorkerState
  <2>5. CASE WorkerRelease
    BY <1>0, <2>5 DEF WorkerRelease, WorkerState
  <2>6. CASE WorkerMirror
    BY <1>0, <2>6 DEF WorkerMirror, WorkerState, Upserted
  <2>7. CASE WorkerChecksum
    BY <1>0, <2>7 DEF WorkerChecksum, WorkerState
  <2>8. CASE WorkerChecksumFails
    BY <1>0, <2>8 DEF WorkerChecksumFails, WorkerState
  <2> QED
    BY <1>3, <2>1, <2>2, <2>3, <2>4, <2>5, <2>6, <2>7, <2>8 DEF Publishing
<1>4. CASE Sweeping
  <2>1. CASE WorkerSweep \/ WorkerSweepUploads \/ WorkerSweepUploaded
    BY <1>0, <2>1 DEF WorkerSweep, WorkerSweepUploads, WorkerSweepUploaded, WorkerState
  <2>2. CASE WorkerSweepOutput
    <3>1. worker.pc = "sweepOutput" /\ row' = row /\ clock' = clock /\ meta'[T] \in {meta[T], Absent}
      BY <1>0, <2>2 DEF WorkerSweepOutput
    <3> QED
      BY <1>0, <2>2, <3>1 DEF WorkerSweepOutput, WorkerState
  <2>3. CASE WorkerSwept
    BY <1>0, <1>z, <2>3 DEF WorkerSwept, WorkerState
  <2> QED
    BY <1>4, <2>1, <2>2, <2>3 DEF Sweeping
<1>5. CASE Closing
  <2>1. CASE WorkerFinish
    BY <1>0, <2>1 DEF WorkerFinish, WorkerState, WithStatus, Recorded
  <2>2. CASE WorkerRaise
    BY <1>0, <2>2 DEF WorkerRaise, WorkerState, WithStatus, Recorded
  <2>3. CASE WorkerFailFile
    <3>1. worker.pc = "failFile" /\ clock' = clock
      BY <2>3 DEF WorkerFailFile
    <3>2. CASE worker.saved # Absent
      <4> DEFINE m == [worker.saved EXCEPT !.status = "failed"]
      <4>1. m.run = worker.saved.run
        BY <1>0, <3>2 DEF WorkerState, Snapshot, Recorded
      <4> HIDE DEF m
      <4>2. meta' = [meta EXCEPT ![T] = m] /\ row' = [row EXCEPT ![T] = Upserted(T, m)]
        BY <2>3, <3>2 DEF WorkerFailFile, SaveTaskMeta, m
      <4>3. meta'[T].run = worker.saved.run /\ row'[T].created = row[T].created /\ row'[T].run \in {row[T].run, worker.saved.run}
        BY <1>0, <4>1, <4>2 DEF Upserted
      <4> QED
        BY <1>0, <2>3, <3>1, <4>3 DEF WorkerFailFile, WorkerState
    <3>3. CASE worker.saved = Absent
      BY <1>0, <2>3, <3>1, <3>3 DEF WorkerFailFile, WorkerState
    <3> QED
      BY <3>2, <3>3
  <2>4. CASE WorkerClear
    BY <1>0, <1>z, <2>4 DEF WorkerClear, WorkerState
  <2>5. CASE WorkerLeave \/ WorkerLog
    BY <1>0, <2>5 DEF WorkerLeave, WorkerLog, WorkerState
  <2>6. CASE WorkerRefinish
    BY <1>0, <2>6 DEF WorkerRefinish, WorkerState, WithStatus, Recorded
  <2> QED
    BY <1>5, <2>1, <2>2, <2>3, <2>4, <2>5, <2>6 DEF Closing
<1> QED
  BY <1>1, <1>2, <1>3, <1>4, <1>5 DEF WorkerNext

LEMMA StampWorker ==
  ASSUME TypeOK, FreshInv, QuietInv, StampInv, WorkerNext
  PROVE  StampInv'
<1>0. /\ worker \in WorkerState /\ UNCHANGED thread /\ None \notin Tasks /\ Absent.run = 0
      /\ worker.pc # "idle" => T \in Tasks
      /\ T \in Tasks => HasRow(T)
  BY WorkerQueue, ThreadAssumption DEF TypeOK, WorkerOK, FreshInv, T, Absent
<1>1. CASE T \in Tasks
  <2>1. Executes /\ CopiesOwn /\ clock' = IF worker.pc = "start" THEN clock + 1 ELSE clock
    BY <1>0, <1>1, ExecutesWorker, OwnWorker
  <2>2. ASSUME NEW t \in Tasks, t # T, NEW v \in Times, Stamp(t, v)' PROVE Stamp(t, v)
    <3>1. row'[t] = row[t] /\ meta'[t] \in {meta[t], Absent} /\ worker'.task # t
      BY <1>0, <2>1, <2>2 DEF Executes, CopiesOwn
    <3> QED
      BY <1>0, <2>2, <3>1 DEF Stamp, Times, Of
  <2>3. ASSUME NEW t \in Tasks, t = T, NEW v \in Times, Stamp(t, v)'
        PROVE  Stamp(t, v) \/ (worker.pc = "start" /\ v = clock + 1)
    <3>1. v # 0 /\ t = worker.task
      BY <2>3 DEF Times, T
    <3>2. CASE v = row'[t].created
      BY <2>1, <2>3, <3>2 DEF CopiesOwn, Stamp
    <3>3. CASE \E x \in Threads : thread'[x].task = t /\ v = thread'[x].saved.run
      BY <1>0, <3>3 DEF Stamp, Of
    <3>4. CASE v \in {row'[t].run, meta'[t].run, worker'.started, worker'.saved.run, worker'.backup.run, worker'.published.run}
      <4>1. Own(v)
        BY <2>1, <2>3, <3>4 DEF CopiesOwn
      <4> QED
        BY <2>3, <3>1, <4>1 DEF Own, Stamp
    <3> QED
      BY <2>3, <3>2, <3>3, <3>4 DEF Stamp, Of
  <2>4. \A t \in Tasks : HasRow(t)' => row'[t].created > 0
    BY <1>0, <1>1, <2>1 DEF Executes, CopiesOwn, HasRow, StampInv
  <2>5. \/ clock' = clock /\ StampsStay
        \/ clock' = clock + 1 /\ StampGiven(T)
    <3>1. ASSUME NEW t \in Tasks, NEW v \in Times, Stamp(t, v)'
          PROVE  Stamp(t, v) \/ (t = T /\ worker.pc = "start" /\ v = clock + 1)
      BY <2>2, <2>3, <3>1
    <3> QED
      BY <2>1, <3>1 DEF StampsStay, StampGiven
  <2> QED
    BY <1>1, <2>4, <2>5, StampStep
<1>2. CASE T \notin Tasks
  <2>1. worker = IdleWorker
    BY <1>0, <1>2 DEF QuietInv
  <2>2. WorkerGet
    BY <2>1 DEF IdleWorker, WorkerNext, Dequeueing, WorkerGet, WorkerSkip, WorkerClaim, WorkerEnter, Step,
       Executing, WorkerStart, WorkerStamp, WorkerTakePlans, WorkerRun, WorkerRules, WorkerStage, WorkerSwap, WorkerIncremental, WorkerRaises,
       Publishing, WorkerPublish, WorkerPublishFile, WorkerPublishRaises, WorkerRollback, WorkerRelease, WorkerMirror,
       WorkerChecksum, WorkerChecksumFails, Sweeping, WorkerSweep, WorkerSweepUploads, WorkerSweepUploaded, WorkerSweepOutput,
       WorkerSwept, Closing, WorkerFinish, WorkerRaise, WorkerFailFile, WorkerLeave, WorkerClear, WorkerLog, WorkerRefinish
  <2>3. UNCHANGED <<row, meta, clock>>
    BY <2>2 DEF WorkerGet, db, disk, env
  <2>4. worker'.started = 0 /\ worker'.saved.run = 0 /\ worker'.backup.run = 0 /\ worker'.published.run = 0
    BY <1>0, <2>1, <2>2 DEF WorkerGet, IdleWorker
  <2>5. StampsStay
    BY <1>0, <2>3, <2>4 DEF StampsStay, Stamp, Times, Of
  <2> QED
    BY <2>3, <2>5, StampStep DEF StampInv, HasRow
<1> QED
  BY <1>1, <1>2

\* What the threads write down of the times of a task they got from it.
LEMMA StampThreads ==
  ASSUME UNCHANGED worker,
         \A t \in Tasks, v \in Times : v \in {row'[t].created, row'[t].run, meta'[t].run} => Stamp(t, v),
         \A x \in Threads, v \in Times : v = thread'[x].saved.run /\ thread'[x].task \in Tasks => Stamp(thread'[x].task, v)
  PROVE  StampsStay
  BY DEF StampsStay, Stamp, Of

LEMMA StampRequest ==
  ASSUME "delete" \notin Requests, "device" \notin Requests, TypeOK, FreshInv, QuietInv, StampInv, Request
  PROVE  StampInv'
<1>0. /\ ThreadOK /\ row \in [Tasks -> Snapshot] /\ meta \in [Tasks -> Snapshot] /\ thread \in [Threads -> ThreadState]
      /\ Loop \in Threads /\ Handlers \subseteq Threads /\ Absent.run = 0 /\ clock \in Nat
  BY DEF TypeOK, DataOK, ThreadOK, MemoryOK, Threads, Absent
<1>1. PICK t \in Tasks : CreateReserve(t) \/ CreateRestore(t) \/ \E x \in Handlers : RerunRead(x, t) \/ RebuildCheck(x, t)
  BY Zenon DEF Request, DeleteMark, DeviceRead, Begin
<1>2. CASE CreateReserve(t)
  <2>1. thread'[Loop].saved = Absent /\ \A y \in Threads : y # Loop => thread'[y] = thread[y]
    BY <1>0, <1>2, BeginEffect DEF CreateReserve
  <2>2. UNCHANGED <<meta, worker>> /\ clock' = clock + 1
    BY <1>2 DEF CreateReserve
  <2>3. /\ \A u \in Tasks : u # t => row'[u] = row[u]
        /\ row'[t].created = clock + 1 /\ row'[t].run = 0
    BY <1>0, <1>2 DEF CreateReserve
  <2>4. StampGiven(t)
    BY <1>0, <2>1, <2>2, <2>3 DEF StampGiven, Stamp, Of, Times
  <2> QED
    BY <1>0, <2>2, <2>3, <2>4, StampStep DEF StampInv, HasRow
<1>3. CASE CreateRestore(t)
  <2>1. StampsStay /\ UNCHANGED <<row, clock>>
    BY <1>3 DEF CreateRestore, StampsStay, Stamp, Of, db
  <2> QED
    BY <2>1, StampStep DEF StampInv, HasRow
<1>4. ASSUME NEW x \in Handlers, RerunRead(x, t) \/ RebuildCheck(x, t) PROVE StampInv'
  <2>0. x \in Threads
    BY <1>0
  <2>1. PICK kind, pc, saved : Begin(x, kind, t, pc, saved) /\ saved \in {SceneOrRow(t), Absent}
    BY <1>4 DEF RerunRead, RebuildCheck
  <2>2. /\ thread'[x].task = t /\ thread'[x].saved = saved
        /\ \A y \in Threads : y # x => thread'[y] = thread[y]
    BY <1>0, <2>0, <2>1, BeginEffect
  <2>3. UNCHANGED <<row, meta, worker, clock>>
    BY <1>4 DEF RerunRead, RebuildCheck, db, disk
  <2>4. saved.run \in {0, row[t].run, meta[t].run}
    BY <1>0, <2>1 DEF SceneOrRow
  <2>5. StampsStay
    BY <2>0, <2>2, <2>3, <2>4 DEF StampsStay, Stamp, Of, Times
  <2> QED
    BY <2>3, <2>5, StampStep DEF StampInv, HasRow
<1> QED
  BY <1>1, <1>2, <1>3, <1>4

\* What thread x writes of its task are times it holds or that are there.
WritesOwn(x) ==
  /\ UNCHANGED <<worker, clock>>
  /\ \A t \in Tasks \ {Of(x)} : row'[t] = row[t] /\ meta'[t] = meta[t]
  /\ row'[Of(x)].created = row[Of(x)].created \/ row'[Of(x)] = Absent
  /\ row'[Of(x)].run \in {0, row[Of(x)].run, thread[x].saved.run}
  /\ meta'[Of(x)].run \in {0, meta[Of(x)].run, thread[x].saved.run}
  /\ HasRow(Of(x)) \/ row'[Of(x)] = row[Of(x)]

LEMMA StampOthers ==
  ASSUME TypeOK, FreshInv, QuietInv, StampInv, CreateNext \/ \E x \in Handlers : HandlerNext(x)
  PROVE  StampInv'
<1> USE DEF Of, HasRow
<1>0. /\ ThreadOK /\ row \in [Tasks -> Snapshot] /\ meta \in [Tasks -> Snapshot] /\ thread \in [Threads -> ThreadState]
      /\ Loop \in Threads /\ Handlers \subseteq Threads /\ Absent.run = 0 /\ Absent.created = 0 /\ clock \in Nat
      /\ Absent.status = "absent" /\ None \notin Tasks
      /\ \A x \in Threads : thread[x].pc # "idle" => Of(x) \in Tasks
      /\ \A x \in Threads : thread[x].pc \notin Deleting /\ thread[x].pc # "deviceSave"
      /\ \A x \in Threads : thread[x].pc = "rerunMeta" => thread[x].saved \in Recorded
      /\ IdleThread.saved = Absent /\ IdleThread.task = None
  BY ThreadAssumption DEF TypeOK, DataOK, ThreadOK, MemoryOK, Threads, Absent, FreshInv, QuietInv, IdleThread
\* a thread goes on, and the rows and files get no time it did not hold
<1>g. ASSUME NEW x \in Threads, thread[x].pc # "idle", \E from, to : Goes(x, from, to), WritesOwn(x)
      PROVE  StampInv'
  <2> USE DEF WritesOwn
  <2>1. Of(x) \in Tasks
    BY <1>0, <1>g
  <2>2. thread'[x].task \in {Of(x), None} /\ thread'[x].saved \in {thread[x].saved, Absent}
        /\ \A y \in Threads : y # x => thread'[y] = thread[y]
    BY <1>0, <1>g DEF Goes, ThreadState
  <2>3. StampsStay
    <3>1. ASSUME NEW t \in Tasks, NEW v \in Times, v \in {row'[t].created, row'[t].run, meta'[t].run} PROVE Stamp(t, v)
      <4>1. CASE t = Of(x)
        BY <1>0, <1>g, <3>1, <4>1 DEF Stamp, Times
      <4>2. CASE t # Of(x)
        BY <1>0, <1>g, <3>1, <4>2 DEF Stamp, Times
      <4> QED
        BY <4>1, <4>2
    <3>2. ASSUME NEW y \in Threads, NEW v \in Times, v = thread'[y].saved.run, thread'[y].task \in Tasks
          PROVE  Stamp(thread'[y].task, v)
      BY <1>0, <2>2, <3>2 DEF Stamp, Times
    <3> QED
      BY <1>g, <3>1, <3>2, StampThreads
  <2>4. \A t \in Tasks : HasRow(t)' => row'[t].created > 0
    BY <1>0, <1>g, <2>1 DEF StampInv
  <2> QED
    BY <1>g, <2>3, <2>4, StampStep
<1>1. CASE CreateNext
  <2>1. PICK from, to : Goes(Loop, from, to) /\ from # "idle"
    BY <1>1 DEF CreateNext, CreateCopy, CreateCopyFails, CreateUndoRow, CreateUndoFiles, Put
  <2>2. thread[Loop].pc # "idle" /\ Of(Loop) \in Tasks
    BY <1>0, <2>1 DEF Goes
  <2>3. thread[Loop].pc = "undoRow" => HasRow(Of(Loop)) \/ row[Of(Loop)] = Absent
    BY <1>0, <2>2 DEF Snapshot, Recorded, Status
  <2>4. /\ UNCHANGED <<worker, clock>>
        /\ row' = row \/ row' = [row EXCEPT ![Of(Loop)] = Absent]
        /\ meta' = meta \/ meta' = [meta EXCEPT ![Of(Loop)] = Absent]
        /\ row' = row \/ thread[Loop].pc = "undoRow"
    BY <1>1 DEF CreateNext, CreateCopy, CreateCopyFails, CreateUndoRow, CreateUndoFiles, Put, db, env, disk, Goes
  <2>5. WritesOwn(Loop)
    BY <1>0, <2>2, <2>3, <2>4 DEF WritesOwn
  <2> QED
    BY <1>0, <1>g, <2>1, <2>2, <2>5
<1>2. ASSUME NEW x \in Handlers, HandlerNext(x) PROVE StampInv'
  <2>0. /\ x \in Threads /\ thread[x].pc # "idle" /\ Of(x) \in Tasks
        /\ thread[x].pc # "rebuildRead" => HasRow(Of(x))
    BY <1>0, <1>2, HandlesHandler DEF FreshInv, Untouched
  <2>1. Put(x) \/ RerunPlan(x) \/ RerunMeta(x) \/ RerunStatus(x) \/ RebuildRead(x) \/ RebuildRefuse(x) \/ RebuildPlan(x) \/ RebuildStatus(x)
    <3>1. ~DeleteNext(x)
      BY <1>0, <2>0 DEF Deleting, Goes, DeleteNext, DeleteEnter, DeleteScene, DeleteSceneFails, DeletePackage, DeletePackageFails,
         DeleteRows, DeleteUnlock, DeleteUnmark
    <3>2. ~DeviceSave(x)
      BY <1>0, <2>0 DEF DeviceSave, Goes
    <3> QED
      BY <1>2, <3>1, <3>2 DEF HandlerNext, RerunNext, RebuildNext
  <2>2. PICK from, to : Goes(x, from, to)
    BY <2>1 DEF Put, RerunPlan, RerunMeta, RerunStatus, RebuildRead, RebuildRefuse, RebuildPlan, RebuildStatus
  <2>3. CASE RerunMeta(x)
    <3> DEFINE m == [thread[x].saved EXCEPT !.status = "pending"]
    <3>1. thread[x].pc = "rerunMeta" /\ UNCHANGED <<worker, clock>> /\ HasRow(Of(x))
      BY <2>0, <2>3 DEF RerunMeta, env, Goes
    <3>2. m.run = thread[x].saved.run
      BY <1>0, <2>0, <3>1 DEF Recorded
    <3>3. meta' = [meta EXCEPT ![Of(x)] = m] /\ row' = [row EXCEPT ![Of(x)] = Upserted(Of(x), m)]
      BY <2>3 DEF RerunMeta, SaveTaskMeta
    <3> HIDE DEF m
    <3>4. WritesOwn(x)
      BY <1>0, <2>0, <3>1, <3>2, <3>3 DEF Upserted, WritesOwn
    <3> QED
      BY <1>g, <2>0, <2>2, <3>4
  <2>4. CASE RerunStatus(x) \/ RebuildStatus(x)
    <3>1. thread[x].pc \in {"rerunStatus", "rebuildStatus"} /\ UNCHANGED <<worker, clock, meta>>
      BY <2>4 DEF RerunStatus, RebuildStatus, env, disk, Goes
    <3>2. HasRow(Of(x)) /\ row[Of(x)] \in Recorded
      BY <1>0, <2>0, <3>1, AbsentOrRecorded
    <3>3. row' = [row EXCEPT ![Of(x)].status = "pending"]
      BY <2>4, <3>2 DEF RerunStatus, RebuildStatus, WithStatus
    <3>4. WritesOwn(x)
      BY <1>0, <2>0, <3>1, <3>2, <3>3 DEF Recorded, WritesOwn
    <3> QED
      BY <1>g, <2>0, <2>2, <3>4
  <2>5. CASE Put(x) \/ RerunPlan(x) \/ RebuildRead(x) \/ RebuildRefuse(x) \/ RebuildPlan(x)
    <3>1. UNCHANGED <<worker, clock, row, meta>>
      BY <2>5 DEF Put, RerunPlan, RebuildRead, RebuildRefuse, RebuildPlan, env, db, disk
    <3>2. WritesOwn(x)
      BY <3>1 DEF WritesOwn
    <3> QED
      BY <1>g, <2>0, <2>2, <3>2
  <2> QED
    BY <2>1, <2>3, <2>4, <2>5
<1> QED
  BY <1>1, <1>2

\* A scene directory belongs to a row, or to a creation that removed its row
\* and is about to remove the directory.
SceneHasRow ==
  \A t \in Tasks : dir[t] => HasRow(t) \/ (thread[Loop].pc = "undoFiles" /\ Of(Loop) = t)

LEMMA SceneWorker ==
  ASSUME TypeOK, FreshInv, SceneHasRow, WorkerNext
  PROVE  SceneHasRow'
<1>0. /\ UNCHANGED thread /\ dir \in [Tasks -> BOOLEAN] /\ Executes
      /\ T \in Tasks => HasRow(T)
  BY WorkerQueue, ExecutesWorker DEF TypeOK, DataOK, FreshInv, T
<1>1. \A t \in Tasks \ {T} : dir'[t] => dir[t]
  BY <1>0 DEF Step, disk, SaveTaskMeta, T, WorkerNext, Dequeueing, WorkerGet, WorkerSkip, WorkerClaim, WorkerEnter,
     Executing, WorkerStart, WorkerStamp, WorkerTakePlans, WorkerRun, WorkerRules, WorkerStage, WorkerSwap, WorkerIncremental,
     Publishing, WorkerPublish, WorkerPublishFile, WorkerPublishRaises, WorkerRollback, WorkerRelease, WorkerMirror,
     WorkerChecksum, WorkerChecksumFails, Sweeping, WorkerSweep, WorkerSweepUploads, WorkerSweepUploaded, WorkerSweepOutput,
     WorkerSwept, Closing, WorkerFinish, WorkerRaise, WorkerFailFile, WorkerLeave, WorkerClear, WorkerLog, WorkerRefinish
<1>2. \A t \in Tasks : HasRow(t) => HasRow(t)'
  BY <1>0 DEF Executes, HasRow
<1> QED
  BY <1>0, <1>1, <1>2 DEF SceneHasRow, Of

LEMMA SceneOthers ==
  ASSUME Requests \cap {"delete", "device"} = {}, TypeOK, FreshInv, QuietInv, SceneHasRow,
         Request \/ CreateNext \/ \E x \in Handlers : HandlerNext(x)
  PROVE  SceneHasRow'
<1> USE DEF Of, HasRow
<1>0. /\ ThreadOK /\ row \in [Tasks -> Snapshot] /\ dir \in [Tasks -> BOOLEAN]
      /\ Loop \in Threads /\ Loop \notin Handlers /\ Handlers \subseteq Threads
      /\ \A x \in Threads : thread[x].pc # "idle" => Of(x) \in Tasks
      /\ \A x \in Threads : thread[x].pc \notin Deleting /\ thread[x].pc # "deviceSave"
  BY ThreadAssumption DEF TypeOK, DataOK, ThreadOK, Threads, FreshInv, QuietInv
<1>1. CASE Request
  <2>1. PICK t \in Tasks : CreateReserve(t) \/ CreateRestore(t) \/ \E x \in Handlers : RerunRead(x, t) \/ RebuildCheck(x, t)
    BY Zenon, <1>1 DEF Request, DeleteMark, DeviceRead, Begin
  <2>2. CASE CreateReserve(t)
    <3>1. thread[Loop].pc = "idle" /\ row'[t].status = "pending"
      BY <1>0, <2>2 DEF CreateReserve, Begin
    <3> QED
      BY <1>0, <2>2, <3>1 DEF CreateReserve, SceneHasRow
  <2>3. CASE CreateRestore(t)
    BY <2>3 DEF CreateRestore, SceneHasRow, db
  <2>4. ASSUME NEW x \in Handlers, RerunRead(x, t) \/ RebuildCheck(x, t) PROVE SceneHasRow'
    <3>1. PICK kind, pc, saved : Begin(x, kind, t, pc, saved)
      BY <2>4 DEF RerunRead, RebuildCheck
    <3>2. thread'[Loop] = thread[Loop]
      BY <1>0, <3>1, BeginEffect
    <3> QED
      BY <2>4, <3>2 DEF RerunRead, RebuildCheck, SceneHasRow, db, disk
  <2> QED
    BY <2>1, <2>2, <2>3, <2>4
<1>2. CASE CreateNext
  <2>1. PICK from, to : Goes(Loop, from, to) /\ from # "idle"
    BY <1>2 DEF CreateNext, CreateCopy, CreateCopyFails, CreateUndoRow, CreateUndoFiles, Put
  <2>2. thread[Loop].pc # "idle" /\ Of(Loop) \in Tasks
    BY <1>0, <2>1 DEF Goes
  <2>3. CASE CreateUndoRow
    <3>1. thread'[Loop].pc = "undoFiles" /\ thread'[Loop].task = Of(Loop) /\ thread[Loop].pc = "undoRow"
      BY <1>0, <2>3, GoesEffect DEF CreateUndoRow
    <3> QED
      BY <1>0, <2>2, <2>3, <3>1 DEF CreateUndoRow, SceneHasRow, disk
  <2>4. CASE CreateUndoFiles
    BY <1>0, <2>2, <2>4 DEF CreateUndoFiles, SceneHasRow, db
  <2>5. CASE CreateCopy \/ CreateCopyFails \/ Put(Loop)
    BY <2>5 DEF CreateCopy, CreateCopyFails, Put, Goes, SceneHasRow, db, disk
  <2> QED
    BY <1>2, <2>3, <2>4, <2>5 DEF CreateNext
<1>3. ASSUME NEW x \in Handlers, HandlerNext(x) PROVE SceneHasRow'
  <2>0. /\ x \in Threads /\ thread[x].pc # "idle" /\ Of(x) \in Tasks /\ Handles(x)
        /\ thread[x].pc # "rebuildRead" => HasRow(Of(x))
        /\ thread'[Loop] = thread[Loop]
    <3>1. x \in Threads /\ x # Loop /\ Handles(x) /\ thread[x].pc # "idle"
      BY <1>0, <1>3, HandlesHandler
    <3>2. thread[x].pc # "rebuildRead" => HasRow(Of(x))
      BY <1>0, <3>1 DEF FreshInv, Untouched
    <3> QED
      BY <1>0, <3>1, <3>2 DEF Handles
  <2>1. \A t \in Tasks : HasRow(t) => HasRow(t)'
    BY <2>0 DEF Handles
  <2>2. \A t \in Tasks : dir'[t] => dir[t] \/ HasRow(t)
    <3>1. dir' = dir \/ RerunMeta(x)
      <4>1. ~DeleteNext(x)
        BY <1>0, <2>0 DEF Deleting, Goes, DeleteNext, DeleteEnter, DeleteScene, DeleteSceneFails, DeletePackage, DeletePackageFails,
           DeleteRows, DeleteUnlock, DeleteUnmark
      <4>2. ~DeviceSave(x)
        BY <1>0, <2>0 DEF DeviceSave, Goes
      <4> QED
        BY <1>3, <4>1, <4>2 DEF HandlerNext, RerunNext, RebuildNext, Put, RerunPlan, RerunStatus, RebuildRead, RebuildRefuse,
           RebuildPlan, RebuildStatus, disk
    <3>2. RerunMeta(x) => HasRow(Of(x)) /\ dir' = [dir EXCEPT ![Of(x)] = TRUE]
      BY <2>0 DEF RerunMeta, SaveTaskMeta, Goes
    <3> QED
      BY <1>0, <2>0, <3>1, <3>2
  <2> QED
    BY <2>0, <2>1, <2>2 DEF SceneHasRow
<1> QED
  BY <1>1, <1>2, <1>3

\* When all has come to rest every scene is that of a finished task.
LEMMA RestFinished ==
  ASSUME TypeOK, QuietInv, SceneHasRow, PendingIsHeld, RunningIsHeld,
         worker.pc = "idle", queue = <<>>, \A x \in Threads : thread[x].pc = "idle",
         NEW t \in Tasks, dir[t]
  PROVE  row[t].status \in Terminal
<1>1. HasRow(t) /\ row[t] \in Snapshot
  BY DEF SceneHasRow, Threads, TypeOK, DataOK
<1>2. row[t].status # "running"
  BY DEF RunningIsHeld
<1>3. ~InHand(t) /\ t \notin dropped /\ ~Queued(t)
  BY DEF InHand, QuietInv, Queued
<1>4. row[t].status # "pending"
  BY <1>3 DEF PendingIsHeld
<1> QED
  BY <1>1, <1>2, <1>4 DEF HasRow, Snapshot, Recorded, Status, Terminal, Absent

\* Two tasks with a row were never as recent as each other.
LEMMA RecencyDistinct ==
  ASSUME TypeOK, StampInv, NEW t \in Tasks, NEW u \in Tasks, HasRow(t), HasRow(u), Recency(t) = Recency(u)
  PROVE  t = u
<1>1. \A x \in Tasks : HasRow(x) => Recency(x) \in Times /\ Stamp(x, Recency(x))
  <2> SUFFICES ASSUME NEW x \in Tasks, HasRow(x) PROVE Recency(x) \in Times /\ Stamp(x, Recency(x))
    OBVIOUS
  <2>1. row[x] \in Recorded /\ row[x].created > 0
    BY AbsentOrRecorded DEF TypeOK, DataOK, HasRow, StampInv
  <2> QED
    BY <2>1 DEF Recency, Times, Stamp, Recorded
<1> QED
  BY <1>1 DEF StampInv

LEMMA AtRest ==
  ASSUME IsFiniteSet(Tasks), TypeOK, QuietInv, SceneHasRow, StampInv, KeptInv, PendingIsHeld, RunningIsHeld
  PROVE  SceneBound
<1> SUFFICES ASSUME worker.pc = "idle", queue = <<>>, \A x \in Threads : thread[x].pc = "idle"
             PROVE  Cardinality({t \in Tasks : dir[t]}) <= Keep
  BY DEF SceneBound
<1> DEFINE D == {t \in Tasks : dir[t]}
           R == {Recency(t) : t \in D}
<1>1. \A t \in D : row[t].status \in Terminal /\ Recency(t) \in Nat
  <2>1. \A t \in D : row[t].status \in Terminal
    BY RestFinished
  <2>2. \A t \in D : row[t] \in Snapshot
    BY DEF TypeOK, DataOK
  <2> QED
    BY <2>1, <2>2 DEF Recency, Snapshot, Recorded, Absent
<1>2. \A t \in D : Cardinality(FinishedAfter(t)) < Keep
  BY <1>1 DEF KeptInv, NoSweepDue, Kept
<1>3. CASE D = {}
  <2>1. Cardinality(D) = 0
    BY <1>3, FS_EmptySet, Zenon
  <2> HIDE DEF D
  <2>2. Cardinality(D) <= Keep
    BY <2>1, BoundAssumption
  <2> QED
    BY <2>2 DEF D
<1>4. CASE D # {}
  <2>1. PICK m \in R : \A y \in R : <<y, m>> \notin OpToRel(<, Nat)
    <3>1. R \subseteq Nat /\ R # {}
      BY <1>1, <1>4
    <3> HIDE DEF R
    <3> QED
      BY <3>1, NatLessThanWellFounded, WFMin
  <2>2. PICK t \in D : m = Recency(t)
    OBVIOUS
  <2>3. \A u \in D : Recency(u) \in Nat /\ ~(Recency(u) < Recency(t))
    <3> TAKE u \in D
    <3>1. Recency(u) \in R /\ Recency(u) \in Nat /\ m \in Nat
      BY <1>1, <2>2
    <3>2. <<Recency(u), m>> \notin OpToRel(<, Nat)
      BY <2>1, <3>1
    <3> QED
      BY <2>2, <3>1, <3>2, Zenon DEF OpToRel
  <2>4. D \ {t} \subseteq FinishedAfter(t)
    <3> SUFFICES ASSUME NEW u \in D, u # t PROVE u \in FinishedAfter(t)
      OBVIOUS
    <3>1. HasRow(u) /\ HasRow(t)
      BY <1>1 DEF HasRow, Terminal
    <3>2. Recency(u) # Recency(t)
      BY <3>1, RecencyDistinct
    <3>3. Recency(u) > Recency(t)
      BY <1>1, <2>3, <3>2
    <3> QED
      BY <1>1, <3>3 DEF FinishedAfter
  <2>5. /\ IsFiniteSet(FinishedAfter(t)) /\ Cardinality(FinishedAfter(t)) \in Nat
        /\ IsFiniteSet(D) /\ Cardinality(D) \in Nat
    <3>1. FinishedAfter(t) \subseteq Tasks /\ D \subseteq Tasks
      BY DEF FinishedAfter
    <3> HIDE DEF D
    <3> QED
      BY <3>1, FS_Subset, FS_CardinalityType
  <2>6. Cardinality(D \ {t}) = Cardinality(D) - 1 /\ Cardinality(D \ {t}) <= Cardinality(FinishedAfter(t))
    <3> HIDE DEF D
    <3>1. Cardinality(D \ {t}) = Cardinality(D) - 1
      BY <2>5, FS_RemoveElement
    <3>2. Cardinality(D \ {t}) <= Cardinality(FinishedAfter(t))
      BY <2>4, <2>5, FS_Subset
    <3> QED
      BY <3>1, <3>2
  <2>7. Cardinality(FinishedAfter(t)) < Keep
    BY <1>2
  <2> HIDE DEF D
  <2>8. Cardinality(D) <= Keep
    BY <2>5, <2>6, <2>7, BoundAssumption
  <2> QED
    BY <2>8 DEF D
<1> QED
  BY <1>3, <1>4

\* Where tasks are created, rerun and rebuilt in full, once everything has
\* come to rest at most Keep scenes are left, for any finite number of tasks
\* and any number of requests (retention.py:28, tasks.py:190-260).  With an
\* incremental rebuild or a PATCH a scene swept meanwhile is written again
\* and no sweep follows; with a deletion the error path writes the scene of
\* a task whose row is gone.
THEOREM ScenesBounded ==
  ASSUME IsFiniteSet(Tasks), Requests \subseteq {"create", "rerun", "rules", "full"}, "delete" \notin Faults
  PROVE  Spec => []SceneBound
<1> DEFINE Inv == QuietInv /\ SceneHasRow /\ StampInv /\ StartedInv /\ KeptInv
           Given == TypeOK /\ FreshInv /\ RunsHeld
<1>1. Init => Inv
  <2>1. ASSUME Init PROVE StampInv
    BY <2>1 DEF Init, StampInv, Stamp, Times, HasRow, Absent, IdleWorker, IdleThread
  <2>2. ASSUME Init PROVE QuietInv /\ SceneHasRow
    BY <2>2 DEF Init, QuietInv, SceneHasRow, IdleWorker, IdleThread
  <2>3. ASSUME Init PROVE StartedInv /\ KeptInv
    BY <2>3 DEF Init, StartedInv, KeptInv, Kept, IdleWorker
  <2> QED
    BY <2>1, <2>2, <2>3
<1>2. Given /\ Inv /\ [Next]_vars => Inv'
  <2> SUFFICES ASSUME Given, Inv, [Next]_vars PROVE Inv'
    OBVIOUS
  <2>1. CASE WorkerNext
    BY <2>1, QuietWorker, SceneWorker, StampWorker, StartedWorker, KeptWorker DEF RunsHeld
  <2>2. CASE Request \/ CreateNext \/ \E x \in Handlers : HandlerNext(x)
    <3>1. QuietInv' /\ UNCHANGED worker /\ FinishesNone
      BY <2>2, QuietOthers
    <3>2. StampInv'
      BY <2>2, StampRequest, StampOthers
    <3>3. StartedInv'
      BY <3>1 DEF StartedInv, FinishesNone, T, TypeOK, WorkerOK
    <3> QED
      BY <2>2, <3>1, <3>2, <3>3, SceneOthers, KeptOthers
  <2>3. CASE UNCHANGED vars
    BY <2>3 DEF vars, db, disk, plans, ctl, env, hist, QuietInv, SceneHasRow, StampInv, Stamp, StartedInv, T, KeptInv, Kept, NoSweepDue,
       FinishedAfter, Recency, HasRow, Of
  <2> QED
    BY <2>1, <2>2, <2>3 DEF Next
<1>3. Given /\ PendingIsHeld /\ Inv => SceneBound
  BY AtRest DEF RunsHeld
<1>4. "delete" \notin Requests /\ "incremental" \notin Requests
  OBVIOUS
<1> QED
  BY <1>1, <1>2, <1>3, <1>4, TypeCorrect, FreshHolds, RunsHeldHolds, PendingNeverForgotten, PTL DEF Spec
=============================================================================
