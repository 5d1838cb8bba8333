------------------------------ MODULE Inventory ------------------------------
(***************************************************************************)
(* The device ledger (services/inventory): LST ME.txt files are parsed     *)
(* into the evidence of a task, the evidence is published as observations  *)
(* of devices, and each touched device is recalculated.  The worker        *)
(* publishes one task at a time; an administrator may delete a device at   *)
(* any time from a request thread.                                         *)
(*                                                                         *)
(* The session does not flush by itself (autoflush=False): a query sees    *)
(* the table, the objects the worker holds have its own pending values,    *)
(* and nothing is locked before the first flush.  A flush that finds a     *)
(* changed row gone raises and the publication is rolled back.             *)
(***************************************************************************)
EXTENDS Integers, Sequences, FiniteSets, SequencesExt, FiniteSetsExt

CONSTANTS
  InvTasks,   \* numbers, in the order of their names
  InvNames,   \* normalized device names, numbered in their order
  NoValue,
  SiteOf,     \* province and operator a task was uploaded with, or NoValue
  Product,    \* the network element type asked for, or NoValue
  Supplements, \* tasks of log supplement packages
  TimeTolerance, \* how far after the completion a time may lie
  Scans,      \* what an extraction may offer: sequences of source files
  InvRuns, InvDeletes  \* bounds: publications, deletions

ASSUME InventoryAssumption ==
  /\ InvTasks \subseteq Nat /\ InvNames \subseteq Nat /\ InvRuns \in Nat /\ InvDeletes \in Nat
  /\ TimeTolerance \in Nat
  /\ \A t \in InvTasks : SiteOf[t] = NoValue \/ DOMAIN SiteOf[t] = {"province", "operator"}
  /\ Supplements \subseteq InvTasks

VARIABLES
  invEvidence, \* inventory.json by task, or NoEntry
  parsed,   \* inventory_parse_results: the evidence last published, or NoEntry
  obs,      \* inventory_observations by task and name, or NoEntry
  devices,  \* inventory_devices by id, or NoEntry
  audits,   \* inventory_change_audits
  worker,   \* the publication under way
  clock, deletes \* completions so far, deletions so far

invVars == <<invEvidence, parsed, obs, devices, audits, worker, clock, deletes>>

Archivable(t) == SiteOf[t] # NoValue
DeviceId(t, n) == IF Archivable(t) THEN <<SiteOf[t].province, n>> ELSE NoValue
DeviceIds == {DeviceId(t, n) : t \in {u \in InvTasks : Archivable(u)}, n \in InvNames}
-----------------------------------------------------------------------------
(* Parsing.  A line is a header time, a field, a table header, a table     *)
(* row, blank or something else.                                           *)

NewRecord(n) == [name |-> n, types |-> {}, versions |-> {}]
HeaderRecord == [NewRecord(NoValue) EXCEPT !.types = {NoValue}]
Given(v)     == IF v = NoValue THEN {} ELSE {v}
AddTo(recs, field, v) == [recs EXCEPT ![Len(recs)] = [@ EXCEPT ![field] = @ \cup {v}]]

\* The first time before the first device is the file's, valid or not.  A
\* blank line ends no table, and a header inside a table is a row of it.
ReadLine(line, acc) ==
  CASE acc.recs = <<>> /\ ~acc.timed /\ line.kind = "time" -> [acc EXCEPT !.time = line.value, !.timed = TRUE]
    [] line.kind = "blank" -> acc
    [] line.kind = "row" /\ acc.table /\ line.name # NoValue ->
         [acc EXCEPT !.recs = Append(@, [name |-> line.name, types |-> Given(line.type), versions |-> Given(line.version)])]
    [] line.kind = "head" ->
         [acc EXCEPT !.table = TRUE, !.recs = IF acc.table THEN Append(@, HeaderRecord) ELSE @]
    [] line.kind = "name" -> [acc EXCEPT !.recs = Append(@, NewRecord(line.value)), !.table = FALSE]
    [] line.kind \in {"types", "versions"} /\ acc.recs # <<>> ->
         [acc EXCEPT !.recs = AddTo(@, line.kind, line.value), !.table = FALSE]
    [] OTHER -> [acc EXCEPT !.table = FALSE]

NothingRead == [recs |-> <<>>, time |-> NoValue, timed |-> FALSE, table |-> FALSE]
ReadFile(file) ==
  IF file.decodes THEN FoldLeft(LAMBDA acc, line : ReadLine(line, acc), NothingRead, file.lines) ELSE NothingRead

\* Only records of the type asked for count.
Matched(file) == SelectSeq(ReadFile(file).recs, LAMBDA r : Product # NoValue /\ r.types = {Product})

\* The files' records of a name; one version or none, or a conflict.
NamesIn(scan)     == {n \in InvNames : \E i \in DOMAIN scan : \E r \in ToSet(Matched(scan[i])) : r.name = n}
VersionsIn(scan, n) ==
  UNION {UNION {r.versions : r \in {q \in ToSet(Matched(scan[i])) : q.name = n}} : i \in DOMAIN scan}
FilesOf(scan, n)  == {i \in DOMAIN scan : \E r \in ToSet(Matched(scan[i])) : r.name = n}

StatusOf(t, scan) ==
  IF t \in Supplements THEN "not_applicable"
  ELSE IF \E i \in DOMAIN scan : ~scan[i].decodes THEN "failed"
  ELSE IF \/ ~Archivable(t) \/ Product = NoValue \/ NamesIn(scan) = {}
          \/ \E n \in NamesIn(scan) : Cardinality(VersionsIn(scan, n)) > 1
       THEN "not_archived" ELSE "archived"

\* The latest valid time of the files that name the device, if any is not
\* too far after the completion; the completion otherwise.
ObservedAt(scan, n, done) ==
  LET times == {ReadFile(scan[i]).time : i \in FilesOf(scan, n)}
      valid == {x \in times : x \in Nat /\ x <= done + TimeTolerance}
  IN IF valid = {} THEN done ELSE Max(valid)

EvidenceOf(t, scan, done) ==
  LET status == StatusOf(t, scan)
      found  == IF status = "archived" THEN NamesIn(scan) ELSE {}
  IN [status |-> status,
      found  |-> [n \in found |->
        [version |-> IF VersionsIn(scan, n) = {} THEN NoValue ELSE CHOOSE v \in VersionsIn(scan, n) : TRUE,
         at      |-> ObservedAt(scan, n, done)]]]
-----------------------------------------------------------------------------
(* Publishing                                                              *)

NoEntry     == [status |-> "none"]  \* no row, no file
IdleSession == [pc |-> "idle"]

InvInit ==
  /\ invEvidence = [t \in InvTasks |-> NoEntry] /\ parsed = invEvidence
  /\ obs = [k \in InvTasks \X InvNames |-> NoEntry]
  /\ devices = [d \in DeviceIds |-> NoEntry]
  /\ audits = {} /\ worker = IdleSession /\ clock = 0 /\ deletes = 0

\* What a query returns, and what the worker's objects say: the rows of its
\* task are objects of the session.
Table    == IF worker.locked THEN worker.table ELSE obs
Held(k)  == k[1] = worker.task /\ worker.mine[k[2]] # NoEntry
KnownDevice(k) == IF Held(k) THEN worker.mine[k[2]] ELSE Table[k]

\* mutant: rows that are gone are skipped
StaleIgnored == FALSE

\* A changed row that is not in the table any more.
Stale ==
  \/ worker.lost
  \/ \E n \in worker.dirty : Table[<<worker.task, n>>] = NoEntry
  \/ \E d \in DOMAIN worker.rows \ worker.added : devices[d] = NoEntry

\* A flush writes the pending rows and locks the database until the commit.
Flush(w) ==
  [w EXCEPT !.locked = TRUE, !.lost = Stale, !.dirty = {},
            !.table = [k \in DOMAIN obs |-> IF k[1] = w.task /\ k[2] \in w.dirty THEN w.mine[k[2]] ELSE Table[k]]]

\* mutant: the values are taken before the change
AuditEarly(t, n, action, before, after) ==
  [task |-> t, name |-> n, action |-> action, before |-> before, after |-> before]

Audit(t, n, action, before, after) ==
  [task |-> t, name |-> n, action |-> action, before |-> before, after |-> after]

\* _recalculate_device: the rows that the table calls active, in the order
\* the table gives them; their values as the session holds them.
ActiveRows(d) == {k \in DOMAIN obs : Table[k] # NoEntry /\ Table[k].status = "active" /\ DeviceId(k[1], k[2]) = d}
Newer(j, k)   == Table[j].at > Table[k].at \/ (Table[j].at = Table[k].at /\ j[1] < k[1])
Recalculate(d, row) ==
  LET rows == SetToSortSeq(ActiveRows(d), Newer)
      versioned == SelectSeq(rows, LAMBDA k : KnownDevice(k).version # NoValue)
      moves == {i \in 1..Len(rows) - 1 : KnownDevice(rows[i]).operator # KnownDevice(rows[i + 1]).operator}
  IN IF rows = <<>> THEN [row EXCEPT !.count = 0, !.status = "retired"]
     ELSE [count |-> Len(rows), status |-> "archived",
           operator |-> KnownDevice(rows[1]).operator, seen |-> KnownDevice(rows[1]).at,
           version |-> IF versioned = <<>> THEN NoValue ELSE KnownDevice(versioned[1]).version,
           changes |-> Cardinality(moves),
           conflict |-> Cardinality({KnownDevice(k).operator : k \in ToSet(rows)}) > 1]

\* The end of a run: the evidence is written; its publication retires the
\* observations of the task that the evidence does not have.
Retired(o) == [o EXCEPT !.status = "retired"]
PublishParsed(t, scan) ==
  /\ worker.pc = "idle" /\ clock < InvRuns
  /\ clock' = clock + 1
  /\ LET e    == EvidenceOf(t, scan, clock')
         here == IF t \in Supplements THEN {} ELSE {n \in InvNames : obs[<<t, n>>] # NoEntry}
         gone == here \ DOMAIN e.found
     IN /\ invEvidence' = [invEvidence EXCEPT ![t] = e]
        /\ worker' = [pc |-> "load", task |-> t, e |-> e, locked |-> FALSE, lost |-> FALSE, table |-> obs,
                      todo |-> DOMAIN e.found,
                      touched |-> IF e.status = "archived" THEN {} ELSE {DeviceId(t, n) : n \in here},
                      mine |-> [n \in InvNames |-> IF n \in gone THEN Retired(obs[<<t, n>>]) ELSE obs[<<t, n>>]],
                      dirty |-> gone, rows |-> <<>>, added |-> {},
                      audits |-> {Audit(t, n, "retire", obs[<<t, n>>], Retired(obs[<<t, n>>])) : n \in gone}]
  /\ UNCHANGED <<parsed, obs, devices, audits, deletes>>

\* A device of the evidence is read, or inserted and flushed.
Fresh(t) == [count |-> 0, status |-> "archived", operator |-> SiteOf[t].operator, seen |-> clock,
             version |-> NoValue, changes |-> 0, conflict |-> FALSE]
\* The objects of the session, with the one of device d.
WithRow(rows, d, v) == [x \in DOMAIN rows \cup {d} |-> IF x = d THEN v ELSE rows[x]]
LoadDevice ==
  /\ worker.pc = "load" /\ worker.todo # {}
  /\ LET d == DeviceId(worker.task, Min(worker.todo))
         w == [worker EXCEPT !.pc = "archive"]
     IN worker' = IF devices[d] # NoEntry THEN [w EXCEPT !.rows = WithRow(@, d, devices[d])]
                  ELSE [Flush(w) EXCEPT !.rows = WithRow(@, d, Fresh(worker.task)), !.added = @ \cup {d}]
  /\ UNCHANGED <<invEvidence, parsed, obs, devices, audits, clock, deletes>>

\* Its observation is inserted and flushed, or overwritten in the session.
Observation(t, f) == [status |-> "active", operator |-> SiteOf[t].operator, version |-> f.version, at |-> f.at]
ArchiveDevice ==
  /\ worker.pc = "archive"
  /\ LET n   == Min(worker.todo)
         old == worker.mine[n]
         new == Observation(worker.task, worker.e.found[n])
         w   == [worker EXCEPT !.pc = "recalculate", !.mine[n] = new, !.dirty = @ \cup {n}]
     IN worker' = IF old = NoEntry
                  THEN [Flush(w) EXCEPT !.audits = @ \cup {Audit(worker.task, n, "create", NoEntry, new)}]
                  ELSE IF old = new THEN w
                  ELSE [w EXCEPT !.audits = @ \cup {Audit(worker.task, n, "update", old, new)}]
  /\ UNCHANGED <<invEvidence, parsed, obs, devices, audits, clock, deletes>>

RecalculateArchived ==
  /\ worker.pc = "recalculate"
  /\ LET d == DeviceId(worker.task, Min(worker.todo))
     IN worker' = [worker EXCEPT !.pc = "load", !.todo = @ \ {Min(@)}, !.rows[d] = Recalculate(d, @)]
  /\ UNCHANGED <<invEvidence, parsed, obs, devices, audits, clock, deletes>>

\* A task that archives nothing has the devices of its old rows recalculated.
RecalculateTouched ==
  /\ worker.pc = "load" /\ worker.touched # {}
  /\ worker' = [worker EXCEPT !.touched = {},
                  !.rows = [d \in {x \in worker.touched : devices[x] # NoEntry} |-> Recalculate(d, devices[d])]]
  /\ UNCHANGED <<invEvidence, parsed, obs, devices, audits, clock, deletes>>

Settling == worker.pc = "load" /\ worker.todo = {} /\ worker.touched = {} /\ worker' = IdleSession
Commit ==
  /\ Settling /\ ~Stale
  /\ parsed' = [parsed EXCEPT ![worker.task] = worker.e]
  /\ obs' = Flush(worker).table
  /\ devices' = [d \in DeviceIds |-> IF d \in DOMAIN worker.rows THEN worker.rows[d] ELSE devices[d]]
  /\ audits' = audits \cup worker.audits
  /\ UNCHANGED <<invEvidence, clock, deletes>>

\* The caller logs the failure; the task completes without it.
PublishFails ==
  /\ Settling /\ Stale
  /\ UNCHANGED <<invEvidence, parsed, obs, devices, audits, clock, deletes>>

\* maintenance.delete_device: one transaction, once the worker's is over.
DeleteDevice(d) ==
  /\ deletes < InvDeletes /\ devices[d] # NoEntry
  /\ (worker.pc # "idle" => ~worker.locked)
  /\ deletes' = deletes + 1
  /\ devices' = [devices EXCEPT ![d] = NoEntry]
  /\ obs' = [k \in DOMAIN obs |-> IF DeviceId(k[1], k[2]) = d THEN NoEntry ELSE obs[k]]
  /\ audits' = {a \in audits : DeviceId(a.task, a.name) # d}
  /\ UNCHANGED <<invEvidence, parsed, worker, clock>>

InvNext ==
  \/ \E t \in InvTasks, scan \in Scans : PublishParsed(t, scan)
  \/ LoadDevice \/ ArchiveDevice \/ RecalculateArchived \/ RecalculateTouched
  \/ Commit \/ PublishFails
  \/ \E d \in DeviceIds : DeleteDevice(d)

InvSpec == InvInit /\ [][InvNext]_invVars
-----------------------------------------------------------------------------
(* Properties                                                              *)

\* Every row has its fields.
InvTypeOK ==
  /\ \A k \in DOMAIN obs : obs[k] = NoEntry \/ (obs[k].status \in {"active", "retired"} /\ obs[k].at \in Nat)
  /\ \A d \in DeviceIds : devices[d] = NoEntry \/ devices[d].status \in {"archived", "retired"}
  /\ worker.pc \in {"idle", "load", "archive", "recalculate"}
  /\ clock \in 0..InvRuns /\ deletes \in 0..InvDeletes

\* No observation is left without its device, whenever the device was deleted
\* (the publication that had read it is rolled back as a whole).
NoOrphans ==
  \A k \in DOMAIN obs : obs[k] # NoEntry => devices[DeviceId(k[1], k[2])] # NoEntry

\* The active observations of a task are what its last published evidence
\* archived, with its versions; a device may have been deleted since.
LedgerMirrorsEvidence ==
  \A t \in InvTasks \ Supplements, n \in InvNames :
    LET o == obs[<<t, n>>] IN
    /\ parsed[t] = NoEntry => o = NoEntry
    /\ parsed[t] # NoEntry /\ o # NoEntry =>
         IF n \in DOMAIN parsed[t].found
         THEN o.status = "active" /\ o.version = parsed[t].found[n].version /\ o.at = parsed[t].found[n].at
         ELSE o.status = "retired"

\* The ledger and the evidence it was published from.
LedgerSound == NoOrphans /\ LedgerMirrorsEvidence

\* Overwriting or retiring an observation leaves an audit with both versions
\* of it (FR-006 of specs/027-site-device-ledger).
ChangesAudited ==
  [][\A k \in DOMAIN obs :
       obs[k] # NoEntry /\ obs'[k] \notin {obs[k], NoEntry} =>
         \E a \in audits' : a.task = k[1] /\ a.name = k[2] /\ a.before = obs[k] /\ a.after = obs'[k]]_invVars

\* specs/027-site-device-ledger/data-model.md: the state of a device is
\* recalculated from its active observations only.
CountsActive ==
  \A d \in DeviceIds :
    devices[d] # NoEntry =>
      devices[d].count =
        Cardinality({k \in DOMAIN obs : obs[k] # NoEntry /\ obs[k].status = "active" /\ DeviceId(k[1], k[2]) = d})
=============================================================================
