----------------------------- MODULE Attribution -----------------------------
(***************************************************************************)
(* Where the KPI configuration of v5, which knows no network element type, *)
(* goes in v6, where every row has one.  The migration                     *)
(* (services/kpi_v6_migration.py) runs at start-up and again whenever the  *)
(* v5 tables or the tasks changed; it maps a row when everything that is   *)
(* known of it points to one type, and otherwise records a pending         *)
(* attribution.  A maintainer resolves such a record, or retries the       *)
(* recovery of a row that v5 had switched off, by an idempotent operation  *)
(* of several transactions (services/kpi_measurement_scope.py).            *)
(*                                                                         *)
(* Within a session, reads before the first write see committed data; the  *)
(* writes and their commit are one step.  The session writes only the      *)
(* attributes that differ from the ones it loaded.                         *)
(***************************************************************************)
EXTENDS Naturals, FiniteSets

CONSTANTS
  NetTypes,        \* network element types
  NoType,       \* no product: the task is missing or names no supported type
  Resources,    \* v5 resources: measurement units and metrics
  MuResources,  \* those of kind "mu"
  BindingRecs, DerivedRecs, ConfigRecs, \* the other v5 rows
  UnitRef, MetricRef,  \* the unit and the metric a binding, derivation or config names
  Parts,        \* numerator and denominator of a derivation
  Disabled,     \* rows v5 had switched off
  ConfirmedRecs,\* bindings whose v5 status is confirmed
  Unfit,       \* rows whose v6 row violates a table constraint
  Maintainers,  \* threads serving the maintenance endpoints
  Keys,         \* idempotency keys
  Asks,         \* the requests they may send
  MaxLegacy,    \* bound on changes of the v5 data
  MaxCalls,     \* bound on the requests sent
  MaxCrashes    \* bound on crashes of the service

Records == Resources \cup BindingRecs \cup DerivedRecs \cup ConfigRecs

\* Retry the recovery of some rows, or give a pending record a type.
AllAsks == [kind: {"retry"}, recs: SUBSET Records] \cup [kind: {"resolve"}, rec: Records, type: NetTypes]

ASSUME AttributionAssumption ==
  /\ NoType \notin NetTypes
  /\ MuResources \subseteq Resources
  /\ UnitRef \in [Records \ Resources -> Resources]
  /\ MetricRef \in [Records \ Resources -> Resources]
  /\ Parts \in [DerivedRecs -> SUBSET Resources]
  /\ Disabled \cup ConfirmedRecs \cup Unfit \subseteq Records
  /\ Asks \subseteq AllAsks
  /\ MaxLegacy \in Nat /\ MaxCalls \in Nat /\ MaxCrashes \in Nat

VARIABLES
  origin,     \* type of the task a resource or a binding comes from
  legacy,     \* changes of the v5 data so far, and has a migration seen them?
  v6,         \* the v6 row of a record under a type
  pending,    \* kpi_pending_attributions
  audit,      \* kpi_legacy_recovery_audits
  operation,  \* kpi_maintenance_operations, by idempotency key
  maintainer, \* program counter and locals of each thread
  calls, crashes  \* requests sent, crashes so far

attrVars == <<origin, legacy, v6, pending, audit, operation, maintainer, calls, crashes>>

Presence == {"absent", "migrated", "edited"}
NoPending == [state |-> "none", type |-> NoType]
NoAudit   == [result |-> "none", type |-> NoType]
NoOperation == [status |-> "none", id |-> 0, ask |-> {}]
Unoccupied   == [pc |-> "idle", key |-> "none", id |-> 0, ask |-> {}, local |-> {}]
Unfinished == {"pending", "failed", "assigned"}

HasRow(r, t) == v6[r][t] # "absent"
-----------------------------------------------------------------------------
AttrInit ==
  /\ origin \in [Resources \cup BindingRecs -> NetTypes \cup {NoType}]
  /\ legacy = [changes |-> 0, migrated |-> FALSE]
  /\ v6 = [r \in Records |-> [t \in NetTypes |-> "absent"]]
  /\ pending = [r \in Records |-> NoPending]
  /\ audit = [r \in Records |-> NoAudit]
  /\ operation = [k \in Keys |-> NoOperation]
  /\ maintainer = [m \in Maintainers |-> Unoccupied]
  /\ calls = 0 /\ crashes = 0

\* A task is created, deleted or uploaded again with another product, or a
\* later discovery moves a binding to another task.
LegacyChanges ==
  /\ legacy.changes < MaxLegacy
  /\ legacy' = [changes |-> legacy.changes + 1, migrated |-> FALSE]
  /\ \E r \in DOMAIN origin, t \in NetTypes \cup {NoType} :
       t # origin[r] /\ origin' = [origin EXCEPT ![r] = t]
  /\ UNCHANGED <<v6, pending, audit, operation, maintainer, calls, crashes>>

\* What is known of a resource: its own task and the tasks of its bindings.
Evidence(s) ==
  ({origin[s]} \cup {origin[b] : b \in {x \in BindingRecs : s \in {UnitRef[x], MetricRef[x]}}}) \ {NoType}

One(S) == Cardinality(S) = 1

\* The resources this migration maps; a binding needs both of its resources
\* and evidence that agrees, a derivation also its parts.
Mappable(r) ==
  IF r \in Resources THEN One(Evidence(r)) ELSE
  IF r \in BindingRecs
  THEN LET known == {{origin[r]} \ {NoType}, Evidence(UnitRef[r]), Evidence(MetricRef[r])} \ {{}}
       IN known # {} /\ One(UNION known)
  ELSE One(Evidence(UnitRef[r])) /\ Evidence(UnitRef[r]) = Evidence(MetricRef[r])

TypeFor(r) ==
  CHOOSE t \in NetTypes :
    t \in IF r \in Resources THEN Evidence(r) ELSE
          IF r \in BindingRecs THEN ({origin[r]} \ {NoType}) \cup Evidence(UnitRef[r]) \cup Evidence(MetricRef[r])
          ELSE Evidence(UnitRef[r])

MappedResources == {s \in Resources : Mappable(s) /\ s \notin Unfit}

References(r) ==
  IF r \in Resources THEN {} ELSE
  {UnitRef[r], MetricRef[r]} \cup (IF r \in DerivedRecs THEN Parts[r] ELSE {})

Attributable(r) == Mappable(r) /\ References(r) \subseteq MappedResources
Maps(r)         == Attributable(r) /\ r \notin Unfit

\* A confirmed source binding owns the identity of a derived metric.
OwnedBySource(r, rows) ==
  /\ r \in DerivedRecs
  /\ \E b \in BindingRecs \cap ConfirmedRecs :
       /\ UnitRef[b] = UnitRef[r] /\ MetricRef[b] = MetricRef[r]
       /\ rows[b][TypeFor(r)] # "absent"

\* mutant: the conflict updates the row
InsertRowOver(rows, r) == [rows EXCEPT ![r][TypeFor(r)] = "migrated"]

\* Rows that are already there are left alone (ON CONFLICT DO NOTHING).
InsertRow(rows, r) == [rows EXCEPT ![r][TypeFor(r)] = IF @ = "absent" THEN "migrated" ELSE @]
BindingRows ==
  [r \in Records |-> IF r \in Resources \cup BindingRecs /\ Maps(r) THEN InsertRow(v6, r)[r] ELSE v6[r]]
Owned(r)   == Mappable(r) /\ OwnedBySource(r, BindingRows)
Skipped(r) == Attributable(r) /\ Owned(r)

\* Disabled metrics, bindings and derivations get an audit, and every
\* derivation whose identity a source binding owns.
Audited(r) == Skipped(r) \/ (r \in Disabled \ (MuResources \cup ConfigRecs) /\ ~Owned(r))

AuditFor(r) ==
  LET typed == IF r \in BindingRecs THEN Attributable(r) ELSE Mappable(r) IN
  [result |-> IF Skipped(r) THEN "skipped" ELSE
              IF ~typed THEN "pending" ELSE
              IF r \in Unfit /\ Attributable(r) THEN "failed" ELSE "recovered",
   type |-> IF typed THEN TypeFor(r) ELSE NoType]

\* migrate_kpi_v6: one transaction, serialised by _init_db_lock, run when the
\* signature of the v5 tables changed.
Migrate ==
  /\ ~legacy.migrated
  /\ legacy' = [legacy EXCEPT !.migrated = TRUE]
  /\ v6' = [r \in Records |-> IF Maps(r) /\ ~Skipped(r) THEN InsertRow(v6, r)[r] ELSE v6[r]]
  /\ pending' = [r \in Records |->
       IF pending[r] = NoPending /\ ~Maps(r) /\ ~Skipped(r) THEN [state |-> "pending", type |-> NoType]
       ELSE pending[r]]
  /\ audit' = [r \in Records |->
       IF audit[r] = NoAudit /\ Audited(r) THEN AuditFor(r) ELSE audit[r]]
  /\ UNCHANGED <<origin, operation, maintainer, calls, crashes>>

\* A maintainer edits a v6 row (binding correction, inspection switch,
\* config); one edited row at a time bounds the state space.
EditRow ==
  /\ \A r \in Records, t \in NetTypes : v6[r][t] # "edited"
  /\ \E r \in Records, t \in NetTypes :
       v6[r][t] = "migrated" /\ v6' = [v6 EXCEPT ![r][t] = "edited"]
  /\ UNCHANGED <<origin, legacy, pending, audit, operation, maintainer, calls, crashes>>
-----------------------------------------------------------------------------
(* retry_legacy_recovery and resolve_pending_attribution                   *)

\* A thread remembers its request, the operation it serves (the key and the
\* number of the insertion: a deleted operation's id is never used again)
\* and what it has read.
MStep(m, pc, local) == maintainer' = [maintainer EXCEPT ![m].pc = pc, ![m].local = local]
Returns(m)  == maintainer' = [maintainer EXCEPT ![m] = Unoccupied]
SameTables  == UNCHANGED <<origin, legacy, v6, pending, audit, crashes>>
Ask(m)      == maintainer[m].ask
Local(m)    == maintainer[m].local
Key(m)      == maintainer[m].key
Exists(m)   == operation[Key(m)].id = maintainer[m].id
Live(k)     == operation[k].status \in {"queued", "running"}
SetStatus(m, status) == operation' = [operation EXCEPT ![Key(m)].status = status]

\* _existing_operation: a key in use for another request is refused, for the
\* same request its operation is joined.
Lookup(m) ==
  /\ maintainer[m].pc = "idle" /\ calls < MaxCalls
  /\ calls' = calls + 1
  /\ \E k \in Keys, a \in Asks :
       \/ /\ operation[k].status = "none"
          /\ maintainer' = [maintainer EXCEPT ![m] =
                              [pc |-> "insert", key |-> k, id |-> calls + 1, ask |-> a, local |-> {}]]
       \/ /\ operation[k].status # "none" /\ operation[k].ask = a
          /\ maintainer' = [maintainer EXCEPT ![m] =
                              [pc |-> "load", key |-> k, id |-> operation[k].id, ask |-> a, local |-> {}]]
  /\ SameTables /\ UNCHANGED operation

\* _create_operation; a key inserted meanwhile violates the unique constraint.
InsertOperation(m) ==
  /\ maintainer[m].pc = "insert"
  /\ IF operation[Key(m)].status = "none"
     THEN /\ operation' = [operation EXCEPT ![Key(m)] =
                             [status |-> "queued", id |-> maintainer[m].id, ask |-> Ask(m)]]
          /\ MStep(m, "load", {})
     ELSE Returns(m) /\ UNCHANGED operation
  /\ SameTables /\ UNCHANGED calls

NeedsWork(a) ==
  IF a.kind = "retry" THEN \A r \in a.recs : audit[r].result \in {"pending", "failed"}
                      ELSE pending[a.rec].state \in Unfinished

\* The operation and its target are loaded; a finished operation answers.
LoadOperation(m) ==
  /\ maintainer[m].pc = "load"
  /\ IF ~Exists(m) \/ ~Live(Key(m)) THEN Returns(m)
     ELSE IF NeedsWork(Ask(m))
     THEN MStep(m, "open", [status |-> operation[Key(m)].status,
                            was |-> IF Ask(m).kind = "resolve" THEN pending[Ask(m).rec] ELSE NoPending])
     ELSE MStep(m, "refuse", {})
  /\ SameTables /\ UNCHANGED <<operation, calls>>

\* A target that needs no work deletes the operation and answers 400 or 404.
RefuseTarget(m) ==
  /\ maintainer[m].pc = "refuse"
  /\ operation' = IF Exists(m) THEN [operation EXCEPT ![Key(m)] = NoOperation] ELSE operation
  /\ Returns(m) /\ SameTables /\ UNCHANGED calls

\* An operation deleted meanwhile makes the update of its status fail, and
\* the transaction with it.  Only attributes that change are written.
OpenOperation(m) ==
  LET was == Local(m).was
      a   == Ask(m)
  IN
  /\ maintainer[m].pc = "open"
  /\ IF Local(m).status = "queued" /\ ~Exists(m)
     THEN Returns(m) /\ UNCHANGED <<operation, pending>>
     ELSE /\ IF Local(m).status = "queued" THEN SetStatus(m, "running") ELSE UNCHANGED operation
          /\ IF a.kind = "retry"
             THEN MStep(m, "recover", [todo |-> a.recs, good |-> {}]) /\ UNCHANGED pending
             ELSE /\ pending' = [pending EXCEPT ![a.rec] =
                       [state |-> IF was.state = "assigned" THEN @.state ELSE "assigned",
                        type  |-> IF was.type = a.type THEN @.type ELSE a.type]]
                  /\ MStep(m, "check", {})
  /\ UNCHANGED <<origin, legacy, v6, audit, crashes, calls>>

\* One audit, in a transaction of its own.
RecoverOne(m, r) ==
  LET ok == audit[r].type # NoType IN
  /\ maintainer[m].pc = "recover" /\ r \in Local(m).todo
  /\ audit' = [audit EXCEPT ![r].result = IF ok THEN "recovered" ELSE "failed"]
  /\ MStep(m, "recover", [todo |-> Local(m).todo \ {r},
                          good |-> Local(m).good \cup {x \in {r} : ok}])
  /\ UNCHANGED <<origin, legacy, v6, pending, operation, crashes, calls>>

RecoveredAll(m) ==
  LET good == Local(m).good IN
  /\ maintainer[m].pc = "recover" /\ Local(m).todo = {}
  /\ MStep(m, "finish", IF good = Ask(m).recs THEN "succeeded" ELSE
                        IF good = {} THEN "failed" ELSE "partial_success")
  /\ SameTables /\ UNCHANGED <<operation, calls>>

\* What a materialisation needs of the rows already there: a binding its
\* unit, a config its metric, a derivation all resources and no confirmed
\* source.
BindingReady(r, t) == HasRow(UnitRef[r], t)
ConfigReady(r, t)  == HasRow(MetricRef[r], t)
DerivedReady(r, t) ==
  /\ \A s \in References(r) : HasRow(s, t)
  /\ ~\E b \in BindingRecs \cap ConfirmedRecs :
        UnitRef[b] = UnitRef[r] /\ MetricRef[b] = MetricRef[r] /\ HasRow(b, t)

CanMaterialize(r, t) ==
  /\ r \notin Unfit
  /\ r \in BindingRecs => BindingReady(r, t)
  /\ r \in ConfigRecs  => ConfigReady(r, t)
  /\ r \in DerivedRecs => DerivedReady(r, t)

\* mutant: what a row is missing only keeps it from being inserted
CheckTargetLenient(m) ==
  LET r == Ask(m).rec
      t == pending[r].type
  IN
  /\ maintainer[m].pc = "check"
  /\ MStep(m, "write", [type |-> t, insert |-> CanMaterialize(r, t) /\ ~HasRow(r, t), was |-> pending[r].state])
  /\ SameTables /\ UNCHANGED <<operation, calls>>

\* _materialize_pending: everything is read before the row is inserted.
CheckTarget(m) ==
  LET r == Ask(m).rec
      t == pending[r].type
  IN
  /\ maintainer[m].pc = "check"
  /\ IF CanMaterialize(r, t)
     THEN MStep(m, "write", [type |-> t, insert |-> ~HasRow(r, t), was |-> pending[r].state])
     ELSE MStep(m, "fail", {})
  /\ SameTables /\ UNCHANGED <<operation, calls>>

\* A row inserted meanwhile violates the unique constraint.
MaterializeTarget(m) ==
  LET r == Ask(m).rec
      t == Local(m).type
  IN
  /\ maintainer[m].pc = "write"
  /\ IF Local(m).insert /\ HasRow(r, t)
     THEN MStep(m, "fail", {}) /\ UNCHANGED <<v6, pending>>
     ELSE /\ v6' = IF Local(m).insert THEN [v6 EXCEPT ![r][t] = "migrated"] ELSE v6
          /\ pending' = IF Local(m).was = "materialized" THEN pending
                        ELSE [pending EXCEPT ![r].state = "materialized"]
          /\ MStep(m, "finish", "succeeded")
  /\ UNCHANGED <<origin, legacy, audit, operation, crashes, calls>>

\* mutant: the failed record is returned without finishing the operation
FailTargetReturns(m) ==
  /\ maintainer[m].pc = "fail"
  /\ pending' = [pending EXCEPT ![Ask(m).rec].state = "failed"]
  /\ Returns(m)
  /\ UNCHANGED <<origin, legacy, v6, audit, operation, crashes, calls>>

\* The rollback, after which the record is read again and marked failed.
FailTarget(m) ==
  /\ maintainer[m].pc = "fail"
  /\ pending' = [pending EXCEPT ![Ask(m).rec].state = "failed"]
  /\ MStep(m, "finish", "failed")
  /\ UNCHANGED <<origin, legacy, v6, audit, operation, crashes, calls>>

\* _finish_operation; an operation deleted meanwhile is ignored.
FinishOperation(m) ==
  /\ maintainer[m].pc = "finish"
  /\ IF Exists(m) THEN SetStatus(m, Local(m)) ELSE UNCHANGED operation
  /\ Returns(m) /\ SameTables /\ UNCHANGED calls

\* The service dies; what was committed stays.
ServiceCrash ==
  /\ crashes < MaxCrashes
  /\ \E m \in Maintainers : maintainer[m].pc # "idle"
  /\ crashes' = crashes + 1
  /\ maintainer' = [m \in Maintainers |-> Unoccupied]
  /\ UNCHANGED <<origin, legacy, v6, pending, audit, operation, calls>>
-----------------------------------------------------------------------------
Continue(m) ==
  \/ InsertOperation(m) \/ LoadOperation(m) \/ RefuseTarget(m) \/ OpenOperation(m)
  \/ (\E r \in Records : RecoverOne(m, r)) \/ RecoveredAll(m)
  \/ CheckTarget(m) \/ MaterializeTarget(m) \/ FailTarget(m) \/ FinishOperation(m)

AttrNext ==
  \/ LegacyChanges \/ Migrate \/ EditRow \/ ServiceCrash
  \/ \E m \in Maintainers : Lookup(m) \/ Continue(m)

\* A thread that serves a request goes on with it.
AttrFairness == \A m \in Maintainers : WF_attrVars(Continue(m))

AttrSpec == AttrInit /\ [][AttrNext]_attrVars /\ AttrFairness
-----------------------------------------------------------------------------
(* Properties                                                              *)

AttrTypeOK ==
  /\ origin \in [Resources \cup BindingRecs -> NetTypes \cup {NoType}]
  /\ legacy \in [changes: Nat, migrated: BOOLEAN]
  /\ v6 \in [Records -> [NetTypes -> Presence]]
  /\ pending \in [Records -> [state: {"none", "materialized"} \cup Unfinished, type: NetTypes \cup {NoType}]]
  /\ audit \in [Records -> [result: {"none", "pending", "failed", "recovered", "skipped"},
                            type: NetTypes \cup {NoType}]]
  /\ \A k \in Keys : operation[k].status \in
       {"none", "queued", "running", "succeeded", "failed", "partial_success"}
  /\ calls \in Nat /\ crashes \in Nat

\* The migration loses no row: once it has run, every v5 row has a v6 row, a
\* pending attribution, or the audit that says a source binding owns it,
\* whatever the evidence was then and is now (migrate_kpi_v6).
EveryRowAccounted ==
  legacy.migrated =>
    \A r \in Records : \/ \E t \in NetTypes : HasRow(r, t)
                       \/ pending[r].state # "none"
                       \/ audit[r].result = "skipped"

\* A record shown as materialised has a row under some type, and so has the
\* target of every operation that succeeded, however threads and crashes
\* interleave (resolve_pending_attribution).
MaterializedHasRow ==
  /\ \A r \in Records : pending[r].state = "materialized" => \E t \in NetTypes : HasRow(r, t)
  /\ \A k \in Keys : operation[k].status = "succeeded" /\ operation[k].ask.kind = "resolve" =>
       \E t \in NetTypes : HasRow(operation[k].ask.rec, t)

\* The attribution of old rows loses none and claims none that is not there.
AttrSafe == EveryRowAccounted /\ MaterializedHasRow

\* What a maintainer edited is not overwritten, by a repeated migration or by
\* a materialisation (specs/041-kpi-result-workbench/data-model.md, 9.3).
EditsSurvive ==
  [][\A r \in Records, t \in NetTypes : v6[r][t] = "edited" => v6'[r][t] = "edited"]_attrVars

\* Unless the service dies, every accepted operation ends, or is deleted
\* because its target needs no work.
EveryOperationEnds == \A k \in Keys : Live(k) /\ crashes = 0 ~> ~Live(k) \/ crashes > 0

\* A record that is not resolved has no v6 row, so it is in no scope
\* (specs/041-kpi-result-workbench/data-model.md, 4.19).
UnresolvedStaysOut ==
  \A r \in Records, t \in NetTypes : pending[r].state \in Unfinished => ~HasRow(r, t)
=============================================================================
