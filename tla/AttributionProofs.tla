-------------------------- MODULE AttributionProofs --------------------------
(***************************************************************************)
(* Proofs about Attribution, for any rows of v5, network element types,    *)
(* maintainers, requests, changes of the v5 data and crashes.              *)
(*                                                                         *)
(* AttrIsSafe: AttrSafe is not inductive.  RowsInv adds that a row with an *)
(* audit is accounted for whatever was migrated since; ThreadsInv what a   *)
(* thread may rely on of what it read in an earlier transaction, and       *)
(* KeysInv that the operation a thread still finds is one for its request: *)
(* the number of a new operation is nobody else's.                         *)
(* EditsAreKept: EditsSurvive follows from the types of the rows.          *)
(***************************************************************************)
EXTENDS Attribution, FiniteSetTheorems, TLAPS

-----------------------------------------------------------------------------
(* The invariant.                                                          *)

\* The types of the threads, whose locals differ from step to step, and of
\* the operations.
Statuses == {"none", "queued", "running", "succeeded", "failed", "partial_success"}
MaintainerPc ==
  {"idle", "insert", "load", "refuse", "open", "recover", "check", "write", "fail", "finish"}
PendingRecs == [state: {"none", "materialized"} \cup Unfinished, type: NetTypes \cup {NoType}]
Locals ==
  {{}} \cup Statuses
    \cup [status: Statuses, was: PendingRecs]
    \cup [todo: SUBSET Records, good: SUBSET Records]
    \cup [type: NetTypes \cup {NoType}, insert: BOOLEAN, was: {"none", "materialized"} \cup Unfinished]
Threads == [pc: MaintainerPc, key: Keys \cup {"none"}, id: Nat, ask: Asks \cup {{}}, local: Locals]
OperationRows == [status: Statuses, id: Nat, ask: Asks \cup {{}}]

AttrTypes ==
  /\ AttrTypeOK
  /\ operation \in [Keys -> OperationRows]
  /\ maintainer \in [Maintainers -> Threads]

\* Every v5 row the migration has seen is accounted for, and so is every row
\* with an audit.
HasSomeRow(r) == \E t \in NetTypes : HasRow(r, t)
Accounted(r)  == HasSomeRow(r) \/ pending[r].state # "none" \/ audit[r].result = "skipped"

RowsInv ==
  /\ legacy.migrated => \A r \in Records : Accounted(r)
  /\ \A r \in Records : audit[r] # NoAudit => audit[r].result # "none" /\ Accounted(r)
  /\ \A r \in Records : pending[r].state = "none" => pending[r] = NoPending
  /\ \A r \in Records : pending[r].state = "materialized" => HasSomeRow(r)
  /\ \A k \in Keys : operation[k].status = "succeeded" /\ operation[k].ask.kind = "resolve" =>
       \E r \in Records : r = operation[k].ask.rec /\ HasSomeRow(r)

\* What a thread may still rely on.
Retried == {"pending", "failed", "recovered"}
Typed(r) == pending[r].type \in NetTypes

OpenInv(m) ==
  maintainer[m].pc = "open" =>
    /\ Ask(m).kind = "retry" => \A r \in Ask(m).recs : audit[r].result \in Retried
    /\ Ask(m).kind = "resolve" =>
         /\ pending[Ask(m).rec].state # "none"
         /\ Local(m).was.type \in NetTypes => Typed(Ask(m).rec)
RecoverInv(m) ==
  maintainer[m].pc = "recover" =>
    /\ Ask(m).kind = "retry" /\ Local(m).todo \cup Local(m).good \subseteq Records
    /\ \A r \in Local(m).todo : audit[r].result \in Retried
ResolveInv(m) ==
  /\ maintainer[m].pc \in {"check", "write", "fail"} => Ask(m).kind = "resolve"
  /\ maintainer[m].pc = "check" => Typed(Ask(m).rec)
  /\ maintainer[m].pc = "write" =>
       Local(m).type \in NetTypes /\ (Local(m).insert \/ HasRow(Ask(m).rec, Local(m).type))
FinishInv(m) ==
  maintainer[m].pc = "finish" =>
    /\ Local(m) \in Statuses
    /\ Local(m) = "succeeded" /\ Ask(m).kind = "resolve" => HasSomeRow(Ask(m).rec)

ThreadsInv ==
  \A m \in Maintainers : OpenInv(m) /\ RecoverInv(m) /\ ResolveInv(m) /\ FinishInv(m)

\* The operation a thread still finds under its key is one for its request:
\* the number it inserts is nobody else's.
KeysInv ==
  /\ \A k \in Keys : operation[k].id <= calls /\ (operation[k].status # "none" => operation[k].id # 0)
  /\ \A m \in Maintainers :
       /\ maintainer[m].id <= calls
       /\ maintainer[m].pc # "idle" => Key(m) \in Keys /\ Ask(m) \in Asks /\ maintainer[m].id # 0
       /\ maintainer[m].pc = "insert" =>
            /\ \A k \in Keys : operation[k].id # maintainer[m].id
            /\ \A n \in Maintainers \ {m} : maintainer[n].id # maintainer[m].id
       /\ maintainer[m].pc \notin {"idle", "insert"} /\ Exists(m) => operation[Key(m)].ask = Ask(m)

AttrInv == RowsInv /\ ThreadsInv /\ KeysInv
-----------------------------------------------------------------------------
(* The operators.                                                          *)

\* A request is a retry of some rows or the resolution of one.
LEMMA AskTypes ==
  ASSUME NEW a \in Asks
  PROVE  \/ a.kind = "retry" /\ a.recs \subseteq Records
         \/ a.kind = "resolve" /\ a.rec \in Records /\ a.type \in NetTypes
  BY AttributionAssumption DEF AllAsks

\* What is counted as one is there.
LEMMA OneIsThere ==
  ASSUME NEW S, One(S) PROVE \E x \in S : TRUE
  BY FS_EmptySet DEF One

LEMMA EvidenceTypes ==
  ASSUME AttrTypes, NEW s \in Resources
  PROVE  Evidence(s) \subseteq NetTypes
  BY DEF AttrTypes, AttrTypeOK, Evidence

\* The type of a row that can be mapped is a network element type.
LEMMA TypeForType ==
  ASSUME AttrTypes, NEW r \in Records, Mappable(r)
  PROVE  TypeFor(r) \in NetTypes
<1>1. CASE r \in Resources
  <2>1. PICK t \in Evidence(r) : TRUE
    BY <1>1, OneIsThere DEF Mappable
  <2>2. t \in NetTypes
    BY <1>1, <2>1, EvidenceTypes
  <2> QED
    BY <1>1, <2>1, <2>2 DEF TypeFor
<1>2. CASE r \notin Resources /\ r \in BindingRecs
  <2> DEFINE known == {{origin[r]} \ {NoType}, Evidence(UnitRef[r]), Evidence(MetricRef[r])} \ {{}}
             all   == ({origin[r]} \ {NoType}) \cup Evidence(UnitRef[r]) \cup Evidence(MetricRef[r])
  <2>1. One(UNION known)
    BY <1>2 DEF Mappable
  <2>2. PICK t \in UNION known : TRUE
    BY <2>1, OneIsThere
  <2>3. t \in all
    BY <2>2
  <2>4. UnitRef[r] \in Resources /\ MetricRef[r] \in Resources
    BY <1>2, AttributionAssumption
  <2>5. {origin[r]} \ {NoType} \subseteq NetTypes
    BY <1>2 DEF AttrTypes, AttrTypeOK
  <2>6. t \in NetTypes
    BY <2>3, <2>4, <2>5, EvidenceTypes
  <2> QED
    BY <1>2, <2>3, <2>6 DEF TypeFor
<1>3. CASE r \notin Resources /\ r \notin BindingRecs
  <2>1. PICK t \in Evidence(UnitRef[r]) : TRUE
    BY <1>3, OneIsThere DEF Mappable
  <2>2. UnitRef[r] \in Resources
    BY <1>3, AttributionAssumption
  <2>3. t \in NetTypes
    BY <2>1, <2>2, EvidenceTypes
  <2> QED
    BY <1>3, <2>1, <2>3 DEF TypeFor
<1> QED
  BY <1>1, <1>2, <1>3

\* A thread that goes on keeps its request and the others theirs.
LEMMA ThreadGoes ==
  ASSUME AttrTypes, NEW m \in Maintainers, NEW pc \in MaintainerPc, NEW local \in Locals,
         MStep(m, pc, local)
  PROVE  /\ maintainer' \in [Maintainers -> Threads]
         /\ maintainer'[m].pc = pc /\ maintainer'[m].local = local
         /\ maintainer'[m].key = maintainer[m].key
         /\ maintainer'[m].id = maintainer[m].id
         /\ maintainer'[m].ask = maintainer[m].ask
         /\ \A n \in Maintainers : n # m => maintainer'[n] = maintainer[n]
<1>1. maintainer[m] \in Threads /\ maintainer \in [Maintainers -> Threads]
  BY DEF AttrTypes
<1>2. maintainer' = [maintainer EXCEPT ![m] = [@ EXCEPT !.pc = pc, !.local = local]]
  BY <1>1 DEF MStep, Threads
<1>3. [maintainer[m] EXCEPT !.pc = pc, !.local = local] \in Threads
  BY <1>1 DEF Threads
<1> QED
  BY <1>1, <1>2, <1>3 DEF Threads

\* A thread that answers is idle.
LEMMA ThreadReturns ==
  ASSUME AttrTypes, NEW m \in Maintainers, Returns(m)
  PROVE  /\ maintainer' \in [Maintainers -> Threads]
         /\ maintainer'[m].pc = "idle" /\ maintainer'[m].id = 0
         /\ \A n \in Maintainers : n # m => maintainer'[n] = maintainer[n]
<1>1. Unoccupied \in Threads
  BY DEF Unoccupied, Threads, MaintainerPc, Locals
<1> QED
  BY <1>1 DEF AttrTypes, Returns, Unoccupied

\* The migration's insertion adds at most the row of the type.
LEMMA InsertedRow ==
  ASSUME AttrTypes, NEW r \in Records
  PROVE  /\ InsertRow(v6, r)[r] \in [NetTypes -> Presence]
         /\ \A t \in NetTypes : v6[r][t] # "absent" => InsertRow(v6, r)[r][t] = v6[r][t]
         /\ TypeFor(r) \in NetTypes => InsertRow(v6, r)[r][TypeFor(r)] # "absent"
  BY DEF AttrTypes, AttrTypeOK, InsertRow, Presence
-----------------------------------------------------------------------------
(* Types.                                                                  *)

\* What a step may not touch: rows, attributions and audits stay.
RowsStay == \A r \in Records, t \in NetTypes : HasRow(r, t) => HasRow(r, t)'
PendingStays ==
  \A r \in Records : /\ pending[r].state # "none" => pending'[r].state # "none"
                     /\ Typed(r) => Typed(r)'
AuditStays ==
  \A r \in Records : /\ audit[r].result \in Retried => audit'[r].result \in Retried
                     /\ audit[r].result = "skipped" => audit'[r].result = "skipped"
Steady == RowsStay /\ PendingStays /\ AuditStays

LEMMA SteadySame ==
  ASSUME UNCHANGED <<v6, pending, audit>> PROVE Steady
  BY DEF Steady, RowsStay, PendingStays, AuditStays, HasRow, Typed

\* Changes of the v5 data and edits.
LEMMA LegacyTypes ==
  ASSUME AttrTypes, LegacyChanges \/ EditRow \/ ServiceCrash
  PROVE  AttrTypes' /\ Steady
<1>1. CASE LegacyChanges
  BY <1>1, SteadySame DEF LegacyChanges, AttrTypes, AttrTypeOK
<1>2. CASE EditRow
  <2>1. PICK r \in Records, t \in NetTypes : v6[r][t] = "migrated" /\ v6' = [v6 EXCEPT ![r][t] = "edited"]
    BY <1>2 DEF EditRow
  <2>2. v6' \in [Records -> [NetTypes -> Presence]] /\ RowsStay
    BY <2>1 DEF AttrTypes, AttrTypeOK, Presence, RowsStay, HasRow
  <2>3. PendingStays /\ AuditStays
    BY <1>2 DEF EditRow, PendingStays, AuditStays, Typed
  <2> QED
    BY <1>2, <2>2, <2>3 DEF EditRow, AttrTypes, AttrTypeOK, Steady
<1>3. CASE ServiceCrash
  <2>1. Unoccupied \in Threads
    BY DEF Unoccupied, Threads, MaintainerPc, Locals
  <2> QED
    BY <1>3, <2>1, SteadySame DEF ServiceCrash, AttrTypes, AttrTypeOK
<1> QED
  BY <1>1, <1>2, <1>3

\* The migration.
LEMMA MigrateTypes ==
  ASSUME AttrTypes, Migrate
  PROVE  AttrTypes' /\ Steady
<1>1. v6' \in [Records -> [NetTypes -> Presence]] /\ RowsStay
  <2>1. \A r \in Records : v6'[r] = v6[r] \/ v6'[r] = InsertRow(v6, r)[r]
    BY DEF Migrate
  <2>2. \A r \in Records : v6[r] \in [NetTypes -> Presence]
    BY DEF AttrTypes, AttrTypeOK
  <2>3. \A r \in Records : v6'[r] \in [NetTypes -> Presence]
    BY <2>1, <2>2, InsertedRow
  <2>4. v6' = [r \in Records |-> v6'[r]]
    BY DEF Migrate
  <2>5. RowsStay
    BY <2>1, InsertedRow DEF RowsStay, HasRow
  <2> QED
    BY <2>3, <2>4, <2>5
<1>2. pending' \in [Records -> PendingRecs] /\ PendingStays
  <2>1. \A r \in Records :
          \/ pending'[r] = pending[r]
          \/ pending[r] = NoPending /\ pending'[r] = [state |-> "pending", type |-> NoType]
    BY DEF Migrate
  <2>2. \A r \in Records : pending'[r] \in PendingRecs
    BY <2>1 DEF AttrTypes, AttrTypeOK, PendingRecs, Unfinished
  <2>3. pending' = [r \in Records |-> pending'[r]]
    BY DEF Migrate
  <2>4. PendingStays
    BY <2>1, AttributionAssumption DEF PendingStays, NoPending, Typed
  <2> QED
    BY <2>2, <2>3, <2>4
<1>3. audit' \in [Records -> [result: {"none", "pending", "failed", "recovered", "skipped"},
                              type: NetTypes \cup {NoType}]] /\ AuditStays
  <2>1. \A r \in Records :
          \/ audit'[r] = audit[r]
          \/ audit[r] = NoAudit /\ Audited(r) /\ audit'[r] = AuditFor(r)
    BY DEF Migrate
  <2>2. ASSUME NEW r \in Records
        PROVE  AuditFor(r) \in [result: {"none", "pending", "failed", "recovered", "skipped"},
                                type: NetTypes \cup {NoType}]
    <3>1. Mappable(r) => TypeFor(r) \in NetTypes
      BY TypeForType
    <3>2. Attributable(r) => Mappable(r)
      BY DEF Attributable
    <3> QED
      BY <3>1, <3>2 DEF AuditFor
  <2>3. \A r \in Records : audit'[r] \in [result: {"none", "pending", "failed", "recovered", "skipped"},
                                          type: NetTypes \cup {NoType}]
    BY <2>1, <2>2 DEF AttrTypes, AttrTypeOK
  <2>4. audit' = [r \in Records |-> audit'[r]]
    BY DEF Migrate
  <2>5. AuditStays
    BY <2>1 DEF AuditStays, NoAudit, Retried
  <2> QED
    BY <2>3, <2>4, <2>5
<1> QED
  BY <1>1, <1>2, <1>3 DEF Migrate, AttrTypes, AttrTypeOK, Steady, PendingRecs

\* A request arrives; its operation is inserted, loaded or deleted.
LEMMA RequestTypes ==
  ASSUME AttrTypes, KeysInv, NEW m \in Maintainers,
         Lookup(m) \/ InsertOperation(m) \/ LoadOperation(m) \/ RefuseTarget(m)
  PROVE  AttrTypes' /\ Steady
<1>1. UNCHANGED <<origin, legacy, v6, pending, audit, crashes>>
  BY DEF Lookup, InsertOperation, LoadOperation, RefuseTarget, SameTables
<1>2. Steady
  BY <1>1, SteadySame
<1>3. CASE Lookup(m)
  <2>1. PICK k \in Keys, a \in Asks : \E pc \in {"insert", "load"}, i \in {calls + 1, operation[k].id} :
          maintainer' = [maintainer EXCEPT ![m] = [pc |-> pc, key |-> k, id |-> i, ask |-> a, local |-> {}]]
    BY <1>3 DEF Lookup
  <2>2. maintainer' \in [Maintainers -> Threads]
    BY <2>1 DEF AttrTypes, AttrTypeOK, Threads, OperationRows, MaintainerPc, Locals
  <2> QED
    BY <1>1, <1>2, <1>3, <2>2 DEF Lookup, AttrTypes, AttrTypeOK
<1>4. CASE InsertOperation(m)
  <2>1. maintainer' \in [Maintainers -> Threads]
    <3>1. "load" \in MaintainerPc /\ {} \in Locals
      BY DEF MaintainerPc, Locals
    <3> QED
      BY <1>4, <3>1, ThreadGoes, ThreadReturns DEF InsertOperation
  <2>2. operation' \in [Keys -> OperationRows]
    BY <1>4 DEF InsertOperation, AttrTypes, OperationRows, Threads, Ask, Statuses
  <2> QED
    BY <1>1, <1>2, <1>4, <2>1, <2>2 DEF InsertOperation, AttrTypes, AttrTypeOK, OperationRows, Statuses
<1>5. CASE LoadOperation(m)
  <2>1. maintainer' \in [Maintainers -> Threads]
    <3>1. "open" \in MaintainerPc /\ "refuse" \in MaintainerPc /\ {} \in Locals
      BY DEF MaintainerPc, Locals
    <3>2. CASE MStep(m, "open", [status |-> operation[Key(m)].status,
                    was |-> IF Ask(m).kind = "resolve" THEN pending[Ask(m).rec] ELSE NoPending])
                 /\ Exists(m) /\ Live(Key(m)) /\ NeedsWork(Ask(m))
      <4>1. operation[Key(m)].status \in Statuses
        BY <3>2 DEF Live, Statuses
      <4>2. (IF Ask(m).kind = "resolve" THEN pending[Ask(m).rec] ELSE NoPending) \in PendingRecs
        <5>1. NoPending \in PendingRecs
          BY DEF NoPending, PendingRecs
        <5>2. Ask(m).kind = "resolve" => pending[Ask(m).rec] \in PendingRecs
          BY <1>5, AskTypes DEF LoadOperation, KeysInv, AttrTypes, AttrTypeOK, PendingRecs
        <5> QED
          BY <5>1, <5>2
      <4>3. [status |-> operation[Key(m)].status,
             was |-> IF Ask(m).kind = "resolve" THEN pending[Ask(m).rec] ELSE NoPending] \in Locals
        BY <4>1, <4>2 DEF Locals
      <4> QED
        BY <3>1, <3>2, <4>3, ThreadGoes
    <3> QED
      BY <1>5, <3>1, <3>2, ThreadGoes, ThreadReturns DEF LoadOperation
  <2> QED
    BY <1>1, <1>2, <1>5, <2>1 DEF LoadOperation, AttrTypes, AttrTypeOK
<1>6. CASE RefuseTarget(m)
  <2>1. maintainer' \in [Maintainers -> Threads]
    BY <1>6, ThreadReturns DEF RefuseTarget
  <2>2. operation' \in [Keys -> OperationRows]
    BY <1>6 DEF RefuseTarget, AttrTypes, OperationRows, NoOperation, Statuses
  <2> QED
    BY <1>1, <1>2, <1>6, <2>1, <2>2 DEF RefuseTarget, AttrTypes, AttrTypeOK, OperationRows, Statuses
<1> QED
  BY <1>3, <1>4, <1>5, <1>6
\* A thread opens its operation, and recovers audits or checks its target.
LEMMA OpenTypes ==
  ASSUME AttrTypes, KeysInv, ThreadsInv, NEW m \in Maintainers, OpenOperation(m)
  PROVE  AttrTypes' /\ Steady
<1> DEFINE was == Local(m).was
           a   == Ask(m)
<1>1. /\ maintainer[m].pc = "open" /\ a \in Asks /\ Key(m) \in Keys
      /\ UNCHANGED <<origin, legacy, v6, audit, crashes, calls>>
  BY DEF OpenOperation, KeysInv
<1>2. operation' \in [Keys -> OperationRows]
  BY <1>1 DEF OpenOperation, SetStatus, AttrTypes, OperationRows, Statuses
<1>3. CASE Returns(m) /\ UNCHANGED pending
  <2>1. maintainer' \in [Maintainers -> Threads]
    BY <1>3, ThreadReturns
  <2> QED
    BY <1>1, <1>2, <1>3, <2>1, SteadySame DEF AttrTypes, AttrTypeOK, OperationRows, Statuses
<1>4. CASE a.kind = "retry" /\ MStep(m, "recover", [todo |-> a.recs, good |-> {}]) /\ UNCHANGED pending
  <2>1. "recover" \in MaintainerPc /\ [todo |-> a.recs, good |-> {}] \in Locals
    BY <1>1, <1>4, AskTypes DEF MaintainerPc, Locals
  <2>2. maintainer' \in [Maintainers -> Threads]
    BY <1>4, <2>1, ThreadGoes
  <2> QED
    BY <1>1, <1>2, <1>4, <2>2, SteadySame DEF AttrTypes, AttrTypeOK, OperationRows, Statuses
<1>5. CASE /\ a.kind # "retry"
           /\ pending' = [pending EXCEPT ![a.rec] =
                [state |-> IF was.state = "assigned" THEN @.state ELSE "assigned",
                 type  |-> IF was.type = a.type THEN @.type ELSE a.type]]
           /\ MStep(m, "check", {})
  <2>1. "check" \in MaintainerPc /\ {} \in Locals
    BY DEF MaintainerPc, Locals
  <2>2. maintainer' \in [Maintainers -> Threads]
    BY <1>5, <2>1, ThreadGoes
  <2>3. a.rec \in Records /\ a.type \in NetTypes
    BY <1>1, <1>5, AskTypes
  <2>4. pending \in [Records -> PendingRecs]
    BY DEF AttrTypes, AttrTypeOK, PendingRecs
  <2>5. PICK s, t : /\ pending'[a.rec] = [state |-> s, type |-> t]
                    /\ s \in {pending[a.rec].state, "assigned"} /\ t \in {pending[a.rec].type, a.type}
    BY <1>5, <2>3, <2>4
  <2>6. \A r \in Records : r # a.rec => pending'[r] = pending[r]
    BY <1>5, <2>4
  <2>7. [state |-> s, type |-> t] \in PendingRecs
    BY <2>3, <2>4, <2>5 DEF PendingRecs, Unfinished
  <2>8. pending' \in [Records -> PendingRecs]
    BY <1>5, <2>4, <2>5, <2>6, <2>7
  <2>9. PendingStays
    BY <2>3, <2>5, <2>6 DEF PendingStays, Typed
  <2>10. RowsStay /\ AuditStays
    BY <1>1 DEF RowsStay, AuditStays, HasRow
  <2> QED
    BY <1>1, <1>2, <2>2, <2>8, <2>9, <2>10
       DEF AttrTypes, AttrTypeOK, OperationRows, Statuses, PendingRecs, Steady
<1> QED
  BY <1>3, <1>4, <1>5 DEF OpenOperation

LEMMA RecoverTypes ==
  ASSUME AttrTypes, KeysInv, ThreadsInv, NEW m \in Maintainers,
         (\E r \in Records : RecoverOne(m, r)) \/ RecoveredAll(m)
  PROVE  AttrTypes' /\ Steady
<1>1. ASSUME NEW r \in Records, RecoverOne(m, r) PROVE AttrTypes' /\ Steady
  <2> DEFINE ok   == audit[r].type # NoType
             left == [todo |-> Local(m).todo \ {r}, good |-> Local(m).good \cup {x \in {r} : ok}]
  <2>1. /\ maintainer[m].pc = "recover" /\ r \in Local(m).todo
        /\ MStep(m, "recover", left)
        /\ audit' = [audit EXCEPT ![r].result = IF ok THEN "recovered" ELSE "failed"]
        /\ UNCHANGED <<origin, legacy, v6, pending, operation, crashes, calls>>
    BY <1>1 DEF RecoverOne
  <2>2. Local(m).todo \cup Local(m).good \subseteq Records /\ audit[r].result \in Retried
    BY <2>1 DEF ThreadsInv, RecoverInv
  <2>3. "recover" \in MaintainerPc /\ left \in Locals
    BY <2>2 DEF MaintainerPc, Locals
  <2>4. maintainer' \in [Maintainers -> Threads]
    BY <2>1, <2>3, ThreadGoes
  <2>5. audit' \in [Records -> [result: {"none", "pending", "failed", "recovered", "skipped"},
                                type: NetTypes \cup {NoType}]]
    BY <2>1 DEF AttrTypes, AttrTypeOK
  <2>6. AuditStays
    BY <2>1, <2>2 DEF AuditStays, Retried, AttrTypes, AttrTypeOK
  <2>7. RowsStay /\ PendingStays
    BY <2>1 DEF RowsStay, PendingStays, HasRow, Typed
  <2> QED
    BY <2>1, <2>4, <2>5, <2>6, <2>7 DEF AttrTypes, AttrTypeOK, Steady
<1>2. CASE RecoveredAll(m)
  <2>1. {"succeeded", "failed", "partial_success"} \subseteq Locals /\ "finish" \in MaintainerPc
    BY DEF Locals, Statuses, MaintainerPc
  <2>2. maintainer' \in [Maintainers -> Threads]
    BY <1>2, <2>1, ThreadGoes DEF RecoveredAll
  <2>3. UNCHANGED <<origin, legacy, v6, pending, audit, crashes, operation, calls>>
    BY <1>2 DEF RecoveredAll, SameTables
  <2> QED
    BY <2>2, <2>3, SteadySame DEF AttrTypes, AttrTypeOK
<1> QED
  BY <1>1, <1>2

LEMMA TargetTypes ==
  ASSUME AttrTypes, KeysInv, ThreadsInv, NEW m \in Maintainers,
         CheckTarget(m) \/ MaterializeTarget(m) \/ FailTarget(m)
  PROVE  AttrTypes' /\ Steady
<1> DEFINE r == Ask(m).rec
<1>1. Ask(m).kind = "resolve" /\ r \in Records
  <2>1. maintainer[m].pc \in {"check", "write", "fail"}
    BY DEF CheckTarget, MaterializeTarget, FailTarget
  <2>2. Ask(m) \in Asks /\ Ask(m).kind = "resolve"
    BY <2>1 DEF KeysInv, ThreadsInv, ResolveInv
  <2> QED
    BY <2>2, AskTypes
<1>2. {} \in Locals /\ {"succeeded", "failed"} \subseteq Locals
      /\ {"write", "fail", "finish"} \subseteq MaintainerPc
  BY DEF Locals, Statuses, MaintainerPc
<1>3. pending \in [Records -> PendingRecs]
  BY DEF AttrTypes, AttrTypeOK, PendingRecs
<1>4. CASE CheckTarget(m)
  <2> DEFINE t == pending[r].type
             seen == [type |-> t, insert |-> ~HasRow(r, t), was |-> pending[r].state]
  <2>1. seen \in Locals
    BY <1>1, <1>3 DEF PendingRecs, Locals
  <2>2. MStep(m, "write", seen) \/ MStep(m, "fail", {})
    BY <1>4 DEF CheckTarget
  <2>3. maintainer' \in [Maintainers -> Threads]
    BY <1>2, <2>1, <2>2, ThreadGoes
  <2>4. UNCHANGED <<origin, legacy, v6, pending, audit, crashes, operation, calls>>
    BY <1>4 DEF CheckTarget, SameTables
  <2> QED
    BY <2>3, <2>4, SteadySame DEF AttrTypes, AttrTypeOK
<1>5. ASSUME NEW state \in {"materialized", "failed"}, pending' = [pending EXCEPT ![r].state = state]
      PROVE  pending' \in [Records -> PendingRecs] /\ PendingStays
  BY <1>1, <1>3, <1>5 DEF PendingRecs, Unfinished, PendingStays, Typed
<1>6. CASE MaterializeTarget(m)
  <2> DEFINE t == Local(m).type
  <2>1. /\ maintainer[m].pc = "write"
        /\ UNCHANGED <<origin, legacy, audit, operation, crashes, calls>>
    BY <1>6 DEF MaterializeTarget
  <2>2. maintainer' \in [Maintainers -> Threads]
    BY <1>2, <1>6, ThreadGoes DEF MaterializeTarget
  <2>3. UNCHANGED pending \/ pending' = [pending EXCEPT ![r].state = "materialized"]
    BY <1>6 DEF MaterializeTarget
  <2>4. pending' \in [Records -> PendingRecs] /\ PendingStays
    BY <1>3, <1>5, <2>3 DEF PendingStays, Typed
  <2>5. UNCHANGED v6 \/ (~HasRow(r, t) /\ v6' = [v6 EXCEPT ![r][t] = "migrated"])
    BY <1>6 DEF MaterializeTarget
  <2>6. v6' \in [Records -> [NetTypes -> Presence]] /\ RowsStay
    <3>1. v6 \in [Records -> [NetTypes -> Presence]]
      BY DEF AttrTypes, AttrTypeOK
    <3>2. CASE UNCHANGED v6
      BY <3>1, <3>2 DEF RowsStay, HasRow
    <3>3. CASE ~HasRow(r, t) /\ v6' = [v6 EXCEPT ![r][t] = "migrated"]
      <4>1. [v6[r] EXCEPT ![t] = "migrated"] \in [NetTypes -> Presence]
        BY <1>1, <3>1 DEF Presence
      <4>2. v6' \in [Records -> [NetTypes -> Presence]]
        BY <3>1, <3>3, <4>1
      <4>3. \A i \in Records, u \in NetTypes : v6'[i][u] = v6[i][u] \/ v6'[i][u] = "migrated"
        BY <1>1, <3>1, <3>3
      <4> QED
        BY <4>2, <4>3 DEF RowsStay, HasRow
    <3> QED
      BY <2>5, <3>2, <3>3
  <2>7. AuditStays
    BY <2>1 DEF AuditStays
  <2> QED
    BY <2>1, <2>2, <2>4, <2>6, <2>7 DEF AttrTypes, AttrTypeOK, PendingRecs, Steady
<1>7. CASE FailTarget(m)
  <2>1. UNCHANGED <<origin, legacy, v6, audit, operation, crashes, calls>>
    BY <1>7 DEF FailTarget
  <2>2. maintainer' \in [Maintainers -> Threads]
    BY <1>2, <1>7, ThreadGoes DEF FailTarget
  <2>3. pending' \in [Records -> PendingRecs] /\ PendingStays
    BY <1>5, <1>7 DEF FailTarget
  <2>4. AuditStays /\ RowsStay
    BY <2>1 DEF AuditStays, RowsStay, HasRow
  <2> QED
    BY <2>1, <2>2, <2>3, <2>4 DEF AttrTypes, AttrTypeOK, PendingRecs, Steady
<1> QED
  BY <1>4, <1>6, <1>7

LEMMA FinishTypes ==
  ASSUME AttrTypes, KeysInv, ThreadsInv, NEW m \in Maintainers, FinishOperation(m)
  PROVE  AttrTypes' /\ Steady
<1>1. UNCHANGED <<origin, legacy, v6, pending, audit, crashes, calls>>
  BY DEF FinishOperation, SameTables
<1>2. maintainer' \in [Maintainers -> Threads]
  BY ThreadReturns DEF FinishOperation
<1>3. Local(m) \in Statuses
  BY DEF FinishOperation, ThreadsInv, FinishInv
<1>4. operation' \in [Keys -> OperationRows]
  BY <1>3 DEF FinishOperation, SetStatus, AttrTypes, OperationRows
<1> QED
  BY <1>1, <1>2, <1>4, SteadySame DEF AttrTypes, AttrTypeOK, OperationRows, Statuses

\* Every step keeps the types, and what it may not touch.
LEMMA TypesStep ==
  ASSUME AttrTypes, KeysInv, ThreadsInv, AttrNext
  PROVE  AttrTypes' /\ Steady
  BY LegacyTypes, MigrateTypes, RequestTypes, OpenTypes, RecoverTypes, TargetTypes, FinishTypes
     DEF AttrNext, Continue
-----------------------------------------------------------------------------
(* Threads.                                                                *)

\* What is there stays there.
LEMMA RowsKept ==
  ASSUME Steady, NEW r \in Records
  PROVE  /\ HasSomeRow(r) => HasSomeRow(r)'
         /\ Accounted(r) => Accounted(r)'
<1>1. HasSomeRow(r) => HasSomeRow(r)'
  BY DEF Steady, RowsStay, HasSomeRow
<1> QED
  BY <1>1 DEF Steady, PendingStays, AuditStays, Accounted

\* A thread that does not move may rely on what it relied on.
LEMMA OtherThread ==
  ASSUME AttrTypes, KeysInv, Steady, NEW n \in Maintainers, maintainer'[n] = maintainer[n],
         OpenInv(n), RecoverInv(n), ResolveInv(n), FinishInv(n)
  PROVE  OpenInv(n)' /\ RecoverInv(n)' /\ ResolveInv(n)' /\ FinishInv(n)'
<1>1. Ask(n)' = Ask(n) /\ Local(n)' = Local(n)
  BY DEF Ask, Local
<1>2. maintainer[n].pc # "idle" =>
        \/ Ask(n).kind = "retry" /\ Ask(n).recs \subseteq Records
        \/ Ask(n).kind = "resolve" /\ Ask(n).rec \in Records
  BY AskTypes DEF KeysInv
<1>3. OpenInv(n)'
  BY <1>1, <1>2 DEF OpenInv, Steady, PendingStays, AuditStays
<1>4. RecoverInv(n)'
  BY <1>1 DEF RecoverInv, Steady, AuditStays
<1>5. ResolveInv(n)'
  BY <1>1, <1>2 DEF ResolveInv, Steady, PendingStays, RowsStay
<1>6. FinishInv(n)'
  BY <1>1, <1>2, RowsKept DEF FinishInv
<1> QED
  BY <1>3, <1>4, <1>5, <1>6

\* A thread that begins, answers, or stops relies on nothing.
LEMMA QuietThread ==
  ASSUME NEW m \in Maintainers, maintainer'[m].pc \in {"idle", "insert", "load", "refuse"}
  PROVE  OpenInv(m)' /\ RecoverInv(m)' /\ ResolveInv(m)' /\ FinishInv(m)'
  BY DEF OpenInv, RecoverInv, ResolveInv, FinishInv

\* The thread that moves.
LEMMA RequestThread ==
  ASSUME AttrTypes, KeysInv, ThreadsInv, Steady, NEW m \in Maintainers,
         Lookup(m) \/ InsertOperation(m) \/ LoadOperation(m) \/ RefuseTarget(m)
           \/ FinishOperation(m)
  PROVE  /\ OpenInv(m)' /\ RecoverInv(m)' /\ ResolveInv(m)' /\ FinishInv(m)'
         /\ \A n \in Maintainers : n # m => maintainer'[n] = maintainer[n]
<1> DEFINE Goal == /\ OpenInv(m)' /\ RecoverInv(m)' /\ ResolveInv(m)' /\ FinishInv(m)'
                   /\ \A n \in Maintainers : n # m => maintainer'[n] = maintainer[n]
<1>1. CASE Lookup(m)
  BY <1>1, QuietThread DEF Lookup, AttrTypes
<1>2. CASE Returns(m)
  BY <1>2, QuietThread, ThreadReturns
<1>3. CASE MStep(m, "load", {}) \/ MStep(m, "refuse", {})
  <2>1. {"load", "refuse"} \subseteq MaintainerPc /\ {} \in Locals
    BY DEF MaintainerPc, Locals
  <2> QED
    BY <1>3, <2>1, QuietThread, ThreadGoes
<1>4. CASE LoadOperation(m) /\ ~Returns(m) /\ ~MStep(m, "refuse", {})
  <2> DEFINE was  == IF Ask(m).kind = "resolve" THEN pending[Ask(m).rec] ELSE NoPending
             seen == [status |-> operation[Key(m)].status, was |-> was]
  <2>1. /\ maintainer[m].pc = "load" /\ Live(Key(m)) /\ NeedsWork(Ask(m)) /\ MStep(m, "open", seen)
        /\ UNCHANGED <<pending, audit>>
    BY <1>4 DEF LoadOperation, SameTables
  <2>2. \/ Ask(m).kind = "retry" /\ Ask(m).recs \subseteq Records
        \/ Ask(m).kind = "resolve" /\ Ask(m).rec \in Records
    BY <2>1, AskTypes DEF KeysInv
  <2>3. was \in PendingRecs
    BY <2>2 DEF NoPending, PendingRecs, AttrTypes, AttrTypeOK
  <2>4. "open" \in MaintainerPc /\ seen \in Locals
    BY <2>1, <2>3 DEF MaintainerPc, Locals, Live, Statuses
  <2>5. /\ maintainer'[m].pc = "open" /\ maintainer'[m].local = seen
        /\ maintainer'[m].ask = maintainer[m].ask
        /\ \A n \in Maintainers : n # m => maintainer'[n] = maintainer[n]
    BY <2>1, <2>4, ThreadGoes
  <2>6. OpenInv(m)'
    <3>1. Ask(m)' = Ask(m) /\ Local(m)' = seen
      BY <2>5 DEF Ask, Local
    <3>2. Ask(m).kind = "retry" => \A r \in Ask(m).recs : audit'[r].result \in Retried
      BY <2>1 DEF NeedsWork, Retried
    <3>3. Ask(m).kind = "resolve" =>
            /\ pending[Ask(m).rec].state # "none"
            /\ seen.was.type \in NetTypes => Typed(Ask(m).rec)
      BY <2>1 DEF Typed, NeedsWork, Unfinished
    <3> QED
      BY <2>1, <3>1, <3>2, <3>3 DEF OpenInv, Typed
  <2> QED
    BY <2>5, <2>6 DEF RecoverInv, ResolveInv, FinishInv
<1>5. CASE InsertOperation(m) \/ RefuseTarget(m) \/ FinishOperation(m)
  BY <1>2, <1>3, <1>5 DEF InsertOperation, RefuseTarget, FinishOperation
<1> QED
  BY <1>1, <1>2, <1>3, <1>4, <1>5

LEMMA WorkThread ==
  ASSUME AttrTypes, KeysInv, ThreadsInv, Steady, NEW m \in Maintainers,
         OpenOperation(m) \/ (\E r \in Records : RecoverOne(m, r)) \/ RecoveredAll(m)
  PROVE  /\ OpenInv(m)' /\ RecoverInv(m)' /\ ResolveInv(m)' /\ FinishInv(m)'
         /\ \A n \in Maintainers : n # m => maintainer'[n] = maintainer[n]
<1> DEFINE Others == \A n \in Maintainers : n # m => maintainer'[n] = maintainer[n]
<1>0. maintainer[m].pc # "idle" =>
        \/ Ask(m).kind = "retry" /\ Ask(m).recs \subseteq Records
        \/ Ask(m).kind = "resolve" /\ Ask(m).rec \in Records /\ Ask(m).type \in NetTypes
  BY AskTypes DEF KeysInv
<1>1. CASE OpenOperation(m)
  <2>1. maintainer[m].pc = "open" /\ OpenInv(m) /\ UNCHANGED audit
    BY <1>1 DEF OpenOperation, ThreadsInv
  <2>2. CASE Returns(m)
    BY <2>2, QuietThread, ThreadReturns
  <2>3. CASE Ask(m).kind = "retry" /\ MStep(m, "recover", [todo |-> Ask(m).recs, good |-> {}])
    <3> DEFINE all == [todo |-> Ask(m).recs, good |-> {}]
    <3>1. "recover" \in MaintainerPc /\ all \in Locals
      BY <1>0, <2>1, <2>3 DEF MaintainerPc, Locals
    <3>2. /\ maintainer'[m].pc = "recover" /\ maintainer'[m].local = all
          /\ maintainer'[m].ask = maintainer[m].ask /\ Others
      BY <2>3, <3>1, ThreadGoes
    <3>3. Ask(m)' = Ask(m) /\ Local(m)' = all
      BY <3>2 DEF Ask, Local
    <3>4. RecoverInv(m)'
      BY <1>0, <2>1, <2>3, <3>3 DEF OpenInv, RecoverInv
    <3> QED
      BY <3>2, <3>4 DEF OpenInv, ResolveInv, FinishInv
  <2>4. CASE /\ Ask(m).kind # "retry" /\ MStep(m, "check", {})
             /\ pending' = [pending EXCEPT ![Ask(m).rec] =
                  [state |-> IF Local(m).was.state = "assigned" THEN @.state ELSE "assigned",
                   type  |-> IF Local(m).was.type = Ask(m).type THEN @.type ELSE Ask(m).type]]
    <3>1. "check" \in MaintainerPc /\ {} \in Locals
      BY DEF MaintainerPc, Locals
    <3>2. /\ maintainer'[m].pc = "check" /\ maintainer'[m].ask = maintainer[m].ask /\ Others
      BY <2>4, <3>1, ThreadGoes
    <3>3. Ask(m)' = Ask(m)
      BY <3>2 DEF Ask
    <3>4. Typed(Ask(m).rec)'
      <4>1. Local(m).was.type = Ask(m).type => pending[Ask(m).rec].type \in NetTypes
        BY <1>0, <2>1, <2>4 DEF OpenInv, Typed
      <4>2. pending'[Ask(m).rec].type \in {pending[Ask(m).rec].type, Ask(m).type}
            /\ (Local(m).was.type # Ask(m).type => pending'[Ask(m).rec].type = Ask(m).type)
        BY <1>0, <2>1, <2>4 DEF AttrTypes, AttrTypeOK
      <4>3. pending'[Ask(m).rec].type \in NetTypes
        BY <1>0, <2>1, <2>4, <4>1, <4>2
      <4> QED
        BY <3>3, <4>3 DEF Typed
    <3>5. ResolveInv(m)'
      BY <1>0, <2>1, <2>4, <3>2, <3>3, <3>4 DEF ResolveInv
    <3> QED
      BY <3>2, <3>5 DEF OpenInv, RecoverInv, FinishInv
  <2> QED
    BY <1>1, <2>2, <2>3, <2>4 DEF OpenOperation
<1>2. ASSUME NEW r \in Records, RecoverOne(m, r)
      PROVE  /\ OpenInv(m)' /\ RecoverInv(m)' /\ ResolveInv(m)' /\ FinishInv(m)' /\ Others
  <2> DEFINE left == [todo |-> Local(m).todo \ {r},
                      good |-> Local(m).good \cup {x \in {r} : audit[r].type # NoType}]
  <2>1. maintainer[m].pc = "recover" /\ RecoverInv(m) /\ MStep(m, "recover", left)
    BY <1>2 DEF RecoverOne, ThreadsInv
  <2>2. "recover" \in MaintainerPc /\ left \in Locals
    BY <2>1 DEF RecoverInv, MaintainerPc, Locals
  <2>3. /\ maintainer'[m].pc = "recover" /\ maintainer'[m].local = left
        /\ maintainer'[m].ask = maintainer[m].ask /\ Others
    BY <2>1, <2>2, ThreadGoes
  <2>4. Ask(m)' = Ask(m) /\ Local(m)' = left
    BY <2>3 DEF Ask, Local
  <2>5. RecoverInv(m)'
    BY <2>1, <2>4 DEF RecoverInv, Steady, AuditStays
  <2> QED
    BY <2>3, <2>5 DEF OpenInv, ResolveInv, FinishInv
<1>3. CASE RecoveredAll(m)
  <2>1. maintainer[m].pc = "recover" /\ Ask(m).kind = "retry"
    BY <1>3 DEF RecoveredAll, ThreadsInv, RecoverInv
  <2>2. PICK end \in Statuses : MStep(m, "finish", end)
    BY <1>3 DEF RecoveredAll, Statuses
  <2>3. "finish" \in MaintainerPc /\ end \in Locals
    BY DEF MaintainerPc, Locals
  <2>4. /\ maintainer'[m].pc = "finish" /\ maintainer'[m].local = end
        /\ maintainer'[m].ask = maintainer[m].ask /\ Others
    BY <2>2, <2>3, ThreadGoes
  <2>5. FinishInv(m)'
    BY <2>1, <2>4 DEF FinishInv, Ask, Local
  <2> QED
    BY <2>4, <2>5 DEF OpenInv, RecoverInv, ResolveInv
<1> QED
  BY <1>1, <1>2, <1>3

LEMMA TargetThread ==
  ASSUME AttrTypes, KeysInv, ThreadsInv, Steady, NEW m \in Maintainers,
         CheckTarget(m) \/ MaterializeTarget(m) \/ FailTarget(m)
  PROVE  /\ OpenInv(m)' /\ RecoverInv(m)' /\ ResolveInv(m)' /\ FinishInv(m)'
         /\ \A n \in Maintainers : n # m => maintainer'[n] = maintainer[n]
<1> DEFINE r == Ask(m).rec
           Others == \A n \in Maintainers : n # m => maintainer'[n] = maintainer[n]
<1>1. ResolveInv(m) /\ Ask(m).kind = "resolve" /\ r \in Records
  <2>1. maintainer[m].pc \in {"check", "write", "fail"} /\ ResolveInv(m)
    BY DEF CheckTarget, MaterializeTarget, FailTarget, ThreadsInv
  <2>2. Ask(m) \in Asks /\ Ask(m).kind = "resolve"
    BY <2>1 DEF KeysInv, ResolveInv
  <2> QED
    BY <2>1, <2>2, AskTypes
<1>2. {} \in Locals /\ {"succeeded", "failed"} \subseteq Locals
      /\ {"write", "fail", "finish"} \subseteq MaintainerPc
  BY DEF Locals, Statuses, MaintainerPc
<1>3. CASE MStep(m, "fail", {})
  <2>1. maintainer'[m].pc = "fail" /\ maintainer'[m].ask = maintainer[m].ask /\ Others
    BY <1>2, <1>3, ThreadGoes
  <2>2. Ask(m)' = Ask(m)
    BY <2>1 DEF Ask
  <2> QED
    BY <1>1, <2>1, <2>2 DEF OpenInv, RecoverInv, ResolveInv, FinishInv
<1>4. CASE CheckTarget(m) /\ ~MStep(m, "fail", {})
  <2> DEFINE t == pending[r].type
             seen == [type |-> t, insert |-> ~HasRow(r, t), was |-> pending[r].state]
  <2>1. MStep(m, "write", seen) /\ maintainer[m].pc = "check" /\ UNCHANGED v6
    BY <1>4 DEF CheckTarget, SameTables
  <2>2. seen \in Locals
    BY <1>1 DEF Locals, AttrTypes, AttrTypeOK
  <2>3. /\ maintainer'[m].pc = "write" /\ maintainer'[m].local = seen
        /\ maintainer'[m].ask = maintainer[m].ask /\ Others
    BY <1>2, <2>1, <2>2, ThreadGoes
  <2>4. Ask(m)' = Ask(m) /\ Local(m)' = seen
    BY <2>3 DEF Ask, Local
  <2>5. PICK row \in Records, type \in NetTypes : row = r /\ type = t
    BY <1>1, <2>1 DEF ResolveInv, Typed
  <2>6. seen.insert \/ HasRow(row, type)'
    BY <2>1, <2>5 DEF HasRow
  <2>7. ResolveInv(m)'
    BY <1>1, <2>3, <2>4, <2>5, <2>6 DEF ResolveInv, HasRow
  <2> QED
    BY <2>3, <2>7 DEF OpenInv, RecoverInv, FinishInv
<1>5. CASE MaterializeTarget(m) /\ ~MStep(m, "fail", {})
  <2> DEFINE t == Local(m).type
  <2>1. /\ maintainer[m].pc = "write" /\ MStep(m, "finish", "succeeded")
        /\ v6' = IF Local(m).insert THEN [v6 EXCEPT ![r][t] = "migrated"] ELSE v6
    BY <1>5 DEF MaterializeTarget
  <2>2. PICK row \in Records, type \in NetTypes : row = r /\ type = t
    BY <1>1, <2>1 DEF ResolveInv
  <2>3. v6'[row][type] # "absent"
    <3>1. v6'[row][type] = IF Local(m).insert THEN "migrated" ELSE v6[row][type]
      BY <2>1, <2>2 DEF AttrTypes, AttrTypeOK
    <3>2. Local(m).insert \/ v6[row][type] # "absent"
      BY <1>1, <2>1, <2>2 DEF ResolveInv, HasRow
    <3> QED
      BY <3>1, <3>2
  <2>4. HasSomeRow(row)'
    BY <2>3 DEF HasSomeRow, HasRow
  <2>5. /\ maintainer'[m].pc = "finish" /\ maintainer'[m].local = "succeeded"
        /\ maintainer'[m].ask = maintainer[m].ask /\ Others
    BY <1>2, <2>1, ThreadGoes
  <2>6. Ask(m)' = Ask(m) /\ Local(m)' = "succeeded"
    BY <2>5 DEF Ask, Local
  <2>7. FinishInv(m)'
    BY <2>2, <2>4, <2>6 DEF FinishInv, HasSomeRow, HasRow, Statuses
  <2> QED
    BY <2>5, <2>7 DEF OpenInv, RecoverInv, ResolveInv
<1>6. CASE FailTarget(m)
  <2>1. MStep(m, "finish", "failed")
    BY <1>6 DEF FailTarget
  <2>2. /\ maintainer'[m].pc = "finish" /\ maintainer'[m].local = "failed" /\ Others
    BY <1>2, <2>1, ThreadGoes
  <2> QED
    BY <2>2 DEF OpenInv, RecoverInv, ResolveInv, FinishInv, Local, Statuses
<1> QED
  BY <1>3, <1>4, <1>5, <1>6

LEMMA ThreadsStep ==
  ASSUME AttrTypes, KeysInv, ThreadsInv, Steady, AttrNext
  PROVE  ThreadsInv'
<1>1. ASSUME NEW m \in Maintainers, Lookup(m) \/ Continue(m)
      PROVE  ThreadsInv'
  <2>1. /\ OpenInv(m)' /\ RecoverInv(m)' /\ ResolveInv(m)' /\ FinishInv(m)'
        /\ \A n \in Maintainers : n # m => maintainer'[n] = maintainer[n]
    BY <1>1, RequestThread, WorkThread, TargetThread DEF Continue
  <2> QED
    BY <2>1, OtherThread DEF ThreadsInv
<1>2. CASE LegacyChanges \/ Migrate \/ EditRow
  <2>1. UNCHANGED maintainer
    BY <1>2 DEF LegacyChanges, Migrate, EditRow
  <2> QED
    BY <2>1, OtherThread DEF ThreadsInv
<1>3. CASE ServiceCrash
  <2>1. \A m \in Maintainers : maintainer'[m].pc = "idle"
    BY <1>3 DEF ServiceCrash, Unoccupied
  <2> QED
    BY <2>1, QuietThread DEF ThreadsInv
<1> QED
  BY <1>1, <1>2, <1>3 DEF AttrNext
-----------------------------------------------------------------------------
(* Operations and their numbers.                                           *)

\* Threads that stay, stop or keep number and key, and operations that keep
\* number and request or go: KeysInv is kept.
LEMMA KeysKept ==
  ASSUME AttrTypes, AttrTypes', KeysInv, calls' = calls,
         \A k \in Keys :
           \/ /\ operation'[k].id = operation[k].id /\ operation'[k].ask = operation[k].ask
              /\ operation'[k].status # "none" => operation[k].id # 0
           \/ operation'[k].id = 0 /\ operation'[k].status = "none",
         \A m \in Maintainers :
           \/ maintainer'[m].pc = "idle" /\ maintainer'[m].id = 0
           \/ maintainer'[m] = maintainer[m]
           \/ /\ maintainer[m].pc \notin {"idle", "insert"} /\ maintainer'[m].pc \notin {"idle", "insert"}
              /\ maintainer'[m].key = maintainer[m].key /\ maintainer'[m].id = maintainer[m].id
              /\ maintainer'[m].ask = maintainer[m].ask
  PROVE  KeysInv'
<1>1. \A k \in Keys : operation'[k].id <= calls' /\ (operation'[k].status # "none" => operation'[k].id # 0)
  BY DEF KeysInv, AttrTypes, AttrTypeOK
<1>2. ASSUME NEW m \in Maintainers
      PROVE  /\ maintainer'[m].id <= calls'
             /\ maintainer'[m].pc # "idle" =>
                  maintainer'[m].key \in Keys /\ maintainer'[m].ask \in Asks /\ maintainer'[m].id # 0
  BY <1>2 DEF KeysInv, Key, Ask, AttrTypes, AttrTypeOK
<1>3. ASSUME NEW m \in Maintainers, maintainer'[m].pc = "insert"
      PROVE  /\ \A k \in Keys : operation'[k].id # maintainer'[m].id
             /\ \A n \in Maintainers \ {m} : maintainer'[n].id # maintainer'[m].id
  <2>1. maintainer'[m] = maintainer[m] /\ maintainer[m].pc = "insert"
    BY <1>3
  <2>2. maintainer[m].id # 0
    BY <2>1 DEF KeysInv
  <2> QED
    BY <2>1, <2>2 DEF KeysInv
<1>4. ASSUME NEW m \in Maintainers, maintainer'[m].pc \notin {"idle", "insert"},
             operation'[maintainer'[m].key].id = maintainer'[m].id
      PROVE  operation'[maintainer'[m].key].ask = maintainer'[m].ask
  <2>1. /\ maintainer[m].pc \notin {"idle", "insert"}
        /\ maintainer'[m].key = maintainer[m].key /\ maintainer'[m].id = maintainer[m].id
        /\ maintainer'[m].ask = maintainer[m].ask
    BY <1>4
  <2>2. maintainer[m].key \in Keys /\ maintainer[m].id # 0
    BY <2>1 DEF KeysInv, Key
  <2>3. /\ operation'[maintainer[m].key].id = operation[maintainer[m].key].id
        /\ operation'[maintainer[m].key].ask = operation[maintainer[m].key].ask
    BY <1>4, <2>1, <2>2
  <2> QED
    BY <1>4, <2>1, <2>3 DEF KeysInv, Exists, Key, Ask
<1> QED
  BY <1>1, <1>2, <1>3, <1>4 DEF KeysInv, Exists, Key, Ask

\* A request gets a number of its own, or that of the operation it joins.
LEMMA KeysLookup ==
  ASSUME AttrTypes, AttrTypes', KeysInv, NEW m \in Maintainers, Lookup(m)
  PROVE  KeysInv'
<1>1. calls \in Nat /\ calls' = calls + 1 /\ UNCHANGED operation
  BY DEF Lookup, AttrTypes, AttrTypeOK
<1>2. PICK k \in Keys, a \in Asks :
        \/ maintainer' = [maintainer EXCEPT ![m] =
                            [pc |-> "insert", key |-> k, id |-> calls + 1, ask |-> a, local |-> {}]]
        \/ /\ operation[k].ask = a /\ operation[k].status # "none"
           /\ maintainer' = [maintainer EXCEPT ![m] =
                               [pc |-> "load", key |-> k, id |-> operation[k].id, ask |-> a, local |-> {}]]
  BY DEF Lookup
<1>3. \A n \in Maintainers : n # m => maintainer'[n] = maintainer[n]
  BY <1>2 DEF AttrTypes
<1>4. /\ maintainer'[m].key = k /\ maintainer'[m].ask = a
      /\ \/ maintainer'[m].pc = "insert" /\ maintainer'[m].id = calls + 1
         \/ /\ maintainer'[m].pc = "load" /\ maintainer'[m].id = operation[k].id
            /\ operation[k].ask = a /\ operation[k].id # 0
  BY <1>2 DEF AttrTypes, KeysInv
<1>5. /\ \A n \in Maintainers : maintainer[n].id \in Nat /\ maintainer[n].id <= calls
      /\ \A j \in Keys : operation[j].id \in Nat /\ operation[j].id <= calls
  BY DEF AttrTypes, Threads, OperationRows, KeysInv
<1>6. \A n \in Maintainers : maintainer'[n].id <= calls'
  BY <1>1, <1>3, <1>4, <1>5
<1>7. \A j \in Keys : operation'[j].id <= calls' /\ (operation'[j].status # "none" => operation'[j].id # 0)
  BY <1>1, <1>5 DEF KeysInv
<1>8. ASSUME NEW n \in Maintainers, maintainer'[n].pc = "insert"
      PROVE  /\ \A j \in Keys : operation'[j].id # maintainer'[n].id
             /\ \A i \in Maintainers \ {n} : maintainer'[i].id # maintainer'[n].id
  <2>1. CASE n = m
    BY <1>1, <1>3, <1>4, <1>5, <1>8, <2>1
  <2>2. CASE n # m
    <3>1. maintainer'[n] = maintainer[n] /\ maintainer[n].pc = "insert"
      BY <1>3, <1>8, <2>2
    <3>2. \A j \in Keys : operation[j].id # maintainer[n].id
      BY <3>1 DEF KeysInv
    <3>3. maintainer'[m].id # maintainer[n].id
      BY <1>1, <1>4, <1>5, <3>2
    <3> QED
      BY <1>1, <1>3, <3>1, <3>2, <3>3 DEF KeysInv
  <2> QED
    BY <2>1, <2>2
<1>9. ASSUME NEW n \in Maintainers
      PROVE  /\ maintainer'[n].pc # "idle" =>
                  maintainer'[n].key \in Keys /\ maintainer'[n].ask \in Asks /\ maintainer'[n].id # 0
             /\ maintainer'[n].pc \notin {"idle", "insert"}
                  /\ operation'[maintainer'[n].key].id = maintainer'[n].id
                => operation'[maintainer'[n].key].ask = maintainer'[n].ask
  BY <1>1, <1>3, <1>4, <1>5 DEF KeysInv, Exists, Key, Ask
<1> QED
  BY <1>6, <1>7, <1>8, <1>9 DEF KeysInv, Exists, Key, Ask

\* The number of a new operation is nobody else's.
LEMMA KeysInsert ==
  ASSUME AttrTypes, AttrTypes', KeysInv, NEW m \in Maintainers, InsertOperation(m),
         operation[Key(m)].status = "none"
  PROVE  KeysInv'
<1>1. PICK k \in Keys : k = Key(m)
  BY DEF InsertOperation, KeysInv
<1>2. /\ maintainer[m].pc = "insert" /\ Ask(m) \in Asks /\ calls' = calls /\ MStep(m, "load", {})
      /\ operation' = [operation EXCEPT ![k] =
                         [status |-> "queued", id |-> maintainer[m].id, ask |-> Ask(m)]]
  BY <1>1 DEF InsertOperation, KeysInv
<1>3. /\ operation'[k].id = maintainer[m].id /\ operation'[k].ask = maintainer[m].ask
      /\ \A j \in Keys : j # k => operation'[j] = operation[j]
  BY <1>2 DEF AttrTypes, Ask
<1>4. "load" \in MaintainerPc /\ {} \in Locals
  BY DEF MaintainerPc, Locals
<1>5. /\ maintainer'[m].pc = "load" /\ maintainer'[m].key = k
      /\ maintainer'[m].id = maintainer[m].id /\ maintainer'[m].ask = maintainer[m].ask
      /\ \A n \in Maintainers : n # m => maintainer'[n] = maintainer[n]
  BY <1>1, <1>2, <1>4, ThreadGoes DEF Key
<1>6. \A n \in Maintainers \ {m} : maintainer[n].id # maintainer[m].id
  BY <1>2 DEF KeysInv
<1>7. /\ \A j \in Keys : operation'[j].id <= calls' /\ (operation'[j].status # "none" => operation'[j].id # 0)
      /\ \A n \in Maintainers : maintainer'[n].id <= calls'
  BY <1>2, <1>3, <1>5 DEF KeysInv
<1>8. ASSUME NEW n \in Maintainers, maintainer'[n].pc = "insert"
      PROVE  /\ \A j \in Keys : operation'[j].id # maintainer'[n].id
             /\ \A i \in Maintainers \ {n} : maintainer'[i].id # maintainer'[n].id
  <2>1. n # m /\ maintainer'[n] = maintainer[n]
    BY <1>5, <1>8
  <2> QED
    BY <1>3, <1>5, <1>6, <1>8, <2>1 DEF KeysInv
<1>9. ASSUME NEW n \in Maintainers
      PROVE  /\ maintainer'[n].pc # "idle" =>
                  maintainer'[n].key \in Keys /\ maintainer'[n].ask \in Asks /\ maintainer'[n].id # 0
             /\ maintainer'[n].pc \notin {"idle", "insert"}
                  /\ operation'[maintainer'[n].key].id = maintainer'[n].id
                => operation'[maintainer'[n].key].ask = maintainer'[n].ask
  <2>1. CASE n = m
    <3>1. maintainer[m].ask \in Asks /\ maintainer[m].id # 0
      BY <1>2 DEF KeysInv, Ask
    <3> QED
      BY <1>3, <1>5, <2>1, <3>1
  <2>2. CASE n # m
    <3>1. maintainer'[n] = maintainer[n] /\ maintainer[n].id # maintainer[m].id
      BY <1>5, <1>6, <2>2
    <3> QED
      BY <1>3, <3>1 DEF KeysInv, Exists, Key, Ask
  <2> QED
    BY <2>1, <2>2
<1> QED
  BY <1>7, <1>8, <1>9 DEF KeysInv, Exists, Key, Ask
\* What KeysKept asks of the operations and of the threads.
OperationsKept ==
  \A k \in Keys :
    \/ /\ operation'[k].id = operation[k].id /\ operation'[k].ask = operation[k].ask
       /\ operation'[k].status # "none" => operation[k].id # 0
    \/ operation'[k].id = 0 /\ operation'[k].status = "none"
ThreadKept(m) ==
  \/ maintainer'[m].pc = "idle" /\ maintainer'[m].id = 0
  \/ maintainer'[m] = maintainer[m]
  \/ /\ maintainer[m].pc \notin {"idle", "insert"} /\ maintainer'[m].pc \notin {"idle", "insert"}
     /\ maintainer'[m].key = maintainer[m].key /\ maintainer'[m].id = maintainer[m].id
     /\ maintainer'[m].ask = maintainer[m].ask

LEMMA OperationsSame ==
  ASSUME KeysInv, UNCHANGED operation PROVE OperationsKept
  BY DEF KeysInv, OperationsKept

LEMMA OperationsSet ==
  ASSUME AttrTypes, KeysInv, NEW m \in Maintainers, maintainer[m].pc # "idle", Exists(m),
         NEW status \in Statuses, SetStatus(m, status)
  PROVE  OperationsKept
<1>1. Key(m) \in Keys /\ operation[Key(m)].id # 0
  BY DEF KeysInv, Exists
<1>2. PICK key \in Keys : key = Key(m)
  BY <1>1
<1>3. /\ operation'[key].id = operation[key].id /\ operation'[key].ask = operation[key].ask
      /\ \A k \in Keys : k # key => operation'[k] = operation[k]
  BY <1>2 DEF SetStatus, AttrTypes, OperationRows
<1> QED
  BY <1>1, <1>2, <1>3 DEF OperationsKept, KeysInv

LEMMA ThreadsReturn ==
  ASSUME AttrTypes, NEW m \in Maintainers, Returns(m)
  PROVE  \A n \in Maintainers : ThreadKept(n)
  BY ThreadReturns DEF ThreadKept

LEMMA KeysStep ==
  ASSUME AttrTypes, AttrTypes', KeysInv, ThreadsInv, AttrNext
  PROVE  KeysInv'
<1> SUFFICES ASSUME ~\E m \in Maintainers : \/ Lookup(m)
                                            \/ InsertOperation(m) /\ operation[Key(m)].status = "none"
             PROVE  calls' = calls /\ OperationsKept /\ \A m \in Maintainers : ThreadKept(m)
  BY KeysLookup, KeysInsert, KeysKept DEF OperationsKept, ThreadKept
<1> USE DEF SameTables
<1>1. CASE LegacyChanges \/ Migrate \/ EditRow
  BY <1>1, OperationsSame DEF LegacyChanges, Migrate, EditRow, ThreadKept
<1>2. CASE ServiceCrash
  BY <1>2, OperationsSame DEF ServiceCrash, Unoccupied, ThreadKept
<1>3. ASSUME NEW m \in Maintainers, InsertOperation(m) \/ LoadOperation(m) \/ RefuseTarget(m)
      PROVE  calls' = calls /\ OperationsKept /\ \A n \in Maintainers : ThreadKept(n)
  <2>1. CASE InsertOperation(m)
    BY <2>1, OperationsSame, ThreadsReturn DEF InsertOperation
  <2>2. CASE LoadOperation(m)
    <3>1. maintainer[m].pc = "load" /\ UNCHANGED <<operation, calls>>
      BY <2>2 DEF LoadOperation
    <3>2. CASE Returns(m)
      BY <3>1, <3>2, OperationsSame, ThreadsReturn
    <3>3. CASE ~Returns(m)
      <4>1. PICK pc \in {"open", "refuse"} : \E local : MStep(m, pc, local)
        BY <2>2, <3>3 DEF LoadOperation
      <4>2. maintainer[m] \in Threads /\ maintainer \in [Maintainers -> Threads]
        BY DEF AttrTypes
      <4>3. \A n \in Maintainers : ThreadKept(n)
        BY <3>1, <4>1, <4>2 DEF MStep, ThreadKept, Threads
      <4> QED
        BY <3>1, <4>3, OperationsSame
    <3> QED
      BY <3>2, <3>3
  <2>3. CASE RefuseTarget(m)
    <3>1. OperationsKept
      BY <2>3 DEF RefuseTarget, OperationsKept, NoOperation, KeysInv, AttrTypes
    <3> QED
      BY <2>3, <3>1, ThreadsReturn DEF RefuseTarget
  <2> QED
    BY <1>3, <2>1, <2>2, <2>3
<1>4. ASSUME NEW m \in Maintainers, OpenOperation(m)
      PROVE  calls' = calls /\ OperationsKept /\ \A n \in Maintainers : ThreadKept(n)
  <2>1. maintainer[m].pc = "open" /\ calls' = calls
    BY <1>4 DEF OpenOperation
  <2>2. UNCHANGED operation \/ (Exists(m) /\ SetStatus(m, "running"))
    BY <1>4 DEF OpenOperation
  <2>3. OperationsKept
    BY <2>1, <2>2, OperationsSame, OperationsSet DEF Statuses
  <2>4. \/ Returns(m) \/ MStep(m, "check", {})
        \/ MStep(m, "recover", [todo |-> Ask(m).recs, good |-> {}])
    BY <1>4 DEF OpenOperation
  <2>5. maintainer[m] \in Threads /\ maintainer \in [Maintainers -> Threads]
    BY DEF AttrTypes
  <2>6. \A n \in Maintainers : ThreadKept(n)
    BY <2>1, <2>4, <2>5, ThreadsReturn DEF MStep, ThreadKept, Threads
  <2> QED
    BY <2>1, <2>3, <2>6
<1>5. ASSUME NEW m \in Maintainers,
             (\E r \in Records : RecoverOne(m, r)) \/ RecoveredAll(m)
               \/ CheckTarget(m) \/ MaterializeTarget(m) \/ FailTarget(m)
      PROVE  calls' = calls /\ OperationsKept /\ \A n \in Maintainers : ThreadKept(n)
  <2>1. /\ maintainer[m].pc \notin {"idle", "insert"} /\ UNCHANGED <<operation, calls>>
        /\ \E pc \in {"recover", "finish", "write", "fail"} : \E local : MStep(m, pc, local)
    BY <1>5 DEF RecoverOne, RecoveredAll, CheckTarget, MaterializeTarget, FailTarget
  <2>2. maintainer[m] \in Threads /\ maintainer \in [Maintainers -> Threads]
    BY DEF AttrTypes
  <2>3. \A n \in Maintainers : ThreadKept(n)
    BY <2>1, <2>2 DEF MStep, ThreadKept, Threads
  <2> QED
    BY <2>1, <2>3, OperationsSame
<1>6. ASSUME NEW m \in Maintainers, FinishOperation(m)
      PROVE  calls' = calls /\ OperationsKept /\ \A n \in Maintainers : ThreadKept(n)
  <2>1. maintainer[m].pc = "finish" /\ Local(m) \in Statuses /\ calls' = calls /\ Returns(m)
    BY <1>6 DEF FinishOperation, ThreadsInv, FinishInv
  <2>2. UNCHANGED operation \/ (Exists(m) /\ SetStatus(m, Local(m)))
    BY <1>6 DEF FinishOperation
  <2>3. OperationsKept
    BY <2>1, <2>2, OperationsSame, OperationsSet
  <2> QED
    BY <2>1, <2>3, ThreadsReturn
<1> QED
  BY <1>1, <1>2, <1>3, <1>4, <1>5, <1>6 DEF AttrNext, Continue
-----------------------------------------------------------------------------
(* Rows.                                                                   *)

\* Once the migration has run, every row is accounted for: a row it skipped
\* has an audit that says so, or one written when it was accounted for.
LEMMA AuditWritten ==
  ASSUME RowsInv, Migrate, NEW r \in Records, audit'[r] # NoAudit
  PROVE  audit'[r].result # "none"
<1>1. audit'[r] = audit[r] \/ audit'[r] = AuditFor(r)
  BY DEF Migrate
<1> QED
  BY <1>1 DEF RowsInv, AuditFor

LEMMA MigrateAccounts ==
  ASSUME AttrTypes, AttrTypes', Steady, RowsInv, Migrate, NEW r \in Records
  PROVE  Accounted(r)' /\ (audit'[r] # NoAudit => audit'[r].result # "none")
<1>1. CASE Maps(r) /\ ~Skipped(r)
  <2>1. TypeFor(r) \in NetTypes
    BY <1>1, TypeForType DEF Maps, Attributable
  <2>2. PICK t \in NetTypes : t = TypeFor(r)
    BY <2>1
  <2>3. v6'[r][t] # "absent"
    BY <1>1, <2>1, <2>2, InsertedRow DEF Migrate
  <2> QED
    BY <2>3, AuditWritten DEF Accounted, HasSomeRow, HasRow
<1>2. CASE ~Maps(r) /\ ~Skipped(r)
  <2>1. pending'[r].state # "none"
    BY <1>2 DEF Migrate, NoPending, RowsInv, Steady, PendingStays
  <2> QED
    BY <2>1, AuditWritten DEF Accounted
<1>3. CASE Skipped(r)
  <2>1. CASE audit[r] = NoAudit
    BY <1>3, <2>1, AuditWritten DEF Migrate, Audited, AuditFor, Accounted
  <2>2. CASE audit[r] # NoAudit
    BY <2>2, RowsKept, AuditWritten DEF RowsInv
  <2> QED
    BY <2>1, <2>2
<1> QED
  BY <1>1, <1>2, <1>3

\* The migration keeps RowsInv.
LEMMA RowsMigrate ==
  ASSUME AttrTypes, AttrTypes', Steady, RowsInv, Migrate
  PROVE  RowsInv'
<1>1. \A r \in Records : Accounted(r)' /\ (audit'[r] # NoAudit => audit'[r].result # "none")
  BY MigrateAccounts
<1>2. \A r \in Records :
        \/ pending'[r] = pending[r]
        \/ pending'[r] = [state |-> "pending", type |-> NoType]
  BY DEF Migrate
<1>3. \A r \in Records : pending'[r].state = "none" => pending'[r] = NoPending
  BY <1>2 DEF RowsInv
<1>4. \A r \in Records : pending'[r].state = "materialized" => HasSomeRow(r)'
  BY <1>2, RowsKept DEF RowsInv
<1>5. UNCHANGED operation
  BY DEF Migrate
<1>6. \A k \in Keys : operation'[k].status = "succeeded" /\ operation'[k].ask.kind = "resolve" =>
        \E r \in Records : r = operation'[k].ask.rec /\ HasSomeRow(r)'
  BY <1>5, RowsKept DEF RowsInv
<1> QED
  BY <1>1, <1>3, <1>4, <1>6 DEF RowsInv

\* No other step takes away what a row is accounted by, and a thread that
\* shows success has seen the row.
LEMMA RowsStep ==
  ASSUME AttrTypes, AttrTypes', KeysInv, ThreadsInv, Steady, RowsInv, AttrNext
  PROVE  RowsInv'
<1> SUFFICES ASSUME ~Migrate PROVE RowsInv'
  BY RowsMigrate
<1>1. legacy'.migrated => legacy.migrated
  <2>1. CASE UNCHANGED legacy
    BY <2>1
  <2>2. CASE legacy' = [changes |-> legacy.changes + 1, migrated |-> FALSE]
    BY <2>2
  <2> QED
    BY <2>1, <2>2 DEF AttrNext, Continue, LegacyChanges, EditRow, ServiceCrash, Lookup,
       InsertOperation, LoadOperation, RefuseTarget, OpenOperation, RecoverOne, RecoveredAll,
       CheckTarget, MaterializeTarget, FailTarget, FinishOperation, SameTables
<1>2. \A r \in Records : audit'[r] # NoAudit =>
        audit[r] # NoAudit /\ (audit[r].result # "none" => audit'[r].result # "none")
  <2>1. CASE UNCHANGED audit
    BY <2>1
  <2>2. ASSUME NEW m \in Maintainers, NEW r \in Records, RecoverOne(m, r)
        PROVE  \A i \in Records : audit'[i] # NoAudit =>
                 audit[i] # NoAudit /\ (audit[i].result # "none" => audit'[i].result # "none")
    <3>1. audit[r].result \in Retried
      BY <2>2 DEF RecoverOne, ThreadsInv, RecoverInv
    <3>2. \A i \in Records : i # r => audit'[i] = audit[i]
      BY <2>2 DEF RecoverOne, AttrTypes, AttrTypeOK
    <3>3. audit'[r].result # "none"
      BY <2>2 DEF RecoverOne, AttrTypes, AttrTypeOK
    <3> QED
      BY <3>1, <3>2, <3>3 DEF NoAudit, Retried
  <2> QED
    BY <2>1, <2>2 DEF AttrNext, Continue, LegacyChanges, EditRow, ServiceCrash, Lookup,
       InsertOperation, LoadOperation, RefuseTarget, OpenOperation, RecoveredAll, CheckTarget,
       MaterializeTarget, FailTarget, FinishOperation, SameTables
<1>3. /\ legacy'.migrated => \A r \in Records : Accounted(r)'
      /\ \A r \in Records : audit'[r] # NoAudit => audit'[r].result # "none" /\ Accounted(r)'
  BY <1>1, <1>2, RowsKept DEF RowsInv
<1>4. \A r \in Records : \/ pending'[r] = pending[r]
                         \/ /\ pending'[r].state # "none"
                            /\ pending'[r].state = "materialized" =>
                                 pending[r].state = "materialized" \/ HasSomeRow(r)'
  <2>1. CASE UNCHANGED pending
    BY <2>1
  <2>2. ASSUME NEW m \in Maintainers, OpenOperation(m), pending' # pending
        PROVE  \A r \in Records : \/ pending'[r] = pending[r]
                                  \/ /\ pending'[r].state # "none"
                                     /\ pending'[r].state = "materialized" =>
                                          pending[r].state = "materialized"
    <3>1. /\ maintainer[m].pc = "open" /\ Ask(m) \in Asks /\ Ask(m).kind # "retry"
          /\ pending' = [pending EXCEPT ![Ask(m).rec] =
               [state |-> IF Local(m).was.state = "assigned" THEN @.state ELSE "assigned",
                type  |-> IF Local(m).was.type = Ask(m).type THEN @.type ELSE Ask(m).type]]
      BY <2>2 DEF OpenOperation, KeysInv
    <3>2. Ask(m).rec \in Records /\ pending[Ask(m).rec].state # "none"
      BY <3>1, AskTypes DEF ThreadsInv, OpenInv
    <3>3. \A r \in Records : r # Ask(m).rec => pending'[r] = pending[r]
      BY <3>1 DEF AttrTypes, AttrTypeOK
    <3>4. pending'[Ask(m).rec].state \in {pending[Ask(m).rec].state, "assigned"}
      BY <3>1, <3>2 DEF AttrTypes, AttrTypeOK
    <3> QED
      BY <3>2, <3>3, <3>4
  <2>3. ASSUME NEW m \in Maintainers, MaterializeTarget(m), pending' # pending
        PROVE  \A r \in Records : \/ pending'[r] = pending[r]
                                  \/ pending'[r].state = "materialized" /\ HasSomeRow(r)'
    <3>1. maintainer[m].pc = "write" /\ ResolveInv(m) /\ Ask(m) \in Asks
          /\ pending' = [pending EXCEPT ![Ask(m).rec].state = "materialized"]
          /\ v6' = IF Local(m).insert THEN [v6 EXCEPT ![Ask(m).rec][Local(m).type] = "migrated"] ELSE v6
      BY <2>3 DEF MaterializeTarget, ThreadsInv, KeysInv
    <3>2. PICK row \in Records, type \in NetTypes : row = Ask(m).rec /\ type = Local(m).type
      BY <3>1, AskTypes DEF ResolveInv
    <3>3. \A r \in Records : r # row => pending'[r] = pending[r]
      BY <3>1, <3>2 DEF AttrTypes, AttrTypeOK
    <3>4. pending'[row].state = "materialized"
      BY <3>1, <3>2 DEF AttrTypes, AttrTypeOK
    <3>5. v6'[row][type] # "absent"
      <4>1. v6'[row][type] = IF Local(m).insert THEN "migrated" ELSE v6[row][type]
        BY <3>1, <3>2 DEF AttrTypes, AttrTypeOK
      <4>2. Local(m).insert \/ v6[row][type] # "absent"
        BY <3>1, <3>2 DEF ResolveInv, HasRow
      <4> QED
        BY <4>1, <4>2
    <3> QED
      BY <3>3, <3>4, <3>5 DEF HasSomeRow, HasRow
  <2>4. ASSUME NEW m \in Maintainers, FailTarget(m)
        PROVE  \A r \in Records : pending'[r] = pending[r] \/ pending'[r].state = "failed"
    BY <2>4 DEF FailTarget, AttrTypes, AttrTypeOK
  <2> QED
    BY <2>1, <2>2, <2>3, <2>4 DEF AttrNext, Continue, LegacyChanges, EditRow, ServiceCrash, Lookup,
       InsertOperation, LoadOperation, RefuseTarget, RecoverOne, RecoveredAll, CheckTarget,
       FinishOperation, SameTables
<1>5. /\ \A r \in Records : pending'[r].state = "none" => pending'[r] = NoPending
      /\ \A r \in Records : pending'[r].state = "materialized" => HasSomeRow(r)'
  BY <1>4, RowsKept DEF RowsInv
<1>6. ASSUME NEW k \in Keys, operation'[k].status = "succeeded", operation'[k].ask.kind = "resolve"
      PROVE  \E r \in Records : r = operation'[k].ask.rec /\ HasSomeRow(r)'
  <2>1. CASE operation'[k] = operation[k]
    BY <1>6, <2>1, RowsKept DEF RowsInv
  <2>2. ASSUME NEW m \in Maintainers, FinishOperation(m), operation'[k] # operation[k]
        PROVE  \E r \in Records : r = operation'[k].ask.rec /\ HasSomeRow(r)'
    <3>1. /\ maintainer[m].pc = "finish" /\ Exists(m) /\ k = Key(m)
          /\ operation'[k].status = Local(m) /\ operation'[k].ask = operation[k].ask
      BY <2>2 DEF FinishOperation, SetStatus, AttrTypes, OperationRows
    <3>2. operation[k].ask = Ask(m) /\ Ask(m) \in Asks
      BY <3>1 DEF KeysInv
    <3>3. Ask(m).rec \in Records /\ HasSomeRow(Ask(m).rec)
      BY <1>6, <3>1, <3>2, AskTypes DEF ThreadsInv, FinishInv
    <3>4. PICK row \in Records : row = Ask(m).rec
      BY <3>3
    <3> QED
      BY <3>1, <3>2, <3>3, <3>4, RowsKept
  <2>3. ASSUME NEW m \in Maintainers, InsertOperation(m) \/ RefuseTarget(m) \/ OpenOperation(m)
        PROVE  operation'[k] = operation[k]
    BY <1>6, <2>3 DEF InsertOperation, RefuseTarget, OpenOperation, SetStatus, NoOperation,
       AttrTypes, OperationRows
  <2> QED
    BY <2>1, <2>2, <2>3 DEF AttrNext, Continue, LegacyChanges, EditRow, ServiceCrash, Lookup,
       LoadOperation, RecoverOne, RecoveredAll, CheckTarget, MaterializeTarget, FailTarget, SameTables
<1> QED
  BY <1>3, <1>5, <1>6 DEF RowsInv

-----------------------------------------------------------------------------
(* The theorems.                                                           *)

LEMMA AttrInvInit == AttrInit => AttrTypes /\ AttrInv
<1> SUFFICES ASSUME AttrInit PROVE AttrTypes /\ AttrInv
  OBVIOUS
<1>1. AttrTypeOK
  BY DEF AttrInit, AttrTypeOK, Presence, NoPending, NoAudit, NoOperation
<1>2. Unoccupied \in Threads /\ NoOperation \in OperationRows
  BY DEF Unoccupied, Threads, MaintainerPc, Locals, NoOperation, OperationRows, Statuses
<1>3. RowsInv
  BY DEF AttrInit, RowsInv, NoPending, NoAudit, NoOperation
<1>4. ThreadsInv
  BY DEF AttrInit, ThreadsInv, OpenInv, RecoverInv, ResolveInv, FinishInv, Unoccupied
<1>5. KeysInv
  BY DEF AttrInit, KeysInv, Unoccupied, NoOperation
<1> QED
  BY <1>1, <1>2, <1>3, <1>4, <1>5 DEF AttrInit, AttrTypes, AttrInv

LEMMA AttrInvStep == AttrTypes /\ AttrInv /\ [AttrNext]_attrVars => AttrTypes' /\ AttrInv'
<1> SUFFICES ASSUME AttrTypes, AttrInv, [AttrNext]_attrVars PROVE AttrTypes' /\ AttrInv'
  OBVIOUS
<1>1. CASE AttrNext
  BY <1>1, TypesStep, ThreadsStep, KeysStep, RowsStep DEF AttrInv
<1>2. CASE UNCHANGED attrVars
  <2>1. AttrTypes'
    BY <1>2 DEF attrVars, AttrTypes, AttrTypeOK
  <2>2. KeysInv'
    BY <1>2 DEF attrVars, AttrInv, KeysInv, Exists, Key, Ask
  <2>3. ThreadsInv' /\ RowsInv'
    BY <1>2 DEF attrVars, AttrInv, ThreadsInv, OpenInv, RecoverInv, ResolveInv, FinishInv, Ask,
       Local, Typed, HasSomeRow, HasRow, RowsInv, Accounted
  <2> QED
    BY <2>1, <2>2, <2>3 DEF AttrInv
<1> QED
  BY <1>1, <1>2

\* The migration loses no row of v5, and neither a pending record nor an
\* operation claims a row that is not there, however migrations, maintainers
\* and crashes interleave.
THEOREM AttrIsSafe == AttrSpec => []AttrSafe
<1>1. AttrTypes /\ AttrInv => AttrSafe
  BY DEF AttrInv, RowsInv, Accounted, HasSomeRow, HasRow, AttrSafe, EveryRowAccounted, MaterializedHasRow
<1> QED
  BY <1>1, AttrInvInit, AttrInvStep, PTL DEF AttrSpec

\* What a maintainer edited is not overwritten.
LEMMA EditedStays ==
  ASSUME AttrTypes, AttrInv, AttrNext, NEW r \in Records, NEW t \in NetTypes, v6[r][t] = "edited"
  PROVE  v6'[r][t] = "edited"
<1>1. CASE UNCHANGED v6
  BY <1>1
<1>2. CASE EditRow
  BY <1>2 DEF EditRow
<1>3. CASE Migrate
  <2>1. v6'[r] = v6[r] \/ v6'[r] = InsertRow(v6, r)[r]
    BY <1>3 DEF Migrate
  <2> QED
    BY <2>1, InsertedRow
<1>4. ASSUME NEW m \in Maintainers, MaterializeTarget(m) PROVE v6'[r][t] = "edited"
  <2>1. \/ UNCHANGED v6
        \/ /\ v6[Ask(m).rec][Local(m).type] = "absent"
           /\ v6' = [v6 EXCEPT ![Ask(m).rec][Local(m).type] = "migrated"]
    BY <1>4 DEF MaterializeTarget, HasRow
  <2>2. v6 \in [Records -> [NetTypes -> Presence]] /\ v6[r] \in [NetTypes -> Presence]
    BY DEF AttrTypes, AttrTypeOK
  <2>3. CASE r = Ask(m).rec /\ ~UNCHANGED v6
    <3>1. v6'[r] = [v6[r] EXCEPT ![Local(m).type] = "migrated"] /\ v6[r][Local(m).type] = "absent"
      BY <2>1, <2>2, <2>3
    <3> QED
      BY <2>2, <3>1
  <2>4. CASE r # Ask(m).rec \/ UNCHANGED v6
    BY <2>1, <2>2, <2>4
  <2> QED
    BY <2>3, <2>4
<1> QED
  BY <1>1, <1>2, <1>3, <1>4 DEF AttrNext, Continue, LegacyChanges, ServiceCrash, Lookup,
     InsertOperation, LoadOperation, RefuseTarget, OpenOperation, RecoverOne, RecoveredAll,
     CheckTarget, FailTarget, FinishOperation, SameTables

\* A row a maintainer has edited stays edited: neither a repeated migration nor
\* a materialisation writes over it (migrate_kpi_v6, _materialize_pending).
THEOREM EditsAreKept == AttrSpec => EditsSurvive
<1>1. AttrTypes /\ AttrInv /\ [AttrNext]_attrVars =>
        [\A r \in Records, t \in NetTypes : v6[r][t] = "edited" => v6'[r][t] = "edited"]_attrVars
  BY EditedStays
<1> QED
  BY <1>1, AttrInvInit, AttrInvStep, PTL DEF AttrSpec, EditsSurvive
=============================================================================
