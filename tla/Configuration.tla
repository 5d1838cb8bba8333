---------------------------- MODULE Configuration ----------------------------
(***************************************************************************)
(* The shared configuration of PatrolX and the scope a task freezes from   *)
(* it: which network element types a rule is assigned to                   *)
(* (services/rule_network_assignments.py), the team focus                  *)
(* (services/kpi_team_focus.py), the inspection switch of a measurement    *)
(* unit and the correction of a binding                                    *)
(* (services/kpi_measurement_scope.py), and the worker that reads them     *)
(* when a task starts (rule_scope.py, kpi_scope.py,                        *)
(* task_execution_scope.py).                                               *)
(*                                                                         *)
(* The endpoints are plain functions, so they run concurrently in a thread *)
(* pool.  A session's SELECTs before its first write are separate reads of *)
(* committed data; its writes, from the first to the commit, are one step  *)
(* because SQLite has one writer.  A revision is therefore compared, and   *)
(* the next one computed, from values that may be stale at the commit.     *)
(***************************************************************************)
EXTENDS Naturals, Sequences, FiniteSets, FiniteSetsExt

CONSTANTS
  Editors,     \* thread-pool threads that serve the maintenance endpoints
  Rules,       \* business rules of the registry
  Types,       \* network element types of the dictionary
  FocusType,   \* the type of the task that is frozen and of its team focus
  Units,       \* measurement units of FocusType
  Metrics,     \* metric resources of FocusType
  Bindings,    \* bindings of FocusType
  UnitOf, MetricOf, \* the unit and the metric of a binding
  Derived,     \* <<unit, metric>> pairs with a defined derivation
  Menu,        \* the requests the editors may send
  MaxEdits     \* bound on the requests sent

AllPairs == Units \X Metrics

\* What a request asks: rule assignments (one rule, or a batch), a change of
\* the team focus, an inspection switch, the correction of a binding.
Edits ==
  [kind: {"assign"}, admin: BOOLEAN, confirm: BOOLEAN,
   types: UNION {[S -> SUBSET Types] : S \in SUBSET Rules}]
    \cup [kind: {"focus"}, admin: BOOLEAN, add: SUBSET AllPairs, remove: SUBSET AllPairs]
    \cup [kind: {"unit"}, admin: BOOLEAN, unit: Units, to: BOOLEAN]
    \cup [kind: {"binding"}, admin: BOOLEAN, binding: Bindings, to: {"confirmed", "ignored"}]

ASSUME ConfigurationAssumption ==
  /\ FocusType \in Types
  /\ UnitOf \in [Bindings -> Units]
  /\ MetricOf \in [Bindings -> Metrics]
  /\ Derived \subseteq AllPairs
  /\ Menu \subseteq Edits
  /\ MaxEdits \in Nat

VARIABLES
  assigned, ruleRev, globalRev, \* assignments, revision of each rule, of the catalogue
  assignLog,                    \* the audits, one entry per accepted transaction
  focusSet, focusRev,           \* the team focus of FocusType and its revision
  unitOn, unitRev,              \* inspection_enabled and revision of each unit
  bindState, bindRev,           \* binding_state and revision of each binding
  editor,                       \* program counter and locals of each thread
  freezer,                      \* the worker freezing a task's scope
  frozenScope,                  \* the scope rows of the task
  focusLog,                     \* history: the focus after each accepted patch
  applied                       \* requests sent; history: focus patches accepted

assignVars == <<assigned, ruleRev, globalRev, assignLog>>
focusVars  == <<focusSet, focusRev, focusLog>>
unitVars   == <<unitOn, unitRev>>
bindVars   == <<bindState, bindRev>>
confVars   == <<assignVars, focusVars, unitVars, bindVars, editor, freezer, frozenScope, applied>>

Idle    == [pc |-> "idle"]
NoScope == [rev |-> 0, rules |-> {}, units |-> {}, metrics |-> {}, focusRev |-> 0, focus |-> {}]
NoFreeze == [pc |-> "idle", todo |-> {}, scope |-> NoScope]
-----------------------------------------------------------------------------
\* The tables after start-up: the migration has inserted the shared revisions
\* with 0, no rule is assigned, no unit is switched off.
ConfInit ==
  /\ assigned = [r \in Rules |-> {}] /\ ruleRev = [r \in Rules |-> 0]
  /\ globalRev = 0 /\ assignLog = <<>>
  /\ focusSet = {} /\ focusRev = 0 /\ focusLog = <<>>
  /\ unitOn = [u \in Units |-> TRUE] /\ unitRev = [u \in Units |-> 0]
  /\ bindState = [b \in Bindings |-> "candidate"] /\ bindRev = [b \in Bindings |-> 0]
  /\ editor = [e \in Editors |-> Idle]
  /\ freezer = NoFreeze
  /\ frozenScope = NoScope
  /\ applied = [sent |-> 0, focus |-> 0]

Goes(e, rec) == editor' = [editor EXCEPT ![e] = rec]
Answers(e)   == Goes(e, Idle)

\* The revision a client read when it opened the page it edits.
Expected(q) ==
  CASE q.kind = "assign"  -> [r \in DOMAIN q.types |-> ruleRev[r]]
    [] q.kind = "focus"   -> focusRev
    [] q.kind = "unit"    -> unitRev[q.unit]
    [] q.kind = "binding" -> bindRev[q.binding]

\* A rule loses its last type only with a confirmation; a patch of the focus
\* names something, and nothing twice.
AssignmentValid(q) == q.confirm \/ \A r \in DOMAIN q.types : q.types[r] # {}
PatchValid(q)      == q.add \cup q.remove # {} /\ q.add \cap q.remove = {}

\* What the services check before they open a session.
Valid(q) ==
  /\ q.admin
  /\ q.kind = "assign" => AssignmentValid(q)
  /\ q.kind = "focus"  => PatchValid(q)

\* A client reads the current revision, edits, and sends its request.
SendEdit(e) ==
  /\ editor[e] = Idle
  /\ applied.sent < MaxEdits
  /\ applied' = [applied EXCEPT !.sent = @ + 1]
  /\ \E q \in Menu : Goes(e, [pc |-> "entry", q |-> q, expected |-> Expected(q)])
  /\ UNCHANGED <<assignVars, focusVars, unitVars, bindVars, freezer, frozenScope>>

At(e, pc, kind) == editor[e].pc = pc /\ editor[e].q.kind = kind
Quiet == UNCHANGED <<assignVars, focusVars, unitVars, bindVars, freezer, frozenScope, applied>>

RejectEdit(e) ==
  /\ editor[e].pc = "entry"
  /\ ~Valid(editor[e].q)
  /\ Answers(e) /\ Quiet
-----------------------------------------------------------------------------
(* update_rule_assignment, batch_update_rule_assignments                   *)

\* The revisions of all rules of the request are compared; one conflict
\* refuses the whole batch.
CompareRuleRevisions(e) ==
  /\ At(e, "entry", "assign") /\ Valid(editor[e].q)
  /\ IF editor[e].expected = [r \in DOMAIN editor[e].q.types |-> ruleRev[r]]
     THEN Goes(e, [pc |-> "state", q |-> editor[e].q, expected |-> editor[e].expected])
     ELSE Answers(e)
  /\ Quiet

\* The global state is loaded and held by the session.
LoadGlobalState(e) ==
  /\ At(e, "state", "assign")
  /\ Goes(e, [pc |-> "commit", q |-> editor[e].q, cur |-> editor[e].expected, held |-> globalRev])
  /\ Quiet

\* Each rule of the request gets the revision after the one compared; the
\* catalogue the one after the one the session holds, once for a batch.
NextRevision(e, r) == editor[e].cur[r] + 1
NextGlobal(e)      == editor[e].held + 1

\* The rows of a rule are all deleted and inserted again.
WriteAssignments(q) == [r \in Rules |-> IF r \in DOMAIN q.types THEN q.types[r] ELSE assigned[r]]

\* mutant: the row is read again under the write lock and counted up
UpsertRuleStateCounted(e) ==
  [r \in Rules |-> IF r \in DOMAIN editor[e].q.types THEN ruleRev[r] + 1 ELSE ruleRev[r]]
UpsertRuleState(e) ==
  [r \in Rules |-> IF r \in DOMAIN editor[e].q.types THEN NextRevision(e, r) ELSE ruleRev[r]]

Audit(e) ==
  [types  |-> editor[e].q.types,
   revs   |-> [r \in DOMAIN editor[e].q.types |-> NextRevision(e, r)],
   global |-> NextGlobal(e)]

CommitAssignments(e) ==
  /\ At(e, "commit", "assign")
  /\ assigned' = WriteAssignments(editor[e].q)
  /\ ruleRev' = UpsertRuleState(e)
  /\ globalRev' = NextGlobal(e)
  /\ assignLog' = Append(assignLog, Audit(e))
  /\ Answers(e)
  /\ UNCHANGED <<focusVars, unitVars, bindVars, freezer, frozenScope, applied>>
-----------------------------------------------------------------------------
(* patch_team_focus                                                        *)

\* The frozen scope of the task and the units are read first.
ReadFocusContext(e) ==
  /\ At(e, "entry", "focus") /\ Valid(editor[e].q)
  /\ IF frozenScope = NoScope
     THEN Answers(e)
     ELSE Goes(e, [pc |-> "revision", q |-> editor[e].q, expected |-> editor[e].expected,
                   open |-> {p \in frozenScope.metrics : unitOn[p[1]]}])
  /\ Quiet

CompareFocusRevision(e) ==
  /\ At(e, "revision", "focus")
  /\ IF editor[e].expected = focusRev /\ editor[e].q.add \subseteq editor[e].open
     THEN Goes(e, [pc |-> "rows", q |-> editor[e].q, cur |-> focusRev])
     ELSE Answers(e)
  /\ Quiet

\* The diff is computed against the rows as read here.
ReadFocusRows(e) ==
  /\ At(e, "rows", "focus")
  /\ Goes(e, [pc |-> "commit", q |-> editor[e].q, cur |-> editor[e].cur,
              insert |-> editor[e].q.add \ focusSet, delete |-> editor[e].q.remove \cap focusSet])
  /\ Quiet

\* A row another thread inserted meanwhile violates the unique constraint and
\* the whole patch is rolled back; one already deleted is only a warning.
CommitFocus(e) ==
  /\ At(e, "commit", "focus")
  /\ Answers(e)
  /\ IF editor[e].insert \cap focusSet # {}
     THEN Quiet
     ELSE /\ focusSet' = (focusSet \ editor[e].delete) \cup editor[e].insert
          /\ focusRev' = editor[e].cur + 1
          /\ focusLog' = Append(focusLog, [set |-> focusSet', rev |-> focusRev'])
          /\ applied' = [applied EXCEPT !.focus = @ + 1]
          /\ UNCHANGED <<assignVars, unitVars, bindVars, freezer, frozenScope>>
-----------------------------------------------------------------------------
(* set_measurement_inspection_enabled, correct_measurement_binding         *)

LoadUnit(e) ==
  LET q == editor[e].q IN
  /\ At(e, "entry", "unit") /\ Valid(q)
  /\ IF editor[e].expected = unitRev[q.unit]
     THEN Goes(e, [pc |-> "commit", q |-> q, cur |-> unitRev[q.unit], was |-> unitOn[q.unit]])
     ELSE Answers(e)
  /\ Quiet

\* The session writes the attributes that differ from the ones it loaded.
CommitUnit(e) ==
  LET q == editor[e].q IN
  /\ At(e, "commit", "unit")
  /\ unitOn' = IF q.to # editor[e].was THEN [unitOn EXCEPT ![q.unit] = q.to] ELSE unitOn
  /\ unitRev' = [unitRev EXCEPT ![q.unit] = editor[e].cur + 1]
  /\ Answers(e)
  /\ UNCHANGED <<assignVars, focusVars, bindVars, freezer, frozenScope, applied>>

Correctable == {"candidate", "conflict"}

LoadBinding(e) ==
  LET q == editor[e].q IN
  /\ At(e, "entry", "binding") /\ Valid(q)
  /\ IF editor[e].expected = bindRev[q.binding] /\ bindState[q.binding] \in Correctable
     THEN Goes(e, [pc |-> "commit", q |-> q, cur |-> bindRev[q.binding]])
     ELSE Answers(e)
  /\ Quiet

CommitBinding(e) ==
  LET q == editor[e].q IN
  /\ At(e, "commit", "binding")
  /\ bindState' = [bindState EXCEPT ![q.binding] = q.to]
  /\ bindRev' = [bindRev EXCEPT ![q.binding] = editor[e].cur + 1]
  /\ Answers(e)
  /\ UNCHANGED <<assignVars, focusVars, unitVars, freezer, frozenScope, applied>>
-----------------------------------------------------------------------------
(* freeze_task_execution_scope, run by the worker when a task starts       *)

FreezerGoes(rec) ==
  /\ freezer' = rec
  /\ UNCHANGED <<assignVars, focusVars, unitVars, bindVars, editor, frozenScope, applied>>

\* RuleScopeResolver.resolve: first the revision, then the rows.
FreezeRuleRevision ==
  /\ freezer.pc = "idle"
  /\ FreezerGoes([freezer EXCEPT !.pc = "rules", !.scope.rev = globalRev])

FreezeRules ==
  /\ freezer.pc = "rules"
  /\ FreezerGoes([freezer EXCEPT !.pc = "units",
                                 !.scope.rules = {r \in Rules : FocusType \in assigned[r]}])

\* mutant: the revision is taken again after the rules
FreezeUnitsRevised ==
  /\ freezer.pc = "units"
  /\ LET on == {u \in Units : unitOn[u]}
     IN FreezerGoes([freezer EXCEPT !.pc = "metrics", !.todo = on, !.scope.units = on,
                                    !.scope.rev = globalRev])

\* KpiScopeResolver.resolve: the enabled units, the metrics of each of them,
\* then the focus revision and the focus rows.
FreezeUnits ==
  /\ freezer.pc = "units"
  /\ LET on == {u \in Units : unitOn[u]}
     IN FreezerGoes([freezer EXCEPT !.pc = "metrics", !.todo = on, !.scope.units = on])

\* The confirmed bindings of a unit and its derivations; a confirmed binding
\* of the same metric wins over a derivation.
BaseMetrics(u) ==
  {<<u, MetricOf[b]>> : b \in {x \in Bindings : UnitOf[x] = u /\ bindState[x] = "confirmed"}}
DerivedMetrics(u) == {p \in Derived : p[1] = u} \ BaseMetrics(u)

FreezeUnitMetrics(u) ==
  /\ freezer.pc = "metrics" /\ u \in freezer.todo
  /\ FreezerGoes([freezer EXCEPT !.todo = @ \ {u},
                                 !.scope.metrics = @ \cup BaseMetrics(u) \cup DerivedMetrics(u)])

FreezeFocusRevision ==
  /\ freezer.pc = "metrics" /\ freezer.todo = {}
  /\ FreezerGoes([freezer EXCEPT !.pc = "focus", !.scope.focusRev = focusRev])

FreezeFocus ==
  /\ freezer.pc = "focus"
  /\ FreezerGoes([freezer EXCEPT !.pc = "publish", !.scope.focus = focusSet])

\* save_task_scope_snapshots replaces the rows of both snapshots at once.
PublishScope ==
  /\ freezer.pc = "publish"
  /\ frozenScope' = freezer.scope
  /\ freezer' = NoFreeze
  /\ UNCHANGED <<assignVars, focusVars, unitVars, bindVars, editor, applied>>
-----------------------------------------------------------------------------
Edit(e) ==
  \/ SendEdit(e) \/ RejectEdit(e)
  \/ CompareRuleRevisions(e) \/ LoadGlobalState(e) \/ CommitAssignments(e)
  \/ ReadFocusContext(e) \/ CompareFocusRevision(e) \/ ReadFocusRows(e) \/ CommitFocus(e)
  \/ LoadUnit(e) \/ CommitUnit(e)
  \/ LoadBinding(e) \/ CommitBinding(e)

Freeze ==
  \/ FreezeRuleRevision \/ FreezeRules \/ FreezeUnits
  \/ \E u \in Units : FreezeUnitMetrics(u)
  \/ FreezeFocusRevision \/ FreezeFocus \/ PublishScope

ConfNext == (\E e \in Editors : Edit(e)) \/ Freeze

ConfSpec == ConfInit /\ [][ConfNext]_confVars
-----------------------------------------------------------------------------
(* Properties                                                              *)

ConfTypeOK ==
  /\ assigned \in [Rules -> SUBSET Types] /\ ruleRev \in [Rules -> Nat] /\ globalRev \in Nat
  /\ focusSet \subseteq AllPairs /\ focusRev \in Nat
  /\ unitOn \in [Units -> BOOLEAN] /\ unitRev \in [Units -> Nat]
  /\ bindState \in [Bindings -> {"candidate", "conflict", "confirmed", "ignored"}]
  /\ bindRev \in [Bindings -> Nat]
  /\ frozenScope \in [rev: Nat, rules: SUBSET Rules, units: SUBSET Units, metrics: SUBSET AllPairs,
                      focusRev: Nat, focus: SUBSET AllPairs]

\* The number of the last transaction up to k that changed rule r, 0 if none.
LastChange(r, k) == Max({0} \cup {i \in 1..k : r \in DOMAIN assignLog[i].types})
TypesAfter(r, k) == IF LastChange(r, k) = 0 THEN {} ELSE assignLog[LastChange(r, k)].types[r]
RevAfter(r, k)   == IF LastChange(r, k) = 0 THEN 0 ELSE assignLog[LastChange(r, k)].revs[r]

\* The audit of assignments explains the assignments: whatever the threads
\* interleave, the types and the revision of every rule are the ones its last
\* audit records, and the global revision is the one of the last audit
\* (full replacement of the rows in _write_assignments, not a difference).
AuditExplainsAssignments ==
  /\ \A r \in Rules : /\ assigned[r] = TypesAfter(r, Len(assignLog))
                      /\ ruleRev[r] = RevAfter(r, Len(assignLog))
  /\ globalRev = IF assignLog = <<>> THEN 0 ELSE assignLog[Len(assignLog)].global

Increasing(log, Rev(_)) == \A i, j \in 1..Len(log) : i < j => Rev(log[i]) < Rev(log[j])
FocusAfter(k) == IF k = 0 THEN {} ELSE focusLog[k].set

\* A frozen scope is not older than the revision it names: unless concurrent
\* writers produced the same revision twice, the rules frozen with revision n
\* include every change up to n, and so does the focus
\* (the revision is read before the rows it stands for).
FrozenCoversRevision ==
  /\ Increasing(assignLog, LAMBDA t : t.global) =>
       \E k \in 0..Len(assignLog) :
         /\ \A i \in 1..Len(assignLog) : assignLog[i].global <= frozenScope.rev => i <= k
         /\ frozenScope.rules = {r \in Rules : FocusType \in TypesAfter(r, k)}
  /\ Increasing(focusLog, LAMBDA t : t.rev) =>
       \E k \in 0..Len(focusLog) :
         /\ \A i \in 1..Len(focusLog) : focusLog[i].rev <= frozenScope.focusRev => i <= k
         /\ frozenScope.focus = FocusAfter(k)

\* Each accepted patch of the team focus increments its revision exactly once,
\* so the revision counts the accepted patches
\* (specs/041-kpi-result-workbench/data-model.md:243).
EachPatchIncrements == focusRev = applied.focus
=============================================================================
