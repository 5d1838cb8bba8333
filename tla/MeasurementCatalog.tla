------------------------- MODULE MeasurementCatalog -------------------------
(***************************************************************************)
(* The v5 catalogue of KPI measurements (services/kpi_measurement_units.py)*)
(* and who writes it: the discovery of bindings, which an inspection runs  *)
(* in one long transaction over the columns of the task's files, and the   *)
(* handlers with which maintainers confirm, ignore, register and rename.   *)
(* A handler reads, then writes in a transaction of its own; the discovery *)
(* holds the database's write lock from its first flush to its commit.     *)
(***************************************************************************)
EXTENDS Naturals, FiniteSets

CONSTANTS
  CatUnits,      \* measurement units ("mu" resources)
  CatMetrics,    \* ids of metrics ("me" resources), in use or not
  Names,      \* names of metrics
  CatColumns,    \* pairs of a unit and a raw column name: the keys of bindings
  CatUnitOf, BaseName,  \* the unit of a column; the name left without its display unit
  InitialName,       \* the names of the metrics in use at first
  InitialBindings,   \* the tables of bindings to begin with
  Stewards,   \* threads serving the maintenance endpoints
  Wishes,     \* the requests they may send
  NoMetric, NoName,
  MaxScans, MaxWishes  \* bounds on discoveries and on requests

Statuses == {"candidate", "confirmed", "conflict", "ignored"}
Unbound  == [metric |-> NoMetric, status |-> "absent", on |-> FALSE]
CatBindings == [metric: CatMetrics \cup {NoMetric}, status: Statuses, on: BOOLEAN] \cup {Unbound}

Owns(row, m) == row.metric = m /\ row.status = "confirmed" /\ row.on

\* A wish names its columns or metric; "on" may leave the switch alone.
AllWishes ==
       [op: {"status"}, column: CatColumns, status: {"candidate", "confirmed", "ignored"}, on: {"keep", "on", "off"}]
  \cup [op: {"batch"}, columns: SUBSET CatColumns]
  \cup [op: {"bind"}, column: CatColumns, metric: CatMetrics]
  \cup [op: {"register"}, column: CatColumns, name: Names]
  \cup [op: {"rename"}, metric: CatMetrics, name: Names]
  \cup [op: {"derive"}, unit: CatUnits, metric: CatMetrics, parts: SUBSET CatMetrics]

ASSUME CatalogAssumption ==
  /\ CatUnitOf \in [CatColumns -> CatUnits] /\ BaseName \in [CatColumns -> Names]
  /\ InitialName \in [CatMetrics -> Names \cup {NoName}]
  /\ InitialBindings \subseteq [CatColumns -> CatBindings]
  /\ Wishes \subseteq AllWishes
  /\ NoMetric \notin CatMetrics /\ NoName \notin Names
  /\ MaxScans \in Nat /\ MaxWishes \in Nat
  \* At first no two metrics have one name, a binding refers to a metric in
  \* use, and the bindings of a metric that count are of one unit.
  /\ \A m, n \in CatMetrics : m # n /\ InitialName[m] # NoName => InitialName[m] # InitialName[n]
  /\ \A rows \in InitialBindings, c \in CatColumns :
       rows[c].metric # NoMetric => InitialName[rows[c].metric] # NoName
  /\ \A rows \in InitialBindings, m \in CatMetrics : \A c, d \in CatColumns :
       Owns(rows[c], m) /\ Owns(rows[d], m) => CatUnitOf[c] = CatUnitOf[d]

VARIABLES
  name,     \* name of each metric, NoName while the id is not in use
  binding,  \* kpi_measurement_bindings
  catUnitOn,   \* enabled units
  derived,  \* kpi_measurement_derived: unit and metric to their parts
  scan,     \* the discovery: columns to do, its write transaction, unflushed changes
  steward,  \* each thread's request and what it read for it
  scans, wishes,  \* discoveries and requests so far
  touched   \* history: metrics a maintainer wrote about, or the discovery on an existing row

catVars == <<name, binding, catUnitOn, derived, scan, steward, scans, wishes, touched>>

NoScan == [pc |-> "idle", todo |-> {}, open |-> FALSE, rows |-> <<>>, names |-> <<>>, dirty |-> {}]
Free   == [pc |-> "idle"]

CatInit ==
  /\ name = InitialName
  /\ binding \in InitialBindings
  /\ catUnitOn = CatUnits
  /\ derived = {}
  /\ scan = NoScan
  /\ steward = [s \in Stewards |-> Free]
  /\ scans = 0 /\ wishes = 0 /\ touched = {}
-----------------------------------------------------------------------------
(* discover_measurement_bindings                                           *)

\* What the discovery's session sees: before its first flush what others
\* committed, then the state it holds.
Rows      == IF scan.open THEN scan.rows ELSE binding
KnownName == IF scan.open THEN scan.names ELSE name

\* An attribute change that is not flushed yet: a metric to set, or a status.
Flushed(rows, dirty) ==
  [c \in CatColumns |->
     LET sets == {d \in dirty : d.column = c} IN
     IF sets = {} THEN rows[c]
     ELSE [rows[c] EXCEPT
             !.metric = IF \E d \in sets : d.metric # NoMetric
                        THEN (CHOOSE d \in sets : d.metric # NoMetric).metric ELSE @,
             !.status = IF \E d \in sets : d.confirm THEN "confirmed" ELSE @]]

\* The files of disabled units are left out when the files are matched.
ScanStart ==
  /\ scan.pc = "idle" /\ scans < MaxScans
  /\ scans' = scans + 1
  /\ \E todo \in SUBSET {c \in CatColumns : CatUnitOf[c] \in catUnitOn} :
       todo # {} /\ scan' = [NoScan EXCEPT !.pc = "scan", !.todo = todo]
  /\ UNCHANGED <<name, binding, catUnitOn, derived, steward, wishes, touched>>

\* mutant: the ownership is looked up outside the session
OwnedElsewhereCommitted(m, u) == \E c \in CatColumns : CatUnitOf[c] # u /\ Owns(binding[c], m)

\* _metric_ownership_unit: a confirmed and enabled binding of another unit.
OwnedElsewhere(m, u) == \E c \in CatColumns : CatUnitOf[c] # u /\ Owns(Rows[c], m)

\* The row is there already: a missing metric is set, and unless the metric
\* found by name belongs to another unit the binding becomes confirmed.
\* Nothing is flushed.
RevisitColumn(c, m, outcome, before) ==
  LET change == [column |-> c,
                 metric |-> IF outcome = "auto" \/ Rows[c].metric = NoMetric THEN m ELSE NoMetric,
                 confirm |-> outcome # "conflict" /\ Rows[c].status # "confirmed"]
  IN before.dirty \cup (IF change.metric # NoMetric \/ change.confirm THEN {change} ELSE {})

\* mutant: the outcome is written as the status
StatusForOutcome(outcome) == outcome

StatusFor(outcome) == IF outcome = "conflict" THEN "conflict" ELSE "confirmed"

\* One column: its metric is looked up by name or created (which flushes),
\* its binding is updated or inserted (which flushes).
ScanColumn(c) ==
  LET isNew == \A m \in CatMetrics : KnownName[m] # BaseName[c]
      found == {m \in CatMetrics : KnownName[m] = IF isNew THEN NoName ELSE BaseName[c]}
      base  == [scan EXCEPT !.todo = @ \ {c}]
      held  == [base EXCEPT !.open = TRUE, !.rows = Flushed(Rows, scan.dirty),
                            !.names = KnownName, !.dirty = {}]
  IN
  /\ scan.pc = "scan" /\ c \in scan.todo
  /\ \E m \in found :
       LET outcome == IF isNew THEN "auto" ELSE
                      IF OwnedElsewhere(m, CatUnitOf[c]) THEN "conflict" ELSE "reuse"
           made    == IF isNew THEN [held EXCEPT !.names[m] = BaseName[c]] ELSE base
       IN /\ scan' = IF Rows[c] # Unbound
                     THEN [made EXCEPT !.dirty = RevisitColumn(c, m, outcome, made)]
                     ELSE [held EXCEPT !.names = IF isNew THEN made.names ELSE @,
                                       !.rows[c] = [metric |-> m, on |-> TRUE, status |-> StatusFor(outcome)]]
          /\ touched' = touched \cup (IF scan'.dirty \subseteq scan.dirty THEN {}
                                   ELSE {m, Rows[c].metric} \ {NoMetric})
  /\ UNCHANGED <<name, binding, catUnitOn, derived, steward, scans, wishes>>

ScanCommit ==
  /\ scan.pc = "scan" /\ scan.todo = {}
  /\ binding' = Flushed(Rows, scan.dirty)
  /\ name' = KnownName
  /\ scan' = NoScan
  /\ UNCHANGED <<catUnitOn, derived, steward, scans, wishes, touched>>

\* The process of the inspection dies: its transaction is rolled back.
ScanDies ==
  /\ scan.pc = "scan" /\ scan' = NoScan
  /\ UNCHANGED <<name, binding, catUnitOn, derived, steward, scans, wishes, touched>>
-----------------------------------------------------------------------------
(* The maintenance handlers                                                *)

\* set_measurement_binding_status refuses a metric confirmed in another unit,
\* enabled or not.
ConfirmedElsewhere(c) ==
  \E d \in CatColumns : /\ CatUnitOf[d] # CatUnitOf[c] /\ binding[d].metric = binding[c].metric
                     /\ binding[d].status = "confirmed"

\* batch_confirm_measurement_bindings: the candidates that pass, judged
\* together; two units that want one metric both fail.
Confirmable(S) ==
  LET asking == {c \in S : binding[c].status = "candidate" /\ binding[c].metric # NoMetric} IN
  {c \in asking : /\ \A d \in asking : binding[d].metric = binding[c].metric => CatUnitOf[d] = CatUnitOf[c]
                  /\ ~ConfirmedElsewhere(c)}

Unregistered(c) == binding[c].status = "candidate" /\ binding[c].metric = NoMetric
RowExists(m)       == name[m] # NoName

\* The checks of each handler.
Accepted(w) ==
  CASE w.op = "status"   -> /\ binding[w.column] # Unbound
                            /\ ~(/\ w.status = "confirmed" /\ binding[w.column].metric # NoMetric
                                 /\ ConfirmedElsewhere(w.column))
    [] w.op = "batch"    -> w.columns # {}
    [] w.op = "bind"     -> Unregistered(w.column) /\ RowExists(w.metric)
    [] w.op = "register" -> Unregistered(w.column) /\ \A m \in CatMetrics : name[m] # w.name
    [] w.op = "rename"   -> RowExists(w.metric) /\ \A m \in CatMetrics \ {w.metric} : name[m] # w.name
    [] w.op = "derive"   -> /\ \A m \in w.parts \cup {w.metric} : RowExists(m)
                            /\ \A m \in w.parts : \E c \in CatColumns : CatUnitOf[c] = w.unit /\ Owns(binding[c], m)

\* A request is read and judged; a refused one answers at once.
StewardReads(s) ==
  /\ steward[s] = Free /\ wishes < MaxWishes
  /\ wishes' = wishes + 1
  /\ \E w \in Wishes :
       /\ Accepted(w)
       /\ steward' = [steward EXCEPT ![s] =
            [pc |-> "write", wish |-> w,
             read |-> CASE w.op = "status" -> binding[w.column]
                        [] w.op = "batch"  -> Confirmable(w.columns)
                        [] OTHER -> {}]]
  /\ UNCHANGED <<name, binding, catUnitOn, derived, scan, scans, touched>>

Wish(s) == steward[s].wish
Writes(s, op) ==
  /\ steward[s] # Free /\ Wish(s).op = op /\ ~scan.open
  /\ steward' = [steward EXCEPT ![s] = Free]
  /\ UNCHANGED <<catUnitOn, scan, scans, wishes>>
Touches(S) == touched' = touched \cup (S \ {NoMetric})

\* Only what differs from the row that was read is written.
WriteStatus(s) ==
  LET w == Wish(s)
      c == w.column
      was == steward[s].read
      on == IF w.on = "keep" THEN was.on ELSE w.on = "on"
  IN
  /\ Writes(s, "status")
  /\ binding' = [binding EXCEPT ![c].status = IF w.status = was.status THEN @ ELSE w.status,
                                ![c].on = IF on = was.on THEN @ ELSE on]
  /\ Touches({binding[c].metric})
  /\ UNCHANGED <<name, derived>>

WriteBatch(s) ==
  /\ Writes(s, "batch")
  /\ binding' = [c \in CatColumns |-> IF c \in steward[s].read THEN [binding[c] EXCEPT !.status = "confirmed"]
                                   ELSE binding[c]]
  /\ Touches({binding[c].metric : c \in steward[s].read})
  /\ UNCHANGED <<name, derived>>

BindMetric(s) ==
  /\ Writes(s, "bind")
  /\ binding' = [binding EXCEPT ![Wish(s).column].metric = Wish(s).metric]
  /\ Touches({Wish(s).metric, binding[Wish(s).column].metric})
  /\ UNCHANGED <<name, derived>>

RegisterMetric(s) ==
  /\ Writes(s, "register")
  /\ \E m \in {x \in CatMetrics : ~RowExists(x)} :
       /\ name' = [name EXCEPT ![m] = Wish(s).name]
       /\ binding' = [binding EXCEPT ![Wish(s).column].metric = m]
       /\ Touches({m, binding[Wish(s).column].metric})
  /\ UNCHANGED derived

RenameMetric(s) ==
  /\ Writes(s, "rename")
  /\ name' = [name EXCEPT ![Wish(s).metric] = Wish(s).name]
  /\ Touches({Wish(s).metric})
  /\ UNCHANGED <<binding, derived>>

WriteDerived(s) ==
  LET w == Wish(s) IN
  /\ Writes(s, "derive")
  /\ derived' = {d \in derived : <<d.unit, d.metric>> # <<w.unit, w.metric>>}
                \cup {[unit |-> w.unit, metric |-> w.metric, parts |-> w.parts]}
  /\ UNCHANGED <<name, binding, touched>>

SwitchUnit(u) ==
  /\ wishes < MaxWishes /\ wishes' = wishes + 1 /\ ~scan.open
  /\ catUnitOn' = IF u \in catUnitOn THEN catUnitOn \ {u} ELSE catUnitOn \cup {u}
  /\ UNCHANGED <<name, binding, derived, scan, steward, scans, touched>>

StewardWrites(s) ==
  \/ WriteStatus(s) \/ WriteBatch(s) \/ BindMetric(s)
  \/ RegisterMetric(s) \/ RenameMetric(s) \/ WriteDerived(s)

CatNext ==
  \/ ScanStart \/ (\E c \in CatColumns : ScanColumn(c)) \/ ScanCommit \/ ScanDies
  \/ \E s \in Stewards : StewardReads(s) \/ StewardWrites(s)
  \/ \E u \in CatUnits : SwitchUnit(u)

CatSpec == CatInit /\ [][CatNext]_catVars
-----------------------------------------------------------------------------
(* Properties                                                              *)

CatTypeOK ==
  /\ name \in [CatMetrics -> Names \cup {NoName}]
  /\ binding \in [CatColumns -> CatBindings]
  /\ catUnitOn \subseteq CatUnits /\ touched \subseteq CatMetrics
  /\ scan.todo \subseteq CatColumns

Owners(m) == {CatUnitOf[c] : c \in {x \in CatColumns : Owns(binding[x], m)}}

\* The discovery never gives a metric to two units by the bindings it adds:
\* it sees the rows it added before and what others committed
\* (specs/021-kpi-auto-catalog).  Metrics a maintainer wrote about are left
\* out, for the handlers check before they hold the write lock, and so are
\* those it gave to an existing row, whose change it has not flushed when it
\* looks for the owner of the next column.
AddedBindingsOneOwner == \A m \in CatMetrics \ touched : Cardinality(Owners(m)) <= 1

\* The discovery does not register a second metric of a name, however its
\* columns follow each other and whatever is renamed meanwhile.
NameTwiceOnlyByHand ==
  \A m, n \in CatMetrics : {m, n} \cap touched = {} /\ m # n /\ name[m] # NoName => name[m] # name[n]

\* What the discovery keeps of the catalog, next to maintainers who write
\* between its statements (discover_measurement_bindings).
CatalogSafe == AddedBindingsOneOwner /\ NameTwiceOnlyByHand

\* The owner of a metric is unique, and the discovery gives no metric to a
\* second unit (specs/021-kpi-auto-catalog/spec.md, 1.2 and FR-017).
OneOwner == \A m \in CatMetrics : Cardinality(Owners(m)) <= 1
=============================================================================
