----------------------------- MODULE KpiProofs -----------------------------
(***************************************************************************)
(* Proofs about MeasurementCatalog, Workbench and Measurement, for any     *)
(* number of units, columns, metrics, maintainers, requests, runs,         *)
(* discoveries, files and rows.                                            *)
(*                                                                         *)
(* CatalogIsSafe: the discovery gives no metric to two units by the        *)
(* bindings it adds, and registers no second metric of a name.  Both speak *)
(* of the committed tables, which change when the discovery commits what   *)
(* its session holds: SessionInv says the same of the tables as the        *)
(* session has them under the write lock, and that a change it has not     *)
(* flushed is of a metric the history counts as touched.  Maintainers may  *)
(* write as long as the lock is not taken: ByHand is what all their writes *)
(* have in common.                                                         *)
(*                                                                         *)
(* BreachIsShown and VerdictIsShown: a failing object and day reaches the  *)
(* attention list, and a request that no publication crossed shows the     *)
(* verdict of the results it names.  BenchInv relates what a publication   *)
(* has committed so far (points, health, results, the record of the run)   *)
(* to what each open request has read of it.  The rest of the argument is  *)
(* about the operators: the sums and counts that Workbench folds over      *)
(* finite sets, by induction on the set, and the judgement of an object,   *)
(* which fails for each breach the request may show.                       *)
(*                                                                         *)
(* MeasurementIsSafe: rows are counted once, and what is judged of them    *)
(* agrees with itself.  MeasInv says after each file how many rows of an   *)
(* object the counters must have, and which rows the points are of; a file *)
(* adds new ones to both.  The judgement is arithmetic: what a             *)
(* threshold does to two averages, and what negating a series does to its  *)
(* sums, its extremes and its steps.  KpiTypes puts the types of the four  *)
(* KPI components together.                                                *)
(***************************************************************************)
EXTENDS MCKpi, ConfigurationProofs, FiniteSetTheorems, WellFoundedInduction

CatRows  == [CatColumns -> CatBindings]
CatNames == [CatMetrics -> Names \cup {NoName}]
CatChanges  == [column: CatColumns, metric: CatMetrics \cup {NoMetric}, confirm: BOOLEAN]

\* The bindings refer to metrics in use; those of a metric outside T that
\* count are of one unit, and its name is its own.
OneUnit(T, rows) ==
  \A m \in CatMetrics \ T : \A c, d \in CatColumns :
    Owns(rows[c], m) /\ Owns(rows[d], m) => CatUnitOf[c] = CatUnitOf[d]
InUse(rows, names)   == \A c \in CatColumns : rows[c].metric # NoMetric => names[rows[c].metric] # NoName
OwnNames(T, names)   == \A m, n \in CatMetrics \ T : m # n /\ names[m] # NoName => names[m] # names[n]
Sound(T, rows, names) == OneUnit(T, rows) /\ InUse(rows, names) /\ OwnNames(T, names)

\* A change that is not flushed: of a row that is there, and of touched metrics.
ChangeInv(x) ==
  /\ Rows[x.column].status # "absent"
  /\ {x.metric, Rows[x.column].metric} \subseteq touched \cup {NoMetric}
  /\ x.metric # NoMetric => KnownName[x.metric] # NoName

SessionInv ==
  /\ scan \in [pc: {"idle", "scan"}, todo: SUBSET CatColumns, open: BOOLEAN,
               rows: CatRows \cup {<<>>}, names: CatNames \cup {<<>>}, dirty: SUBSET CatChanges]
  /\ scan.open =>
       /\ scan.rows \in CatRows /\ scan.names \in CatNames /\ Sound(touched, scan.rows, scan.names)
       /\ \A c \in CatColumns : binding[c].status # "absent" => scan.rows[c].status # "absent"
       /\ \A m \in CatMetrics : name[m] # NoName => scan.names[m] # NoName
  /\ \A x \in scan.dirty : ChangeInv(x)

\* What a maintainer's request has read still stands where a write relies on it.
WishInv(w, read) ==
  /\ w.op = "status" =>
       /\ w.column \in CatColumns /\ w.status \in Statuses /\ read \in CatBindings
       /\ binding[w.column].status # "absent"
  /\ w.op = "batch" => read \subseteq CatColumns
  /\ w.op = "bind" => /\ w.column \in CatColumns /\ w.metric \in CatMetrics
                      /\ binding[w.column].status # "absent" /\ RowExists(w.metric)
  /\ w.op = "register" => w.column \in CatColumns /\ w.name \in Names /\ binding[w.column].status # "absent"
  /\ w.op = "rename" => w.metric \in CatMetrics /\ w.name \in Names
StewardInv ==
  /\ DOMAIN steward = Stewards
  /\ \A s \in Stewards : steward[s] # Free => WishInv(steward[s].wish, steward[s].read)

CatalogInv == CatTypeOK /\ Sound(touched, binding, name) /\ SessionInv /\ StewardInv
-----------------------------------------------------------------------------
(* What the operators of the model return                                  *)

\* The fields of a binding and of a change.
LEMMA RowFields ==
  /\ \A r \in CatBindings : r.metric \in CatMetrics \cup {NoMetric} /\ r = [metric |-> r.metric, status |-> r.status, on |-> r.on]
  /\ \A r \in CatBindings : r.status # "absent" => r \in [metric: CatMetrics \cup {NoMetric}, status: Statuses, on: BOOLEAN]
  /\ \A r \in CatBindings : r # Unbound => r.status # "absent"
  /\ \A r \in CatBindings : r.on \in BOOLEAN
<1>1. ASSUME NEW r \in CatBindings PROVE r.on \in BOOLEAN
  <2>1. CASE r = Unbound
    BY <2>1 DEF Unbound
  <2>2. CASE r # Unbound
    <3>1. r \in [metric: CatMetrics \cup {NoMetric}, status: Statuses, on: BOOLEAN]
      BY <2>2 DEF CatBindings
    <3> QED
      BY <3>1, Zenon
  <2> QED
    BY <2>1, <2>2
<1> QED
  BY <1>1 DEF CatBindings, Unbound, Statuses

\* A flush writes the metrics and the confirmations of the changes.
LEMMA FlushWrites ==
  ASSUME NEW rows \in CatRows, NEW dirty \in SUBSET CatChanges, NEW c \in CatColumns,
         \A x \in dirty : x.column = c => rows[c].status # "absent"
  PROVE  LET r == Flushed(rows, dirty)[c] IN
         /\ r \in CatBindings
         /\ rows[c].status # "absent" => r.status # "absent"
         /\ \/ r = rows[c]
            \/ /\ \E x \in dirty : x.column = c
               /\ r.metric = rows[c].metric \/ \E x \in dirty : x.column = c /\ x.metric # NoMetric /\ r.metric = x.metric
<1> DEFINE sets == {d \in dirty : d.column = c}
           r    == Flushed(rows, dirty)[c]
<1>1. CASE sets = {}
  <2>1. r = rows[c]
    BY <1>1 DEF Flushed
  <2> QED
    BY <2>1 DEF CatRows
<1>2. CASE sets # {}
  <2>1. rows[c].status # "absent" /\ rows[c] \in CatBindings
    BY <1>2 DEF CatRows
  <2>2. rows[c] \in [metric: CatMetrics \cup {NoMetric}, status: Statuses, on: BOOLEAN]
    BY <2>1, RowFields
  <2>3. PICK m : m = IF \E d \in sets : d.metric # NoMetric
                     THEN (CHOOSE d \in sets : d.metric # NoMetric).metric ELSE rows[c].metric
    OBVIOUS
  <2>4. PICK s : s = IF \E d \in sets : d.confirm THEN "confirmed" ELSE rows[c].status
    OBVIOUS
  <2>5. r = [rows[c] EXCEPT !.metric = m, !.status = s]
    BY <1>2, <2>3, <2>4 DEF Flushed
  <2>6. m = rows[c].metric \/ \E x \in sets : x.metric # NoMetric /\ m = x.metric
    BY <2>3
  <2>7. m \in CatMetrics \cup {NoMetric}
    BY <2>2, <2>6 DEF CatChanges
  <2>8. s \in Statuses /\ s # "absent"
    BY <2>2, <2>4 DEF Statuses
  <2>9. r.metric = m /\ r.status = s /\ r \in [metric: CatMetrics \cup {NoMetric}, status: Statuses, on: BOOLEAN]
    BY <2>2, <2>5, <2>7, <2>8
  <2> QED
    BY <1>2, <2>6, <2>8, <2>9 DEF CatBindings
<1> QED
  BY <1>1, <1>2

\* The tables of the session are typed and sound, before and under its lock.
LEMMA SessionTables ==
  ASSUME CatalogInv
  PROVE  Rows \in CatRows /\ KnownName \in CatNames /\ Sound(touched, Rows, KnownName)
  BY DEF CatalogInv, SessionInv, CatTypeOK, Rows, KnownName, CatRows, CatNames

\* So are they with the changes it has not flushed.
LEMMA FlushedTables ==
  ASSUME CatalogInv
  PROVE  /\ Flushed(Rows, scan.dirty) \in CatRows
         /\ Sound(touched, Flushed(Rows, scan.dirty), KnownName)
         /\ \A c \in CatColumns : Rows[c].status # "absent" => Flushed(Rows, scan.dirty)[c].status # "absent"
         /\ \A c \in CatColumns : Flushed(Rows, scan.dirty)[c] = Rows[c]
                                  \/ Flushed(Rows, scan.dirty)[c].metric \in touched \cup {NoMetric}
<1>1. PICK R, K, F, D : R = Rows /\ K = KnownName /\ D = scan.dirty /\ F = Flushed(R, D)
  OBVIOUS
<1>2. R \in CatRows /\ K \in CatNames /\ Sound(touched, R, K)
  BY <1>1, SessionTables
<1>3. /\ D \in SUBSET CatChanges /\ NoMetric \notin CatMetrics
      /\ \A x \in D : /\ R[x.column].status # "absent"
                      /\ {x.metric, R[x.column].metric} \subseteq touched \cup {NoMetric}
                      /\ x.metric # NoMetric => K[x.metric] # NoName
  BY <1>1, CatalogAssumption DEF CatalogInv, SessionInv, ChangeInv
<1>4. ASSUME NEW c \in CatColumns
      PROVE  /\ F[c] \in CatBindings
             /\ R[c].status # "absent" => F[c].status # "absent"
             /\ \/ F[c] = R[c]
                \/ /\ F[c].metric \in touched \cup {NoMetric}
                   /\ F[c].metric # NoMetric => K[F[c].metric] # NoName
  <2>1. /\ F[c] \in CatBindings
        /\ R[c].status # "absent" => F[c].status # "absent"
        /\ \/ F[c] = R[c]
           \/ /\ \E x \in D : x.column = c
              /\ F[c].metric = R[c].metric \/ \E x \in D : x.column = c /\ x.metric # NoMetric /\ F[c].metric = x.metric
    BY <1>1, <1>2, <1>3, FlushWrites
  <2> QED
    BY <1>2, <1>3, <2>1 DEF Sound, InUse
<1>5. F \in CatRows
  <2>1. F = [c \in CatColumns |-> F[c]]
    BY <1>1 DEF Flushed
  <2> QED
    BY <1>4, <2>1 DEF CatRows
<1>6. OneUnit(touched, F)
  BY <1>2, <1>3, <1>4 DEF Sound, OneUnit, Owns
<1>7. InUse(F, K)
  BY <1>2, <1>4 DEF Sound, InUse
<1> QED
  BY <1>1, <1>2, <1>4, <1>5, <1>6, <1>7 DEF Sound
-----------------------------------------------------------------------------
(* The discovery                                                           *)

\* Nobody's request depends on the session.
LEMMA StewardsStay ==
  ASSUME StewardInv, steward' = steward, binding' = binding, name' = name
  PROVE  StewardInv'
  BY DEF StewardInv, WishInv, RowExists

LEMMA CatInitSound == CatInit => CatalogInv
<1> SUFFICES ASSUME CatInit PROVE CatalogInv
  OBVIOUS
<1>1. CatTypeOK /\ SessionInv
  BY CatalogAssumption DEF CatInit, CatTypeOK, SessionInv, NoScan
<1>2. Sound(touched, binding, name)
  <2>1. binding \in InitialBindings /\ name = InitialName /\ touched = {}
    BY DEF CatInit
  <2>2. OneUnit(touched, binding)
    BY <2>1, CatalogAssumption DEF OneUnit
  <2>3. InUse(binding, name)
    BY <2>1, CatalogAssumption DEF InUse
  <2>4. OwnNames(touched, name)
    BY <2>1, CatalogAssumption DEF OwnNames
  <2> QED
    BY <2>2, <2>3, <2>4 DEF Sound
<1>3. StewardInv
  BY DEF CatInit, StewardInv
<1> QED
  BY <1>1, <1>2, <1>3 DEF CatalogInv

\* A discovery begins or dies: nothing is pending.
LEMMA FreshSession ==
  ASSUME CatalogInv, ScanStart \/ ScanDies
  PROVE  CatalogInv'
<1>1. UNCHANGED <<name, binding, catUnitOn, steward, touched>>
  BY DEF ScanStart, ScanDies
<1>2. /\ scan'.pc \in {"idle", "scan"} /\ scan'.todo \subseteq CatColumns /\ scan' = [NoScan EXCEPT !.pc = scan'.pc, !.todo = scan'.todo]
  <2>1. CASE ScanStart
    <3>1. PICK todo \in SUBSET CatColumns : scan' = [NoScan EXCEPT !.pc = "scan", !.todo = todo]
      BY <2>1 DEF ScanStart
    <3> QED
      BY <3>1 DEF NoScan
  <2>2. CASE ScanDies
    BY <2>2 DEF ScanDies, NoScan
  <2> QED
    BY <2>1, <2>2
<1>3. SessionInv' /\ scan'.todo \subseteq CatColumns
  BY <1>2 DEF SessionInv, NoScan
<1>4. StewardInv'
  BY <1>1, StewardsStay DEF CatalogInv
<1> QED
  BY <1>1, <1>3, <1>4 DEF CatalogInv, CatTypeOK

\* The discovery commits what its session holds.
LEMMA CommitScanSound ==
  ASSUME CatalogInv, ScanCommit
  PROVE  CatalogInv'
<1>1. /\ binding' = Flushed(Rows, scan.dirty) /\ name' = KnownName /\ scan' = NoScan
      /\ UNCHANGED <<catUnitOn, steward, touched>>
  BY DEF ScanCommit
<1>2. /\ binding' \in CatRows /\ name' \in CatNames /\ Sound(touched, binding', name')
      /\ \A c \in CatColumns : Rows[c].status # "absent" => binding'[c].status # "absent"
  BY <1>1, FlushedTables, SessionTables
<1>3. CatTypeOK' /\ SessionInv'
  BY <1>1, <1>2 DEF CatalogInv, CatTypeOK, SessionInv, NoScan, CatRows, CatNames
<1>4. StewardInv'
  <2>1. ASSUME NEW s \in Stewards, steward[s] # Free PROVE WishInv(steward[s].wish, steward[s].read)'
    <3>1. PICK w, read : w = steward[s].wish /\ read = steward[s].read
      OBVIOUS
    <3>2. WishInv(w, read)
      BY <2>1, <3>1 DEF CatalogInv, StewardInv
    <3>3. /\ \A c \in CatColumns : binding[c].status # "absent" => binding'[c].status # "absent"
          /\ \A m \in CatMetrics : name[m] # NoName => name'[m] # NoName
      BY <1>1, <1>2 DEF CatalogInv, SessionInv, Rows, KnownName
    <3> QED
      BY <1>1, <3>1, <3>2, <3>3 DEF WishInv, RowExists
  <2> QED
    BY <1>1, <2>1 DEF CatalogInv, StewardInv
<1> QED
  BY <1>1, <1>2, <1>3, <1>4 DEF CatalogInv
\* A metric that is touched later does not count any more.
LEMMA SoundMore ==
  ASSUME NEW T, NEW U, T \subseteq U, NEW rows, NEW names, Sound(T, rows, names)
  PROVE  Sound(U, rows, names)
  BY DEF Sound, OneUnit, OwnNames

Unknown(names, n)    == \A m \in CatMetrics : names[m] # n
Remembers(old, names) == \A m \in CatMetrics : old[m] # NoName => names[m] # NoName

\* A metric registered with a name nobody has.
LEMMA SoundRegistered ==
  ASSUME NEW T, NEW rows \in CatRows, NEW names \in CatNames, Sound(T, rows, names),
         NEW m \in CatMetrics, names[m] = NoName, NEW n \in Names, Unknown(names, n)
  PROVE  /\ [names EXCEPT ![m] = n] \in CatNames
         /\ Sound(T, rows, [names EXCEPT ![m] = n])
         /\ Remembers(names, [names EXCEPT ![m] = n])
<1> DEFINE new == [names EXCEPT ![m] = n]
<1>1. new \in CatNames /\ \A x \in CatMetrics : new[x] = IF x = m THEN n ELSE names[x]
  BY DEF CatNames
<1>2. n # NoName /\ NoMetric \notin CatMetrics
  BY CatalogAssumption
<1> HIDE DEF new
<1>3. InUse(rows, new)
  BY <1>1, <1>2 DEF Sound, InUse, CatRows, CatBindings, Unbound
<1>4. OwnNames(T, new)
  BY <1>1, <1>2 DEF Sound, OwnNames, Unknown
<1>5. Sound(T, rows, new) /\ Remembers(names, new)
  BY <1>1, <1>2, <1>3, <1>4 DEF Sound, Remembers
<1> QED
  BY <1>1, <1>5 DEF new

\* A binding added for a metric in use that no other unit owns, or as a conflict.
LEMMA SoundAdded ==
  ASSUME NEW T, NEW rows \in CatRows, NEW names, Sound(T, rows, names),
         NEW c \in CatColumns, NEW m \in CatMetrics, names[m] # NoName,
         NEW row, row.metric = m,
         row.status = "confirmed" => \A d \in CatColumns : Owns(rows[d], m) => CatUnitOf[d] = CatUnitOf[c] \/ m \in T
  PROVE  Sound(T, [rows EXCEPT ![c] = row], names)
<1> DEFINE new == [rows EXCEPT ![c] = row]
<1>1. \A d \in CatColumns : new[d] = IF d = c THEN row ELSE rows[d]
  BY DEF CatRows
<1> HIDE DEF new
<1>2. OneUnit(T, new)
  BY <1>1 DEF Sound, OneUnit, Owns
<1>3. InUse(new, names)
  BY <1>1 DEF Sound, InUse
<1>4. Sound(T, new, names)
  BY <1>2, <1>3 DEF Sound
<1> QED
  BY <1>4 DEF new

\* One column: its metric, then its binding.
LEMMA ColumnSound ==
  ASSUME CatalogInv, NEW c \in CatColumns, ScanColumn(c)
  PROVE  CatalogInv'
<1> DEFINE isNew == \A m \in CatMetrics : KnownName[m] # BaseName[c]
           found == {m \in CatMetrics : KnownName[m] = IF isNew THEN NoName ELSE BaseName[c]}
           base  == [scan EXCEPT !.todo = @ \ {c}]
           held  == [base EXCEPT !.open = TRUE, !.rows = Flushed(Rows, scan.dirty), !.names = KnownName, !.dirty = {}]
           outcome(m) == IF isNew THEN "auto" ELSE IF OwnedElsewhere(m, CatUnitOf[c]) THEN "conflict" ELSE "reuse"
           made(m)    == IF isNew THEN [held EXCEPT !.names[m] = BaseName[c]] ELSE base
<1>1. PICK m \in found :
        /\ scan' = IF Rows[c] # Unbound
                   THEN [made(m) EXCEPT !.dirty = RevisitColumn(c, m, outcome(m), made(m))]
                   ELSE [held EXCEPT !.names = IF isNew THEN made(m).names ELSE @,
                                     !.rows[c] = [metric |-> m, on |-> TRUE, status |-> StatusFor(outcome(m))]]
        /\ touched' = touched \cup (IF scan'.dirty \subseteq scan.dirty THEN {} ELSE {m, Rows[c].metric} \ {NoMetric})
  BY DEF ScanColumn
<1>2. UNCHANGED <<name, binding, catUnitOn, steward>> /\ scan.pc = "scan"
  BY DEF ScanColumn
<1>3. PICK R, K, F, D : R = Rows /\ K = KnownName /\ D = scan.dirty /\ F = Flushed(R, D)
  OBVIOUS
<1>4. /\ R \in CatRows /\ K \in CatNames /\ Sound(touched, R, K) /\ D \in SUBSET CatChanges
      /\ F \in CatRows /\ Sound(touched, F, K)
      /\ \A d \in CatColumns : R[d].status # "absent" => F[d].status # "absent"
      /\ \A d \in CatColumns : F[d] = R[d] \/ F[d].metric \in touched \cup {NoMetric}
  BY <1>3, SessionTables, FlushedTables DEF CatalogInv, SessionInv
<1>5. /\ \A d \in CatColumns : binding[d].status # "absent" => R[d].status # "absent"
      /\ \A x \in CatMetrics : name[x] # NoName => K[x] # NoName
  BY <1>3 DEF CatalogInv, SessionInv, Rows, KnownName
<1>6. /\ m \in CatMetrics /\ BaseName[c] \in Names /\ NoName \notin Names /\ NoMetric \notin CatMetrics
      /\ isNew => K[m] = NoName /\ \A x \in CatMetrics : K[x] # BaseName[c]
      /\ ~isNew => K[m] = BaseName[c]
      /\ ~isNew /\ outcome(m) # "conflict" => \A d \in CatColumns : Owns(R[d], m) => CatUnitOf[d] = CatUnitOf[c]
  BY <1>3, CatalogAssumption DEF OwnedElsewhere
<1>7. PICK new : new = isNew
  OBVIOUS
<1>8. PICK out : out = outcome(m)
  OBVIOUS
<1>9. PICK N : N = IF isNew THEN [K EXCEPT ![m] = BaseName[c]] ELSE K
  OBVIOUS
<1>a. /\ N \in CatNames /\ Sound(touched, F, N) /\ N[m] # NoName
      /\ \A x \in CatMetrics : K[x] # NoName => N[x] # NoName
  <2>1. CASE isNew
    <3>1. N = [K EXCEPT ![m] = BaseName[c]]
      BY <2>1, <1>9
    <3> HIDE DEF isNew
    <3>2. /\ N \in CatNames /\ Sound(touched, F, N)
          /\ \A x \in CatMetrics : K[x] # NoName => N[x] # NoName
      <4>1. PICK n \in Names : n = BaseName[c]
        BY <1>6
      <4>2. m \in CatMetrics /\ K[m] = NoName /\ Unknown(K, n)
        BY <2>1, <4>1, <1>6 DEF Unknown
      <4>3. N = [K EXCEPT ![m] = n]
        BY <3>1, <4>1
      <4>4. N \in CatNames /\ Sound(touched, F, N) /\ Remembers(K, N)
        BY <4>2, <4>3, <1>4, SoundRegistered
      <4> QED
        BY <4>4 DEF Remembers
    <3>3. N[m] = BaseName[c]
      BY <3>1, <1>4, <1>6 DEF CatNames
    <3> QED
      BY <3>2, <3>3, <1>6
  <2>2. CASE ~isNew
    BY <2>2, <1>4, <1>6, <1>9
  <2> QED
    BY <2>1, <2>2
<1>b. touched' \subseteq CatMetrics /\ touched \subseteq touched'
  <2>1. R[c].metric \in CatMetrics \cup {NoMetric}
    BY <1>4, RowFields DEF CatRows
  <2> QED
    BY <1>1, <1>3, <1>6, <2>1 DEF CatalogInv, CatTypeOK
<1>c. StewardInv'
  BY <1>2, StewardsStay DEF CatalogInv
<1>d. ASSUME SessionInv' PROVE CatalogInv'
  <2>1. Sound(touched', binding, name)
    BY <1>b, SoundMore DEF CatalogInv
  <2>2. scan'.todo \subseteq CatColumns
    BY <1>d DEF SessionInv
  <2> QED
    BY <1>2, <1>b, <1>c, <1>d, <2>1, <2>2 DEF CatalogInv, CatTypeOK
\* the session, when the row is there already
<1>e. CASE Rows[c] # Unbound
  <2>1. PICK change : change = [column |-> c,
                                metric |-> IF out = "auto" \/ R[c].metric = NoMetric THEN m ELSE NoMetric,
                                confirm |-> out # "conflict" /\ R[c].status # "confirmed"]
    OBVIOUS
  <2>2. change \in CatChanges /\ change.column = c /\ change.metric \in {m, NoMetric}
    BY <2>1, <1>6 DEF CatChanges
  <2>3. R[c].status # "absent" /\ F[c].status # "absent" /\ F[c].metric \in touched \cup {NoMetric, R[c].metric}
    BY <1>3, <1>4, <1>e, RowFields DEF CatRows
  <2>4. PICK more : /\ more \in {{}, {change}}
                    /\ scan' = [made(m) EXCEPT !.dirty = @ \cup more]
    <3>1. PICK more : more = IF change.metric # NoMetric \/ change.confirm THEN {change} ELSE {}
      OBVIOUS
    <3>2. RevisitColumn(c, m, outcome(m), made(m)) = made(m).dirty \cup more
      BY <2>1, <3>1, <1>3, <1>8 DEF RevisitColumn
    <3> QED
      BY <1>1, <1>e, <3>1, <3>2
  <2>5. more # {} => {change.metric, R[c].metric} \subseteq touched' \cup {NoMetric}
    <3>1. CASE scan'.dirty \subseteq scan.dirty /\ more = {change}
      <4>1. change \in scan'.dirty
        BY <2>4, <3>1, <1>2 DEF CatalogInv, SessionInv
      <4>2. ChangeInv(change)
        BY <3>1, <4>1 DEF CatalogInv, SessionInv
      <4> QED
        BY <4>2, <2>2, <1>3, <1>b DEF ChangeInv
    <3>2. CASE ~(scan'.dirty \subseteq scan.dirty)
      BY <3>2, <1>1, <1>3, <2>2
    <3> QED
      BY <2>4, <3>1, <3>2
  <2>6. CASE ~isNew
    <3>1. scan' = [base EXCEPT !.dirty = D \cup more]
      BY <1>3, <2>4, <2>6 DEF CatalogInv, SessionInv
    <3>2. /\ scan'.dirty = D \cup more /\ scan'.open = scan.open /\ scan'.rows = scan.rows
          /\ scan'.names = scan.names /\ scan'.pc = scan.pc /\ scan'.todo = scan.todo \ {c}
          /\ scan' = [pc |-> scan.pc, todo |-> scan.todo \ {c}, open |-> scan.open, rows |-> scan.rows,
                      names |-> scan.names, dirty |-> D \cup more]
      BY <3>1 DEF CatalogInv, SessionInv
    <3>3. Rows' = R /\ KnownName' = K
      BY <1>2, <1>3, <3>2 DEF Rows, KnownName
    <3>4. \A x \in D : ChangeInv(x)'
      <4> TAKE x \in D
      <4>1. ChangeInv(x)
        BY <1>3 DEF CatalogInv, SessionInv
      <4> QED
        BY <4>1, <3>3, <1>3, <1>b DEF ChangeInv
    <3>5. \A x \in more : ChangeInv(x)'
      <4>1. K[m] # NoName
        BY <1>6, <2>6
      <4>2. more # {} => ChangeInv(change)'
        BY <2>2, <2>3, <2>5, <3>3, <4>1 DEF ChangeInv
      <4> QED
        BY <2>4, <4>2
    <3>6. scan' \in [pc: {"idle", "scan"}, todo: SUBSET CatColumns, open: BOOLEAN,
                     rows: CatRows \cup {<<>>}, names: CatNames \cup {<<>>}, dirty: SUBSET CatChanges]
      BY <3>2, <2>2, <2>4, <1>4 DEF CatalogInv, SessionInv
    <3>7. scan.open =>
            /\ scan.rows \in CatRows /\ scan.names \in CatNames /\ Sound(touched', scan.rows, scan.names)
            /\ \A d \in CatColumns : binding[d].status # "absent" => scan.rows[d].status # "absent"
            /\ \A x \in CatMetrics : name[x] # NoName => scan.names[x] # NoName
      BY <1>b, SoundMore DEF CatalogInv, SessionInv
    <3>8. SessionInv'
      BY <1>2, <3>2, <3>4, <3>5, <3>6, <3>7 DEF SessionInv
    <3> QED
      BY <3>8, <1>d
  <2>7. CASE isNew
    <3>1. scan' = [pc |-> scan.pc, todo |-> scan.todo \ {c}, open |-> TRUE, rows |-> F, names |-> N, dirty |-> more]
      BY <1>3, <1>9, <2>4, <2>7 DEF CatalogInv, SessionInv
    <3>2. Rows' = F /\ KnownName' = N
      BY <3>1 DEF Rows, KnownName
    <3>3. \A x \in more : ChangeInv(x)'
      <4>1. more # {} => ChangeInv(change)'
        BY <1>a, <1>b, <2>2, <2>3, <2>5, <3>2 DEF ChangeInv
      <4> QED
        BY <2>4, <4>1
    <3>4. Sound(touched', F, N)
      BY <1>a, <1>b, SoundMore
    <3>5. scan' \in [pc: {"idle", "scan"}, todo: SUBSET CatColumns, open: BOOLEAN,
                     rows: CatRows \cup {<<>>}, names: CatNames \cup {<<>>}, dirty: SUBSET CatChanges]
      BY <3>1, <2>2, <2>4, <1>4, <1>a DEF CatalogInv, SessionInv
    <3>6. SessionInv'
      BY <1>2, <1>4, <1>5, <1>a, <3>1, <3>3, <3>4, <3>5 DEF SessionInv
    <3> QED
      BY <3>6, <1>d
  <2> QED
    BY <2>6, <2>7
\* the session, when the row is added
<1>f. CASE Rows[c] = Unbound
  <2>1. PICK row : row = [metric |-> m, on |-> TRUE, status |-> StatusFor(out)]
    OBVIOUS
  <2>2. scan' = [pc |-> scan.pc, todo |-> scan.todo \ {c}, open |-> TRUE, rows |-> [F EXCEPT ![c] = row],
                 names |-> N, dirty |-> {}]
    BY <1>1, <1>3, <1>8, <1>9, <1>f, <2>1 DEF CatalogInv, SessionInv
  <2>3. touched' = touched
    BY <1>1, <2>2
  <2>4. row.metric = m /\ row \in CatBindings /\ row.status # "absent" /\ (row.status = "confirmed" <=> out # "conflict")
    BY <2>1, <1>6 DEF CatBindings, Statuses, StatusFor
  <2>5. ASSUME row.status = "confirmed", NEW d \in CatColumns, Owns(F[d], m)
        PROVE  CatUnitOf[d] = CatUnitOf[c] \/ m \in touched
    <3>1. CASE isNew
      BY <3>1, <2>5, <1>4, <1>6 DEF Sound, InUse, Owns
    <3>2. CASE ~isNew
      <4>1. F[d] = R[d] => CatUnitOf[d] = CatUnitOf[c]
        BY <3>2, <2>4, <2>5, <1>6, <1>8
      <4>2. F[d] # R[d] => m \in touched
        BY <2>5, <1>4, <1>6 DEF Owns
      <4> QED
        BY <4>1, <4>2
    <3> QED
      BY <3>1, <3>2
  <2>6. PICK G : G = [F EXCEPT ![c] = row]
    OBVIOUS
  <2>7. Sound(touched, G, N)
    BY <2>4, <2>5, <2>6, <1>4, <1>6, <1>a, SoundAdded
  <2>8. G \in CatRows /\ \A d \in CatColumns : G[d] = IF d = c THEN row ELSE F[d]
    BY <2>4, <2>6, <1>4 DEF CatRows
  <2>9. scan' \in [pc: {"idle", "scan"}, todo: SUBSET CatColumns, open: BOOLEAN,
                   rows: CatRows \cup {<<>>}, names: CatNames \cup {<<>>}, dirty: SUBSET CatChanges]
    BY <2>2, <2>6, <2>8, <1>a DEF CatalogInv, SessionInv
  <2>a. \A d \in CatColumns : binding[d].status # "absent" => G[d].status # "absent"
    BY <1>4, <1>5, <2>4, <2>8
  <2>b. SessionInv'
    BY <1>2, <1>5, <1>a, <2>2, <2>3, <2>6, <2>7, <2>8, <2>9, <2>a DEF SessionInv
  <2> QED
    BY <2>b, <1>d
<1> QED
  BY <1>e, <1>f
-----------------------------------------------------------------------------
(* The maintainers                                                         *)

\* What a maintainer's write does, whichever it is: it waits for the lock,
\* removes neither a row nor a name, and touches the metrics of what it changes.
ByHand ==
  /\ ~scan.open /\ scan' = scan /\ catUnitOn' = catUnitOn
  /\ touched \subseteq touched' /\ touched' \subseteq CatMetrics
  /\ binding' \in CatRows /\ name' \in CatNames
  /\ \A c \in CatColumns : binding'[c] = binding[c] \/ binding'[c].metric \in touched' \cup {NoMetric}
  /\ \A c \in CatColumns : binding[c].status # "absent" => binding'[c].status # "absent"
  /\ InUse(binding', name')
  /\ \A m \in CatMetrics : name'[m] = name[m] \/ m \in touched'
  /\ Remembers(name, name')

\* A request that still stands after a write.
LEMMA WishKept ==
  ASSUME NEW w, NEW read, WishInv(w, read), Remembers(name, name'),
         \A c \in CatColumns : binding[c].status # "absent" => binding'[c].status # "absent"
  PROVE  WishInv(w, read)'
<1>1. PICK v, r : v = w /\ r = read
  OBVIOUS
<1> QED
  BY DEF WishInv, RowExists, Remembers

LEMMA ByHandSound ==
  ASSUME CatalogInv, ByHand, NEW s \in Stewards, steward' = [steward EXCEPT ![s] = Free]
  PROVE  CatalogInv'
<1>1. Sound(touched', binding', name')
  <2>1. Sound(touched', binding, name)
    BY SoundMore DEF CatalogInv, ByHand
  <2>2. NoMetric \notin CatMetrics
    BY CatalogAssumption
  <2>3. OneUnit(touched', binding')
    BY <2>1, <2>2 DEF Sound, OneUnit, Owns, ByHand
  <2>4. OwnNames(touched', name')
    BY <2>1 DEF Sound, OwnNames, ByHand
  <2> QED
    BY <2>3, <2>4 DEF Sound, ByHand
<1>2. SessionInv'
  <2>1. ASSUME NEW x \in scan.dirty PROVE ChangeInv(x)'
    <3>1. ChangeInv(x) /\ x.column \in CatColumns /\ x.metric \in CatMetrics \cup {NoMetric}
      BY DEF CatalogInv, SessionInv, CatChanges
    <3>2. /\ binding[x.column].status # "absent"
          /\ {x.metric, binding[x.column].metric} \subseteq touched \cup {NoMetric}
          /\ x.metric # NoMetric => name[x.metric] # NoName
      BY <3>1 DEF ChangeInv, Rows, KnownName, ByHand
    <3>3. Rows' = binding' /\ KnownName' = name'
      BY DEF Rows, KnownName, ByHand
    <3> QED
      BY <3>1, <3>2, <3>3 DEF ChangeInv, ByHand, Remembers
  <2> QED
    BY <2>1 DEF CatalogInv, SessionInv, ByHand
<1>3. StewardInv'
  <2>1. ASSUME NEW t \in Stewards, steward'[t] # Free PROVE WishInv(steward[t].wish, steward[t].read)'
    <3>1. steward[t] # Free /\ steward'[t] = steward[t]
      BY <2>1 DEF CatalogInv, StewardInv
    <3>2. PICK w, read : w = steward[t].wish /\ read = steward[t].read
      OBVIOUS
    <3>3. WishInv(w, read) /\ w = steward'[t].wish /\ read = steward'[t].read
      BY <3>1, <3>2 DEF CatalogInv, StewardInv
    <3>4. WishInv(w, read)'
      BY <3>3, WishKept DEF ByHand
    <3> QED
      BY <3>3, <3>4 DEF WishInv
  <2> QED
    BY <2>1 DEF CatalogInv, StewardInv
<1>4. CatTypeOK'
  BY DEF CatalogInv, CatTypeOK, ByHand, CatRows, CatNames
<1> QED
  BY <1>1, <1>2, <1>3, <1>4 DEF CatalogInv

\* Each of them.
LEMMA WritesSound ==
  ASSUME CatalogInv, NEW s \in Stewards, StewardWrites(s)
  PROVE  CatalogInv'
<1>0. NoMetric \notin CatMetrics /\ NoName \notin Names
  BY CatalogAssumption
<1>1. /\ binding \in CatRows /\ name \in CatNames /\ touched \subseteq CatMetrics /\ InUse(binding, name)
      /\ steward[s] # Free => WishInv(Wish(s), steward[s].read)
  BY DEF CatalogInv, CatTypeOK, CatRows, CatNames, Sound, StewardInv, Wish
<1>2. \A c \in CatColumns : binding[c] \in CatBindings /\ binding[c].metric \in CatMetrics \cup {NoMetric}
  BY <1>1, RowFields DEF CatRows
<1>3. CASE WriteStatus(s)
  <2>1. PICK w, was : w = Wish(s) /\ was = steward[s].read
    OBVIOUS
  <2>2. /\ steward[s] # Free /\ w.op = "status" /\ ~scan.open /\ steward' = [steward EXCEPT ![s] = Free]
        /\ UNCHANGED <<catUnitOn, scan, name>>
    BY <1>3, <2>1 DEF WriteStatus, Writes
  <2>3. PICK c \in CatColumns : c = w.column
    BY <1>1, <2>1, <2>2 DEF WishInv
  <2>4. w.status \in Statuses /\ was \in CatBindings /\ binding[c].status # "absent"
    BY <1>1, <2>1, <2>2, <2>3 DEF WishInv
  <2>5. PICK st, on : /\ st = IF w.status = was.status THEN binding[c].status ELSE w.status
                      /\ on = IF (IF w.on = "keep" THEN was.on ELSE w.on = "on") = was.on
                              THEN binding[c].on ELSE IF w.on = "keep" THEN was.on ELSE w.on = "on"
    OBVIOUS
  <2>6. binding' = [binding EXCEPT ![c].status = st, ![c].on = on]
    BY <1>3, <2>1, <2>3, <2>5 DEF WriteStatus
  <2>7. touched' = touched \cup ({binding[c].metric} \ {NoMetric})
    BY <1>3, <2>1, <2>3 DEF WriteStatus, Touches
  <2>8. binding[c] \in [metric: CatMetrics \cup {NoMetric}, status: Statuses, on: BOOLEAN]
    BY <1>2, <2>4, RowFields
  <2>9. st \in Statuses /\ st # "absent" /\ on \in BOOLEAN
    <3>1. st \in Statuses /\ st # "absent"
      BY <2>4, <2>5, <2>8 DEF Statuses
    <3>2. was.on \in BOOLEAN
      BY <2>4, RowFields
    <3> QED
      BY <2>5, <2>8, <3>1, <3>2
  <2>a. PICK row : row = [metric |-> binding[c].metric, status |-> st, on |-> on]
    OBVIOUS
  <2>b. \A d \in CatColumns : binding'[d] = IF d = c THEN row ELSE binding[d]
    <3>1. binding'[c] = [binding[c] EXCEPT !.status = st, !.on = on]
      BY <1>1, <2>6, <2>8 DEF CatRows
    <3>2. binding'[c] = row
      BY <2>8, <2>a, <3>1
    <3>3. \A d \in CatColumns \ {c} : binding'[d] = binding[d]
      BY <1>1, <2>6 DEF CatRows
    <3> QED
      BY <3>2, <3>3
  <2>c. row \in CatBindings /\ row.metric = binding[c].metric /\ row.status # "absent"
    BY <2>8, <2>9, <2>a DEF CatBindings
  <2>d. binding' \in CatRows
    BY <1>1, <2>6, <2>b, <2>c DEF CatRows
  <2>e. ByHand
    BY <1>1, <1>2, <2>2, <2>7, <2>b, <2>c, <2>d DEF ByHand, InUse, Remembers
  <2> QED
    BY <2>2, <2>e, ByHandSound
<1>4. CASE WriteBatch(s)
  <2>1. PICK read : read = steward[s].read
    OBVIOUS
  <2>2. /\ steward[s] # Free /\ Wish(s).op = "batch" /\ ~scan.open /\ steward' = [steward EXCEPT ![s] = Free]
        /\ UNCHANGED <<catUnitOn, scan, name>>
        /\ binding' = [c \in CatColumns |-> IF c \in read THEN [binding[c] EXCEPT !.status = "confirmed"] ELSE binding[c]]
        /\ touched' = touched \cup ({binding[c].metric : c \in read} \ {NoMetric})
    BY <1>4, <2>1 DEF WriteBatch, Writes, Touches
  <2>3. read \subseteq CatColumns
    BY <1>1, <2>1, <2>2 DEF WishInv
  <2>4. \A c \in read : /\ binding'[c] \in CatBindings /\ binding'[c].metric = binding[c].metric
                        /\ binding'[c].status # "absent" /\ binding[c].metric \in touched' \cup {NoMetric}
    <3> TAKE c \in read
    <3>1. binding[c] \in CatBindings /\ binding'[c] = [binding[c] EXCEPT !.status = "confirmed"]
      BY <1>2, <2>2, <2>3
    <3>2. binding'[c] = [metric |-> binding[c].metric, status |-> "confirmed", on |-> binding[c].on]
      BY <3>1, RowFields
    <3>3. binding'[c].metric = binding[c].metric /\ binding'[c].status # "absent"
      BY <3>2
    <3>4. binding'[c] \in CatBindings
      BY <3>1, <3>2, RowFields DEF CatBindings, Statuses
    <3> QED
      BY <2>2, <3>3, <3>4
  <2>5. \A c \in CatColumns \ read : binding'[c] = binding[c]
    BY <2>2
  <2>6. binding' \in CatRows
    BY <1>2, <2>2, <2>4, <2>5 DEF CatRows
  <2>7. touched' \subseteq CatMetrics
    BY <1>1, <1>2, <2>2, <2>3
  <2>8. ByHand
    BY <1>1, <2>2, <2>4, <2>5, <2>6, <2>7 DEF ByHand, InUse, Remembers
  <2> QED
    BY <2>2, <2>8, ByHandSound
\* a row gets metric m, whose name is n
<1>5. ASSUME NEW c \in CatColumns, NEW m \in CatMetrics, ~scan.open, UNCHANGED <<catUnitOn, scan>>,
             steward' = [steward EXCEPT ![s] = Free], binding[c].status # "absent",
             binding' = [binding EXCEPT ![c].metric = m],
             touched' = touched \cup ({m, binding[c].metric} \ {NoMetric}),
             name' \in CatNames, name'[m] # NoName, \A x \in CatMetrics \ {m} : name'[x] = name[x]
      PROVE  CatalogInv'
  <2>1. binding[c] \in [metric: CatMetrics \cup {NoMetric}, status: Statuses, on: BOOLEAN]
    BY <1>2, <1>5, RowFields
  <2>2. PICK row : row = [metric |-> m, status |-> binding[c].status, on |-> binding[c].on]
    OBVIOUS
  <2>3. \A d \in CatColumns : binding'[d] = IF d = c THEN row ELSE binding[d]
    BY <1>1, <1>5, <2>1, <2>2 DEF CatRows
  <2>4. row \in CatBindings /\ row.metric = m /\ row.status # "absent"
    BY <1>5, <2>1, <2>2 DEF CatBindings
  <2>5. binding' \in CatRows
    BY <1>1, <1>5, <2>3, <2>4 DEF CatRows
  <2>6. touched' \subseteq CatMetrics /\ m \in touched' /\ touched \subseteq touched'
    BY <1>0, <1>1, <1>2, <1>5
  <2>7. InUse(binding', name')
    BY <1>1, <1>2, <1>5, <2>3, <2>4 DEF InUse
  <2>8. Remembers(name, name')
    BY <1>5 DEF Remembers
  <2>9. ByHand
    BY <1>5, <2>3, <2>4, <2>5, <2>6, <2>7, <2>8 DEF ByHand
  <2> QED
    BY <1>5, <2>9, ByHandSound
<1>6. CASE BindMetric(s)
  <2>1. PICK w : w = Wish(s)
    OBVIOUS
  <2>2. /\ steward[s] # Free /\ w.op = "bind" /\ ~scan.open /\ steward' = [steward EXCEPT ![s] = Free]
        /\ UNCHANGED <<catUnitOn, scan, name>> /\ binding' = [binding EXCEPT ![w.column].metric = w.metric]
        /\ touched' = touched \cup ({w.metric, binding[w.column].metric} \ {NoMetric})
    BY <1>6, <2>1 DEF BindMetric, Writes, Touches
  <2>3. w.column \in CatColumns /\ w.metric \in CatMetrics /\ binding[w.column].status # "absent" /\ name[w.metric] # NoName
    BY <1>1, <2>1, <2>2 DEF WishInv, RowExists
  <2> QED
    BY <1>1, <1>5, <2>2, <2>3
<1>7. CASE RegisterMetric(s)
  <2>1. PICK w : w = Wish(s)
    OBVIOUS
  <2>2. PICK m \in CatMetrics :
          /\ steward[s] # Free /\ w.op = "register" /\ ~scan.open /\ steward' = [steward EXCEPT ![s] = Free]
          /\ UNCHANGED <<catUnitOn, scan>> /\ name' = [name EXCEPT ![m] = w.name]
          /\ binding' = [binding EXCEPT ![w.column].metric = m]
          /\ touched' = touched \cup ({m, binding[w.column].metric} \ {NoMetric})
    BY <1>7, <2>1 DEF RegisterMetric, Writes, Touches
  <2>3. w.column \in CatColumns /\ w.name \in Names /\ binding[w.column].status # "absent"
    BY <1>1, <2>1, <2>2 DEF WishInv
  <2>4. name' \in CatNames /\ name'[m] # NoName /\ \A x \in CatMetrics \ {m} : name'[x] = name[x]
    BY <1>0, <1>1, <2>2, <2>3 DEF CatNames
  <2> QED
    BY <1>5, <2>2, <2>3, <2>4
<1>8. CASE RenameMetric(s)
  <2>1. PICK w : w = Wish(s)
    OBVIOUS
  <2>2. /\ steward[s] # Free /\ w.op = "rename" /\ ~scan.open /\ steward' = [steward EXCEPT ![s] = Free]
        /\ UNCHANGED <<catUnitOn, scan, binding>> /\ name' = [name EXCEPT ![w.metric] = w.name]
        /\ touched' = touched \cup ({w.metric} \ {NoMetric})
    BY <1>8, <2>1 DEF RenameMetric, Writes, Touches
  <2>3. w.metric \in CatMetrics /\ w.name \in Names
    BY <1>1, <2>1, <2>2 DEF WishInv
  <2>4. name' \in CatNames /\ name'[w.metric] # NoName /\ \A x \in CatMetrics \ {w.metric} : name'[x] = name[x]
    BY <1>0, <1>1, <2>2, <2>3 DEF CatNames
  <2>5. ByHand
    BY <1>0, <1>1, <1>2, <2>2, <2>3, <2>4 DEF ByHand, InUse, Remembers
  <2> QED
    BY <2>2, <2>5, ByHandSound
<1>9. CASE WriteDerived(s)
  <2>1. /\ ~scan.open /\ steward' = [steward EXCEPT ![s] = Free]
        /\ UNCHANGED <<catUnitOn, scan, binding, name, touched>>
    BY <1>9 DEF WriteDerived, Writes
  <2>2. ByHand
    BY <1>1, <2>1 DEF ByHand, InUse, Remembers
  <2> QED
    BY <2>1, <2>2, ByHandSound
<1> QED
  BY <1>3, <1>4, <1>6, <1>7, <1>8, <1>9 DEF StewardWrites

\* A request is read and judged.
LEMMA ReadsSound ==
  ASSUME CatalogInv, NEW s \in Stewards, StewardReads(s)
  PROVE  CatalogInv'
<1>1. UNCHANGED <<name, binding, catUnitOn, scan, touched>>
  BY DEF StewardReads
<1> DEFINE ReadFor(w) == CASE w.op = "status" -> binding[w.column]
                           [] w.op = "batch"  -> Confirmable(w.columns)
                           [] OTHER -> {}
<1>2. PICK w \in Wishes :
        /\ Accepted(w)
        /\ steward' = [steward EXCEPT ![s] = [pc |-> "write", wish |-> w, read |-> ReadFor(w)]]
  BY DEF StewardReads
<1> DEFINE read == ReadFor(w)
<1>3. w \in AllWishes
  BY CatalogAssumption
<1>4. WishInv(w, read)
  <2>1. CASE w.op = "status"
    <3>1. w.column \in CatColumns /\ w.status \in Statuses
      BY <1>3, <2>1 DEF AllWishes, Statuses
    <3>2. binding[w.column] # Unbound /\ read = binding[w.column]
      BY <1>2, <2>1 DEF Accepted
    <3> QED
      BY <2>1, <3>1, <3>2, RowFields DEF WishInv, CatalogInv, CatTypeOK
  <2>2. CASE w.op = "batch"
    <3>1. w.columns \subseteq CatColumns
      BY <1>3, <2>2 DEF AllWishes
    <3>2. read = Confirmable(w.columns)
      BY <1>2, <2>2
    <3> QED
      BY <2>2, <3>1, <3>2 DEF WishInv, Confirmable
  <2>3. CASE w.op = "bind"
    <3>1. w.column \in CatColumns /\ w.metric \in CatMetrics
      BY <1>3, <2>3 DEF AllWishes
    <3>2. Unregistered(w.column) /\ RowExists(w.metric)
      BY <1>2, <2>3 DEF Accepted
    <3> QED
      BY <2>3, <3>1, <3>2 DEF WishInv, Unregistered
  <2>4. CASE w.op = "register"
    <3>1. w.column \in CatColumns /\ w.name \in Names
      BY <1>3, <2>4 DEF AllWishes
    <3>2. Unregistered(w.column)
      BY <1>2, <2>4 DEF Accepted
    <3> QED
      BY <2>4, <3>1, <3>2 DEF WishInv, Unregistered
  <2>5. CASE w.op = "rename"
    <3>1. w.metric \in CatMetrics /\ w.name \in Names
      BY <1>3, <2>5 DEF AllWishes
    <3> QED
      BY <2>5, <3>1 DEF WishInv
  <2> QED
    BY <2>1, <2>2, <2>3, <2>4, <2>5 DEF WishInv
<1>5. StewardInv'
  <2>1. ASSUME NEW t \in Stewards, steward'[t] # Free PROVE WishInv(steward[t].wish, steward[t].read)'
    <3>1. PICK v, r : v = steward'[t].wish /\ r = steward'[t].read
      OBVIOUS
    <3>2. WishInv(v, r)
      BY <1>2, <1>4, <2>1, <3>1 DEF CatalogInv, StewardInv
    <3> QED
      BY <1>1, <3>1, <3>2 DEF WishInv, RowExists
  <2> QED
    BY <1>2, <2>1 DEF CatalogInv, StewardInv
<1>6. SessionInv' /\ Sound(touched', binding', name') /\ CatTypeOK'
  BY <1>1 DEF CatalogInv, SessionInv, CatTypeOK, ChangeInv, Rows, KnownName
<1> QED
  BY <1>5, <1>6 DEF CatalogInv
-----------------------------------------------------------------------------
(* The catalogue                                                           *)

LEMMA CatStepSound == CatalogInv /\ [CatNext]_catVars => CatalogInv'
<1> SUFFICES ASSUME CatalogInv, [CatNext]_catVars PROVE CatalogInv'
  OBVIOUS
<1>1. CASE ScanStart \/ ScanDies
  BY <1>1, FreshSession
<1>2. ASSUME NEW c \in CatColumns, ScanColumn(c) PROVE CatalogInv'
  BY <1>2, ColumnSound
<1>3. CASE ScanCommit
  BY <1>3, CommitScanSound
<1>4. ASSUME NEW s \in Stewards, StewardReads(s) PROVE CatalogInv'
  BY <1>4, ReadsSound
<1>5. ASSUME NEW s \in Stewards, StewardWrites(s) PROVE CatalogInv'
  BY <1>5, WritesSound
<1>6. CASE /\ UNCHANGED <<name, binding, scan, steward, touched>> /\ catUnitOn' \subseteq CatUnits
  BY <1>6 DEF CatalogInv, CatTypeOK, SessionInv, StewardInv, WishInv, RowExists, ChangeInv, Rows, KnownName
<1>7. ASSUME NEW u \in CatUnits, SwitchUnit(u) PROVE CatalogInv'
  <2>1. UNCHANGED <<name, binding, scan, steward, touched>> /\ catUnitOn' \subseteq CatUnits
    BY <1>7 DEF SwitchUnit, CatalogInv, CatTypeOK
  <2> QED
    BY <2>1, <1>6
<1>8. CASE UNCHANGED catVars
  <2>1. UNCHANGED <<name, binding, scan, steward, touched>> /\ catUnitOn' \subseteq CatUnits
    BY <1>8 DEF catVars, CatalogInv, CatTypeOK
  <2> QED
    BY <2>1, <1>6
<1> QED
  BY <1>1, <1>2, <1>3, <1>4, <1>5, <1>7, <1>8 DEF CatNext

\* Units of one metric that are all the same are at most one.
LEMMA AtMostOne == ASSUME NEW S, \A x, y \in S : x = y PROVE Cardinality(S) <= 1
<1>1. CASE S = {}
  BY <1>1, FS_EmptySet
<1>2. CASE S # {}
  <2>1. PICK x \in S : S = {x}
    BY <1>2
  <2> QED
    BY <2>1, FS_Singleton
<1> QED
  BY <1>1, <1>2

\* The tables have their rows and names in every state.
THEOREM CatalogTypes == CatSpec => []CatTypeOK
<1>1. CatalogInv => CatTypeOK
  BY DEF CatalogInv
<1> QED
  BY CatInitSound, CatStepSound, <1>1, PTL DEF CatSpec

\* The discovery gives no metric to two units by the bindings it adds, and
\* registers no second metric of a name, whatever maintainers write between
\* its statements and wherever it dies (discover_measurement_bindings).
THEOREM CatalogIsSafe == CatSpec => []CatalogSafe
<1>1. CatalogInv => CatalogSafe
  <2> SUFFICES ASSUME CatalogInv PROVE CatalogSafe
    OBVIOUS
  <2>1. ASSUME NEW m \in CatMetrics \ touched PROVE Cardinality(Owners(m)) <= 1
    <3>1. \A u, v \in Owners(m) : u = v
      BY DEF CatalogInv, Sound, OneUnit, Owners
    <3> HIDE DEF Owners
    <3> QED
      BY <3>1, AtMostOne
  <2>2. NameTwiceOnlyByHand
    BY DEF CatalogInv, Sound, OwnNames, NameTwiceOnlyByHand
  <2> QED
    BY <2>1, <2>2 DEF CatalogSafe, AddedBindingsOneOwner
<1> QED
  BY CatInitSound, CatStepSound, <1>1, PTL DEF CatSpec
-----------------------------------------------------------------------------
(* Sums over finite sets                                                   *)

\* h adds up V on the subsets of S, element by element, in the order of the
\* folds (MapThenSumSet).
Chosen(s) == CHOOSE x \in s : TRUE
Sums(S, V, h) ==
  h = [s \in SUBSET S |-> IF s = {} THEN 0 ELSE V[Chosen(s)] + h[s \ {Chosen(s)}]]

\* Induction over the numbers, as a fact about sets of them.
LEMMA AllNumbers ==
  ASSUME NEW T, 0 \in T, \A n \in Nat : n \in T => n + 1 \in T
  PROVE  Nat \subseteq T
<1> DEFINE U == Nat \ T
<1> SUFFICES ASSUME U # {} PROVE FALSE
  OBVIOUS
<1>1. PICK m \in U : \A y \in U : <<y, m>> \notin OpToRel(<, Nat)
  BY NatLessThanWellFounded, WFMin
<1>2. m \in Nat /\ m # 0 /\ m - 1 \in Nat /\ m - 1 < m
  OBVIOUS
<1>3. m - 1 \notin U
  <2> SUFFICES ASSUME m - 1 \in U PROVE FALSE
    OBVIOUS
  <2>1. <<m - 1, m>> \in OpToRel(<, Nat)
    BY <1>2, Zenon DEF OpToRel
  <2> QED
    BY <2>1, <1>1
<1>4. m - 1 + 1 = m /\ m - 1 \in T
  BY <1>2, <1>3
<1> QED
  BY <1>2, <1>4

\* The element a fold takes next is one of the set.
LEMMA ChosenIn == ASSUME NEW s, s # {} PROVE Chosen(s) \in s
  BY DEF Chosen

\* The subsets of S with at most n elements, and a function that adds up V on
\* them.
UpTo(S, n) == {s \in SUBSET S : Cardinality(s) <= n}
SumsUpTo(S, V, n, h) ==
  /\ h \in [UpTo(S, n) -> Int]
  /\ \A s \in UpTo(S, n) : h[s] = IF s = {} THEN 0 ELSE V[Chosen(s)] + h[s \ {Chosen(s)}]

\* Sums of subsets with at most n elements extend to one element more.
LEMMA SumsGrow ==
  ASSUME NEW S, IsFiniteSet(S), NEW V \in [S -> Int], NEW n \in Nat, NEW g, SumsUpTo(S, V, n, g)
  PROVE  \E h : SumsUpTo(S, V, n + 1, h)
<1> DEFINE h == [s \in UpTo(S, n + 1) |-> IF s = {} THEN 0 ELSE V[Chosen(s)] + g[s \ {Chosen(s)}]]
<1>1. \A s \in UpTo(S, n + 1) : s # {} => Chosen(s) \in S /\ s \ {Chosen(s)} \in UpTo(S, n)
  <2> SUFFICES ASSUME NEW s \in UpTo(S, n + 1), s # {} PROVE Chosen(s) \in S /\ s \ {Chosen(s)} \in UpTo(S, n)
    OBVIOUS
  <2>1. Chosen(s) \in s /\ s \in SUBSET S /\ Cardinality(s) <= n + 1
    BY ChosenIn DEF UpTo
  <2>2. IsFiniteSet(s)
    BY <2>1, FS_Subset
  <2>3. Cardinality(s) \in Nat /\ Cardinality(s \ {Chosen(s)}) = Cardinality(s) - 1
    BY <2>1, <2>2, FS_CardinalityType, FS_RemoveElement
  <2> QED
    BY <2>1, <2>3 DEF UpTo
<1>2. UpTo(S, n) \subseteq UpTo(S, n + 1)
  <2> SUFFICES ASSUME NEW s \in UpTo(S, n) PROVE s \in UpTo(S, n + 1)
    OBVIOUS
  <2>1. s \in SUBSET S /\ Cardinality(s) <= n /\ Cardinality(s) \in Nat
    BY FS_Subset, FS_CardinalityType DEF UpTo
  <2> QED
    BY <2>1 DEF UpTo
<1>3. h \in [UpTo(S, n + 1) -> Int]
  BY <1>1 DEF SumsUpTo
<1>4. \A s \in UpTo(S, n) : h[s] = g[s]
  BY <1>2 DEF SumsUpTo
<1>5. \A s \in UpTo(S, n + 1) : h[s] = IF s = {} THEN 0 ELSE V[Chosen(s)] + h[s \ {Chosen(s)}]
  BY <1>1, <1>4
<1> HIDE DEF h
<1> QED
  BY <1>3, <1>5 DEF SumsUpTo

\* A finite set can be added up.
LEMMA SumExists ==
  ASSUME NEW S, IsFiniteSet(S), NEW V \in [S -> Int]
  PROVE  \E h \in [SUBSET S -> Int] : Sums(S, V, h)
<1> DEFINE T == {n \in Nat : \E h : SumsUpTo(S, V, n, h)}
<1>1. 0 \in T
  <2> DEFINE h == [s \in UpTo(S, 0) |-> 0]
  <2>1. UpTo(S, 0) = {{}}
    <3>1. \A s \in SUBSET S : Cardinality(s) <= 0 <=> s = {}
      BY FS_Subset, FS_CardinalityType, FS_EmptySet
    <3> QED
      BY <3>1 DEF UpTo
  <2>2. SumsUpTo(S, V, 0, h)
    BY <2>1 DEF SumsUpTo
  <2> QED
    BY <2>2
<1>2. \A n \in Nat : n \in T => n + 1 \in T
  BY SumsGrow
<1>3. Cardinality(S) \in T
  <2> HIDE DEF T
  <2> QED
    BY <1>1, <1>2, AllNumbers, FS_CardinalityType
<1>4. PICK h : SumsUpTo(S, V, Cardinality(S), h)
  BY <1>3
<1>5. UpTo(S, Cardinality(S)) = SUBSET S
  BY FS_Subset DEF UpTo
<1>6. h \in [SUBSET S -> Int]
  BY <1>4, <1>5 DEF SumsUpTo
<1>7. \A s \in SUBSET S : h[s] = IF s = {} THEN 0 ELSE V[Chosen(s)] + h[s \ {Chosen(s)}]
  BY <1>4, <1>5 DEF SumsUpTo
<1>8. Sums(S, V, h)
  BY <1>6, <1>7 DEF Sums
<1> QED
  BY <1>6, <1>8

\* The sum over one element.
LEMMA SumOne ==
  ASSUME NEW p, NEW V, V[p] \in Int, NEW h, Sums({p}, V, h)
  PROVE  h[{p}] = V[p]
<1>1. Chosen({p}) = p /\ {p} \ {p} = {} /\ {p} # {}
  BY ChosenIn
<1>2. h[{}] = 0
  BY DEF Sums
<1>3. h[{p}] = V[p] + h[{}]
  BY <1>1, {p} \in SUBSET {p}, Zenon DEF Sums
<1>4. PICK v \in Int : v = V[p]
  OBVIOUS
<1> QED
  BY <1>2, <1>3, <1>4

\* A finite set without one of its elements has one less.
LEMMA OneLess ==
  ASSUME NEW s, IsFiniteSet(s), NEW n \in Nat, Cardinality(s) = n + 1, NEW x \in s
  PROVE  Cardinality(s \ {x}) = n
<1>1. Cardinality(s \ {x}) = Cardinality(s) - 1
  BY FS_RemoveElement
<1> QED
  BY <1>1

\* What is left of a family when one of its disjoint members is taken away.
Joined(P, s) == UNION {P[g] : g \in s}

\* The sizes of disjoint sets add up to the size of their union.
LEMMA SumCounts ==
  ASSUME NEW S, IsFiniteSet(S), NEW P, NEW V, NEW h, Sums(S, V, h),
         \A g \in S : IsFiniteSet(P[g]) /\ V[g] = Cardinality(P[g]),
         \A g, k \in S : g # k => P[g] \cap P[k] = {}
  PROVE  IsFiniteSet(Joined(P, S)) /\ h[S] = Cardinality(Joined(P, S))
<1> DEFINE Counted(s) == IsFiniteSet(Joined(P, s)) /\ h[s] = Cardinality(Joined(P, s))
           T == {n \in Nat : \A s \in SUBSET S : Cardinality(s) = n => Counted(s)}
<1>0. \A s \in SUBSET S : IsFiniteSet(s) /\ Cardinality(s) \in Nat
  BY FS_Subset, FS_CardinalityType
<1>1. Counted({})
  <2>1. Joined(P, {}) = {} /\ h[{}] = 0
    BY DEF Joined, Sums
  <2> QED
    BY <2>1, FS_EmptySet
<1>2. 0 \in T
  BY <1>0, <1>1, FS_EmptySet
<1>3. ASSUME NEW n \in Nat, n \in T PROVE n + 1 \in T
  <2> SUFFICES ASSUME NEW s \in SUBSET S, Cardinality(s) = n + 1 PROVE Counted(s)
    OBVIOUS
  <2>1. IsFiniteSet(s) /\ s # {}
    BY <1>0, FS_EmptySet
  <2>2. PICK x \in s : x = Chosen(s)
    BY <2>1, ChosenIn
  <2>3. PICK r \in SUBSET S : r = s \ {x}
    OBVIOUS
  <2>4. Cardinality(r) = n
    BY <2>1, <2>3, OneLess
  <2>5. Counted(r)
    BY <1>3, <2>4
  <2>6. Joined(P, s) = Joined(P, r) \cup P[x]
    BY <2>3 DEF Joined
  <2>7. Joined(P, r) \cap P[x] = {}
    BY <2>3 DEF Joined
  <2>8. h[s] = V[x] + h[r]
    BY <2>1, <2>2, <2>3 DEF Sums
  <2>9. V[x] = Cardinality(P[x]) /\ IsFiniteSet(P[x])
    OBVIOUS
  <2>10. /\ IsFiniteSet(Joined(P, r) \cup P[x])
         /\ Cardinality(Joined(P, r) \cup P[x]) = Cardinality(Joined(P, r)) + Cardinality(P[x])
                                                   - Cardinality(Joined(P, r) \cap P[x])
    BY <2>5, <2>9, FS_Union
  <2>11. Cardinality(P[x]) \in Nat /\ Cardinality(Joined(P, r)) \in Nat /\ Cardinality({}) = 0
    BY <2>5, <2>9, FS_CardinalityType, FS_EmptySet
  <2>12. Cardinality(Joined(P, s)) = Cardinality(Joined(P, r)) + Cardinality(P[x]) - 0
    BY <2>6, <2>7, <2>10, <2>11
  <2>13. Cardinality(Joined(P, s)) = V[x] + h[r]
    <3>1. PICK i \in Nat, j \in Nat : i = Cardinality(P[x]) /\ j = Cardinality(Joined(P, r))
      BY <2>11
    <3> QED
      BY <2>5, <2>9, <2>12, <3>1
  <2> QED
    BY <2>6, <2>8, <2>10, <2>13
<1>4. Cardinality(S) \in T
  <2> HIDE DEF T
  <2> QED
    BY <1>0, <1>2, <1>3, AllNumbers
<1> QED
  BY <1>4

\* The sums of the model are what the recursion says.

\* The counters of a summary, as such a sum.
LEMMA ValidFold ==
  ASSUME NEW S, IsFiniteSet(S), \A p \in S : p.valid \in Int
  PROVE  \E h : Sums(S, [p \in S |-> p.valid], h) /\ MapThenSumSet(LAMBDA g : g.valid, S) = h[S]
<1> DEFINE V == [p \in S |-> p.valid]
           It(f) == f = [s \in SUBSET S |->
                           IF s = {} THEN 0 ELSE (CHOOSE x \in s : TRUE).valid + f[s \ {CHOOSE x \in s : TRUE}]]
<1>1. \A f : It(f) <=> Sums(S, V, f)
  <2> SUFFICES ASSUME NEW f PROVE It(f) <=> Sums(S, V, f)
    OBVIOUS
  <2>1. \A s \in SUBSET S : s # {} => V[Chosen(s)] = (CHOOSE x \in s : TRUE).valid
    BY DEF Chosen
  <2> QED
    BY <2>1, Zenon DEF Sums, Chosen
<1>2. MapThenSumSet(LAMBDA g : g.valid, S) = (CHOOSE f : It(f))[S]
  BY DEF MapThenSumSet, MapThenFoldSet
<1>3. PICK h0 : Sums(S, V, h0)
  BY SumExists
<1>4. It(h0)
  BY <1>1, <1>3
<1> HIDE DEF It, V
<1>5. It(CHOOSE f : It(f))
  BY <1>4
<1> QED
  BY <1>1, <1>2, <1>5 DEF V


\* So are the values of readings,
LEMMA ValueFold ==
  ASSUME NEW S, IsFiniteSet(S), \A p \in S : p.value \in Int
  PROVE  \E h : Sums(S, [p \in S |-> p.value], h) /\ SumOf(S) = h[S]
<1> DEFINE V == [p \in S |-> p.value]
           It(f) == f = [s \in SUBSET S |->
                           IF s = {} THEN 0 ELSE (CHOOSE x \in s : TRUE).value + f[s \ {CHOOSE x \in s : TRUE}]]
<1>1. \A f : It(f) <=> Sums(S, V, f)
  <2> SUFFICES ASSUME NEW f PROVE It(f) <=> Sums(S, V, f)
    OBVIOUS
  <2>1. \A s \in SUBSET S : s # {} => V[Chosen(s)] = (CHOOSE x \in s : TRUE).value
    BY DEF Chosen
  <2> QED
    BY <2>1, Zenon DEF Sums, Chosen
<1>2. SumOf(S) = (CHOOSE f : It(f))[S]
  BY DEF SumOf, MapThenSumSet, MapThenFoldSet
<1>3. PICK h0 : Sums(S, V, h0)
  BY SumExists
<1>4. It(h0)
  BY <1>1, <1>3
<1> HIDE DEF It, V
<1>5. It(CHOOSE f : It(f))
  BY <1>4
<1> QED
  BY <1>1, <1>2, <1>5 DEF V


\* the numerators of pairs,
LEMMA NumFold ==
  ASSUME NEW S, IsFiniteSet(S), \A p \in S : p.num \in Int
  PROVE  \E h : Sums(S, [p \in S |-> p.num], h) /\ NumSum(S) = h[S]
<1> DEFINE V == [p \in S |-> p.num]
           It(f) == f = [s \in SUBSET S |->
                           IF s = {} THEN 0 ELSE (CHOOSE x \in s : TRUE).num + f[s \ {CHOOSE x \in s : TRUE}]]
<1>1. \A f : It(f) <=> Sums(S, V, f)
  <2> SUFFICES ASSUME NEW f PROVE It(f) <=> Sums(S, V, f)
    OBVIOUS
  <2>1. \A s \in SUBSET S : s # {} => V[Chosen(s)] = (CHOOSE x \in s : TRUE).num
    BY DEF Chosen
  <2> QED
    BY <2>1, Zenon DEF Sums, Chosen
<1>2. NumSum(S) = (CHOOSE f : It(f))[S]
  BY DEF NumSum, MapThenSumSet, MapThenFoldSet
<1>3. PICK h0 : Sums(S, V, h0)
  BY SumExists
<1>4. It(h0)
  BY <1>1, <1>3
<1> HIDE DEF It, V
<1>5. It(CHOOSE f : It(f))
  BY <1>4
<1> QED
  BY <1>1, <1>2, <1>5 DEF V


\* and their denominators.
LEMMA DenFold ==
  ASSUME NEW S, IsFiniteSet(S), \A p \in S : p.den \in Int
  PROVE  \E h : Sums(S, [p \in S |-> p.den], h) /\ DenSum(S) = h[S]
<1> DEFINE V == [p \in S |-> p.den]
           It(f) == f = [s \in SUBSET S |->
                           IF s = {} THEN 0 ELSE (CHOOSE x \in s : TRUE).den + f[s \ {CHOOSE x \in s : TRUE}]]
<1>1. \A f : It(f) <=> Sums(S, V, f)
  <2> SUFFICES ASSUME NEW f PROVE It(f) <=> Sums(S, V, f)
    OBVIOUS
  <2>1. \A s \in SUBSET S : s # {} => V[Chosen(s)] = (CHOOSE x \in s : TRUE).den
    BY DEF Chosen
  <2> QED
    BY <2>1, Zenon DEF Sums, Chosen
<1>2. DenSum(S) = (CHOOSE f : It(f))[S]
  BY DEF DenSum, MapThenSumSet, MapThenFoldSet
<1>3. PICK h0 : Sums(S, V, h0)
  BY SumExists
<1>4. It(h0)
  BY <1>1, <1>3
<1> HIDE DEF It, V
<1>5. It(CHOOSE f : It(f))
  BY <1>4
<1> QED
  BY <1>1, <1>2, <1>5 DEF V

\* One reading, or one pair, adds up to itself.
LEMMA SumOfOne == ASSUME NEW p, p.value \in Int PROVE SumOf({p}) = p.value
<1>1. PICK h : Sums({p}, [q \in {p} |-> q.value], h) /\ SumOf({p}) = h[{p}]
  BY ValueFold, FS_Singleton
<1> QED
  BY <1>1, SumOne

\* The numerator of one pair.
LEMMA NumOfOne == ASSUME NEW p, p.num \in Int PROVE NumSum({p}) = p.num
<1>1. PICK h : Sums({p}, [q \in {p} |-> q.num], h) /\ NumSum({p}) = h[{p}]
  BY NumFold, FS_Singleton
<1> QED
  BY <1>1, SumOne

\* The denominator of one pair.
LEMMA DenOfOne == ASSUME NEW p, p.den \in Int PROVE DenSum({p}) = p.den
<1>1. PICK h : Sums({p}, [q \in {p} |-> q.den], h) /\ DenSum({p}) = h[{p}]
  BY DenFold, FS_Singleton
<1> QED
  BY <1>1, SumOne
-----------------------------------------------------------------------------
(* One reading at its threshold                                            *)

PointSet == [object: Nat, time: Int, value: Int \cup {Nil}, file: Nat]

\* The readings of one object at one time, and what they count as.
ReadAt(A, o, t) == {q \in A : q.object = o /\ q.time = t}
Entry(A, o, t)  == [object |-> o, time |-> t, value |-> Mean(Readable(ReadAt(A, o, t)))]

\* Readings of one time are one entry (_dedupe_points).
LEMMA DedupEntries == ASSUME NEW A PROVE Dedup(A) = {Entry(A, q.object, q.time) : q \in A}
<1>1. \A q \in A : {p \in A : <<p.object, p.time>> = <<q.object, q.time>>} = ReadAt(A, q.object, q.time)
  BY DEF ReadAt
<1> DEFINE Of(k) == [object |-> k[1], time |-> k[2],
                     value |-> Mean(Readable({p \in A : <<p.object, p.time>> = k}))]
<1>2. \A q \in A : Of(<<q.object, q.time>>) = Entry(A, q.object, q.time)
  BY <1>1 DEF Entry
<1>3. Dedup(A) = {Of(k) : k \in {<<p.object, p.time>> : p \in A}}
  BY DEF Dedup
<1> HIDE DEF Of
<1>4. {Of(k) : k \in {<<p.object, p.time>> : p \in A}} = {Of(<<q.object, q.time>>) : q \in A}
  OBVIOUS
<1> QED
  BY <1>2, <1>3, <1>4

\* The mean of one reading is its value.
LEMMA MeanOfOne == ASSUME NEW p, p.value \in Int PROVE Mean({p}) = p.value
<1>1. SumOf({p}) = p.value /\ Cardinality({p}) = 1 /\ {p} # {}
  BY SumOfOne, FS_Singleton
<1>2. PICK v \in Int : v = p.value
  OBVIOUS
<1>3. v \div 1 = v
  BY <1>2
<1> QED
  BY <1>1, <1>2, <1>3 DEF Mean

\* The reading that is alone on its day is the only entry of its object then.
LEMMA AloneEntry ==
  ASSUME NEW A \in SUBSET PointSet, NEW d, NEW p \in OnDay(Readable(A), d), Alone(p, A, d)
  PROVE  OnDay(OfObject(Dedup(A), p.object), d) = {[object |-> p.object, time |-> p.time, value |-> p.value]}
<1>1. p \in A /\ p.value \in Int /\ Day(p.time) = d
  BY DEF OnDay, Readable, PointSet
<1>2. \A q \in A : q.object = p.object /\ Day(q.time) = d => q = p
  BY Zenon DEF Alone, OnDay, OfObject
<1>3. ReadAt(A, p.object, p.time) = {p}
  BY <1>1, <1>2 DEF ReadAt
<1>4. Readable({p}) = {p}
  BY <1>1, WorkbenchAssumption DEF Readable, WorkbenchAssumption
<1>5. Entry(A, p.object, p.time) = [object |-> p.object, time |-> p.time, value |-> p.value]
  BY <1>1, <1>3, <1>4, MeanOfOne DEF Entry
<1>6. Entry(A, p.object, p.time) \in Dedup(A)
  BY <1>1, DedupEntries
<1>7. ASSUME NEW x \in OnDay(OfObject(Dedup(A), p.object), d)
      PROVE  x = Entry(A, p.object, p.time)
  <2>1. x \in Dedup(A) /\ x.object = p.object /\ Day(x.time) = d
    BY <1>7 DEF OnDay, OfObject
  <2>2. PICK q \in A : x = Entry(A, q.object, q.time)
    BY <2>1, DedupEntries
  <2>3. q.object = p.object /\ Day(q.time) = d
    BY <2>1, <2>2 DEF Entry
  <2> QED
    BY <1>2, <2>2, <2>3
<1>8. Entry(A, p.object, p.time) \in OnDay(OfObject(Dedup(A), p.object), d)
  BY <1>1, <1>5, <1>6 DEF OnDay, OfObject
<1> QED
  BY <1>5, <1>7, <1>8

\* A nonempty set of numbers has a least one.
LEMMA LeastNumber ==
  ASSUME NEW U, U \subseteq Nat, U # {}
  PROVE  \E m \in U : \A y \in U : m <= y
<1>1. PICK m \in U : \A y \in U : <<y, m>> \notin OpToRel(<, Nat)
  BY NatLessThanWellFounded, WFMin
<1>2. \A y \in U : m <= y
  <2> TAKE y \in U
  <2>1. y \in Nat /\ m \in Nat
    OBVIOUS
  <2>2. ~(y < m)
    BY <1>1, <2>1, Zenon DEF OpToRel
  <2> QED
    BY <2>1, <2>2
<1> QED
  BY <1>2

\* Nothing is worse than a failure.
LEMMA WorstFail == ASSUME NEW S, "fail" \in S PROVE Worst(StatusPriority, S) = "fail"
<1> DEFINE D == {i \in DOMAIN StatusPriority : StatusPriority[i] \in S}
<1>1. DOMAIN StatusPriority = 1..6 /\ StatusPriority[1] = "fail"
  BY DEF StatusPriority
<1>2. 1 \in D /\ \A i \in D : 1 <= i /\ i \in Int
  BY <1>1
<1> HIDE DEF D
<1>3. Min(D) = 1
  BY <1>2 DEF Min
<1> QED
  BY <1>1, <1>3 DEF Worst, D

\* The worst status is one of the statuses.
LEMMA WorstIn ==
  ASSUME NEW S, NEW s \in S, s \in HealthStatuses
  PROVE  Worst(StatusPriority, S) \in S \cap HealthStatuses
<1> DEFINE D == {i \in DOMAIN StatusPriority : StatusPriority[i] \in S}
<1>1. DOMAIN StatusPriority = 1..6 /\ HealthStatuses = {StatusPriority[i] : i \in 1..6}
  BY DEF StatusPriority, HealthStatuses, ToSet
<1>2. D \in SUBSET (1..6) /\ D # {}
  BY <1>1
<1>3. Min(D) \in D
  <2> HIDE DEF D
  <2>1. \E i \in D : \A j \in D : i <= j
    <3>1. D \subseteq Nat
      BY <1>2
    <3> QED
      BY <1>2, <3>1, LeastNumber
  <2> QED
    BY <2>1 DEF Min
<1> QED
  BY <1>1, <1>3 DEF Worst

\* A nonempty set of groups has a first one.
LEMMA FirstIn ==
  ASSUME NEW G, G # {}, \A g \in G : g.object \in Nat
  PROVE  FirstOf(G) \in G
<1> DEFINE U == {g.object : g \in G}
<1>1. U \subseteq Nat /\ U # {}
  OBVIOUS
<1> HIDE DEF U
<1>2. PICK m \in U : \A y \in U : m <= y
  BY <1>1, LeastNumber
<1> USE DEF U
<1>3. PICK g \in G : m = g.object
  OBVIOUS
<1>4. \A h \in G : g.object <= h.object
  BY <1>2, <1>3
<1> QED
  BY <1>4 DEF FirstOf

\* A group at its critical threshold decides, and gives the reason.
LEMMA SummaryFails ==
  ASSUME NEW G, NEW g \in G, g.status = "fail", \A h \in G : h.object \in Nat,
         \A h \in G : h.status = "fail" => h.reason = "critical_threshold"
  PROVE  Summary(G).status = "fail" /\ Summary(G).reason = "critical_threshold"
<1> DEFINE F == {h \in G : h.status = "fail"}
<1>1. "fail" \in {h.status : h \in G}
  OBVIOUS
<1>2. Worst(StatusPriority, {h.status : h \in G}) = "fail"
  BY <1>1, WorstFail
<1>3. F # {} /\ \A h \in F : h.object \in Nat /\ h.reason = "critical_threshold"
  OBVIOUS
<1> HIDE DEF F
<1>4. FirstOf(F).reason = "critical_threshold"
  BY <1>3, FirstIn
<1> QED
  BY <1>2, <1>4 DEF Summary, F

\* However it aggregates, a bucket of one reading has its value (aggregate_daily_bucket).
LEMMA BucketOfOne ==
  ASSUME NEW q, q.value \in Int, q.time \in Int, NEW agg \in {"latest", "sum", "max", "min", "mean"}
  PROVE  /\ Bucket({q}, agg).value = q.value /\ Bucket({q}, agg).valid = 1
         /\ Bucket({q}, agg).denominator = Nil /\ Bucket({q}, agg).status = "ok"
<1>1. q.value # Nil
  BY WorkbenchAssumption DEF WorkbenchAssumption
<1>2. Readable({q}) = {q} /\ {q} # {} /\ Cardinality({q}) = 1
  BY <1>1, FS_Singleton DEF Readable
<1>3. Folded({q}, agg) = q.value
  <2>1. CASE agg = "latest"
    <3>1. (CHOOSE p \in {q} : \A r \in {q} : r.time <= p.time) = q
      OBVIOUS
    <3> QED
      BY <2>1, <3>1 DEF Folded
  <2>2. CASE agg = "sum"
    BY <2>2, SumOfOne DEF Folded
  <2>3. CASE agg = "max"
    <3>1. {p.value : p \in {q}} = {q.value}
      OBVIOUS
    <3>2. Max({q.value}) = q.value
      BY DEF Max
    <3> QED
      BY <2>3, <3>1, <3>2 DEF Folded
  <2>4. CASE agg = "min"
    <3>1. {p.value : p \in {q}} = {q.value}
      OBVIOUS
    <3>2. Min({q.value}) = q.value
      BY DEF Min
    <3> QED
      BY <2>4, <3>1, <3>2 DEF Folded
  <2>5. CASE agg = "mean"
    BY <2>5, MeanOfOne DEF Folded
  <2> QED
    BY <2>1, <2>2, <2>3, <2>4, <2>5
<1> QED
  BY <1>2, <1>3 DEF Bucket, NoBucket

\* Only the critical threshold makes a group fail.
LEMMA JudgeFails ==
  ASSUME NEW b, NEW cfg, NEW zero, Judge(b, cfg, zero)[1] = "fail"
  PROVE  Judge(b, cfg, zero)[2] = "critical_threshold"
  BY DEF Judge

\* And it does so unless the group has no value, or only zeros.
LEMMA JudgeBreach ==
  ASSUME NEW b, NEW cfg, b.denominator # 0, b.valid = 1, Reaches(b.value, cfg.critical, cfg),
         cfg.direction \in {"higher_better", "lower_better"}
  PROVE  Judge(b, cfg, FALSE)[1] = "fail"
  BY DEF Judge, Reaches

\* A reading beyond the critical threshold, alone on its day, fails its metric.
LEMMA BaseBreachFails ==
  ASSUME NEW A \in SUBSET PointSet, NEW cfg, NEW d, NEW p \in OnDay(Readable(A), d), Alone(p, A, d),
         p.value # 0, Reaches(p.value, cfg.critical, cfg),
         cfg.direction \in {"higher_better", "lower_better"},
         cfg.aggregation \in {"latest", "sum", "max", "min", "mean"}
  PROVE  BaseHealth(A, cfg, d).status = "fail" /\ BaseHealth(A, cfg, d).reason = "critical_threshold"
<1> DEFINE ps == Dedup(A)
           o  == p.object
           q  == [object |-> o, time |-> p.time, value |-> p.value]
           G  == {BaseGroup(x, OfObject(ps, x), cfg, d) : x \in ObjectsOf(ps)}
<1>1. p \in A /\ p.value \in Int /\ p.time \in Int /\ p.object \in Nat
  BY DEF OnDay, Readable, PointSet
<1>2. OnDay(OfObject(ps, o), d) = {q}
  BY AloneEntry
<1>3. q \in ps /\ o \in ObjectsOf(ps)
  <2>1. q \in OnDay(OfObject(ps, o), d)
    BY <1>2
  <2>2. q \in ps
    BY <2>1 DEF OnDay, OfObject
  <2> QED
    BY <2>2 DEF ObjectsOf
<1>4. Judge(Bucket({q}, cfg.aggregation), cfg, \A r \in Readable({q}) : r.value = 0)[1] = "fail"
  <2>1. q.value = p.value /\ q.time = p.time
    OBVIOUS
  <2> HIDE DEF q
  <2>2. q \in Readable({q})
    BY <1>1, <2>1, WorkbenchAssumption DEF Readable, WorkbenchAssumption
  <2>3. (\A r \in Readable({q}) : r.value = 0) = FALSE
    BY <2>1, <2>2
  <2>4. /\ Bucket({q}, cfg.aggregation).value = p.value /\ Bucket({q}, cfg.aggregation).valid = 1
        /\ Bucket({q}, cfg.aggregation).denominator # 0
    <3>1. Nil # 0
      BY WorkbenchAssumption DEF WorkbenchAssumption
    <3>2. q.value \in Int /\ q.time \in Int
      BY <1>1, <2>1
    <3> QED
      BY <2>1, <3>1, <3>2, BucketOfOne, Zenon
  <2> QED
    BY <2>3, <2>4, JudgeBreach
<1>5. BaseGroup(o, OfObject(ps, o), cfg, d).status = "fail"
  <2>1. BaseGroup(o, OfObject(ps, o), cfg, d)
        = Group(o, Judge(Bucket({q}, cfg.aggregation), cfg, \A r \in Readable({q}) : r.value = 0),
                Bucket({q}, cfg.aggregation), Bucket(OnDay(OfObject(ps, o), d - 1), cfg.aggregation), cfg)
    BY <1>2, Zenon DEF BaseGroup
  <2>2. \A v, t, y : v[1] = "fail" => Group(o, v, t, y, cfg).status = "fail"
    BY DEF Group
  <2> QED
    BY <1>4, <2>1, <2>2, Zenon
<1>6. \A g \in G : g.object \in Nat /\ (g.status = "fail" => g.reason = "critical_threshold")
  <2> SUFFICES ASSUME NEW x \in ObjectsOf(ps)
               PROVE  LET g == BaseGroup(x, OfObject(ps, x), cfg, d)
                      IN g.object \in Nat /\ (g.status = "fail" => g.reason = "critical_threshold")
    OBVIOUS
  <2>1. x \in Nat
    <3>1. PICK y \in A : x = Entry(A, y.object, y.time).object
      BY DedupEntries DEF ObjectsOf
    <3> QED
      BY <3>1 DEF Entry, PointSet
  <2> QED
    BY <2>1, JudgeFails DEF BaseGroup, Group
<1>7. ps # {} /\ BaseGroup(o, OfObject(ps, o), cfg, d) \in G
  BY <1>3
<1> HIDE DEF G, ps
<1>8. Summary(G).status = "fail" /\ Summary(G).reason = "critical_threshold"
  BY <1>5, <1>6, <1>7, SummaryFails
<1> QED
  BY <1>7, <1>8 DEF BaseHealth, G, ps
-----------------------------------------------------------------------------
(* One pair at its threshold                                               *)

\* A sum of numbers is a number.
LEMMA SumIsNumber ==
  ASSUME NEW S, IsFiniteSet(S), NEW V \in [S -> Int], NEW h, Sums(S, V, h)
  PROVE  h[S] \in Int
<1> DEFINE T == {n \in Nat : \A s \in SUBSET S : Cardinality(s) = n => h[s] \in Int}
<1>0. \A s \in SUBSET S : IsFiniteSet(s) /\ Cardinality(s) \in Nat
  BY FS_Subset, FS_CardinalityType
<1>1. 0 \in T
  <2>1. h[{}] = 0
    BY DEF Sums
  <2> QED
    BY <1>0, <2>1, FS_EmptySet
<1>2. ASSUME NEW n \in Nat, n \in T PROVE n + 1 \in T
  <2> SUFFICES ASSUME NEW s \in SUBSET S, Cardinality(s) = n + 1 PROVE h[s] \in Int
    OBVIOUS
  <2>1. IsFiniteSet(s) /\ s # {}
    BY <1>0, FS_EmptySet
  <2>2. PICK x \in s : x = Chosen(s)
    BY <2>1, ChosenIn
  <2>3. PICK r \in SUBSET S : r = s \ {x}
    OBVIOUS
  <2>4. h[r] \in Int
    BY <1>2, <2>1, <2>3, OneLess
  <2>5. h[s] = V[x] + h[r]
    BY <2>1, <2>2, <2>3 DEF Sums
  <2> QED
    BY <2>4, <2>5
<1>3. Cardinality(S) \in T
  <2> HIDE DEF T
  <2> QED
    BY <1>0, <1>1, <1>2, AllNumbers
<1> QED
  BY <1>3

\* So is a mean.
LEMMA MeanIsNumber ==
  ASSUME NEW S, IsFiniteSet(S), S # {}, \A p \in S : p.value \in Int
  PROVE  Mean(S) \in Int
<1>1. PICK h : Sums(S, [p \in S |-> p.value], h) /\ SumOf(S) = h[S]
  BY ValueFold
<1>2. SumOf(S) \in Int
  BY <1>1, SumIsNumber
<1>3. Cardinality(S) \in Nat /\ Cardinality(S) # 0
  BY FS_CardinalityType, FS_EmptySet
<1>4. SumOf(S) \div Cardinality(S) \in Int
  BY <1>2, <1>3
<1> QED
  BY <1>4 DEF Mean

\* An entry has the object and the time of readings, and if it is readable a number.
LEMMA EntryTyped ==
  ASSUME NEW A \in SUBSET PointSet, IsFiniteSet(A), NEW x \in Dedup(A)
  PROVE  /\ x.object \in Nat /\ x.time \in Int /\ (x.value # Nil => x.value \in Int)
         /\ \E q \in A : x = Entry(A, q.object, q.time)
<1>1. PICK q \in A : x = Entry(A, q.object, q.time)
  BY DedupEntries
<1>2. x.object = q.object /\ x.time = q.time /\ x.value = Mean(Readable(ReadAt(A, q.object, q.time)))
  BY <1>1 DEF Entry
<1> DEFINE S == Readable(ReadAt(A, q.object, q.time))
<1>3. S \in SUBSET A /\ \A p \in S : p.value \in Int
  BY DEF Readable, ReadAt, PointSet
<1>4. S # {} => Mean(S) \in Int
  BY <1>3, FS_Subset, MeanIsNumber
<1>5. S = {} => Mean(S) = Nil
  BY DEF Mean
<1>6. x.value # Nil => x.value \in Int
  BY <1>2, <1>4, <1>5
<1> QED
  BY <1>1, <1>2, <1>6 DEF PointSet

\* The pairs of two parts, and the rate reported beside one of them.
Matched(N, D) == {x \in Readable(Dedup(N)) \X Readable(Dedup(D)) : x[1].object = x[2].object /\ x[1].time = x[2].time}
RawAt(R, o, t) == LET told == {r \in Dedup(R) : r.object = o /\ r.time = t}
                  IN IF told = {} THEN Nil ELSE (CHOOSE r \in told : TRUE).value
PairOf(x, R) == [object |-> x[1].object, time |-> x[1].time, num |-> x[1].value, den |-> x[2].value,
                 raw |-> RawAt(R, x[1].object, x[1].time)]

\* The pairs are those of matching entries.
LEMMA PairsAre == ASSUME NEW N, NEW D, NEW R PROVE Pairs(N, D, R) = {PairOf(x, R) : x \in Matched(N, D)}
  BY Zenon DEF Pairs, Matched, PairOf, RawAt

\* What matches has numbers.
LEMMA MatchedTyped ==
  ASSUME NEW N \in SUBSET PointSet, NEW D \in SUBSET PointSet, IsFiniteSet(N), IsFiniteSet(D),
         NEW x \in Matched(N, D)
  PROVE  x[1].object \in Nat /\ x[1].time \in Int /\ x[1].value \in Int /\ x[2].value \in Int
<1>1. x[1] \in Dedup(N) /\ x[1].value # Nil /\ x[2] \in Dedup(D) /\ x[2].value # Nil
  BY DEF Matched, Readable
<1> QED
  BY <1>1, EntryTyped

\* The pair that is alone on its day is the only one of its object then,
\* whatever rates are reported.
LEMMA AlonePair ==
  ASSUME NEW N, NEW D, NEW R, NEW d, NEW p \in OnDay(Pairs(N, D, {}), d), Alone(p, Pairs(N, D, {}), d)
  PROVE  \E x \in Matched(N, D) :
           p = PairOf(x, {}) /\ OnDay(OfObject(Pairs(N, D, R), p.object), d) = {PairOf(x, R)}
<1>1. p \in Pairs(N, D, {}) /\ Day(p.time) = d
  BY DEF OnDay
<1>2. PICK x \in Matched(N, D) : p = PairOf(x, {})
  BY <1>1, PairsAre
<1>3. p.object = x[1].object /\ p.time = x[1].time
  BY <1>2 DEF PairOf
<1>4. PairOf(x, R) \in OnDay(OfObject(Pairs(N, D, R), p.object), d)
  <2>1. PairOf(x, R) \in Pairs(N, D, R)
    BY PairsAre
  <2>2. PairOf(x, R).object = p.object /\ PairOf(x, R).time = p.time
    BY <1>3 DEF PairOf
  <2> QED
    BY <1>1, <2>1, <2>2 DEF OnDay, OfObject
<1>5. ASSUME NEW y \in OnDay(OfObject(Pairs(N, D, R), p.object), d)
      PROVE  y = PairOf(x, R)
  <2>1. y \in Pairs(N, D, R) /\ y.object = p.object /\ Day(y.time) = d
    BY DEF OnDay, OfObject
  <2>2. PICK z \in Matched(N, D) : y = PairOf(z, R)
    BY <2>1, PairsAre
  <2>3. PairOf(z, {}) \in Pairs(N, D, {})
    BY PairsAre
  <2>4. PairOf(z, {}).object = p.object /\ Day(PairOf(z, {}).time) = d
    BY <2>1, <2>2 DEF PairOf
  <2>5. PairOf(z, {}) = p
    BY <2>3, <2>4, Zenon DEF Alone, OnDay, OfObject
  <2>6. z[1].object = x[1].object /\ z[1].time = x[1].time /\ z[1].value = x[1].value /\ z[2].value = x[2].value
    BY <1>2, <2>5 DEF PairOf
  <2> QED
    BY <2>2, <2>6 DEF PairOf
<1> QED
  BY <1>2, <1>4, <1>5

\* A bucket of one pair has its rate (aggregate_derived_bucket).
LEMMA DerivedOfOne ==
  ASSUME NEW p, p.num \in Int, p.den \in Int, p.den # 0, NEW t
  PROVE  /\ DerivedBucket({p}, t).value = Turned((p.num * 1000) \div p.den, t)
         /\ DerivedBucket({p}, t).valid = 1 /\ DerivedBucket({p}, t).denominator # 0
<1>1. NumSum({p}) = p.num /\ DenSum({p}) = p.den /\ Cardinality({p}) = 1 /\ {p} # {}
  BY NumOfOne, DenOfOne, FS_Singleton
<1> QED
  BY <1>1 DEF DerivedBucket, NoBucket

\* A pair whose rate is beyond the critical threshold, alone on its day, fails its metric.
LEMMA RateBreachFails ==
  ASSUME NEW N \in SUBSET PointSet, NEW D \in SUBSET PointSet, IsFiniteSet(N), IsFiniteSet(D), NEW R,
         NEW cfg, NEW d, NEW p \in OnDay(Pairs(N, D, {}), d), Alone(p, Pairs(N, D, {}), d),
         p.den # 0, Reaches(Turned((p.num * 1000) \div p.den, cfg.template), cfg.critical, cfg),
         cfg.direction \in {"higher_better", "lower_better"}
  PROVE  DerivedHealth(N, D, R, cfg, d).status = "fail" /\ DerivedHealth(N, D, R, cfg, d).reason = "critical_threshold"
<1> DEFINE ps == Pairs(N, D, R)
           o  == p.object
           G  == {DerivedGroup(x, OfObject(ps, x), cfg, d) : x \in ObjectsOf(ps)}
<1>1. PICK x \in Matched(N, D) : p = PairOf(x, {}) /\ OnDay(OfObject(ps, o), d) = {PairOf(x, R)}
  BY AlonePair
<1>2. PICK q : q = PairOf(x, R)
  OBVIOUS
<1>3. /\ q.num = p.num /\ q.den = p.den /\ q.object = o
      /\ q.num \in Int /\ q.den \in Int /\ o \in Nat
  BY <1>1, <1>2, MatchedTyped DEF PairOf
<1>4. OnDay(OfObject(ps, o), d) = {q}
  BY <1>1, <1>2
<1>5. q \in ps /\ o \in ObjectsOf(ps)
  <2>1. q \in OnDay(OfObject(ps, o), d)
    BY <1>4
  <2>2. q \in ps
    BY <2>1 DEF OnDay, OfObject
  <2> QED
    BY <1>3, <2>2 DEF ObjectsOf
<1>6. Judge(DerivedBucket({q}, cfg.template), cfg, \A r \in {q} : r.num = 0 /\ r.den = 0)[1] = "fail"
  <2>1. (\A r \in {q} : r.num = 0 /\ r.den = 0) = FALSE
    BY <1>3
  <2>2. /\ DerivedBucket({q}, cfg.template).value = Turned((p.num * 1000) \div p.den, cfg.template)
        /\ DerivedBucket({q}, cfg.template).valid = 1 /\ DerivedBucket({q}, cfg.template).denominator # 0
    BY <1>3, DerivedOfOne
  <2>3. Reaches(DerivedBucket({q}, cfg.template).value, cfg.critical, cfg)
    BY <2>2
  <2>4. Judge(DerivedBucket({q}, cfg.template), cfg, FALSE)[1] = "fail"
    <3>1. PICK b : b = DerivedBucket({q}, cfg.template)
      OBVIOUS
    <3>2. b.denominator # 0 /\ b.valid = 1 /\ Reaches(b.value, cfg.critical, cfg)
      BY <2>2, <2>3, <3>1
    <3>3. cfg.direction \in {"higher_better", "lower_better"}
      OBVIOUS
    <3> QED
      BY <3>1, <3>2, <3>3, JudgeBreach
  <2> QED
    BY <2>1, <2>4, Zenon
<1>7. DerivedGroup(o, OfObject(ps, o), cfg, d).status = "fail"
  <2>1. DerivedGroup(o, OfObject(ps, o), cfg, d)
        = LET verdict == Judge(DerivedBucket({q}, cfg.template), cfg, \A r \in {q} : r.num = 0 /\ r.den = 0)
          IN Group(o, IF verdict[1] = "normal" /\ Inconsistent({q}, cfg)
                      THEN <<"pending_config", "consistency_exceeded">> ELSE verdict,
                   DerivedBucket({q}, cfg.template), DerivedBucket(OnDay(OfObject(ps, o), d - 1), cfg.template), cfg)
    BY <1>4, Zenon DEF DerivedGroup
  <2>2. \A v, t, y : v[1] = "fail" => Group(o, v, t, y, cfg).status = "fail"
    BY DEF Group
  <2>3. "fail" # "normal"
    OBVIOUS
  <2> QED
    BY <1>6, <2>1, <2>2, <2>3, Zenon
<1>8. \A g \in G : g.object \in Nat /\ (g.status = "fail" => g.reason = "critical_threshold")
  <2> SUFFICES ASSUME NEW y \in ObjectsOf(ps)
               PROVE  LET g == DerivedGroup(y, OfObject(ps, y), cfg, d)
                      IN g.object \in Nat /\ (g.status = "fail" => g.reason = "critical_threshold")
    OBVIOUS
  <2>1. y \in Nat
    <3>1. PICK z \in Matched(N, D) : y = PairOf(z, R).object
      BY PairsAre DEF ObjectsOf
    <3> QED
      BY <3>1, MatchedTyped DEF PairOf
  <2> QED
    BY <2>1, JudgeFails DEF DerivedGroup, Group
<1>9. ps # {} /\ DerivedGroup(o, OfObject(ps, o), cfg, d) \in G
  BY <1>5
<1> HIDE DEF G, ps
<1>10. Summary(G).status = "fail" /\ Summary(G).reason = "critical_threshold"
  BY <1>7, <1>8, <1>9, SummaryFails
<1> QED
  BY <1>9, <1>10 DEF DerivedHealth, G, ps
-----------------------------------------------------------------------------
(* What a metric counts                                                    *)

\* The values of a function on a finite set are finitely many.
LEMMA FiniteImage ==
  ASSUME NEW S, IsFiniteSet(S), NEW f, DOMAIN f = S
  PROVE  IsFiniteSet({f[x] : x \in S})
<1> DEFINE T == {f[x] : x \in S}
           g == [x \in S |-> f[x]]
<1>1. g \in Surjection(S, T)
  BY DEF Surjection
<1> QED
  BY <1>1, FS_Surjection

\* Finitely many readings have finitely many entries.
LEMMA DedupFinite == ASSUME NEW A, IsFiniteSet(A) PROVE IsFiniteSet(Dedup(A))
<1> DEFINE f == [q \in A |-> Entry(A, q.object, q.time)]
<1>1. IsFiniteSet({f[q] : q \in A})
  <2>1. DOMAIN f = A
    OBVIOUS
  <2> HIDE DEF f
  <2> QED
    BY <2>1, FiniteImage
<1>2. {f[q] : q \in A} = Dedup(A)
  BY DedupEntries
<1> QED
  BY <1>1, <1>2

\* A readable entry of a day is one of the readable readings of that day.
LEMMA DayEntries ==
  ASSUME NEW A, NEW d, NEW e \in Dedup(A), e.value # Nil, Day(e.time) = d
  PROVE  e \in Dedup(OnDay(Readable(A), d))
<1> DEFINE B == OnDay(Readable(A), d)
<1>1. PICK q \in A : e = Entry(A, q.object, q.time)
  BY DedupEntries
<1>2. e.object = q.object /\ e.time = q.time /\ e.value = Mean(Readable(ReadAt(A, q.object, q.time)))
  BY <1>1 DEF Entry
<1>3. Readable(ReadAt(A, q.object, q.time)) # {}
  BY <1>2 DEF Mean
<1>4. ReadAt(B, q.object, q.time) = Readable(ReadAt(A, q.object, q.time))
  BY <1>2 DEF ReadAt, Readable, OnDay
<1>5. Readable(ReadAt(B, q.object, q.time)) = Readable(ReadAt(A, q.object, q.time))
  BY <1>4 DEF Readable
<1>6. Entry(B, q.object, q.time) = e
  BY <1>1, <1>5 DEF Entry
<1>7. PICK p \in ReadAt(B, q.object, q.time) : TRUE
  BY <1>3, <1>4
<1>8. p \in B /\ p.object = q.object /\ p.time = q.time
  BY <1>7 DEF ReadAt
<1> HIDE DEF B
<1>9. Entry(B, p.object, p.time) \in Dedup(B)
  BY <1>8, DedupEntries
<1> QED
  BY <1>6, <1>8, <1>9 DEF B

\* A metric without readings counts none.
LEMMA NothingCounts == Summary({NoGroup("no_current_data")}).valid = 0
<1> DEFINE G == {NoGroup("no_current_data")}
           g0 == NoGroup("no_current_data")
<1>1. g0.valid = 0 /\ 0 \in Int
  BY DEF NoGroup
<1> HIDE DEF g0
<1>2. PICK h : Sums({g0}, [g \in {g0} |-> g.valid], h) /\ MapThenSumSet(LAMBDA g : g.valid, {g0}) = h[{g0}]
  BY <1>1, ValidFold, FS_Singleton
<1>3. h[{g0}] = 0
  BY <1>1, <1>2, SumOne
<1> QED
  BY <1>2, <1>3 DEF Summary, g0

\* A base metric counts at most what its readings of the day come to.
LEMMA BaseCount ==
  ASSUME NEW A, IsFiniteSet(A), NEW cfg, NEW d
  PROVE  BaseHealth(A, cfg, d).valid <= Cardinality(Dedup(OnDay(Readable(A), d)))
<1> DEFINE ps == Dedup(A)
           E  == Dedup(OnDay(Readable(A), d))
           Of(o) == Readable(OnDay(OfObject(ps, o), d))
           G  == {BaseGroup(o, OfObject(ps, o), cfg, d) : o \in ObjectsOf(ps)}
           P  == [g \in G |-> Of(g.object)]
           V  == [g \in G |-> g.valid]
<1>1. IsFiniteSet(ps) /\ IsFiniteSet(E) /\ Cardinality(E) \in Nat
  <2>1. IsFiniteSet(OnDay(Readable(A), d))
    BY FS_Subset DEF OnDay, Readable
  <2> QED
    BY <2>1, DedupFinite, FS_CardinalityType
<1>2. CASE ps = {}
  BY <1>1, <1>2, NothingCounts DEF BaseHealth
<1>3. CASE ps # {}
  <2>1. IsFiniteSet(G)
    <3> DEFINE f == [x \in ps |-> BaseGroup(x.object, OfObject(ps, x.object), cfg, d)]
    <3>1. DOMAIN f = ps
      OBVIOUS
    <3>2. {f[x] : x \in ps} = G
      BY DEF ObjectsOf
    <3> HIDE DEF f, G, ps
    <3>3. IsFiniteSet({f[x] : x \in ps})
      BY <1>1, <3>1, FiniteImage
    <3> QED
      BY <3>2, <3>3
  <2>2. \A g \in G : g = BaseGroup(g.object, OfObject(ps, g.object), cfg, d) /\ g.object \in ObjectsOf(ps)
    <3> SUFFICES ASSUME NEW o \in ObjectsOf(ps)
                 PROVE  BaseGroup(o, OfObject(ps, o), cfg, d).object = o
      OBVIOUS
    <3> QED
      BY DEF BaseGroup, Group
  <2>3. \A g \in G : IsFiniteSet(Of(g.object)) /\ g.valid = Cardinality(Of(g.object)) /\ g.valid \in Int
    <3> SUFFICES ASSUME NEW o \in ObjectsOf(ps)
                 PROVE  LET g == BaseGroup(o, OfObject(ps, o), cfg, d)
                        IN IsFiniteSet(Of(o)) /\ g.object = o /\ g.valid = Cardinality(Of(o)) /\ g.valid \in Int
      BY <2>2
    <3>1. IsFiniteSet(Of(o))
      BY <1>1, FS_Subset DEF Readable, OnDay, OfObject
    <3>2. Bucket(OnDay(OfObject(ps, o), d), cfg.aggregation).valid = Cardinality(Of(o))
      BY FS_EmptySet DEF Bucket, NoBucket
    <3> QED
      BY <3>1, <3>2, FS_CardinalityType DEF BaseGroup, Group
  <2>4. \A g, k \in G : g # k => P[g] \cap P[k] = {}
    <3> SUFFICES ASSUME NEW g \in G, NEW k \in G, g # k PROVE Of(g.object) \cap Of(k.object) = {}
      OBVIOUS
    <3>1. g.object # k.object
      BY <2>2
    <3> QED
      BY <3>1 DEF Readable, OnDay, OfObject
  <2>5. Joined(P, G) \in SUBSET E
    <3> SUFFICES ASSUME NEW o \in ObjectsOf(ps), NEW e \in Of(o) PROVE e \in E
      BY <2>2 DEF Joined
    <3>1. e \in Dedup(A) /\ e.value # Nil /\ Day(e.time) = d
      BY DEF Readable, OnDay, OfObject
    <3> QED
      BY <3>1, DayEntries
  <2>6. \A g \in G : IsFiniteSet(P[g]) /\ V[g] = Cardinality(P[g])
    BY <2>3
  <2>7. \A g \in G : g.valid \in Int
    BY <2>3
  <2> HIDE DEF G, P, E
  <2>8. PICK h : Sums(G, V, h) /\ MapThenSumSet(LAMBDA g : g.valid, G) = h[G]
    BY <2>1, <2>7, ValidFold
  <2> HIDE DEF V
  <2>9. h[G] = Cardinality(Joined(P, G))
    BY <2>1, <2>4, <2>6, <2>8, SumCounts
  <2>10. Cardinality(Joined(P, G)) <= Cardinality(E)
    BY <1>1, <2>5, FS_Subset
  <2>11. BaseHealth(A, cfg, d) = Summary(G)
    BY <1>3 DEF BaseHealth, G
  <2>12. Summary(G).valid = MapThenSumSet(LAMBDA g : g.valid, G)
    BY DEF Summary
  <2> QED
    BY <2>8, <2>9, <2>10, <2>11, <2>12 DEF E
<1> QED
  BY <1>2, <1>3
-----------------------------------------------------------------------------
(* The detail and the daily health                                         *)

\* The entries of a day come from the readings of that day.
LEMMA EntryOfDay ==
  ASSUME NEW A, NEW B, NEW d, OnDay(A, d) = OnDay(B, d), NEW o, NEW t, Day(t) = d
  PROVE  Entry(A, o, t) = Entry(B, o, t)
<1>1. ReadAt(A, o, t) = ReadAt(B, o, t)
  BY DEF ReadAt, OnDay
<1> QED
  BY <1>1 DEF Entry

\* The entries of a day, all together.
LEMMA DayOfDedup ==
  ASSUME NEW A, NEW B, NEW d, OnDay(A, d) = OnDay(B, d)
  PROVE  OnDay(Dedup(A), d) = OnDay(Dedup(B), d)
<1>1. ASSUME NEW X, NEW Y, OnDay(X, d) = OnDay(Y, d), NEW e \in OnDay(Dedup(X), d)
      PROVE  e \in OnDay(Dedup(Y), d)
  <2>1. e \in Dedup(X) /\ Day(e.time) = d
    BY DEF OnDay
  <2>2. PICK q \in X : e = Entry(X, q.object, q.time)
    BY <2>1, DedupEntries
  <2>3. e.time = q.time
    BY <2>2 DEF Entry
  <2>4. q \in Y
    BY <1>1, <2>1, <2>3 DEF OnDay
  <2>5. e = Entry(Y, q.object, q.time)
    BY <1>1, <2>1, <2>2, <2>3, EntryOfDay
  <2>6. e \in Dedup(Y)
    BY <2>4, <2>5, DedupEntries
  <2> QED
    BY <2>1, <2>6 DEF OnDay
<1> QED
  BY <1>1

\* An object has an entry when it has a reading.
LEMMA ObjectsOfDedup == ASSUME NEW A PROVE ObjectsOf(Dedup(A)) = ObjectsOf(A)
<1>1. \A q \in A : Entry(A, q.object, q.time).object = q.object
  BY DEF Entry
<1>2. Dedup(A) = {Entry(A, q.object, q.time) : q \in A}
  BY DedupEntries
<1> QED
  BY <1>1, <1>2 DEF ObjectsOf

\* The status of a group is decided by what it has on the data day.
BaseStatus(now, cfg) ==
  Judge(Bucket(now, cfg.aggregation), cfg, \A p \in Readable(now) : p.value = 0)[1]
PairStatus(now, cfg) ==
  LET verdict == Judge(DerivedBucket(now, cfg.template), cfg, \A p \in now : p.num = 0 /\ p.den = 0)
  IN IF verdict[1] = "normal" /\ Inconsistent(now, cfg) THEN "pending_config" ELSE verdict[1]

\* The status of a metric, from what its objects have on the data day.
LEMMA BaseStatusIs ==
  ASSUME NEW A, NEW cfg, NEW d, Dedup(A) # {}
  PROVE  BaseHealth(A, cfg, d).status
         = Worst(StatusPriority, {BaseStatus(OfObject(OnDay(Dedup(A), d), o), cfg) : o \in ObjectsOf(A)})
<1> DEFINE ps == Dedup(A)
           G  == {BaseGroup(o, OfObject(ps, o), cfg, d) : o \in ObjectsOf(ps)}
<1>1. \A o : BaseGroup(o, OfObject(ps, o), cfg, d).status = BaseStatus(OfObject(OnDay(ps, d), o), cfg)
  <2> TAKE o
  <2>1. OnDay(OfObject(ps, o), d) = OfObject(OnDay(ps, d), o)
    BY DEF OnDay, OfObject
  <2>2. BaseGroup(o, OfObject(ps, o), cfg, d).status = BaseStatus(OnDay(OfObject(ps, o), d), cfg)
    BY DEF BaseGroup, Group, BaseStatus
  <2> QED
    BY <2>1, <2>2
<1>2. ObjectsOf(ps) = ObjectsOf(A)
  BY ObjectsOfDedup
<1>3. {g.status : g \in G} = {BaseStatus(OfObject(OnDay(ps, d), o), cfg) : o \in ObjectsOf(A)}
  BY <1>1, <1>2
<1>4. BaseHealth(A, cfg, d) = Summary(G)
  BY DEF BaseHealth
<1>5. Summary(G).status = Worst(StatusPriority, {g.status : g \in G})
  BY DEF Summary
<1> HIDE DEF G
<1> QED
  BY <1>3, <1>4, <1>5

\* The same of a rate and the pairs of its objects.
LEMMA DerivedStatusIs ==
  ASSUME NEW N, NEW D, NEW R, NEW cfg, NEW d, Pairs(N, D, R) # {}
  PROVE  DerivedHealth(N, D, R, cfg, d).status
         = Worst(StatusPriority, {PairStatus(OfObject(OnDay(Pairs(N, D, R), d), o), cfg) : o \in ObjectsOf(Pairs(N, D, R))})
<1> DEFINE ps == Pairs(N, D, R)
           G  == {DerivedGroup(o, OfObject(ps, o), cfg, d) : o \in ObjectsOf(ps)}
<1>1. \A o : DerivedGroup(o, OfObject(ps, o), cfg, d).status = PairStatus(OfObject(OnDay(ps, d), o), cfg)
  <2> TAKE o
  <2>1. OnDay(OfObject(ps, o), d) = OfObject(OnDay(ps, d), o)
    BY DEF OnDay, OfObject
  <2>2. DerivedGroup(o, OfObject(ps, o), cfg, d).status = PairStatus(OnDay(OfObject(ps, o), d), cfg)
    BY DEF DerivedGroup, Group, PairStatus
  <2> QED
    BY <2>1, <2>2
<1>3. {g.status : g \in G} = {PairStatus(OfObject(OnDay(ps, d), o), cfg) : o \in ObjectsOf(ps)}
  BY <1>1
<1>4. DerivedHealth(N, D, R, cfg, d) = Summary(G)
  BY DEF DerivedHealth
<1>5. Summary(G).status = Worst(StatusPriority, {g.status : g \in G})
  BY DEF Summary
<1> HIDE DEF G
<1> QED
  BY <1>3, <1>4, <1>5

\* What Completed adds to a metric is of the day before, for objects that
\* have a reading of the data day and none of the day before.
Adds(K, A, d) == \A p \in K : Day(p.time) = d - 1 /\ p.object \in WithoutYesterday(A, d)

\* The completion adds nothing else (_history_points).
LEMMA CompletedAdds ==
  ASSUME NEW own, NEW required, NEW earlier, NEW d, NEW k \in DOMAIN own
  PROVE  \E K : /\ Completed(own, required, earlier, d)[k] = own[k] \cup K
                /\ Adds(K, own[k], d) /\ (k \notin required => K = {})
<1> DEFINE lacking == {m \in required : WithoutYesterday(own[m], d) # {}}
           usable  == {i \in DOMAIN earlier :
                         \A m \in lacking : Known(earlier[i][m], WithoutYesterday(own[m], d), d) # {}}
           K       == Known(earlier[Min(usable)][k], WithoutYesterday(own[k], d), d)
<1>1. CASE lacking = {} \/ usable = {} \/ k \notin lacking
  <2>1. Completed(own, required, earlier, d)[k] = own[k] \cup {}
    BY <1>1 DEF Completed
  <2>2. Adds({}, own[k], d)
    BY DEF Adds
  <2> QED
    BY <2>1, <2>2
<1>2. CASE lacking # {} /\ usable # {} /\ k \in lacking
  <2>1. Completed(own, required, earlier, d)[k] = own[k] \cup K
    BY <1>2 DEF Completed
  <2>2. Adds(K, own[k], d)
    BY DEF Adds, Known, OnDay
  <2>3. k \in required
    BY <1>2
  <2> QED
    BY <2>1, <2>2, <2>3
<1> QED
  BY <1>1, <1>2

\* The data day, its objects and the entries there were stay as they are.
LEMMA AddsLeavesDay ==
  ASSUME NEW A, NEW K, NEW d \in Int, Adds(K, A, d)
  PROVE  /\ OnDay(A \cup K, d) = OnDay(A, d)
         /\ \A p \in K : p.object \in ObjectsOf(OnDay(A, d))
         /\ Dedup(A) \subseteq Dedup(A \cup K)
<1>1. \A p \in K : Day(p.time) # d
  BY DEF Adds
<1>2. OnDay(A \cup K, d) = OnDay(A, d)
  BY <1>1 DEF OnDay
<1>3. \A p \in K : p.object \in ObjectsOf(OnDay(A, d)) /\ p.object \notin ObjectsOf(OnDay(A, d - 1))
  BY DEF Adds, WithoutYesterday
<1>4. ASSUME NEW e \in Dedup(A) PROVE e \in Dedup(A \cup K)
  <2>1. PICK q \in A : e = Entry(A, q.object, q.time)
    BY DedupEntries
  <2>2. \A p \in K : ~(p.object = q.object /\ p.time = q.time)
    <3> SUFFICES ASSUME NEW p \in K, p.object = q.object, p.time = q.time PROVE FALSE
      OBVIOUS
    <3>1. Day(q.time) = d - 1
      BY DEF Adds
    <3>2. q.object \in ObjectsOf(OnDay(A, d - 1))
      BY <3>1 DEF ObjectsOf, OnDay
    <3> QED
      BY <1>3, <3>2
  <2>3. ReadAt(A \cup K, q.object, q.time) = ReadAt(A, q.object, q.time)
    BY <2>2 DEF ReadAt
  <2>4. e = Entry(A \cup K, q.object, q.time)
    BY <2>1, <2>3 DEF Entry
  <2> QED
    BY <2>4, DedupEntries
<1> QED
  BY <1>2, <1>3, <1>4

\* The completed day before does not change the status of a base metric.
LEMMA BaseAgrees ==
  ASSUME NEW A, NEW K, NEW d \in Int, Adds(K, A, d), NEW cfg
  PROVE  BaseHealth(A \cup K, cfg, d).status = BaseHealth(A, cfg, d).status
<1>1. OnDay(A \cup K, d) = OnDay(A, d) /\ \A p \in K : p.object \in ObjectsOf(OnDay(A, d))
  BY AddsLeavesDay
<1>2. ObjectsOf(A \cup K) = ObjectsOf(A)
  BY <1>1 DEF ObjectsOf, OnDay
<1>3. OnDay(Dedup(A \cup K), d) = OnDay(Dedup(A), d)
  BY <1>1, DayOfDedup
<1>4. Dedup(A \cup K) = {} <=> Dedup(A) = {}
  <2>1. \A X : X = {} <=> ObjectsOf(X) = {}
    BY DEF ObjectsOf
  <2> QED
    BY <1>2, <2>1, ObjectsOfDedup
<1>5. CASE Dedup(A) = {}
  BY <1>4, <1>5 DEF BaseHealth
<1>6. CASE Dedup(A) # {}
  <2>1. BaseHealth(A, cfg, d).status
        = Worst(StatusPriority, {BaseStatus(OfObject(OnDay(Dedup(A), d), o), cfg) : o \in ObjectsOf(A)})
    BY <1>6, BaseStatusIs
  <2>2. BaseHealth(A \cup K, cfg, d).status
        = Worst(StatusPriority, {BaseStatus(OfObject(OnDay(Dedup(A \cup K), d), o), cfg) : o \in ObjectsOf(A \cup K)})
    BY <1>4, <1>6, BaseStatusIs
  <2> QED
    BY <1>2, <1>3, <2>1, <2>2, Zenon
<1> QED
  BY <1>5, <1>6

\* The pairs of a day come from the readings of that day.
LEMMA DayOfPairs ==
  ASSUME NEW N, NEW M, NEW D, NEW E, NEW R, NEW d, OnDay(N, d) = OnDay(M, d), OnDay(D, d) = OnDay(E, d)
  PROVE  OnDay(Pairs(N, D, R), d) \subseteq OnDay(Pairs(M, E, R), d)
<1> SUFFICES ASSUME NEW p \in OnDay(Pairs(N, D, R), d) PROVE p \in OnDay(Pairs(M, E, R), d)
  OBVIOUS
<1>1. p \in Pairs(N, D, R) /\ Day(p.time) = d
  BY DEF OnDay
<1>2. PICK x \in Matched(N, D) : p = PairOf(x, R)
  BY <1>1, PairsAre
<1>3. /\ x[1] \in Dedup(N) /\ x[1].value # Nil /\ x[2] \in Dedup(D) /\ x[2].value # Nil
      /\ x[1].object = x[2].object /\ x[1].time = x[2].time /\ x = <<x[1], x[2]>>
  BY DEF Matched, Readable
<1>4. Day(x[1].time) = d /\ Day(x[2].time) = d
  BY <1>1, <1>2, <1>3 DEF PairOf
<1>5. x[1] \in OnDay(Dedup(M), d) /\ x[2] \in OnDay(Dedup(E), d)
  <2>1. x[1] \in OnDay(Dedup(N), d) /\ x[2] \in OnDay(Dedup(D), d)
    BY <1>3, <1>4 DEF OnDay
  <2> QED
    BY <2>1, DayOfDedup
<1>6. x \in Matched(M, E)
  <2>1. x[1] \in Readable(Dedup(M)) /\ x[2] \in Readable(Dedup(E))
    BY <1>3, <1>5 DEF OnDay, Readable
  <2>2. x \in Readable(Dedup(M)) \X Readable(Dedup(E))
    BY <1>3, <2>1
  <2> QED
    BY <1>3, <2>2 DEF Matched
<1>7. p \in Pairs(M, E, R)
  BY <1>2, <1>6, PairsAre
<1> QED
  BY <1>1, <1>7 DEF OnDay

\* What is added to the parts brings no object its first pair, if the objects
\* of the data day had one.
LEMMA PairsKeepObjects ==
  ASSUME NEW N, NEW D, NEW J, NEW K, NEW R, NEW d \in Int, Adds(J, N, d), Adds(K, D, d),
         ObjectsOf(OnDay(N, d)) \subseteq ObjectsOf(Pairs(N, D, R)),
         ObjectsOf(OnDay(D, d)) \subseteq ObjectsOf(Pairs(N, D, R))
  PROVE  ObjectsOf(Pairs(N \cup J, D \cup K, R)) = ObjectsOf(Pairs(N, D, R))
<1> DEFINE N2 == N \cup J
           D2 == D \cup K
<1>1. /\ \A p \in J : p.object \in ObjectsOf(Pairs(N, D, R))
      /\ \A p \in K : p.object \in ObjectsOf(Pairs(N, D, R))
      /\ Dedup(N) \subseteq Dedup(N2) /\ Dedup(D) \subseteq Dedup(D2)
  BY AddsLeavesDay
<1>2. Matched(N, D) \subseteq Matched(N2, D2)
  <2> HIDE DEF N2, D2
  <2>1. Readable(Dedup(N)) \subseteq Readable(Dedup(N2)) /\ Readable(Dedup(D)) \subseteq Readable(Dedup(D2))
    BY <1>1 DEF Readable
  <2> QED
    BY <2>1 DEF Matched
<1>3. Pairs(N, D, R) \subseteq Pairs(N2, D2, R)
  <2> HIDE DEF N2, D2
  <2> QED
    BY <1>2, PairsAre
<1>4. ASSUME NEW p \in Pairs(N2, D2, R) PROVE p.object \in ObjectsOf(Pairs(N, D, R))
  <2>1. PICK x \in Matched(N2, D2) : p = PairOf(x, R)
    BY PairsAre
  <2>2. /\ x[1] \in Dedup(N2) /\ x[1].value # Nil /\ x[2] \in Dedup(D2) /\ x[2].value # Nil
        /\ x[1].object = x[2].object /\ x[1].time = x[2].time /\ x = <<x[1], x[2]>> /\ p.object = x[1].object
    BY <2>1 DEF Matched, Readable, PairOf
  <2>3. CASE \E q \in J \cup K : q.object = p.object
    BY <1>1, <2>3
  <2>4. CASE \A q \in J \cup K : q.object # p.object
    <3>1. ASSUME NEW A, NEW L, L \subseteq J \cup K, NEW e \in Dedup(A \cup L), e.object = p.object
          PROVE  e \in Dedup(A)
      <4>1. PICK q \in A \cup L : e = Entry(A \cup L, q.object, q.time)
        BY DedupEntries
      <4>2. q.object = p.object
        BY <3>1, <4>1 DEF Entry
      <4>3. q \in A
        BY <2>4, <3>1, <4>2
      <4>4. ReadAt(A \cup L, q.object, q.time) = ReadAt(A, q.object, q.time)
        BY <2>4, <3>1, <4>2 DEF ReadAt
      <4>5. e = Entry(A, q.object, q.time)
        BY <4>1, <4>4 DEF Entry
      <4> QED
        BY <4>3, <4>5, DedupEntries
    <3>2. x[1] \in Dedup(N) /\ x[2] \in Dedup(D)
      BY <2>2, <3>1
    <3>3. x \in Matched(N, D)
      <4>1. x \in Readable(Dedup(N)) \X Readable(Dedup(D))
        <5>1. x[1] \in Readable(Dedup(N)) /\ x[2] \in Readable(Dedup(D))
          BY <2>2, <3>2 DEF Readable
        <5> QED
          BY <2>2, <5>1
      <4> QED
        BY <2>2, <4>1 DEF Matched
    <3>4. p \in Pairs(N, D, R)
      BY <2>1, <3>3, PairsAre
    <3> QED
      BY <3>4 DEF ObjectsOf
  <2> QED
    BY <2>3, <2>4
<1> HIDE DEF N2, D2
<1>5. ObjectsOf(Pairs(N2, D2, R)) = ObjectsOf(Pairs(N, D, R))
  BY <1>3, <1>4 DEF ObjectsOf
<1> QED
  BY <1>5 DEF N2, D2

\* Nor that of a rate whose objects have their pairs.
LEMMA DerivedAgrees ==
  ASSUME NEW N, NEW D, NEW J, NEW K, NEW R, NEW d \in Int, Adds(J, N, d), Adds(K, D, d), NEW cfg,
         ObjectsOf(OnDay(N, d)) \subseteq ObjectsOf(Pairs(N, D, R)),
         ObjectsOf(OnDay(D, d)) \subseteq ObjectsOf(Pairs(N, D, R))
  PROVE  DerivedHealth(N \cup J, D \cup K, R, cfg, d).status = DerivedHealth(N, D, R, cfg, d).status
<1> DEFINE old == Pairs(N, D, R)
           new == Pairs(N \cup J, D \cup K, R)
<1>1. OnDay(N \cup J, d) = OnDay(N, d) /\ OnDay(D \cup K, d) = OnDay(D, d)
  BY AddsLeavesDay
<1>2. OnDay(new, d) = OnDay(old, d)
  <2>1. OnDay(new, d) \subseteq OnDay(old, d)
    BY <1>1, DayOfPairs
  <2>2. OnDay(old, d) \subseteq OnDay(new, d)
    BY <1>1, DayOfPairs
  <2> QED
    BY <2>1, <2>2
<1>3. ObjectsOf(new) = ObjectsOf(old)
  BY PairsKeepObjects
<1>4. new = {} <=> old = {}
  <2>1. \A X : X = {} <=> ObjectsOf(X) = {}
    BY DEF ObjectsOf
  <2> QED
    BY <1>3, <2>1
<1>5. CASE old = {}
  BY <1>4, <1>5 DEF DerivedHealth
<1>6. CASE old # {}
  <2>1. DerivedHealth(N, D, R, cfg, d).status
        = Worst(StatusPriority, {PairStatus(OfObject(OnDay(old, d), o), cfg) : o \in ObjectsOf(old)})
    BY <1>6, DerivedStatusIs
  <2>2. DerivedHealth(N \cup J, D \cup K, R, cfg, d).status
        = Worst(StatusPriority, {PairStatus(OfObject(OnDay(new, d), o), cfg) : o \in ObjectsOf(new)})
    <3>1. PICK M, E : M = N \cup J /\ E = D \cup K
      OBVIOUS
    <3>2. Pairs(M, E, R) # {}
      BY <1>4, <1>6, <3>1
    <3>3. DerivedHealth(M, E, R, cfg, d).status
          = Worst(StatusPriority, {PairStatus(OfObject(OnDay(Pairs(M, E, R), d), o), cfg) : o \in ObjectsOf(Pairs(M, E, R))})
      BY <3>2, DerivedStatusIs
    <3> QED
      BY <3>1, <3>3, Zenon
  <2> HIDE DEF old, new
  <2> QED
    BY <1>2, <1>3, <2>1, <2>2, Zenon
<1> QED
  BY <1>5, <1>6
-----------------------------------------------------------------------------
(* Statuses                                                                *)

\* A finite nonempty set of numbers has a greatest one.
LEMMA GreatestExists ==
  ASSUME NEW S, S \subseteq Int, IsFiniteSet(S), S # {}
  PROVE  \E x \in S : \A y \in S : x >= y
<1> DEFINE Top(s) == \E x \in s : \A y \in s : x >= y
           T == {n \in Nat : \A s \in SUBSET S : Cardinality(s) = n + 1 => Top(s)}
<1>1. \A s \in SUBSET S : IsFiniteSet(s) /\ Cardinality(s) \in Nat
  BY FS_Subset, FS_CardinalityType
<1>2. 0 \in T
  <2> SUFFICES ASSUME NEW s \in SUBSET S, Cardinality(s) = 1 PROVE Top(s)
    OBVIOUS
  <2>1. PICK x : s = {x}
    BY <1>1, FS_Singleton
  <2> QED
    BY <2>1
<1>3. ASSUME NEW n \in Nat, n \in T PROVE n + 1 \in T
  <2> SUFFICES ASSUME NEW s \in SUBSET S, Cardinality(s) = n + 2 PROVE Top(s)
    OBVIOUS
  <2>1. PICK x \in s : TRUE
    <3>1. Cardinality({}) = 0 /\ Cardinality(s) # 0
      BY FS_EmptySet
    <3> QED
      BY <3>1
  <2>2. Cardinality(s \ {x}) = n + 1
    <3>1. n + 1 \in Nat /\ Cardinality(s) = (n + 1) + 1
      OBVIOUS
    <3> QED
      BY <1>1, <3>1, OneLess
  <2>3. Top(s \ {x})
    BY <1>3, <2>2
  <2>4. PICK z \in s \ {x} : \A y \in s \ {x} : z >= y
    BY <2>3
  <2>5. x \in Int /\ z \in Int /\ s \subseteq Int
    OBVIOUS
  <2>6. CASE x >= z
    <3>1. \A y \in s : x >= y
      BY <2>4, <2>5, <2>6
    <3> QED
      BY <3>1
  <2>7. CASE ~(x >= z)
    <3>1. \A y \in s : z >= y
      BY <2>4, <2>5, <2>7
    <3> QED
      BY <3>1
  <2> QED
    BY <2>6, <2>7
<1> HIDE DEF T
<1>4. Nat \subseteq T
  BY <1>2, <1>3, AllNumbers
<1>5. Cardinality(S) \in Nat /\ Cardinality(S) # 0
  BY <1>1, FS_EmptySet
<1>6. Cardinality(S) - 1 \in T /\ Cardinality(S) = (Cardinality(S) - 1) + 1
  BY <1>4, <1>5
<1>7. PICK x \in S : \A y \in S : x >= y
  BY <1>6 DEF T
<1> QED
  BY <1>7

LEMMA GreatestNumber ==
  ASSUME NEW S, S \subseteq Int, IsFiniteSet(S), S # {}
  PROVE  Max(S) \in Int
<1>1. PICK x \in S : \A y \in S : x >= y
  BY GreatestExists
<1>2. Max(S) \in S
  BY <1>1 DEF Max
<1> QED
  BY <1>2

\* A judgement is one of the six statuses.
LEMMA JudgedStatus == ASSUME NEW b, NEW cfg, NEW zero PROVE Judge(b, cfg, zero)[1] \in HealthStatuses
<1>1. DOMAIN StatusPriority = 1..6 /\ HealthStatuses = {StatusPriority[i] : i \in 1..6}
  BY DEF StatusPriority, HealthStatuses, ToSet
<1>2. {"fail", "warn", "unable_to_judge", "pending_config", "not_applicable", "normal"} \subseteq HealthStatuses
  <2>1. /\ StatusPriority[1] = "fail" /\ StatusPriority[2] = "warn" /\ StatusPriority[3] = "unable_to_judge"
        /\ StatusPriority[4] = "pending_config" /\ StatusPriority[5] = "not_applicable" /\ StatusPriority[6] = "normal"
    BY DEF StatusPriority
  <2>2. {1, 2, 3, 4, 5, 6} \subseteq 1..6
    OBVIOUS
  <2> QED
    BY <1>1, <2>1, <2>2
<1>3. Judge(b, cfg, zero)[1] \in {"fail", "warn", "unable_to_judge", "pending_config", "not_applicable", "normal"}
  BY DEF Judge
<1> QED
  BY <1>2, <1>3

\* So is the worst of several.
LEMMA SummaryStatus ==
  ASSUME NEW G, G # {}, \A g \in G : g.status \in HealthStatuses
  PROVE  Summary(G).status \in HealthStatuses
<1>1. PICK g \in G : TRUE
  OBVIOUS
<1>2. g.status \in {h.status : h \in G} /\ g.status \in HealthStatuses
  OBVIOUS
<1>3. Worst(StatusPriority, {h.status : h \in G}) \in HealthStatuses
  BY <1>2, WorstIn
<1> QED
  BY <1>3 DEF Summary

\* So is that of a metric without readings.
LEMMA NoGroupStatus == ASSUME NEW r PROVE Summary({NoGroup(r)}).status \in HealthStatuses
<1>1. DOMAIN StatusPriority = 1..6 /\ HealthStatuses = {StatusPriority[i] : i \in 1..6} /\ StatusPriority[3] = "unable_to_judge"
  BY DEF StatusPriority, HealthStatuses, ToSet
<1>2. NoGroup(r).status \in HealthStatuses
  BY <1>1 DEF NoGroup
<1> QED
  BY <1>2, SummaryStatus

\* Every verdict has one of the six statuses.
LEMMA BaseHealthStatus == ASSUME NEW A, NEW cfg, NEW d PROVE BaseHealth(A, cfg, d).status \in HealthStatuses
<1> DEFINE ps == Dedup(A)
           G  == {BaseGroup(o, OfObject(ps, o), cfg, d) : o \in ObjectsOf(ps)}
<1>1. CASE ps = {}
  BY <1>1, NoGroupStatus DEF BaseHealth
<1>2. CASE ps # {}
  <2>1. G # {}
    BY <1>2 DEF ObjectsOf
  <2>2. \A g \in G : g.status \in HealthStatuses
    <3> SUFFICES ASSUME NEW o PROVE BaseGroup(o, OfObject(ps, o), cfg, d).status \in HealthStatuses
      OBVIOUS
    <3>1. BaseGroup(o, OfObject(ps, o), cfg, d).status
          = Judge(Bucket(OnDay(OfObject(ps, o), d), cfg.aggregation), cfg,
                  \A p \in Readable(OnDay(OfObject(ps, o), d)) : p.value = 0)[1]
      <4>1. \A v, t, y : Group(o, v, t, y, cfg).status = v[1]
        BY DEF Group
      <4> QED
        BY <4>1, Zenon DEF BaseGroup
    <3> QED
      BY <3>1, JudgedStatus
  <2>3. BaseHealth(A, cfg, d) = Summary(G)
    BY <1>2 DEF BaseHealth
  <2> HIDE DEF G
  <2> QED
    BY <2>1, <2>2, <2>3, SummaryStatus
<1> QED
  BY <1>1, <1>2

\* The same of a rate.
LEMMA DerivedHealthStatus ==
  ASSUME NEW N, NEW D, NEW R, NEW cfg, NEW d
  PROVE  DerivedHealth(N, D, R, cfg, d).status \in HealthStatuses
<1> DEFINE ps == Pairs(N, D, R)
           G  == {DerivedGroup(o, OfObject(ps, o), cfg, d) : o \in ObjectsOf(ps)}
<1>1. CASE ps = {}
  BY <1>1, NoGroupStatus DEF DerivedHealth
<1>2. CASE ps # {}
  <2>1. G # {}
    BY <1>2 DEF ObjectsOf
  <2>2. \A g \in G : g.status \in HealthStatuses
    <3> SUFFICES ASSUME NEW o PROVE DerivedGroup(o, OfObject(ps, o), cfg, d).status \in HealthStatuses
      OBVIOUS
    <3>1. DerivedGroup(o, OfObject(ps, o), cfg, d).status \in
            {"pending_config", Judge(DerivedBucket(OnDay(OfObject(ps, o), d), cfg.template), cfg,
                                     \A p \in OnDay(OfObject(ps, o), d) : p.num = 0 /\ p.den = 0)[1]}
      <4>1. \A v, t, y : Group(o, v, t, y, cfg).status = v[1]
        BY DEF Group
      <4> QED
        BY <4>1, Zenon DEF DerivedGroup
    <3>2. "pending_config" \in HealthStatuses
      BY DEF StatusPriority, HealthStatuses, ToSet
    <3> QED
      BY <3>1, <3>2, JudgedStatus
  <2>3. DerivedHealth(N, D, R, cfg, d) = Summary(G)
    BY <1>2 DEF DerivedHealth
  <2> HIDE DEF G
  <2> QED
    BY <2>1, <2>2, <2>3, SummaryStatus
<1> QED
  BY <1>1, <1>2
-----------------------------------------------------------------------------
(* What holds of the workbench                                             *)

\* The verdict of a metric by a rule on a day, from readings R.
VerdictOn(R, m, cfg, day, rate) ==
  IF rate THEN DerivedHealth(R[Formula[m][1]], R[Formula[m][2]], R[m], cfg, day)
             ELSE BaseHealth(R[m], cfg, day)
Grounds(m, x) ==
  /\ x.derived \in BOOLEAN /\ (x.derived => m \in DOMAIN Formula)
  /\ x.cfg \in {DefaultRule[m], CustomRule[m]} /\ x.day \in Int

\* The daily health is of the readings, and the index beside it holds all of them.
HealthInv ==
  /\ DOMAIN health \subseteq Kpis
  /\ \A m \in DOMAIN health :
       /\ Grounds(m, health[m]) /\ index[m] = Readable(readings[m])
       /\ health[m].sum = VerdictOn(readings, m, health[m].cfg, health[m].day, health[m].derived)

\* A published result is such a verdict, or says that there was none.
IsResult(R, m, r) ==
  r = MissingResult \/ (Grounds(m, r) /\ r = Result(VerdictOn(R, m, r.cfg, r.day, r.derived), r.cfg, r.day, r.derived))
AreResults(R, rs) == DOMAIN rs \subseteq Kpis /\ \A m \in DOMAIN rs : IsResult(R, m, rs[m])
ResultsInv ==
  /\ AreResults(readings, results)
  /\ \A m \in DOMAIN results : results[m] = MissingResult \/ points[m] = Readable(readings[m])

\* Points are readings of the package.
ArePoints(R, ps) == DOMAIN ps = Kpis /\ \A m \in Kpis : ps[m] \subseteq R[m]
PointsInv == ArePoints(readings, index) /\ ArePoints(readings, mirrored) /\ ArePoints(readings, points)

\* The worker, and what it is configured by.
LiveTyped ==
  live \in [on: SUBSET {KpiUnit[m] : m \in Kpis}, confirmed: SUBSET Kpis, candidates: SUBSET Kpis,
            derived: SUBSET DOMAIN Formula, custom: SUBSET Kpis]
RunInv ==
  /\ readings \in Readings /\ teamFocus \in Focuses /\ LiveTyped
  /\ DOMAIN frozen.items \subseteq Kpis
  /\ DOMAIN bench = {"step", "mode", "scope"} /\ DOMAIN bench.scope.items \subseteq Kpis
  /\ bench.step \in {"idle", "inspect", "adopt", "mirror", "publish"}
  /\ runs \in 0..BenchRuns /\ edits \in 0..BenchEdits /\ published \in Nat
  /\ published + (IF bench.step = "idle" THEN 0 ELSE 1) <= runs

\* What a request has read so far is one publication as long as none comes in between.
AskedTyped ==
  /\ DOMAIN request = {"step", "about", "units", "items", "focus", "results", "points", "todo", "kept", "since"}
  /\ request.step \in {"idle", "focus", "scope", "results", "evidence", "points", "shown", "refused"}
  /\ request.since \in 0..published
KeptInv ==
  /\ request.step \in {"focus", "scope", "results"} => request.kept \subseteq DOMAIN results
  /\ request.step \in {"evidence", "points", "shown"} => request.kept \subseteq DOMAIN request.results
SeenInv ==
  /\ AreResults(readings, request.results)
  /\ request.step \in {"evidence", "points", "shown"} /\ request.since = published => request.results = results
  /\ request.step = "evidence" => request.about # Nil
  /\ request.step = "points" => request.about # Nil /\ DOMAIN request.points = Kpis
  /\ request.step \in {"points", "shown"} /\ request.about # Nil =>
       /\ HasEvidence(request.about)
       /\ request.since = published =>
            \A k \in Parts(request.about) \ request.todo : request.points[k] = points[k]
  /\ request.step = "shown" /\ request.about # Nil => request.todo = {}

BenchInv == RunInv /\ PointsInv /\ HealthInv /\ ResultsInv /\ AskedTyped /\ KeptInv /\ SeenInv

\* What the assumptions say of the readings of a package.
LEMMA ReadingsTyped ==
  ASSUME NEW R \in Readings, NEW m \in Kpis
  PROVE  R[m] \in SUBSET PointSet /\ IsFiniteSet(R[m])
  BY WorkbenchAssumption DEF WorkbenchAssumption, PointSet

\* The data day is a day.
LEMMA DataDayTyped == ASSUME RunInv, NEW s PROVE DataDay(s) \in Int
<1> DEFINE Some(m) == Readable(Read(m, s))
           all   == UNION {Some(m) : m \in Kpis}
           times == {p.time : p \in all}
<1>1. \A m \in Kpis : Some(m) \in SUBSET PointSet /\ IsFiniteSet(Some(m))
  <2> TAKE m \in Kpis
  <2>1. Read(m, s) \in SUBSET PointSet /\ IsFiniteSet(Read(m, s))
    BY ReadingsTyped, FS_EmptySet DEF Read, RunInv
  <2> QED
    BY <2>1, FS_Subset DEF Readable
<1>2. all \in SUBSET PointSet /\ IsFiniteSet(all)
  <2> DEFINE f == [m \in Kpis |-> Some(m)]
             F == {f[m] : m \in Kpis}
  <2>1. IsFiniteSet(F)
    <3>1. IsFiniteSet(Kpis) /\ DOMAIN f = Kpis
      BY WorkbenchAssumption DEF WorkbenchAssumption
    <3> HIDE DEF f
    <3> QED
      BY <3>1, FiniteImage
  <2>2. F = {Some(m) : m \in Kpis} /\ \A T \in F : IsFiniteSet(T) /\ T \in SUBSET PointSet
    BY <1>1
  <2> HIDE DEF F
  <2> QED
    BY <2>1, <2>2, FS_UNION
<1>3. times \in SUBSET Int /\ IsFiniteSet(times)
  <2> DEFINE g == [p \in all |-> p.time]
  <2>1. IsFiniteSet({g[p] : p \in all})
    <3>1. DOMAIN g = all
      OBVIOUS
    <3> HIDE DEF g, all
    <3> QED
      BY <1>2, <3>1, FiniteImage
  <2>2. {g[p] : p \in all} = times
    OBVIOUS
  <2> HIDE DEF all, g
  <2> QED
    BY <1>2, <2>1, <2>2 DEF PointSet
<1>4. DataDay(s) = IF times = {} THEN TaskDay ELSE Day(Max(times))
  BY Zenon DEF DataDay
<1> HIDE DEF times
<1>5. times # {} => Max(times) \in Int
  BY <1>3, GreatestNumber
<1>6. \A t \in Int : Day(t) \in Int
  BY DEF Day
<1>7. TaskDay \in Int
  BY WorkbenchAssumption DEF WorkbenchAssumption
<1> QED
  BY <1>4, <1>5, <1>6, <1>7

\* The rule judges the readings by the configuration of the moment.
LEMMA JudgedNow ==
  ASSUME RunInv, NEW m \in Listed(live)
  PROVE  LET h == DailyHealthOf(live)[m]
         IN /\ m \in Kpis /\ Grounds(m, h)
            /\ h.sum = VerdictOn(readings, m, h.cfg, h.day, h.derived)
<1>1. /\ live.on \subseteq {KpiUnit[k] : k \in Kpis} /\ live.confirmed \subseteq Kpis
      /\ live.derived \subseteq DOMAIN Formula /\ DOMAIN Formula \subseteq Kpis
  BY WorkbenchAssumption DEF WorkbenchAssumption, RunInv, LiveTyped
<1>2. m \in Kpis /\ KpiUnit[m] \in live.on /\ (m \in DerivedKpis(live) => m \in DOMAIN Formula)
  BY <1>1 DEF Listed, BaseKpis, DerivedKpis
<1>3. Read(m, live) = readings[m]
  BY <1>2 DEF Read
<1>4. m \in DerivedKpis(live) =>
        Read(Formula[m][1], live) = readings[Formula[m][1]] /\ Read(Formula[m][2], live) = readings[Formula[m][2]]
  <2> SUFFICES ASSUME m \in DerivedKpis(live)
               PROVE  \A i \in {1, 2} : Read(Formula[m][i], live) = readings[Formula[m][i]]
    OBVIOUS
  <2>1. \A i \in {1, 2} : KpiUnit[Formula[m][i]] \in live.on
    BY <1>2, WorkbenchAssumption DEF WorkbenchAssumption
  <2> QED
    BY <2>1 DEF Read
<1>5. RuleOf(live, m) \in {DefaultRule[m], CustomRule[m]}
  BY DEF RuleOf
<1>6. DataDay(live) \in Int
  BY DataDayTyped
<1>7. Verdict(m, live, DataDay(live))
      = VerdictOn(readings, m, RuleOf(live, m), DataDay(live), m \in DerivedKpis(live))
  <2>1. CASE m \in DerivedKpis(live)
    BY <1>3, <1>4, <2>1, Zenon DEF Verdict, VerdictOn
  <2>2. CASE m \notin DerivedKpis(live)
    BY <1>3, <2>2, Zenon DEF Verdict, VerdictOn
  <2> QED
    BY <2>1, <2>2
<1>8. PICK d, c, v, b : /\ d = DataDay(live) /\ c = RuleOf(live, m) /\ v = Verdict(m, live, d)
                        /\ b = (m \in DerivedKpis(live))
  BY Zenon
<1>9. b \in BOOLEAN
  <2>1. (m \in DerivedKpis(live)) \in BOOLEAN
    OBVIOUS
  <2> QED
    BY <1>8, <2>1, Zenon
<1>10. DailyHealthOf(live)[m] = [sum |-> v, cfg |-> c, day |-> d, derived |-> b]
  BY <1>8, Zenon DEF DailyHealthOf
<1> DEFINE h == DailyHealthOf(live)[m]
<1>11. h.sum = v /\ h.cfg = c /\ h.day = d /\ h.derived = b
  <2> HIDE DEF h
  <2>1. h = [sum |-> v, cfg |-> c, day |-> d, derived |-> b]
    BY <1>10 DEF h
  <2> QED
    BY <2>1
<1> HIDE DEF h
<1>12. Grounds(m, h)
  <2>1. b => m \in DOMAIN Formula
    BY <1>2, <1>8, Zenon
  <2> QED
    BY <1>5, <1>6, <1>8, <1>9, <1>11, <2>1 DEF Grounds
<1>13. v = VerdictOn(readings, m, c, d, b)
  BY <1>7, <1>8, Zenon
<1> QED
  BY <1>2, <1>11, <1>12, <1>13 DEF h
-----------------------------------------------------------------------------
(* Its steps                                                               *)

\* Nothing is judged, published or asked for at first.
LEMMA BenchStarts == BenchInit => BenchInv
<1> SUFFICES ASSUME BenchInit PROVE BenchInv
  OBVIOUS
<1>1. RunInv
  <2>1. LiveTyped
    BY WorkbenchAssumption DEF BenchInit, LiveTyped, WorkbenchAssumption
  <2>2. DOMAIN frozen.items = {} /\ bench = NoRun /\ DOMAIN bench.scope.items = {}
    BY DEF BenchInit, NotFrozen, NoRun
  <2>3. DOMAIN bench = {"step", "mode", "scope"} /\ bench.step = "idle"
    BY <2>2 DEF NoRun
  <2>4. BenchRuns \in Nat /\ BenchEdits \in Nat
    BY WorkbenchAssumption DEF WorkbenchAssumption
  <2> QED
    BY <2>1, <2>2, <2>3, <2>4 DEF BenchInit, RunInv
<1>2. PointsInv
  BY DEF BenchInit, PointsInv, ArePoints, NoPoints
<1>3. HealthInv /\ ResultsInv
  BY DEF BenchInit, HealthInv, ResultsInv, AreResults
<1>4. AskedTyped /\ KeptInv /\ SeenInv
  BY DEF BenchInit, NoRequest, AskedTyped, KeptInv, SeenInv, AreResults
<1> QED
  BY <1>1, <1>2, <1>3, <1>4 DEF BenchInv

\* What a step leaves alone keeps its part of the invariant.
LEMMA SameFacts ==
  ASSUME BenchInv, UNCHANGED readings
  PROVE  /\ UNCHANGED <<index, mirrored, points>> => PointsInv'
         /\ UNCHANGED <<health, index>> => HealthInv'
         /\ UNCHANGED <<results, points>> => ResultsInv'
         /\ UNCHANGED <<results, points, published, request>> => AskedTyped' /\ KeptInv' /\ SeenInv'
<1>1. UNCHANGED <<index, mirrored, points>> => PointsInv'
  BY DEF BenchInv, PointsInv
<1>2. UNCHANGED <<health, index>> => HealthInv'
  BY DEF BenchInv, HealthInv
<1>3. UNCHANGED <<results, points>> => ResultsInv'
  BY DEF BenchInv, ResultsInv
<1>4. UNCHANGED <<results, points, published, request>> => AskedTyped' /\ KeptInv' /\ SeenInv'
  <2> SUFFICES ASSUME UNCHANGED <<results, points, published, request>> PROVE AskedTyped' /\ KeptInv' /\ SeenInv'
    OBVIOUS
  <2>1. AskedTyped' /\ KeptInv'
    BY DEF BenchInv, AskedTyped, KeptInv
  <2>2. SeenInv'
    BY DEF BenchInv, SeenInv, HasEvidence
  <2> QED
    BY <2>1, <2>2
<1> QED
  BY <1>1, <1>2, <1>3, <1>4

\* A run begins: only its scope is new.
LEMMA BeginsKeep ==
  ASSUME BenchInv, BeginRun \/ BeginRebuild \/ BeginRerun
  PROVE  BenchInv'
<1>1. UNCHANGED <<readings, live, teamFocus, request, edits, health, index, mirrored, results, points, published>>
  BY DEF BeginRun, BeginRebuild, BeginRerun, Quietly, sceneVars, dbVars
<1>2. DOMAIN Scope(live).items \subseteq Kpis
  BY WorkbenchAssumption DEF WorkbenchAssumption, BenchInv, RunInv, LiveTyped, Scope, BaseKpis, DerivedKpis
<1>3. /\ DOMAIN bench' = {"step", "mode", "scope"} /\ bench'.step = "inspect"
      /\ bench'.scope \in {Scope(live), frozen} /\ frozen' \in {Scope(live), frozen}
      /\ runs < BenchRuns /\ runs' = runs + 1 /\ bench.step = "idle"
  BY DEF BeginRun, BeginRebuild, BeginRerun
<1>4. RunInv'
  <2>1. DOMAIN bench'.scope.items \subseteq Kpis /\ DOMAIN frozen'.items \subseteq Kpis
    BY <1>2, <1>3 DEF BenchInv, RunInv
  <2>2. LiveTyped'
    BY <1>1 DEF BenchInv, RunInv, LiveTyped
  <2>3. runs' \in 0..BenchRuns /\ published' + 1 <= runs'
    BY <1>1, <1>3, WorkbenchAssumption DEF BenchInv, RunInv, WorkbenchAssumption
  <2> QED
    BY <1>1, <1>3, <2>1, <2>2, <2>3 DEF BenchInv, RunInv
<1> QED
  BY <1>1, <1>4, SameFacts DEF BenchInv

\* The steps of a run before its verdicts are published, and one that
\* publishes nothing.
LEMMA WorkerKeepsRun ==
  ASSUME BenchInv, Inspect \/ InspectFails \/ AdoptScope \/ MirrorIndex \/ PublishesNothing
  PROVE  RunInv' /\ ResultsInv' /\ AskedTyped' /\ KeptInv' /\ SeenInv'
<1>1. UNCHANGED <<readings, live, teamFocus, request, edits, results, points, published, runs>>
  BY DEF Inspect, InspectFails, AdoptScope, MirrorIndex, PublishesNothing, Quietly, sceneVars, dbVars
<1>2. /\ DOMAIN bench' = {"step", "mode", "scope"}
      /\ bench'.step \in {"idle", "adopt", "mirror", "publish"}
      /\ DOMAIN bench'.scope.items \subseteq Kpis /\ DOMAIN frozen'.items \subseteq Kpis
      /\ bench.step # "idle"
  <2>1. CASE PublishesNothing
    BY <2>1 DEF PublishesNothing, NoRun, NotFrozen, BenchInv, RunInv
  <2>2. CASE Inspect \/ InspectFails \/ AdoptScope \/ MirrorIndex
    <3>1. \A s : WorkerGoes(s) => /\ DOMAIN bench' = {"step", "mode", "scope"} /\ bench'.step = s
                                  /\ bench'.scope = bench.scope
      BY DEF WorkerGoes, BenchInv, RunInv
    <3>2. \E s \in {"adopt", "mirror", "publish"} : WorkerGoes(s)
      <4> HIDE DEF WorkerGoes
      <4> QED
        BY <2>2 DEF Inspect, InspectFails, AdoptScope, MirrorIndex
    <3>3. frozen' \in {frozen, bench.scope} /\ bench.step # "idle"
      BY <2>2 DEF Inspect, InspectFails, AdoptScope, MirrorIndex
    <3> QED
      BY <3>1, <3>2, <3>3 DEF BenchInv, RunInv
  <2> QED
    BY <2>1, <2>2, Zenon
<1>3. RunInv'
  <2>1. LiveTyped'
    BY <1>1 DEF BenchInv, RunInv, LiveTyped
  <2> QED
    BY <1>1, <1>2, <2>1 DEF BenchInv, RunInv
<1> QED
  BY <1>1, <1>3, SameFacts

\* The daily health is judged anew, or lost; points are mirrored.
LEMMA WorkerKeeps ==
  ASSUME BenchInv, Inspect \/ InspectFails \/ AdoptScope \/ MirrorIndex \/ PublishesNothing
  PROVE  BenchInv'
<1>1. PointsInv' /\ HealthInv'
  <2>1. CASE Inspect
    <3>1. /\ health' = DailyHealthOf(live) /\ index' = [m \in Kpis |-> Readable(readings[m])]
          /\ UNCHANGED <<readings, mirrored, points>>
      BY <2>1 DEF Inspect, Quietly, dbVars
    <3>2. PointsInv'
      <4>1. ArePoints(readings, index')
        BY <3>1 DEF ArePoints, Readable
      <4> QED
        BY <3>1, <4>1 DEF BenchInv, PointsInv
    <3>3. HealthInv'
      <4>1. DOMAIN health' = Listed(live)
        BY <3>1 DEF DailyHealthOf
      <4>2. \A m \in Listed(live) :
              /\ m \in Kpis /\ Grounds(m, health'[m])
              /\ health'[m].sum = VerdictOn(readings, m, health'[m].cfg, health'[m].day, health'[m].derived)
        BY <3>1, JudgedNow DEF BenchInv
      <4>3. \A m \in Kpis : index'[m] = Readable(readings[m])
        BY <3>1
      <4> QED
        BY <3>1, <4>1, <4>2, <4>3 DEF HealthInv
    <3> QED
      BY <3>2, <3>3
  <2>2. CASE InspectFails
    <3>1. /\ health' = <<>> /\ index' \in {index, NoPoints} /\ UNCHANGED <<readings, mirrored, points>>
      BY <2>2 DEF InspectFails, Quietly, dbVars
    <3>2. PointsInv'
      <4>1. ArePoints(readings, index')
        BY <3>1 DEF BenchInv, PointsInv, ArePoints, NoPoints
      <4> QED
        BY <3>1, <4>1 DEF BenchInv, PointsInv
    <3>3. HealthInv'
      BY <3>1 DEF HealthInv
    <3> QED
      BY <3>2, <3>3
  <2>3. CASE AdoptScope \/ PublishesNothing
    <3>1. UNCHANGED <<readings, health, index, mirrored, points>>
      BY <2>3 DEF AdoptScope, PublishesNothing, Quietly, sceneVars, dbVars
    <3> QED
      BY <3>1, SameFacts
  <2>4. CASE MirrorIndex
    <3>1. UNCHANGED <<readings, health, index, points>> /\ mirrored' \in {index, mirrored}
      BY <2>4 DEF MirrorIndex, Quietly, sceneVars
    <3> QED
      BY <3>1, SameFacts DEF BenchInv, PointsInv
  <2> QED
    BY <2>1, <2>2, <2>3, <2>4, Zenon
<1> QED
  BY <1>1, WorkerKeepsRun, Zenon DEF BenchInv

\* A verdict that is published is the verdict of the daily health.
LEMMA PublishKeeps ==
  ASSUME BenchInv, PublishVerdicts
  PROVE  BenchInv'
<1> DEFINE Told(m) == Result(health[m].sum, health[m].cfg, health[m].day, health[m].derived)
<1>1. /\ UNCHANGED <<readings, live, teamFocus, frozen, health, index, mirrored, runs, edits>>
      /\ results' = [m \in DOMAIN frozen.items |-> IF m \in DOMAIN health THEN Told(m) ELSE MissingResult]
      /\ points' = ScenePoints /\ bench' = NoRun /\ published' = published + 1 /\ bench.step = "publish"
      /\ request' = [request EXCEPT !.kept = @ \cap DOMAIN frozen.items]
  BY DEF PublishVerdicts, sceneVars
<1>2. RunInv'
  <2>1. LiveTyped'
    BY <1>1 DEF BenchInv, RunInv, LiveTyped
  <2>2. DOMAIN bench' = {"step", "mode", "scope"} /\ bench'.step = "idle" /\ DOMAIN bench'.scope.items = {}
    BY <1>1 DEF NoRun, NotFrozen
  <2>3. published' \in Nat /\ published' <= runs
    BY <1>1 DEF BenchInv, RunInv
  <2> QED
    BY <1>1, <2>1, <2>2, <2>3 DEF BenchInv, RunInv
<1>3. PointsInv' /\ HealthInv'
  <2>1. ArePoints(readings, points')
    BY <1>1 DEF BenchInv, PointsInv, ArePoints, ScenePoints
  <2> QED
    BY <1>1, <2>1, SameFacts DEF BenchInv, PointsInv
<1>4. ResultsInv'
  <2>1. DOMAIN results' = DOMAIN frozen.items /\ DOMAIN frozen.items \subseteq Kpis
    BY <1>1 DEF BenchInv, RunInv
  <2>2. ASSUME NEW m \in DOMAIN results', m \notin DOMAIN health
        PROVE  results'[m] = MissingResult
    BY <1>1, <2>1, <2>2
  <2>3. ASSUME NEW m \in DOMAIN results', m \in DOMAIN health
        PROVE  IsResult(readings, m, results'[m]) /\ points'[m] = Readable(readings[m])
    <3>1. /\ Grounds(m, health[m]) /\ index[m] = Readable(readings[m])
          /\ health[m].sum = VerdictOn(readings, m, health[m].cfg, health[m].day, health[m].derived)
      BY <2>3 DEF BenchInv, HealthInv
    <3>2. results'[m] = Told(m)
      BY <1>1, <2>1, <2>3, Zenon
    <3>3. Told(m).cfg = health[m].cfg /\ Told(m).day = health[m].day /\ Told(m).derived = health[m].derived
      BY DEF Result
    <3>4. Grounds(m, Told(m))
      BY <3>1, <3>3 DEF Grounds
    <3>5. Told(m) = Result(VerdictOn(readings, m, Told(m).cfg, Told(m).day, Told(m).derived),
                           Told(m).cfg, Told(m).day, Told(m).derived)
      BY <3>1, <3>3, Zenon
    <3>6. points'[m] = index[m]
      BY <1>1, <2>1, <2>3 DEF ScenePoints
    <3> HIDE DEF Told
    <3> QED
      BY <3>1, <3>2, <3>4, <3>5, <3>6, Zenon DEF IsResult
  <2>4. \A m \in DOMAIN results' : IsResult(readings, m, results'[m])
    <3>1. \A m : IsResult(readings, m, MissingResult)
      BY Zenon DEF IsResult
    <3> QED
      BY <2>2, <2>3, <3>1
  <2> QED
    BY <1>1, <2>1, <2>2, <2>3, <2>4 DEF ResultsInv, AreResults
<1>5. /\ DOMAIN request' = DOMAIN request /\ request'.kept = request.kept \cap DOMAIN frozen.items
      /\ request'.step = request.step /\ request'.about = request.about /\ request'.items = request.items
      /\ request'.results = request.results /\ request'.points = request.points
      /\ request'.todo = request.todo /\ request'.since = request.since
  BY <1>1 DEF BenchInv, AskedTyped
<1>6. request'.since \in 0..published' /\ request'.since # published'
  BY <1>1, <1>5 DEF BenchInv, RunInv, AskedTyped
<1>7. AskedTyped' /\ KeptInv'
  BY <1>1, <1>5, <1>6 DEF BenchInv, AskedTyped, KeptInv
<1>8. SeenInv'
  BY <1>1, <1>5, <1>6 DEF BenchInv, SeenInv, HasEvidence
<1> QED
  BY <1>2, <1>3, <1>4, <1>7, <1>8 DEF BenchInv

\* An edit changes the configuration or the focus.
LEMMA EditsKeep ==
  ASSUME BenchInv,
         \/ \E u \in {KpiUnit[m] : m \in Kpis} : SwitchInspection(u)
         \/ \E m \in Kpis : CorrectBinding(m) \/ AddMaintenance(m)
         \/ EditFocus
  PROVE  BenchInv'
<1>1. BenchEdit
  BY DEF SwitchInspection, CorrectBinding, AddMaintenance, EditFocus
<1>2. /\ UNCHANGED <<readings, frozen, health, index, mirrored, results, points, bench, request, runs, published>>
      /\ edits' = edits + 1 /\ edits < BenchEdits
  BY <1>1 DEF BenchEdit, sceneVars, dbVars
<1>3. teamFocus' \in Focuses
  BY DEF SwitchInspection, CorrectBinding, AddMaintenance, EditFocus, BenchInv, RunInv
<1>4. LiveTyped'
  <2>1. LiveTyped
    BY DEF BenchInv, RunInv
  <2>2. ASSUME NEW u \in {KpiUnit[m] : m \in Kpis}, SwitchInspection(u) PROVE LiveTyped'
    BY <2>1, <2>2 DEF SwitchInspection, LiveTyped
  <2>3. ASSUME NEW m \in Kpis, CorrectBinding(m) PROVE LiveTyped'
    <3>1. PICK chosen \in {{m}, {}} :
            live' = [live EXCEPT !.candidates = @ \ {m}, !.confirmed = @ \cup chosen]
      BY <2>3 DEF CorrectBinding
    <3> QED
      BY <2>1, <3>1 DEF LiveTyped
  <2>4. ASSUME NEW m \in Kpis, AddMaintenance(m) PROVE LiveTyped'
    BY <2>1, <2>4 DEF AddMaintenance, LiveTyped
  <2>5. CASE EditFocus
    BY <2>1, <2>5 DEF EditFocus, LiveTyped
  <2> QED
    BY <2>2, <2>3, <2>4, <2>5
<1>5. RunInv'
  <2>1. edits' \in 0..BenchEdits
    BY <1>2, WorkbenchAssumption DEF BenchInv, RunInv, WorkbenchAssumption
  <2> QED
    BY <1>2, <1>3, <1>4, <2>1 DEF BenchInv, RunInv
<1> QED
  BY <1>2, <1>5, SameFacts DEF BenchInv

\* A statement of a request reads the database and changes only the request.
LEMMA RequestKeeps ==
  ASSUME BenchInv,
         \/ \E about \in Asked : ReadSnapshot(about)
         \/ ReadFocus \/ ReadScope \/ ReadResults
         \/ OpenEvidence \/ (\E m \in request.todo : ReadPoints(m)) \/ Answer
  PROVE  BenchInv'
<1>1. UNCHANGED <<readings, live, teamFocus, frozen, health, index, mirrored, results, points, bench, runs, edits, published>>
  BY DEF ReadSnapshot, ReadFocus, ReadScope, ReadResults, OpenEvidence, ReadPoints, Answer, RequestGoes, sceneVars, dbVars
<1>2. RunInv'
  BY <1>1 DEF BenchInv, RunInv, LiveTyped
<1> DEFINE fields == {"step", "about", "units", "items", "focus", "results", "points", "todo", "kept", "since"}
<1>3. DOMAIN request = fields /\ DOMAIN NoRequest = fields
  BY DEF BenchInv, AskedTyped, NoRequest
<1>4. AskedTyped' /\ KeptInv' /\ SeenInv'
  <2>1. ASSUME NEW about \in Asked, ReadSnapshot(about) PROVE AskedTyped' /\ KeptInv' /\ SeenInv'
    <3>1. /\ DOMAIN request' = fields /\ request'.step = "focus" /\ request'.since = published
          /\ request'.kept = DOMAIN results /\ request'.results = <<>>
      BY <2>1 DEF ReadSnapshot, RequestGoes, NoRequest
    <3> QED
      BY <1>1, <3>1 DEF AskedTyped, KeptInv, SeenInv, AreResults, BenchInv, RunInv
  <2>2. CASE ReadFocus
    <3>1. /\ DOMAIN request' = fields /\ request'.step = "scope" /\ request.step = "focus"
          /\ request'.since = request.since /\ request'.kept = request.kept /\ request'.results = request.results
      BY <1>3, <2>2 DEF ReadFocus, RequestGoes
    <3> QED
      BY <1>1, <3>1 DEF AskedTyped, KeptInv, SeenInv, BenchInv
  <2>3. CASE ReadScope
    <3>1. /\ DOMAIN request' = fields /\ request'.step = "results" /\ request.step = "scope"
          /\ request'.since = request.since /\ request'.kept = request.kept /\ request'.results = request.results
      BY <1>3, <2>3 DEF ReadScope, RequestGoes
    <3> QED
      BY <1>1, <3>1 DEF AskedTyped, KeptInv, SeenInv, BenchInv
  <2>4. CASE ReadResults
    <3>1. /\ DOMAIN request' = fields /\ request.step = "results" /\ request'.about = request.about
          /\ request'.step = IF request.about = Nil THEN "shown" ELSE "evidence"
          /\ request'.since = request.since /\ request'.kept = request.kept /\ request'.results = results
          /\ request'.todo = request.todo
      BY <1>3, <2>4 DEF ReadResults, RequestGoes
    <3> QED
      BY <1>1, <3>1 DEF AskedTyped, KeptInv, SeenInv, BenchInv, ResultsInv
  <2>5. CASE OpenEvidence
    <3>1. request.step = "evidence" /\ request.about # Nil
      BY <2>5 DEF OpenEvidence, BenchInv, SeenInv
    <3>2. CASE HasEvidence(request.about)
      <4>1. /\ DOMAIN request' = fields /\ request'.step = "points" /\ request'.about = request.about
            /\ request'.todo = Parts(request.about) /\ request'.points = NoPoints /\ request'.items = request.items
            /\ request'.since = request.since /\ request'.kept = request.kept /\ request'.results = request.results
        BY <1>3, <2>5, <3>2 DEF OpenEvidence, RequestGoes
      <4>2. HasEvidence(request.about)'
        BY <3>2, <4>1 DEF HasEvidence
      <4>3. DOMAIN NoPoints = Kpis
        BY DEF NoPoints
      <4> QED
        BY <1>1, <3>1, <4>1, <4>2, <4>3 DEF AskedTyped, KeptInv, SeenInv, BenchInv
    <3>3. CASE ~HasEvidence(request.about)
      <4>1. /\ DOMAIN request' = fields /\ request'.step = "refused"
            /\ request'.since = request.since /\ request'.kept = request.kept /\ request'.results = request.results
        BY <1>3, <2>5, <3>3 DEF OpenEvidence, RequestGoes
      <4> QED
        BY <1>1, <4>1 DEF AskedTyped, KeptInv, SeenInv, BenchInv
    <3> QED
      BY <3>2, <3>3
  <2>6. ASSUME NEW m \in request.todo, ReadPoints(m) PROVE AskedTyped' /\ KeptInv' /\ SeenInv'
    <3>1. request.step = "points" /\ request.about # Nil /\ DOMAIN request.points = Kpis
      BY <2>6 DEF ReadPoints, BenchInv, SeenInv
    <3>2. /\ DOMAIN request' = fields /\ request'.about = request.about /\ request'.items = request.items
          /\ request'.step = (IF request.todo = {m} THEN "shown" ELSE "points")
          /\ request'.todo = request.todo \ {m} /\ request'.points = [request.points EXCEPT ![m] = points[m]]
          /\ request'.since = request.since /\ request'.kept = request.kept /\ request'.results = request.results
      BY <1>3, <2>6 DEF ReadPoints, RequestGoes
    <3>3. HasEvidence(request.about)'
      BY <3>1, <3>2 DEF HasEvidence, BenchInv, SeenInv
    <3>4. AskedTyped' /\ KeptInv'
      BY <1>1, <3>1, <3>2 DEF AskedTyped, KeptInv, BenchInv
    <3>5. ASSUME request.since = published, NEW k \in Parts(request.about) \ request'.todo
          PROVE  request'.points[k] = points[k]
      <4>1. k \in Kpis
        BY <3>3, <3>2, WorkbenchAssumption DEF HasEvidence, BenchInv, SeenInv, AreResults, Parts, WorkbenchAssumption
      <4>2. CASE k = m
        BY <3>1, <3>2, <4>1, <4>2
      <4>3. CASE k # m
        BY <3>1, <3>2, <3>5, <4>3 DEF BenchInv, SeenInv
      <4> QED
        BY <4>2, <4>3
    <3>6. SeenInv'
      <4>1. AreResults(readings', request'.results)
        BY <1>1, <3>2 DEF BenchInv, SeenInv
      <4>2. request'.since = published' => request'.results = results'
        BY <1>1, <3>1, <3>2 DEF BenchInv, SeenInv
      <4>3. DOMAIN request'.points = Kpis
        BY <3>1, <3>2
      <4>4. request'.step = "shown" => request'.todo = {}
        BY <3>2
      <4> QED
        BY <1>1, <3>1, <3>2, <3>3, <3>5, <4>1, <4>2, <4>3, <4>4 DEF SeenInv
    <3> QED
      BY <3>4, <3>6
  <2>7. CASE Answer
    <3>1. request' = NoRequest
      BY <2>7 DEF Answer, RequestGoes
    <3>2. /\ DOMAIN request' = fields /\ request'.step = "idle" /\ request'.since = 0 /\ request'.results = <<>>
      BY <3>1 DEF NoRequest
    <3> QED
      BY <1>1, <3>2 DEF AskedTyped, KeptInv, SeenInv, AreResults, BenchInv, RunInv
  <2> QED
    BY <2>1, <2>2, <2>3, <2>4, <2>5, <2>6, <2>7
<1> QED
  BY <1>1, <1>2, <1>4, SameFacts DEF BenchInv

\* Every step keeps the invariant.
LEMMA BenchKept == BenchInv /\ [BenchNext]_benchVars => BenchInv'
<1> SUFFICES ASSUME BenchInv, [BenchNext]_benchVars PROVE BenchInv'
  OBVIOUS
<1>1. CASE BeginRun \/ BeginRebuild \/ BeginRerun
  BY <1>1, BeginsKeep
<1>2. CASE Inspect \/ InspectFails \/ AdoptScope \/ MirrorIndex \/ PublishesNothing
  BY <1>2, WorkerKeeps
<1>3. CASE PublishVerdicts
  BY <1>3, PublishKeeps
<1>4. CASE \/ \E u \in {KpiUnit[m] : m \in Kpis} : SwitchInspection(u)
           \/ \E m \in Kpis : CorrectBinding(m) \/ AddMaintenance(m)
           \/ EditFocus
  BY <1>4, EditsKeep
<1>5. CASE \/ \E about \in Asked : ReadSnapshot(about)
           \/ ReadFocus \/ ReadScope \/ ReadResults
           \/ OpenEvidence \/ (\E m \in request.todo : ReadPoints(m)) \/ Answer
  BY <1>5, RequestKeeps
<1>6. CASE UNCHANGED benchVars
  <2>1. UNCHANGED <<readings, live, teamFocus, frozen, health, index, mirrored, results, points, bench, request, runs, edits, published>>
    BY <1>6 DEF benchVars, sceneVars, dbVars
  <2>2. RunInv'
    BY <2>1 DEF BenchInv, RunInv, LiveTyped
  <2> QED
    BY <2>1, <2>2, SameFacts DEF BenchInv
<1> QED
  BY <1>1, <1>2, <1>3, <1>4, <1>5, <1>6, Zenon DEF BenchNext

\* What holds whenever a run and a request meet.
THEOREM BenchInvariant == BenchSpec => []BenchInv
<1>1. BenchInit => BenchInv
  BY BenchStarts
<1>2. BenchInv /\ [BenchNext]_benchVars => BenchInv'
  BY BenchKept
<1> QED
  BY <1>1, <1>2, PTL DEF BenchSpec
-----------------------------------------------------------------------------
(* What it shows                                                           *)

\* Every verdict has one of the six statuses,
LEMMA VerdictStatus ==
  ASSUME NEW R, NEW m, NEW cfg, NEW d, NEW x PROVE VerdictOn(R, m, cfg, d, x).status \in HealthStatuses
  BY BaseHealthStatus, DerivedHealthStatus DEF VerdictOn

\* every verdict one of the groups,
LEMMA GroupTyped == ASSUME NEW sum PROVE AttentionGroup(sum) \in Groups
  BY DEF AttentionGroup, Groups

\* a failed threshold the group of failures,
LEMMA FailIsFailure ==
  ASSUME NEW sum, sum.status = "fail", sum.reason = "critical_threshold"
  PROVE  AttentionGroup(sum) = "failure"
<1>1. SpecialState(sum) = "none"
  BY DEF SpecialState
<1> QED
  BY <1>1 DEF AttentionGroup

\* and every published result both.
LEMMA ResultTyped ==
  ASSUME NEW R, NEW m, NEW r, IsResult(R, m, r)
  PROVE  r.status \in HealthStatuses /\ r.group \in Groups
<1>1. \A sum, c, d, x : Result(sum, c, d, x).status = sum.status /\ Result(sum, c, d, x).group = AttentionGroup(sum)
  BY DEF Result
<1>2. CASE r = MissingResult
  <2> DEFINE sum == Summary({NoGroup("no_current_data")})
  <2>1. sum.status \in HealthStatuses
    BY NoGroupStatus
  <2> HIDE DEF sum
  <2>2. r.status = sum.status /\ r.group = AttentionGroup(sum)
    BY <1>1, <1>2, Zenon DEF MissingResult, sum
  <2> QED
    BY <2>1, <2>2, GroupTyped
<1>3. CASE r # MissingResult
  <2>1. PICK sum, c, d, x : sum = VerdictOn(R, m, c, d, x) /\ c = r.cfg /\ d = r.day /\ x = r.derived
    OBVIOUS
  <2>2. r = Result(sum, c, d, x)
    BY <1>3, <2>1, Zenon DEF IsResult
  <2>3. r.status = sum.status /\ r.group = AttentionGroup(sum)
    BY <1>1, <2>2
  <2> QED
    BY <2>1, <2>3, GroupTyped, VerdictStatus
<1> QED
  BY <1>2, <1>3

\* The workbench has the types of the code's values in every reachable state,
\* whatever is judged, published and asked for meanwhile.
THEOREM BenchTypes == BenchSpec => []BenchTypeOK
<1>1. BenchInv => BenchTypeOK
  <2> SUFFICES ASSUME BenchInv PROVE BenchTypeOK
    OBVIOUS
  <2>1. live.confirmed \cup live.candidates \cup live.custom \subseteq Kpis /\ live.derived \subseteq DOMAIN Formula
    BY DEF BenchInv, RunInv, LiveTyped
  <2>2. DOMAIN health \subseteq Kpis /\ \A m \in DOMAIN health : health[m].sum.status \in HealthStatuses
    BY VerdictStatus DEF BenchInv, HealthInv
  <2>3. DOMAIN results \subseteq Kpis /\ \A m \in DOMAIN results : results[m].status \in HealthStatuses /\ results[m].group \in Groups
    BY ResultTyped DEF BenchInv, ResultsInv, AreResults
  <2>4. \A m \in Kpis : points[m] \subseteq readings[m] /\ mirrored[m] \subseteq readings[m]
    BY DEF BenchInv, PointsInv, ArePoints
  <2>5. published \in 0..runs
    BY DEF BenchInv, RunInv
  <2> QED
    BY <2>1, <2>2, <2>3, <2>4, <2>5 DEF BenchTypeOK, BenchInv, RunInv, AskedTyped
<1> QED
  BY <1>1, BenchInvariant, PTL

\* For any readings, configurations and edits: a reading that reaches the critical
\* threshold it was judged with, alone of its object on the data day, is shown as
\* a failure that needs attention to a team that focuses on its metric
\* (build_daily_health_snapshot, publish_kpi_v6_snapshot, get_kpi_workbench_source_data).
THEOREM BreachIsShown == BenchSpec => []FailReachesAttention
<1>1. BenchInv => FailReachesAttention
  <2> DEFINE r(m) == request.results[m]
             Breach(m) == IF r(m).derived THEN RateBreach(m, r(m).cfg, r(m).day) ELSE BaseBreach(m, r(m).cfg, r(m).day)
  <2>1. SUFFICES ASSUME BenchInv, NEW m \in FocusView \cap DOMAIN request.results,
                        r(m).cfg # Nil, r(m).cfg.direction \in {"higher_better", "lower_better"}, Breach(m)
                 PROVE  m \in AttentionView /\ ShownAs(m).group = "failure"
    BY Zenon DEF FailReachesAttention
  <2>2. m \in Kpis /\ IsResult(readings, m, r(m)) /\ readings \in Readings
    BY <2>1 DEF BenchInv, SeenInv, AreResults, RunInv
  <2>3. r(m) # MissingResult
    BY <2>1 DEF MissingResult, Result
  <2>4. PICK c, d, x, v : /\ c = r(m).cfg /\ d = r(m).day /\ x = r(m).derived /\ v = VerdictOn(readings, m, c, d, x)
    OBVIOUS
  <2>5. Grounds(m, r(m)) /\ r(m) = Result(v, c, d, x)
    BY <2>2, <2>3, <2>4, Zenon DEF IsResult
  <2>6. /\ c \in {DefaultRule[m], CustomRule[m]} /\ x \in BOOLEAN /\ (x => m \in DOMAIN Formula)
        /\ c.direction \in {"higher_better", "lower_better"}
    BY <2>1, <2>4, <2>5 DEF Grounds
  <2>7. v.status = "fail" /\ v.reason = "critical_threshold"
    <3>1. CASE x
      <4>1. RateBreach(m, c, d)
        BY <2>1, <2>4, <3>1
      <4>2. m \in DOMAIN Formula /\ Formula[m][1] \in Kpis /\ Formula[m][2] \in Kpis
        BY <2>6, <3>1, WorkbenchAssumption DEF WorkbenchAssumption
      <4>3. PICK N, D, R : N = readings[Formula[m][1]] /\ D = readings[Formula[m][2]] /\ R = readings[m]
        OBVIOUS
      <4>4. N \in SUBSET PointSet /\ D \in SUBSET PointSet /\ IsFiniteSet(N) /\ IsFiniteSet(D)
        BY <2>2, <4>2, <4>3, ReadingsTyped
      <4>5. PICK p \in OnDay(Pairs(N, D, {}), d) :
              /\ Alone(p, Pairs(N, D, {}), d) /\ p.den # 0
              /\ Reaches(Turned((p.num * 1000) \div p.den, c.template), c.critical, c)
        BY <4>1, <4>3 DEF RateBreach
      <4>6. DerivedHealth(N, D, R, c, d).status = "fail" /\ DerivedHealth(N, D, R, c, d).reason = "critical_threshold"
        BY <2>6, <4>4, <4>5, RateBreachFails
      <4>7. v = DerivedHealth(N, D, R, c, d)
        BY <2>4, <3>1, <4>3, Zenon DEF VerdictOn
      <4> QED
        BY <4>6, <4>7
    <3>2. CASE ~x
      <4>1. BaseBreach(m, c, d)
        BY <2>1, <2>4, <3>2
      <4>2. PICK A : A = readings[m]
        OBVIOUS
      <4>3. A \in SUBSET PointSet
        BY <2>2, <4>2, ReadingsTyped
      <4>4. PICK p \in OnDay(Readable(A), d) : Alone(p, A, d) /\ p.value # 0 /\ Reaches(p.value, c.critical, c)
        BY <4>1, <4>2, Zenon DEF BaseBreach
      <4>5. c.aggregation \in {"latest", "sum", "max", "min", "mean"}
        BY <2>2, <2>6, WorkbenchAssumption DEF WorkbenchAssumption
      <4>6. BaseHealth(A, c, d).status = "fail" /\ BaseHealth(A, c, d).reason = "critical_threshold"
        BY <2>6, <4>3, <4>4, <4>5, BaseBreachFails
      <4>7. v = BaseHealth(A, c, d)
        BY <2>4, <3>2, <4>2, Zenon DEF VerdictOn
      <4> QED
        BY <4>6, <4>7
    <3> QED
      BY <3>1, <3>2
  <2>8. r(m).group = "failure"
    <3>1. Result(v, c, d, x).group = AttentionGroup(v)
      BY DEF Result
    <3> QED
      BY <2>5, <2>7, <3>1, FailIsFailure
  <2>9. ShownAs(m).group = "failure"
    BY <2>1, <2>8 DEF ShownAs
  <2> QED
    BY <2>1, <2>9 DEF AttentionView
<1> QED
  BY <1>1, BenchInvariant, PTL

\* A publication replaces the verdicts of the scope by those of the scope.
LEMMA KeptIsShown == ASSUME BenchInv PROVE ShownWithItsVerdict
<1> SUFFICES ASSUME request.step = "shown", NEW m \in request.kept \cap request.items PROVE ShownAs(m).found
  BY DEF ShownWithItsVerdict
<1>1. m \in DOMAIN request.results
  BY DEF BenchInv, KeptInv
<1> QED
  BY <1>1 DEF ShownAs

\* The points were published with the verdict that counted them.
LEMMA EvidenceIsBacked == ASSUME BenchInv PROVE EvidenceBacksVerdict
<1> DEFINE m == request.about
           r == request.results[m]
<1>1. SUFFICES ASSUME request.step = "shown", m # Nil, request.since = published, m \notin DOMAIN Formula
               PROVE  r.count <= Cardinality(Dedup(OnDay(request.points[m], r.day)))
  BY Zenon DEF EvidenceBacksVerdict
<1>2. /\ request.results = results /\ m \in DOMAIN results /\ r.evidence
      /\ request.points[m] = points[m]
  BY <1>1 DEF BenchInv, SeenInv, HasEvidence, Parts
<1>3. m \in Kpis /\ IsResult(readings, m, r) /\ readings \in Readings
  BY <1>2 DEF BenchInv, ResultsInv, AreResults, RunInv
<1>4. r # MissingResult
  <2>1. ~MissingResult.evidence
    BY DEF MissingResult, Result, Summary, NoGroup
  <2> QED
    BY <1>2, <2>1
<1>5. points[m] = Readable(readings[m])
  BY <1>2, <1>4 DEF BenchInv, ResultsInv
<1>6. PICK c, d, v : c = r.cfg /\ d = r.day /\ v = VerdictOn(readings, m, c, d, r.derived)
  OBVIOUS
<1>7. Grounds(m, r) /\ r = Result(v, c, d, r.derived)
  BY <1>3, <1>4, <1>6, Zenon DEF IsResult
<1>8. ~r.derived
  BY <1>1, <1>7 DEF Grounds
<1>9. v = BaseHealth(readings[m], c, d)
  BY <1>6, <1>8, Zenon DEF VerdictOn
<1>10. r.count = v.valid
  <2>1. \A x : Result(v, c, d, x).count = v.valid
    BY DEF Result
  <2> QED
    BY <1>7, <2>1
<1>11. IsFiniteSet(readings[m])
  BY <1>3, ReadingsTyped
<1>12. v.valid <= Cardinality(Dedup(OnDay(Readable(readings[m]), d)))
  BY <1>9, <1>11, BaseCount
<1> QED
  BY <1>2, <1>5, <1>6, <1>10, <1>12

\* The detail judges the data day of the same readings.
LEMMA DetailIsVerdict == ASSUME BenchInv PROVE DetailAgrees
<1> DEFINE own(m, d) == [k \in Parts(m) |-> Window(mirrored[k], d)]
           needed(m, rate) == IF rate THEN Parts(m) \ {m} ELSE {m}
           all(m, d, rate) == Completed(own(m, d), needed(m, rate), EarlierTasks, d)
           Whole(m, d) == Pairs(readings[Formula[m][1]], readings[Formula[m][2]], readings[m])
<1>1. SUFFICES ASSUME NEW m \in DOMAIN health, NEW upkeep \in Upkeeps,
                      health[m].cfg = upkeep.rule[m], health[m].derived = (m \in upkeep.derived),
                      \A k \in Parts(m) : Window(mirrored[k], health[m].day) = readings[k],
                      health[m].derived => \A k \in {Formula[m][1], Formula[m][2]} :
                        ObjectsOf(OnDay(readings[k], health[m].day)) \subseteq ObjectsOf(Whole(m, health[m].day))
               PROVE  Detail(m, upkeep).status = health[m].sum.status
  BY Zenon DEF DetailAgrees
<1>2. PICK d, c : d = health[m].day /\ c = upkeep.rule[m]
  OBVIOUS
<1>3. /\ Grounds(m, health[m]) /\ d \in Int
      /\ health[m].sum = VerdictOn(readings, m, c, d, health[m].derived)
  BY <1>1, <1>2 DEF BenchInv, HealthInv, Grounds
<1>4. DOMAIN own(m, d) = Parts(m) /\ \A k \in Parts(m) : own(m, d)[k] = readings[k]
  BY <1>1, <1>2
<1>5. CASE m \notin upkeep.derived
  <2> DEFINE full == all(m, d, FALSE)
  <2>1. Detail(m, upkeep) = BaseHealth(full[m], c, d)
    BY <1>2, <1>5, Zenon DEF Detail
  <2>2. health[m].sum = BaseHealth(readings[m], c, d)
    BY <1>1, <1>3, <1>5, Zenon DEF VerdictOn
  <2>3. m \in Parts(m)
    BY DEF Parts
  <2>4. PICK f, needs : f = own(m, d) /\ needs = {m}
    OBVIOUS
  <2>5. full = Completed(f, needs, EarlierTasks, d)
    BY <2>4, Zenon
  <2> HIDE DEF own, full
  <2>6. m \in DOMAIN f /\ f[m] = readings[m]
    BY <1>4, <2>3, <2>4
  <2>7. PICK K : full[m] = f[m] \cup K /\ Adds(K, f[m], d)
    BY <2>5, <2>6, CompletedAdds
  <2> QED
    BY <1>3, <2>1, <2>2, <2>6, <2>7, BaseAgrees
<1>6. CASE m \in upkeep.derived
  <2> DEFINE full == all(m, d, TRUE)
             n    == Formula[m][1]
             e    == Formula[m][2]
  <2>1. Detail(m, upkeep) = DerivedHealth(full[n], full[e], full[m], c, d)
    BY <1>2, <1>6, Zenon DEF Detail
  <2>2. health[m].derived /\ m \in DOMAIN Formula
    BY <1>1, <1>3, <1>6 DEF Grounds
  <2>3. health[m].sum = DerivedHealth(readings[n], readings[e], readings[m], c, d)
    BY <1>3, <2>2, Zenon DEF VerdictOn
  <2>4. m \in Parts(m) /\ n \in Parts(m) /\ e \in Parts(m)
    BY <2>2 DEF Parts
  <2>5. PICK f, needs : f = own(m, d) /\ needs = Parts(m) \ {m}
    OBVIOUS
  <2>6. full = Completed(f, needs, EarlierTasks, d)
    BY <2>5, Zenon
  <2>7. ObjectsOf(OnDay(readings[n], d)) \subseteq ObjectsOf(Whole(m, d))
        /\ ObjectsOf(OnDay(readings[e], d)) \subseteq ObjectsOf(Whole(m, d))
    BY <1>1, <1>2, <2>2
  <2> HIDE DEF own, full
  <2>8. f[n] = readings[n] /\ f[e] = readings[e] /\ f[m] = readings[m] /\ DOMAIN f = Parts(m) /\ m \notin needs
    BY <1>4, <2>4, <2>5
  <2>9. PICK J : full[n] = readings[n] \cup J /\ Adds(J, readings[n], d)
    BY <2>4, <2>6, <2>8, CompletedAdds
  <2>10. PICK K : full[e] = readings[e] \cup K /\ Adds(K, readings[e], d)
    BY <2>4, <2>6, <2>8, CompletedAdds
  <2>11. full[m] = readings[m]
    <3>1. m \in DOMAIN f
      BY <2>4, <2>8
    <3>2. PICK L : full[m] = f[m] \cup L /\ Adds(L, f[m], d) /\ (m \notin needs => L = {})
      BY <2>6, <3>1, CompletedAdds, Zenon
    <3> QED
      BY <2>8, <3>2
  <2>12. DerivedHealth(readings[n] \cup J, readings[e] \cup K, readings[m], c, d).status
         = DerivedHealth(readings[n], readings[e], readings[m], c, d).status
    <3>1. PICK N, D, R : N = readings[n] /\ D = readings[e] /\ R = readings[m]
      OBVIOUS
    <3> QED
      BY <1>3, <2>7, <2>9, <2>10, <3>1, DerivedAgrees
  <2> QED
    BY <2>1, <2>3, <2>9, <2>10, <2>11, <2>12, Zenon
<1> QED
  BY <1>5, <1>6

\* For any interleaving of runs, edits and requests: a verdict that was there during
\* the request is shown, with the readings it counted, and the detail computed from
\* mirrored points has its status (get_kpi_workbench_metric_evidence,
\* get_kpi_daily_health_metric).
THEOREM VerdictIsShown == BenchSpec => []VerdictShown
<1>1. BenchInv => VerdictShown
  BY KeptIsShown, EvidenceIsBacked, DetailIsVerdict DEF VerdictShown
<1> QED
  BY <1>1, BenchInvariant, PTL
-----------------------------------------------------------------------------
(* The reading and judging of measurement files                            *)

\* The sum of a function is a fold over its domain.
LEMMA TotalFold ==
  ASSUME NEW S, IsFiniteSet(S), NEW V \in [S -> Int]
  PROVE  \E h : Sums(S, V, h) /\ Total(V) = h[S]
<1> DEFINE It(f) == f = [s \in SUBSET S |->
                           IF s = {} THEN 0 ELSE V[CHOOSE x \in s : TRUE] + f[s \ {CHOOSE x \in s : TRUE}]]
<1>1. \A f : It(f) <=> Sums(S, V, f)
  BY Zenon DEF Sums, Chosen
<1>2. Total(V) = (CHOOSE f : It(f))[S]
  <2>1. DOMAIN V = S
    OBVIOUS
  <2> QED
    BY <2>1 DEF Total, MapThenSumSet, MapThenFoldSet
<1>3. PICK h0 : Sums(S, V, h0)
  BY SumExists
<1>4. It(h0)
  BY <1>1, <1>3
<1> HIDE DEF It
<1>5. It(CHOOSE f : It(f))
  BY <1>4
<1> QED
  BY <1>1, <1>2, <1>5

\* It is a number.
LEMMA TotalIsNumber ==
  ASSUME NEW S, IsFiniteSet(S), NEW V \in [S -> Int]
  PROVE  Total(V) \in Int
<1>1. PICK h : Sums(S, V, h) /\ Total(V) = h[S]
  BY TotalFold
<1> QED
  BY <1>1, SumIsNumber

\* Sums of functions over one set stand to each other as their values do.
LEMMA SumsNegate ==
  ASSUME NEW S, IsFiniteSet(S), NEW V \in [S -> Int], NEW W \in [S -> Int],
         \A x \in S : W[x] = -V[x],
         NEW g, NEW h, Sums(S, V, g), Sums(S, W, h)
  PROVE  h[S] = -g[S]
<1> DEFINE Agrees(s) == g[s] \in Int /\ h[s] = -g[s]
           T == {n \in Nat : \A s \in SUBSET S : Cardinality(s) = n => Agrees(s)}
<1>0. \A s \in SUBSET S : IsFiniteSet(s) /\ Cardinality(s) \in Nat
  BY FS_Subset, FS_CardinalityType
<1>1. 0 \in T
  <2>1. g[{}] = 0 /\ h[{}] = 0
    BY DEF Sums
  <2> QED
    BY <1>0, <2>1, FS_EmptySet
<1>2. ASSUME NEW n \in Nat, n \in T PROVE n + 1 \in T
  <2> SUFFICES ASSUME NEW s \in SUBSET S, Cardinality(s) = n + 1 PROVE Agrees(s)
    OBVIOUS
  <2>1. IsFiniteSet(s) /\ s # {}
    BY <1>0, FS_EmptySet
  <2>2. PICK x \in s : x = Chosen(s)
    BY <2>1, ChosenIn
  <2>3. PICK r \in SUBSET S : r = s \ {x}
    OBVIOUS
  <2>4. Agrees(r)
    BY <1>2, <2>1, <2>3, OneLess
  <2>5. g[s] = V[x] + g[r] /\ h[s] = W[x] + h[r]
    BY <2>1, <2>2, <2>3 DEF Sums
  <2>6. V[x] \in Int /\ W[x] = -V[x]
    BY <2>2
  <2> QED
    BY <2>4, <2>5, <2>6
<1>3. Cardinality(S) \in T
  <2> HIDE DEF T
  <2> QED
    BY <1>0, <1>1, <1>2, AllNumbers
<1> QED
  BY <1>3

\* The sum of the opposite values is the opposite sum.
LEMMA TotalNegates ==
  ASSUME NEW S, IsFiniteSet(S), NEW V \in [S -> Int], NEW W \in [S -> Int], \A x \in S : W[x] = -V[x]
  PROVE  Total(W) = -Total(V)
<1>1. PICK g : Sums(S, V, g) /\ Total(V) = g[S]
  BY TotalFold
<1>2. PICK h : Sums(S, W, h) /\ Total(W) = h[S]
  BY TotalFold
<1> QED
  BY <1>1, <1>2, SumsNegate

\* The sum of added values is the sum of the sums.
LEMMA SumsAdd ==
  ASSUME NEW S, IsFiniteSet(S), NEW R \in [S -> Int], NEW A \in [S -> Int], NEW B \in [S -> Int],
         \A x \in S : R[x] = A[x] + B[x],
         NEW r, NEW a, NEW b, Sums(S, R, r), Sums(S, A, a), Sums(S, B, b)
  PROVE  r[S] = a[S] + b[S]
<1> DEFINE Agrees(s) == a[s] \in Int /\ b[s] \in Int /\ r[s] = a[s] + b[s]
           T == {n \in Nat : \A s \in SUBSET S : Cardinality(s) = n => Agrees(s)}
<1>0. \A s \in SUBSET S : IsFiniteSet(s) /\ Cardinality(s) \in Nat
  BY FS_Subset, FS_CardinalityType
<1>1. 0 \in T
  <2>1. r[{}] = 0 /\ a[{}] = 0 /\ b[{}] = 0
    BY DEF Sums
  <2>2. Agrees({})
    BY <2>1
  <2> HIDE DEF Agrees
  <2> QED
    BY <1>0, <2>2, FS_EmptySet
<1>2. ASSUME NEW n \in Nat, n \in T PROVE n + 1 \in T
  <2> SUFFICES ASSUME NEW s \in SUBSET S, Cardinality(s) = n + 1 PROVE Agrees(s)
    OBVIOUS
  <2>1. IsFiniteSet(s) /\ s # {}
    BY <1>0, FS_EmptySet
  <2>2. PICK x \in s : x = Chosen(s)
    BY <2>1, ChosenIn
  <2>3. PICK q \in SUBSET S : q = s \ {x}
    OBVIOUS
  <2>4. Agrees(q)
    BY <1>2, <2>1, <2>3, OneLess
  <2>5. r[s] = R[x] + r[q] /\ a[s] = A[x] + a[q] /\ b[s] = B[x] + b[q]
    BY <2>1, <2>2, <2>3 DEF Sums
  <2>6. A[x] \in Int /\ B[x] \in Int /\ R[x] = A[x] + B[x]
    BY <2>2
  <2> QED
    BY <2>4, <2>5, <2>6
<1>3. Cardinality(S) \in T
  <2> HIDE DEF T
  <2> QED
    BY <1>0, <1>1, <1>2, AllNumbers
<1> QED
  BY <1>3

\* That holds of Total.
LEMMA TotalAdds ==
  ASSUME NEW S, IsFiniteSet(S), NEW R \in [S -> Int], NEW A \in [S -> Int], NEW B \in [S -> Int],
         \A x \in S : R[x] = A[x] + B[x]
  PROVE  Total(R) = Total(A) + Total(B)
<1>1. PICK r : Sums(S, R, r) /\ Total(R) = r[S]
  BY TotalFold
<1>2. PICK a : Sums(S, A, a) /\ Total(A) = a[S]
  BY TotalFold
<1>3. PICK b : Sums(S, B, b) /\ Total(B) = b[S]
  BY TotalFold
<1> QED
  BY <1>1, <1>2, <1>3, SumsAdd

\* Where one counter is the sum of four for each of a set, so are the sums.
LEMMA TotalBalances ==
  ASSUME NEW S, IsFiniteSet(S), NEW R \in [S -> Int],
         NEW A \in [S -> Int], NEW B \in [S -> Int], NEW C \in [S -> Int], NEW D \in [S -> Int],
         \A x \in S : R[x] = A[x] + B[x] + C[x] + D[x]
  PROVE  Total(R) = Total(A) + Total(B) + Total(C) + Total(D)
<1>1. PICK E \in [S -> Int] : \A x \in S : E[x] = A[x] + B[x]
  <2>1. [x \in S |-> A[x] + B[x]] \in [S -> Int]
    OBVIOUS
  <2> QED
    BY <2>1
<1>2. PICK F \in [S -> Int] : \A x \in S : F[x] = E[x] + C[x]
  <2>1. [x \in S |-> E[x] + C[x]] \in [S -> Int]
    OBVIOUS
  <2> QED
    BY <2>1
<1>3. Total(E) = Total(A) + Total(B)
  BY <1>1, TotalAdds
<1>4. Total(F) = Total(E) + Total(C)
  BY <1>2, TotalAdds
<1>5. \A x \in S : R[x] = F[x] + D[x]
  BY <1>1, <1>2
<1>6. Total(R) = Total(F) + Total(D)
  BY <1>5, TotalAdds
<1> QED
  BY <1>3, <1>4, <1>6

\* A finite set of numbers has a greatest and a least.
LEMMA GreatestIs ==
  ASSUME NEW S, S \subseteq Int, IsFiniteSet(S), S # {}
  PROVE  Max(S) \in S /\ Max(S) \in Int /\ \A y \in S : y <= Max(S)
<1>1. PICK x \in S : \A y \in S : x >= y
  BY GreatestExists
<1>2. Max(S) \in S /\ \A y \in S : Max(S) >= y
  BY <1>1 DEF Max
<1> QED
  BY <1>2

\* Each number below the size of a finite set of numbers is the rank of one of
\* them.
LEMMA RankExists ==
  ASSUME NEW S, S \subseteq Int, IsFiniteSet(S)
  PROVE  \A i \in 1..Cardinality(S) : \E t \in S : Cardinality({y \in S : y < t}) = i - 1
<1> DEFINE Ranked(s) == \A i \in 1..Cardinality(s) : \E t \in s : Cardinality({y \in s : y < t}) = i - 1
           T == {n \in Nat : \A s \in SUBSET S : Cardinality(s) = n => Ranked(s)}
<1>0. \A s \in SUBSET S : IsFiniteSet(s) /\ Cardinality(s) \in Nat
  BY FS_Subset, FS_CardinalityType
<1>1. 0 \in T
  OBVIOUS
<1>2. ASSUME NEW n \in Nat, n \in T PROVE n + 1 \in T
  <2> SUFFICES ASSUME NEW s \in SUBSET S, Cardinality(s) = n + 1, NEW i \in 1..(n + 1)
               PROVE  \E t \in s : Cardinality({y \in s : y < t}) = i - 1
    OBVIOUS
  <2>1. IsFiniteSet(s) /\ s # {}
    BY <1>0, FS_EmptySet
  <2>2. PICK x \in s : \A y \in s : y <= x
    BY <2>1, GreatestIs
  <2>3. PICK r \in SUBSET S : r = s \ {x}
    OBVIOUS
  <2>4. Cardinality(r) = n /\ Ranked(r)
    BY <1>2, <2>1, <2>3, OneLess
  <2>5. CASE i = n + 1
    <3>1. {y \in s : y < x} = r
      <4>1. x \in Int /\ \A y \in s : y \in Int
        OBVIOUS
      <4>2. \A y \in s : y < x <=> y # x
        BY <2>2, <4>1
      <4> QED
        BY <2>3, <4>2
    <3>2. Cardinality({y \in s : y < x}) = i - 1
      <4>1. Cardinality(r) = i - 1
        BY <2>4, <2>5
      <4> QED
        BY <3>1, <4>1
    <3> QED
      BY <2>2, <3>2
  <2>6. CASE i # n + 1
    <3>1. i \in 1..n
      BY <2>6
    <3>2. PICK t \in r : Cardinality({y \in r : y < t}) = i - 1
      BY <2>4, <3>1
    <3>3. {y \in s : y < t} = {y \in r : y < t}
      BY <2>2, <2>3
    <3> QED
      BY <2>3, <3>2, <3>3
  <2> QED
    BY <2>5, <2>6
<1>3. Cardinality(S) \in T
  <2> HIDE DEF T
  <2> QED
    BY <1>0, <1>1, <1>2, AllNumbers
<1> QED
  BY <1>3

-----------------------------------------------------------------------------
(* Trends                                                                  *)

\* A finite set of numbers has a least one.
LEMMA LeastIs ==
  ASSUME NEW S, S \subseteq Int, IsFiniteSet(S), S # {}
  PROVE  Min(S) \in S /\ Min(S) \in Int /\ \A y \in S : Min(S) <= y
<1>0. PICK f \in [S -> Int] : \A x \in S : f[x] = -x
  <2>1. \A x \in S : -x \in Int
    OBVIOUS
  <2>2. [x \in S |-> -x] \in [S -> Int]
    BY <2>1
  <2> QED
    BY <2>2
<1> DEFINE N == {f[x] : x \in S}
<1>1. IsFiniteSet(N)
  <2>1. DOMAIN f = S
    OBVIOUS
  <2> QED
    BY <2>1, FiniteImage
<1>2. N \subseteq Int /\ N # {}
  OBVIOUS
<1> HIDE DEF N
<1>3. PICK z \in N : \A y \in N : z >= y
  BY <1>1, <1>2, GreatestExists
<1>4. PICK x \in S : z = -x
  BY <1>0 DEF N
<1>5. \A y \in S : x <= y
  <2> TAKE y \in S
  <2>1. -y \in N
    BY <1>0 DEF N
  <2>2. -x >= -y /\ x \in Int /\ y \in Int
    BY <1>3, <1>4, <2>1
  <2> QED
    BY <2>2
<1>6. Min(S) \in S /\ \A y \in S : Min(S) <= y
  BY <1>5 DEF Min
<1> QED
  BY <1>6

\* Points of numbers make a series.
LEMMA SeriesTyped ==
  ASSUME NEW A, IsFiniteSet(A), \A p \in A : p.time \in Int /\ p.value \in Int, NEW k
  PROVE  Series(A, k) \in Seq(Int)
<1> DEFINE mine  == {p \in A : SeriesOf(p) = k}
           times == {p.time : p \in mine}
           Nth(i) == CHOOSE t \in times : Cardinality({s \in times : s < t}) = i - 1
           Now(t) == {p \in mine : p.time = t}
           Average(i) == (Scale * Total([p \in Now(Nth(i)) |-> p.value])) \div Cardinality(Now(Nth(i)))
<1>1. IsFiniteSet(mine) /\ IsFiniteSet(times)
  <2>1. IsFiniteSet(mine)
    BY FS_Subset
  <2>2. PICK f : f = [p \in mine |-> p.time]
    OBVIOUS
  <2> HIDE DEF mine
  <2>3. IsFiniteSet({f[p] : p \in mine})
    BY <2>1, <2>2, FiniteImage
  <2>4. {f[p] : p \in mine} = times
    BY <2>2
  <2> QED
    BY <2>1, <2>3, <2>4
<1>2. times \subseteq Int /\ Cardinality(times) \in Nat
  BY <1>1, FS_CardinalityType
<1>3. ASSUME NEW i \in 1..Cardinality(times) PROVE Average(i) \in Int
  <2>1. Nth(i) \in times
    <3> HIDE DEF times
    <3>1. \E t \in times : Cardinality({s \in times : s < t}) = i - 1
      BY <1>1, <1>2, <1>3, RankExists
    <3> QED
      BY <3>1
  <2>2. PICK t \in times : t = Nth(i)
    BY <2>1
  <2>3. Now(t) # {} /\ Now(t) \subseteq A
    OBVIOUS
  <2>4. IsFiniteSet(Now(t)) /\ [p \in Now(t) |-> p.value] \in [Now(t) -> Int]
    BY <2>3, FS_Subset
  <2>5. Total([p \in Now(t) |-> p.value]) \in Int
    <3> HIDE DEF Now
    <3> QED
      BY <2>4, TotalIsNumber
  <2>6. Cardinality(Now(t)) \in Nat \ {0}
    <3> HIDE DEF Now
    <3> QED
      BY <2>3, <2>4, FS_CardinalityType, FS_EmptySet
  <2>7. Scale \in Int
    BY MeasurementAssumption DEF MeasurementAssumption
  <2>8. PICK x \in Int : x = Scale * Total([p \in Now(t) |-> p.value])
    <3>1. PICK y \in Int : y = Total([p \in Now(t) |-> p.value])
      BY <2>5
    <3>2. Scale * y \in Int
      BY <2>7
    <3> QED
      BY <3>1, <3>2
  <2>9. x \div Cardinality(Now(t)) \in Int
    BY <2>6
  <2> QED
    BY <2>2, <2>8, <2>9
<1>4. Series(A, k) = [i \in 1..Cardinality(times) |-> Average(i)]
  BY DEF Series
<1> HIDE DEF times, Average
<1>5. PICK n \in Nat : n = Cardinality(times)
  BY <1>2
<1>6. [i \in 1..n |-> Average(i)] \in Seq(Int)
  BY <1>3, <1>5
<1> QED
  BY <1>4, <1>5, <1>6

\* The parts of a classification.
Before(v)    == Total([i \in 1..(Len(v) - 1) |-> v[i]])
ValuesOf(v)  == {v[i] : i \in 1..Len(v)}
Change(v)    == (Len(v) - 1) * v[Len(v)] - Before(v)
NoRise(v)    == \A i \in 1..(Len(v) - 1) : Within(v[i + 1] - v[i], v)
NoFall(v)    == \A i \in 1..(Len(v) - 1) : Within(v[i] - v[i + 1], v)
Turning(v)   == Classify(v) \in {"recovering", "fluctuating"}

\* The classification in these terms.
LEMMA ClassifyParts ==
  ASSUME NEW v
  PROVE  /\ Len(v) < 2 => Classify(v) = "cannot_determine"
         /\ ~(Len(v) < 2) =>
              IF \A i \in 1..Len(v) : v[i] = 0 THEN Classify(v) = "all_zero"
              ELSE IF Within(Max(ValuesOf(v)) - Min(ValuesOf(v)), v) THEN Classify(v) = "stable"
              ELSE IF 10 * Abs(Change(v)) > 3 * Abs(Before(v))
                   THEN Classify(v) = IF Change(v) > 0 THEN "spike" ELSE "plunge"
              ELSE IF NoFall(v) THEN Classify(v) = "rising"
              ELSE IF NoRise(v) THEN Classify(v) = "falling"
              ELSE Turning(v)
  BY Zenon DEF Classify, Before, ValuesOf, Change, NoRise, NoFall, Turning

\* A series has finitely many values.
LEMMA ValuesFinite == ASSUME NEW v \in Seq(Int) PROVE IsFiniteSet(ValuesOf(v))
<1>1. PICK D : D = 1..Len(v)
  OBVIOUS
<1>2. IsFiniteSet(D)
  <2>1. 1 \in Int /\ Len(v) \in Int
    OBVIOUS
  <2> QED
    BY <1>1, <2>1, FS_Interval
<1>3. DOMAIN v = D
  BY <1>1
<1>4. IsFiniteSet({v[i] : i \in D})
  BY <1>2, <1>3, FiniteImage
<1> QED
  BY <1>1, <1>4 DEF ValuesOf

\* The opposite series has the opposite parts.
LEMMA MirrorParts ==
  ASSUME NEW v \in Seq(Int), NEW w, w = [i \in 1..Len(v) |-> -v[i]], Len(v) >= 2
  PROVE  /\ Len(w) = Len(v) /\ w \in Seq(Int)
         /\ Before(w) = -Before(v) /\ Before(v) \in Int
         /\ Change(w) = -Change(v) /\ Change(v) \in Int
         /\ Total(w) = -Total(v) /\ Total(v) \in Int
         /\ Max(ValuesOf(w)) - Min(ValuesOf(w)) = Max(ValuesOf(v)) - Min(ValuesOf(v))
         /\ Max(ValuesOf(v)) - Min(ValuesOf(v)) \in Int
<1>1. PICK n \in Nat : n = Len(v) /\ n >= 2
  OBVIOUS
<1>2. v \in [1..n -> Int] /\ w = [i \in 1..n |-> -v[i]]
  BY <1>1
<1>3. w \in Seq(Int) /\ Len(w) = n /\ w \in [1..n -> Int] /\ \A i \in 1..n : w[i] = -v[i]
  BY <1>2
<1>4. IsFiniteSet(1..n) /\ IsFiniteSet(1..(n - 1))
  <2>1. 1 \in Int /\ n \in Int /\ n - 1 \in Int
    OBVIOUS
  <2> QED
    BY <2>1, FS_Interval
<1>5. Total(w) = -Total(v) /\ Total(v) \in Int
  <2>1. PICK a \in [1..n -> Int], b \in [1..n -> Int] : a = v /\ b = w
    BY <1>2, <1>3
  <2>2. \A i \in 1..n : b[i] = -a[i]
    BY <1>3, <2>1
  <2>3. Total(b) = -Total(a)
    BY <1>4, <2>2, TotalNegates
  <2>4. Total(a) \in Int
    BY <1>4, TotalIsNumber
  <2> QED
    BY <2>1, <2>3, <2>4
<1>6. Before(w) = -Before(v) /\ Before(v) \in Int
  <2>1. PICK p \in [1..(n - 1) -> Int] : p = [i \in 1..(n - 1) |-> v[i]]
    <3>1. \A i \in 1..(n - 1) : i \in 1..n
      OBVIOUS
    <3>2. [i \in 1..(n - 1) |-> v[i]] \in [1..(n - 1) -> Int]
      BY <1>2, <3>1
    <3> QED
      BY <3>2
  <2>2. PICK q \in [1..(n - 1) -> Int] : q = [i \in 1..(n - 1) |-> w[i]]
    <3>1. \A i \in 1..(n - 1) : i \in 1..n
      OBVIOUS
    <3>2. [i \in 1..(n - 1) |-> w[i]] \in [1..(n - 1) -> Int]
      BY <1>3, <3>1
    <3> QED
      BY <3>2
  <2>3. \A i \in 1..(n - 1) : q[i] = -p[i]
    BY <1>1, <1>3, <2>1, <2>2
  <2>4. Total(q) = -Total(p) /\ Total(p) \in Int
    BY <1>4, <2>3, TotalNegates, TotalIsNumber
  <2> QED
    BY <1>1, <1>3, <2>1, <2>2, <2>4 DEF Before
<1>7. Change(w) = -Change(v) /\ Change(v) \in Int
  <2>1. v[n] \in Int /\ w[n] = -v[n]
    BY <1>1, <1>2, <1>3
  <2>2. PICK a \in Int, b \in Int : a = v[n] /\ b = Before(v)
    BY <1>6, <2>1
  <2>3. (n - 1) * (-a) - (-b) = -((n - 1) * a - b) /\ (n - 1) * a - b \in Int
    BY <1>1
  <2> QED
    BY <1>1, <1>3, <1>6, <2>1, <2>2, <2>3 DEF Change
<1>8. /\ Max(ValuesOf(w)) - Min(ValuesOf(w)) = Max(ValuesOf(v)) - Min(ValuesOf(v))
      /\ Max(ValuesOf(v)) - Min(ValuesOf(v)) \in Int
  <2>1. PICK P : P = ValuesOf(v)
    OBVIOUS
  <2>2. PICK Q : Q = ValuesOf(w)
    OBVIOUS
  <2>3. P = {v[i] : i \in 1..n} /\ Q = {w[i] : i \in 1..n}
    BY <1>1, <1>3, <2>1, <2>2 DEF ValuesOf
  <2>4. P \subseteq Int /\ Q \subseteq Int /\ P # {} /\ Q # {}
    BY <1>1, <1>2, <1>3, <2>3
  <2>5. IsFiniteSet(P) /\ IsFiniteSet(Q)
    BY <1>3, <2>1, <2>2, ValuesFinite
  <2>6. \A x \in P : -x \in Q
    BY <1>2, <1>3, <2>3
  <2>7. \A x \in Q : -x \in P
    <3> SUFFICES ASSUME NEW i \in 1..n PROVE -w[i] \in P
      BY <2>3
    <3>1. v[i] \in Int /\ w[i] = -v[i]
      BY <1>2, <1>3
    <3>2. -w[i] = v[i]
      BY <3>1
    <3>3. v[i] \in P
      BY <2>3
    <3> QED
      BY <3>2, <3>3
  <2>8. /\ Max(P) \in P /\ Max(P) \in Int /\ \A y \in P : y <= Max(P)
        /\ Max(Q) \in Q /\ Max(Q) \in Int /\ \A y \in Q : y <= Max(Q)
    BY <2>4, <2>5, GreatestIs
  <2>9. /\ Min(P) \in P /\ Min(P) \in Int /\ \A y \in P : Min(P) <= y
        /\ Min(Q) \in Q /\ Min(Q) \in Int /\ \A y \in Q : Min(Q) <= y
    BY <2>4, <2>5, LeastIs
  <2>10. -Max(P) \in Q /\ -Min(P) \in Q /\ -Max(Q) \in P /\ -Min(Q) \in P
    BY <2>6, <2>7, <2>8, <2>9
  <2>11. -Max(P) >= Min(Q) /\ -Min(P) <= Max(Q) /\ -Max(Q) >= Min(P) /\ -Min(Q) <= Max(P)
    BY <2>8, <2>9, <2>10
  <2>12. Max(Q) = -Min(P) /\ Min(Q) = -Max(P)
    BY <2>8, <2>9, <2>11
  <2> QED
    BY <2>1, <2>2, <2>8, <2>9, <2>12
<1> QED
  BY <1>1, <1>3, <1>5, <1>6, <1>7, <1>8

\* The tolerance of a series is the tolerance of the opposite one.
LEMMA SameTolerance ==
  ASSUME NEW v \in Seq(Int), NEW w \in Seq(Int), Len(w) = Len(v), Total(v) \in Int, Total(w) = -Total(v), NEW d
  PROVE  Within(d, w) <=> Within(d, v)
<1>1. Abs(Total(w)) = Abs(Total(v))
  BY DEF Abs
<1> QED
  BY <1>1 DEF Within

\* The opposite of a series without a rise is one without a fall.
LEMMA MirrorSteps ==
  ASSUME NEW v \in Seq(Int), NEW w, w = [i \in 1..Len(v) |-> -v[i]], Len(v) >= 2
  PROVE  (NoRise(w) <=> NoFall(v)) /\ (NoFall(w) <=> NoRise(v))
<1>1. Len(w) = Len(v) /\ w \in Seq(Int) /\ Total(w) = -Total(v) /\ Total(v) \in Int
  BY MirrorParts
<1>2. \A d : Within(d, w) <=> Within(d, v)
  BY <1>1, SameTolerance
<1>3. ASSUME NEW i \in 1..(Len(v) - 1)
      PROVE  w[i + 1] - w[i] = v[i] - v[i + 1] /\ w[i] - w[i + 1] = v[i + 1] - v[i]
  <2>1. i \in 1..Len(v) /\ i + 1 \in 1..Len(v)
    BY <1>3
  <2>2. v[i] \in Int /\ v[i + 1] \in Int /\ w[i] = -v[i] /\ w[i + 1] = -v[i + 1]
    BY <2>1
  <2> QED
    BY <2>2
<1> QED
  BY <1>1, <1>2, <1>3 DEF NoRise, NoFall

\* A series that neither rises nor falls beyond the tolerance drifts.
LEMMA DriftsIs ==
  ASSUME NEW v \in Seq(Int), NoRise(v), NoFall(v)
  PROVE  Drifts(v)
<1> SUFFICES ASSUME NEW i \in 1..(Len(v) - 1) PROVE Within(Abs(v[i + 1] - v[i]), v)
  BY DEF Drifts
<1>1. i \in 1..Len(v) /\ i + 1 \in 1..Len(v)
  OBVIOUS
<1>2. v[i] \in Int /\ v[i + 1] \in Int
  BY <1>1
<1>3. Abs(v[i + 1] - v[i]) \in {v[i + 1] - v[i], v[i] - v[i + 1]}
  BY <1>2 DEF Abs
<1> QED
  BY <1>3 DEF NoRise, NoFall

\* The opposite series has the opposite label, up to the two exceptions.
LEMMA ClassifyMirrors ==
  ASSUME NEW v \in Seq(Int), NEW w, w = [i \in 1..Len(v) |-> -v[i]]
  PROVE  \/ Classify(w) = Opposite(Classify(v))
         \/ {Classify(w), Classify(v)} \subseteq {"recovering", "fluctuating"}
         \/ Drifts(v) /\ {Classify(w), Classify(v)} = {"rising"}
<1>0. Len(v) \in Nat
  OBVIOUS
<1>1. CASE Len(v) < 2
  <2>1. Len(w) = Len(v)
    OBVIOUS
  <2>2. Classify(v) = "cannot_determine" /\ Classify(w) = "cannot_determine"
    BY <1>1, <2>1, ClassifyParts
  <2> QED
    BY <2>2 DEF Opposite
<1>2. CASE Len(v) >= 2
  <2>1. /\ Len(w) = Len(v) /\ w \in Seq(Int)
        /\ Before(w) = -Before(v) /\ Before(v) \in Int
        /\ Change(w) = -Change(v) /\ Change(v) \in Int
        /\ Total(w) = -Total(v) /\ Total(v) \in Int
        /\ Max(ValuesOf(w)) - Min(ValuesOf(w)) = Max(ValuesOf(v)) - Min(ValuesOf(v))
    BY <1>2, MirrorParts
  <2>2. \A d : Within(d, w) <=> Within(d, v)
    BY <2>1, SameTolerance
  <2>3. ~(Len(v) < 2) /\ ~(Len(w) < 2)
    BY <1>0, <1>2, <2>1
  <2>4. (\A i \in 1..Len(w) : w[i] = 0) <=> (\A i \in 1..Len(v) : v[i] = 0)
    <3>1. \A i \in 1..Len(v) : w[i] = 0 <=> v[i] = 0
      <4> TAKE i \in 1..Len(v)
      <4>1. v[i] \in Int /\ w[i] = -v[i]
        OBVIOUS
      <4> QED
        BY <4>1
    <3> QED
      BY <2>1, <3>1
  <2>5. (10 * Abs(Change(w)) > 3 * Abs(Before(w))) <=> (10 * Abs(Change(v)) > 3 * Abs(Before(v)))
    BY <2>1 DEF Abs
  <2>6. 10 * Abs(Change(v)) > 3 * Abs(Before(v)) => (Change(w) > 0 <=> ~(Change(v) > 0))
    BY <2>1 DEF Abs
  <2>7. (NoRise(w) <=> NoFall(v)) /\ (NoFall(w) <=> NoRise(v))
    BY <1>2, MirrorSteps
  <2>8. NoRise(v) /\ NoFall(v) => Drifts(v)
    BY DriftsIs
  <2>9. Within(Max(ValuesOf(w)) - Min(ValuesOf(w)), w) <=> Within(Max(ValuesOf(v)) - Min(ValuesOf(v)), v)
    BY <2>1, <2>2
  <2>10. CASE \A i \in 1..Len(v) : v[i] = 0
    <3>1. Classify(v) = "all_zero" /\ Classify(w) = "all_zero"
      BY <2>3, <2>4, <2>10, ClassifyParts
    <3> QED
      BY <3>1 DEF Opposite
  <2>11. ASSUME ~\A i \in 1..Len(v) : v[i] = 0, Within(Max(ValuesOf(v)) - Min(ValuesOf(v)), v)
         PROVE  Classify(w) = Opposite(Classify(v))
    <3>1. Classify(v) = "stable" /\ Classify(w) = "stable"
      BY <2>3, <2>4, <2>9, <2>11, ClassifyParts
    <3> QED
      BY <3>1 DEF Opposite
  <2>12. ASSUME ~\A i \in 1..Len(v) : v[i] = 0, ~Within(Max(ValuesOf(v)) - Min(ValuesOf(v)), v),
                10 * Abs(Change(v)) > 3 * Abs(Before(v))
         PROVE  Classify(w) = Opposite(Classify(v))
    <3>1. /\ Classify(v) = IF Change(v) > 0 THEN "spike" ELSE "plunge"
          /\ Classify(w) = IF Change(w) > 0 THEN "spike" ELSE "plunge"
      BY <2>3, <2>4, <2>5, <2>9, <2>12, ClassifyParts
    <3> QED
      BY <2>6, <2>12, <3>1 DEF Opposite
  <2>13. ASSUME ~\A i \in 1..Len(v) : v[i] = 0, ~Within(Max(ValuesOf(v)) - Min(ValuesOf(v)), v),
                ~(10 * Abs(Change(v)) > 3 * Abs(Before(v)))
         PROVE  \/ Classify(w) = Opposite(Classify(v))
                \/ {Classify(w), Classify(v)} \subseteq {"recovering", "fluctuating"}
                \/ Drifts(v) /\ {Classify(w), Classify(v)} = {"rising"}
    <3>1. IF NoFall(v) THEN Classify(v) = "rising" ELSE IF NoRise(v) THEN Classify(v) = "falling" ELSE Turning(v)
      BY <2>3, <2>13, ClassifyParts
    <3>2. IF NoFall(w) THEN Classify(w) = "rising" ELSE IF NoRise(w) THEN Classify(w) = "falling" ELSE Turning(w)
      BY <2>3, <2>4, <2>5, <2>9, <2>13, ClassifyParts
    <3> QED
      BY <2>7, <2>8, <3>1, <3>2 DEF Opposite, Turning
  <2> QED
    BY <2>10, <2>11, <2>12, <2>13
<1>3. Len(v) < 2 \/ Len(v) >= 2
  BY <1>0
<1> QED
  BY <1>1, <1>2, <1>3, Zenon

-----------------------------------------------------------------------------
(* The counters of a file                                                  *)

Tally == [rows: Int, valid: Int, null: Int, na: Int, bad: Int, zero: Int, sum: Int]
GoodFile(file) ==
  /\ Len(file.rows) \in Nat /\ DOMAIN file.rows = 1..Len(file.rows)
  /\ \A j \in DOMAIN file.rows : IsRow(file.rows[j])

\* The files of a task are as the assumptions say.
LEMMA FilesGood ==
  ASSUME task \in Tasks
  PROVE  /\ Len(files) \in Nat /\ DOMAIN files = 1..Len(files)
         /\ \A k \in 1..Len(files) : GoodFile(files[k])
         /\ task.bound \subseteq Columns
  BY MeasurementAssumption DEF MeasurementAssumption, GoodFile, files

\* A row that counts has a number.
LEMMA ValueTyped ==
  ASSUME task \in Tasks, NEW m, NEW file, NEW row, IsRow(row), ValidColumns(m, file, row) # {}
  PROVE  Value(m, file, row) \in Int
<1>1. PICK S : S = ValidColumns(m, file, row)
  OBVIOUS
<1>2. S \subseteq Nat /\ S # {}
  BY <1>1, FilesGood, MeasurementAssumption DEF MeasurementAssumption, ValidColumns, Present
<1>3. PICK x \in S : \A y \in S : x <= y
  BY <1>2, LeastNumber
<1>4. Min(S) \in S
  BY <1>3 DEF Min
<1>5. \A c \in S : Cell(row, c) \in Int
  BY <1>1 DEF ValidColumns, IsNumber, Cell, IsRow
<1> QED
  BY <1>1, <1>4, <1>5 DEF Value

\* The rows of a file are finitely many.
LEMMA RowsFinite ==
  ASSUME NEW file, GoodFile(file), NEW S, S \subseteq RowsOf(file)
  PROVE  IsFiniteSet(S)
<1>1. PICK n \in Nat : DOMAIN file.rows = 1..n
  BY DEF GoodFile
<1>2. IsFiniteSet(1..n)
  <2>1. 1 \in Int /\ n \in Int
    OBVIOUS
  <2> QED
    BY <2>1, FS_Interval
<1>3. S \subseteq 1..n
  BY <1>1 DEF RowsOf
<1> QED
  BY <1>2, <1>3, FS_Subset

\* The size of a set in four disjoint parts.
LEMMA FourParts ==
  ASSUME NEW S, IsFiniteSet(S), NEW A, NEW B, NEW C, NEW D, S = A \cup B \cup C \cup D,
         A \cap B = {}, (A \cup B) \cap C = {}, (A \cup B \cup C) \cap D = {}
  PROVE  Cardinality(S) = Cardinality(A) + Cardinality(B) + Cardinality(C) + Cardinality(D)
<1>1. IsFiniteSet(A) /\ IsFiniteSet(B) /\ IsFiniteSet(C) /\ IsFiniteSet(D)
  BY FS_Subset
<1>2. PICK E : E = A \cup B
  OBVIOUS
<1>3. PICK F : F = E \cup C
  OBVIOUS
<1>4. IsFiniteSet(E) /\ Cardinality(E) = Cardinality(A) + Cardinality(B) - Cardinality({})
  BY <1>1, <1>2, FS_Union
<1>5. IsFiniteSet(F) /\ Cardinality(F) = Cardinality(E) + Cardinality(C) - Cardinality({})
  <2>1. E \cap C = {}
    BY <1>2
  <2> QED
    BY <1>1, <1>3, <1>4, <2>1, FS_Union
<1>6. Cardinality(S) = Cardinality(F) + Cardinality(D) - Cardinality({})
  <2>1. F \cap D = {} /\ S = F \cup D
    BY <1>2, <1>3
  <2> QED
    BY <1>1, <1>5, <2>1, FS_Union
<1>7. Cardinality({}) = 0
  BY FS_EmptySet
<1>8. Cardinality(A) \in Nat /\ Cardinality(B) \in Nat /\ Cardinality(C) \in Nat /\ Cardinality(D) \in Nat
  BY <1>1, FS_CardinalityType
<1> QED
  BY <1>4, <1>5, <1>6, <1>7, <1>8

\* The counters of a file balance.
LEMMA CountersBalance ==
  ASSUME task \in Tasks, NEW file, GoodFile(file), NEW m, NEW o
  PROVE  /\ Counters(m, file, o) \in Tally /\ Balanced(Counters(m, file, o))
         /\ Counters(m, file, o).rows = Cardinality(RowsAt(file, o))
         /\ Counters(m, file, o).valid = Cardinality(RowsAs(m, file, o, "valid"))
<1> DEFINE Vs == RowsAs(m, file, o, "valid")
           Ns == RowsAs(m, file, o, "null")
           As == RowsAs(m, file, o, "na")
           Bs == RowsAs(m, file, o, "bad")
           values == [i \in Vs |-> Value(m, file, file.rows[i])]
           Zs == {i \in DOMAIN values : values[i] = 0}
<1>1. /\ Vs \subseteq RowsOf(file) /\ Ns \subseteq RowsOf(file) /\ As \subseteq RowsOf(file) /\ Bs \subseteq RowsOf(file)
      /\ Zs \subseteq RowsOf(file) /\ RowsAt(file, o) \subseteq RowsOf(file)
  BY DEF RowsAs, RowsAt
<1>2. /\ RowsAt(file, o) = Vs \cup Ns \cup As \cup Bs
      /\ Vs \cap Ns = {} /\ (Vs \cup Ns) \cap As = {} /\ (Vs \cup Ns \cup As) \cap Bs = {}
  <2>1. \A i : Outcome(m, file, file.rows[i]) \in {"valid", "bad", "na", "null"}
    BY DEF Outcome
  <2> QED
    BY <2>1 DEF RowsAs
<1>3. values \in [Vs -> Int]
  <2> SUFFICES ASSUME NEW i \in Vs PROVE Value(m, file, file.rows[i]) \in Int
    OBVIOUS
  <2>1. i \in RowsOf(file) /\ Outcome(m, file, file.rows[i]) = "valid"
    BY DEF RowsAs, RowsAt
  <2>2. IsRow(file.rows[i])
    BY <2>1 DEF GoodFile, RowsOf
  <2>3. ValidColumns(m, file, file.rows[i]) # {}
    BY <2>1 DEF Outcome
  <2> QED
    BY <2>2, <2>3, ValueTyped
<1>4. /\ IsFiniteSet(Vs) /\ IsFiniteSet(Ns) /\ IsFiniteSet(As) /\ IsFiniteSet(Bs) /\ IsFiniteSet(Zs)
      /\ IsFiniteSet(RowsAt(file, o))
  <2> HIDE DEF Vs, Ns, As, Bs, Zs
  <2> QED
    BY <1>1, RowsFinite
<1>5. Counters(m, file, o)
        = [rows |-> Cardinality(RowsAt(file, o)), valid |-> Cardinality(Vs), null |-> Cardinality(Ns),
           na |-> Cardinality(As), bad |-> Cardinality(Bs), zero |-> Cardinality(Zs), sum |-> Total(values)]
  BY DEF Counters
<1> HIDE DEF Vs, Ns, As, Bs, Zs, values
<1>6. /\ Cardinality(RowsAt(file, o)) \in Int /\ Cardinality(Vs) \in Int /\ Cardinality(Ns) \in Int
      /\ Cardinality(As) \in Int /\ Cardinality(Bs) \in Int /\ Cardinality(Zs) \in Int
  BY <1>4, FS_CardinalityType
<1>7. Total(values) \in Int
  BY <1>3, <1>4, TotalIsNumber
<1>8. Cardinality(RowsAt(file, o)) = Cardinality(Vs) + Cardinality(Ns) + Cardinality(As) + Cardinality(Bs)
  BY <1>2, <1>4, FourParts
<1> QED
  BY <1>5, <1>6, <1>7, <1>8 DEF Tally, Balanced, Vs

\* What a function on a finite set maps one to one has the size of the set.
LEMMA OneToOne ==
  ASSUME NEW S, IsFiniteSet(S), NEW f, DOMAIN f = S, \A x, y \in S : f[x] = f[y] => x = y
  PROVE  IsFiniteSet({f[x] : x \in S}) /\ Cardinality({f[x] : x \in S}) = Cardinality(S)
<1> DEFINE T == {f[x] : x \in S}
           g == [x \in S |-> f[x]]
<1>1. g \in Surjection(S, T)
  BY DEF Surjection
<1>2. g \in Injection(S, T)
  <2>1. \A a, b \in S : g[a] = g[b] => a = b
    OBVIOUS
  <2>2. g \in [S -> T]
    OBVIOUS
  <2> HIDE DEF g
  <2> QED
    BY <2>1, <2>2 DEF Injection, IsInjective
<1> QED
  BY <1>1, <1>2, FS_Surjection

\* The size of two disjoint sets together.
LEMMA TwoParts ==
  ASSUME NEW S, IsFiniteSet(S), NEW T, IsFiniteSet(T), S \cap T = {}
  PROVE  IsFiniteSet(S \cup T) /\ Cardinality(S \cup T) = Cardinality(S) + Cardinality(T)
<1>1. Cardinality({}) = 0
  BY FS_EmptySet
<1>2. IsFiniteSet(S \cup T) /\ Cardinality(S \cup T) = Cardinality(S) + Cardinality(T) - Cardinality({})
  BY FS_Union
<1>3. Cardinality(S) \in Nat /\ Cardinality(T) \in Nat
  BY FS_CardinalityType
<1> QED
  BY <1>1, <1>2, <1>3

-----------------------------------------------------------------------------
(* Merging                                                                 *)

SeenIn(f, o) == IF o \in DOMAIN f THEN f[o] ELSE Empty
AddsUp(c, a, b) ==
  /\ c.rows = a.rows + b.rows /\ c.valid = a.valid + b.valid /\ c.null = a.null + b.null
  /\ c.na = a.na + b.na /\ c.bad = a.bad + b.bad

\* Counters merge to counters,
LEMMA MergeOneAdds ==
  ASSUME NEW a \in Tally, NEW b \in Tally
  PROVE  MergeOne(a, b) \in Tally /\ AddsUp(MergeOne(a, b), a, b)
  BY DEF MergeOne, Tally, AddsUp

\* the counters of nothing are counters,
LEMMA EmptyTally == Empty \in Tally /\ Balanced(Empty)
  BY DEF Empty, Tally, Balanced

\* counters that balance add up to counters that balance,
LEMMA AddsBalance ==
  ASSUME NEW a \in Tally, NEW b \in Tally, NEW c, AddsUp(c, a, b), Balanced(a), Balanced(b)
  PROVE  Balanced(c)
  BY DEF AddsUp, Balanced, Tally

\* and observations to the counters of both.
LEMMA MergeAdds ==
  ASSUME NEW f, NEW g, \A o \in DOMAIN f : f[o] \in Tally, \A o \in DOMAIN g : g[o] \in Tally
  PROVE  /\ DOMAIN Merge(f, g) = DOMAIN f \cup DOMAIN g
         /\ \A o \in DOMAIN Merge(f, g) : Merge(f, g)[o] \in Tally
         /\ \A o : /\ SeenIn(f, o) \in Tally /\ SeenIn(g, o) \in Tally
                   /\ AddsUp(SeenIn(Merge(f, g), o), SeenIn(f, o), SeenIn(g, o))
<1>1. DOMAIN Merge(f, g) = DOMAIN f \cup DOMAIN g
  BY DEF Merge
<1>2. \A o : SeenIn(f, o) \in Tally /\ SeenIn(g, o) \in Tally
  BY EmptyTally DEF SeenIn
<1>3. \A a \in Tally : AddsUp(a, a, Empty) /\ AddsUp(a, Empty, a)
  BY DEF AddsUp, Empty, Tally
<1>4. ASSUME NEW o \in DOMAIN Merge(f, g)
      PROVE  Merge(f, g)[o] \in Tally /\ AddsUp(Merge(f, g)[o], SeenIn(f, o), SeenIn(g, o))
  <2>1. CASE o \notin DOMAIN g
    <3>1. Merge(f, g)[o] = f[o] /\ SeenIn(f, o) = f[o] /\ SeenIn(g, o) = Empty
      BY <1>1, <1>4, <2>1 DEF Merge, SeenIn
    <3> QED
      BY <1>2, <1>3, <3>1
  <2>2. CASE o \in DOMAIN g /\ o \notin DOMAIN f
    <3>1. Merge(f, g)[o] = g[o] /\ SeenIn(g, o) = g[o] /\ SeenIn(f, o) = Empty
      BY <1>1, <1>4, <2>2 DEF Merge, SeenIn
    <3> QED
      BY <1>2, <1>3, <3>1
  <2>3. CASE o \in DOMAIN g /\ o \in DOMAIN f
    <3>1. Merge(f, g)[o] = MergeOne(f[o], g[o]) /\ SeenIn(g, o) = g[o] /\ SeenIn(f, o) = f[o]
      BY <1>1, <1>4, <2>3 DEF Merge, SeenIn
    <3> QED
      BY <1>2, <3>1, MergeOneAdds
  <2> QED
    BY <2>1, <2>2, <2>3
<1>5. ASSUME NEW o, o \notin DOMAIN Merge(f, g)
      PROVE  AddsUp(SeenIn(Merge(f, g), o), SeenIn(f, o), SeenIn(g, o))
  <2>1. SeenIn(Merge(f, g), o) = Empty /\ SeenIn(f, o) = Empty /\ SeenIn(g, o) = Empty
    BY <1>1, <1>5 DEF SeenIn
  <2> QED
    BY <1>3, <2>1, EmptyTally
<1>6. \A o \in DOMAIN Merge(f, g) : SeenIn(Merge(f, g), o) = Merge(f, g)[o]
  BY DEF SeenIn
<1> QED
  BY <1>1, <1>2, <1>4, <1>5, <1>6

\* What a file says of an object, if anything.
LEMMA ObserveSeen ==
  ASSUME task \in Tasks, NEW file, GoodFile(file), NEW m
  PROVE  /\ DOMAIN Observe(m, file) = ObjectsIn(file) /\ ObjectsIn(file) \subseteq Objects
         /\ \A o \in DOMAIN Observe(m, file) : Observe(m, file)[o] \in Tally
         /\ \A o : /\ SeenIn(Observe(m, file), o) \in Tally /\ Balanced(SeenIn(Observe(m, file), o))
                   /\ SeenIn(Observe(m, file), o).rows = Cardinality(RowsAt(file, o))
                   /\ SeenIn(Observe(m, file), o).valid = Cardinality(RowsAs(m, file, o, "valid"))
<1>1. DOMAIN Observe(m, file) = ObjectsIn(file)
  BY DEF Observe
<1>2. ObjectsIn(file) \subseteq Objects
  BY DEF ObjectsIn, RowsOf, GoodFile, IsRow
<1>3. \A o \in ObjectsIn(file) : Observe(m, file)[o] = Counters(m, file, o) /\ SeenIn(Observe(m, file), o) = Counters(m, file, o)
  BY DEF Observe, SeenIn
<1>4. ASSUME NEW o, o \notin ObjectsIn(file)
      PROVE  /\ SeenIn(Observe(m, file), o) = Empty
             /\ Cardinality(RowsAt(file, o)) = 0 /\ Cardinality(RowsAs(m, file, o, "valid")) = 0
  <2>1. RowsAt(file, o) = {}
    BY <1>4 DEF RowsAt, ObjectsIn
  <2>2. RowsAs(m, file, o, "valid") = {}
    BY <2>1 DEF RowsAs
  <2> QED
    BY <1>1, <1>4, <2>1, <2>2, FS_EmptySet DEF SeenIn
<1>5. Empty.rows = 0 /\ Empty.valid = 0
  BY DEF Empty
<1>6. \A o : /\ SeenIn(Observe(m, file), o) \in Tally /\ Balanced(SeenIn(Observe(m, file), o))
             /\ SeenIn(Observe(m, file), o).rows = Cardinality(RowsAt(file, o))
             /\ SeenIn(Observe(m, file), o).valid = Cardinality(RowsAs(m, file, o, "valid"))
  <2> TAKE o
  <2>1. CASE o \in ObjectsIn(file)
    BY <1>3, <2>1, CountersBalance
  <2>2. CASE o \notin ObjectsIn(file)
    BY <1>4, <1>5, <2>2, EmptyTally
  <2> QED
    BY <2>1, <2>2
<1>7. \A o \in ObjectsIn(file) : Observe(m, file)[o] \in Tally
  BY <1>3, <1>6
<1> QED
  BY <1>1, <1>2, <1>6, <1>7

\* The counters of several metrics together.
SumFor(here, file, o) == [k \in DOMAIN Empty |-> Total([m \in here |-> Counters(m, file, o)[k]])]

\* They balance if each metric's do.
LEMMA SumBalances ==
  ASSUME task \in Tasks, NEW file, GoodFile(file), NEW here, IsFiniteSet(here), NEW o
  PROVE  SumFor(here, file, o) \in Tally /\ Balanced(SumFor(here, file, o))
<1> DEFINE Of(k) == [m \in here |-> Counters(m, file, o)[k]]
<1>1. \A m \in here : Counters(m, file, o) \in Tally /\ Balanced(Counters(m, file, o))
  BY CountersBalance
<1>2. /\ Of("rows") \in [here -> Int] /\ Of("valid") \in [here -> Int] /\ Of("null") \in [here -> Int]
      /\ Of("na") \in [here -> Int] /\ Of("bad") \in [here -> Int] /\ Of("zero") \in [here -> Int]
      /\ Of("sum") \in [here -> Int]
  BY <1>1 DEF Tally
<1>3. \A m \in here : Of("rows")[m] = Of("valid")[m] + Of("null")[m] + Of("na")[m] + Of("bad")[m]
  BY <1>1 DEF Balanced
<1>4. SumFor(here, file, o) = [k \in {"rows", "valid", "null", "na", "bad", "zero", "sum"} |-> Total(Of(k))]
  BY DEF SumFor, Empty
<1> HIDE DEF Of
<1>5. /\ Total(Of("rows")) \in Int /\ Total(Of("valid")) \in Int /\ Total(Of("null")) \in Int
      /\ Total(Of("na")) \in Int /\ Total(Of("bad")) \in Int /\ Total(Of("zero")) \in Int
      /\ Total(Of("sum")) \in Int
  BY <1>2, TotalIsNumber
<1>6. Total(Of("rows")) = Total(Of("valid")) + Total(Of("null")) + Total(Of("na")) + Total(Of("bad"))
  <2>1. PICK R \in [here -> Int], A \in [here -> Int], B \in [here -> Int], C \in [here -> Int], D \in [here -> Int] :
          R = Of("rows") /\ A = Of("valid") /\ B = Of("null") /\ C = Of("na") /\ D = Of("bad")
    BY <1>2
  <2>2. \A m \in here : R[m] = A[m] + B[m] + C[m] + D[m]
    BY <1>3, <2>1
  <2>3. Total(R) = Total(A) + Total(B) + Total(C) + Total(D)
    BY <2>2, TotalBalances
  <2> QED
    BY <2>1, <2>3
<1> QED
  BY <1>4, <1>5, <1>6 DEF Tally, Balanced

-----------------------------------------------------------------------------
(* The inspection of a unit                                                *)

ParseError == \E i \in 1..Len(files) : files[i].discovered = "parse_error"
Counted(f) == DOMAIN f \subseteq Objects /\ \A o \in DOMAIN f : f[o] \in Tally

MeasTypes ==
  /\ task \in Tasks /\ next \in 1..(Len(files) + 1)
  /\ stage \in {"discover", "read", "derive", "done"}
  /\ status \in {"none", "pass", "warn", "fail", "skip", "error"}
  /\ Counted(byObject)
  /\ \A m \in MeasMetrics : Counted(observed[m])

\* The points of a metric are of files read so far.
GoodPoints(m) ==
  IsFiniteSet(series[m]) /\ \A p \in series[m] : p.time \in Int /\ p.value \in Int /\ p.file \in 1..(next - 1)
SeriesInv == \A m \in MeasMetrics : GoodPoints(m)

\* RowsCounted, for one metric and object.
WithTime(S) == {r \in S : HasTime(files[r[1]].rows[r[2]])}
CountedRows(m, o) ==
  /\ IsFiniteSet(RowsRead(m, o))
  /\ SeenIn(observed[m], o).rows = Cardinality(RowsRead(m, o))
  /\ Balanced(SeenIn(observed[m], o))
  /\ SeenIn(observed[m], o).valid = Cardinality(ValidRead(m, o))
  /\ PointRows(m, o) = WithTime(ValidRead(m, o))
RowsInv ==
  /\ \A m \in MeasMetrics, o \in Objects : CountedRows(m, o)
  /\ \A o \in DOMAIN byObject : Balanced(byObject[o])

\* What is judged is what has been read, and trouble has left its mark.
StageInv ==
  /\ stage \in {"discover", "read"} => judged = <<>>
  /\ stage \in {"derive", "done"} =>
       /\ judged = [m \in Found |-> Judgement(m)]
       /\ (\E m \in Found : ~Judgement(m).ok) => status = "fail"
  /\ stage # "discover" /\ ParseError => status \notin {"none", "pass", "warn"}

MeasInv == MeasTypes /\ SeriesInv /\ RowsInv /\ StageInv

\* Nothing is read at the start.
LEMMA MeasStarts == ASSUME MeasInit PROVE MeasInv
<1>1. \A m \in MeasMetrics : observed[m] = <<>> /\ series[m] = {}
  BY DEF MeasInit
<1>2. DOMAIN <<>> = {}
  OBVIOUS
<1>3. MeasTypes
  <2>1. task \in Tasks /\ next = 1 /\ stage = "discover" /\ status = "none" /\ byObject = <<>>
    BY DEF MeasInit
  <2>2. Len(files) \in Nat
    BY <2>1, FilesGood
  <2>3. Counted(byObject)
    BY <1>2, <2>1 DEF Counted
  <2>4. \A m \in MeasMetrics : Counted(observed[m])
    BY <1>1, <1>2 DEF Counted
  <2> QED
    BY <2>1, <2>2, <2>3, <2>4 DEF MeasTypes
<1>4. SeriesInv
  BY <1>1, FS_EmptySet DEF SeriesInv, GoodPoints
<1>5. RowsInv
  <2>1. ASSUME NEW m \in MeasMetrics, NEW o \in Objects PROVE CountedRows(m, o)
    <3>1. FilesRead(m) = {}
      BY DEF FilesRead, MeasInit
    <3>2. RowsRead(m, o) = {}
      BY <3>1 DEF RowsRead
    <3>3. SeenIn(observed[m], o) = Empty
      BY <1>1, <1>2 DEF SeenIn
    <3>4. ValidRead(m, o) = {} /\ PointRows(m, o) = {}
      BY <1>1, <3>2 DEF ValidRead, PointRows
    <3>5. Empty.rows = 0 /\ Empty.valid = 0
      BY DEF Empty
    <3> QED
      BY <3>2, <3>3, <3>4, <3>5, FS_EmptySet, EmptyTally DEF CountedRows, WithTime
  <2>2. DOMAIN byObject = {}
    BY <1>2 DEF MeasInit
  <2> QED
    BY <2>1, <2>2 DEF RowsInv
<1>6. StageInv
  BY DEF StageInv, MeasInit
<1> QED
  BY <1>3, <1>4, <1>5, <1>6 DEF MeasInv

\* A step that reads no row keeps the count.
LEMMA QuietKeeps ==
  ASSUME MeasInv, task' = task, observed' = observed, byObject' = byObject, series' = series,
         \A m \in MeasMetrics : FilesRead(m)' = FilesRead(m), next' \in {next, next + 1}
  PROVE  SeriesInv' /\ RowsInv'
<1>1. next \in Nat
  <2>1. Len(files) \in Nat
    BY FilesGood DEF MeasInv, MeasTypes
  <2> QED
    BY <2>1 DEF MeasInv, MeasTypes
<1>2. \A k : k \in 1..(next - 1) => k \in 1..(next' - 1)
  <2>1. CASE next' = next
    BY <2>1
  <2>2. CASE next' = next + 1
    BY <1>1, <2>2
  <2> QED
    BY <2>1, <2>2
<1>3. SeriesInv'
  BY <1>2 DEF MeasInv, SeriesInv, GoodPoints
<1>4. ASSUME NEW m \in MeasMetrics, NEW o \in Objects PROVE CountedRows(m, o)'
  <2>1. RowsRead(m, o)' = RowsRead(m, o)
    BY DEF RowsRead, files
  <2>2. SeenIn(observed[m], o)' = SeenIn(observed[m], o)
    BY DEF SeenIn
  <2>3. Balanced(SeenIn(observed[m], o))' <=> Balanced(SeenIn(observed[m], o))
    BY <2>2 DEF Balanced
  <2>4. CountedRows(m, o)
    BY DEF MeasInv, RowsInv
  <2>5. ValidRead(m, o)' = ValidRead(m, o)
    BY <2>1 DEF ValidRead, files, Outcome, ValidColumns, Present
  <2>6. PointRows(m, o)' = PointRows(m, o)
    BY DEF PointRows
  <2>7. WithTime(ValidRead(m, o))' = WithTime(ValidRead(m, o))
    BY <2>5 DEF WithTime, files
  <2> QED
    BY <2>1, <2>2, <2>3, <2>4, <2>5, <2>6, <2>7 DEF CountedRows
<1>5. (\A o \in DOMAIN byObject : Balanced(byObject[o]))'
  BY DEF MeasInv, RowsInv, Balanced
<1> QED
  BY <1>3, <1>4, <1>5 DEF RowsInv

\* A file is read for the metrics it has, or not at all.
Reads(m) == File.discovered = "matched" /\ ~File.lost /\ Present(m, File) # {}
LEMMA FilesReadGrows ==
  ASSUME next \in Nat \ {0}, task' = task, next' = next + 1, NEW m
  PROVE  /\ Reads(m) => FilesRead(m)' = FilesRead(m) \cup {next}
         /\ ~Reads(m) => FilesRead(m)' = FilesRead(m)
<1>1. 1..(next' - 1) = 1..(next - 1) \cup {next}
  BY Z3
<1>2. FilesRead(m)' = {k \in 1..(next - 1) \cup {next} :
                         files[k].discovered = "matched" /\ ~files[k].lost /\ Present(m, files[k]) # {}}
  BY <1>1 DEF FilesRead, files, Present
<1> QED
  BY <1>2 DEF Reads, File, FilesRead

\* Pairs of a number and the members of a set are as many as the members.
LEMMA PairedSize ==
  ASSUME NEW S, IsFiniteSet(S), NEW n
  PROVE  IsFiniteSet({<<n, i>> : i \in S}) /\ Cardinality({<<n, i>> : i \in S}) = Cardinality(S)
<1>1. PICK f : f = [i \in S |-> <<n, i>>]
  OBVIOUS
<1>2. DOMAIN f = S /\ \A x, y \in S : f[x] = f[y] => x = y
  BY <1>1
<1>3. {<<n, i>> : i \in S} = {f[i] : i \in S}
  BY <1>1
<1> QED
  BY <1>2, <1>3, OneToOne

\* What a file adds to the rows read, and to the valid ones.
NewRows(o) == {<<next, i>> : i \in RowsAt(File, o)}
NewValid(m, o) == {<<next, i>> : i \in RowsAs(m, File, o, "valid")}
LEMMA RowsReadGrow ==
  ASSUME MeasInv, next <= Len(files), task' = task, next' = next + 1,
         NEW m \in MeasMetrics, NEW o \in Objects, Reads(m)
  PROVE  /\ RowsRead(m, o)' = RowsRead(m, o) \cup NewRows(o)
         /\ IsFiniteSet(RowsRead(m, o)')
         /\ Cardinality(RowsRead(m, o)') = Cardinality(RowsRead(m, o)) + Cardinality(RowsAt(File, o))
         /\ ValidRead(m, o)' = ValidRead(m, o) \cup NewValid(m, o)
         /\ Cardinality(ValidRead(m, o)') = Cardinality(ValidRead(m, o)) + Cardinality(RowsAs(m, File, o, "valid"))
<1>1. next \in Nat \ {0} /\ GoodFile(File) /\ Len(files) \in Nat
  <2>1. Len(files) \in Nat /\ \A k \in 1..Len(files) : GoodFile(files[k])
    BY FilesGood DEF MeasInv, MeasTypes
  <2>2. next \in 1..(Len(files) + 1)
    BY DEF MeasInv, MeasTypes
  <2>3. next \in 1..Len(files)
    BY <2>1, <2>2
  <2> QED
    BY <2>1, <2>3 DEF File
<1>2. FilesRead(m)' = FilesRead(m) \cup {next}
  BY <1>1, FilesReadGrows
<1>3. RowsRead(m, o)' = RowsRead(m, o) \cup NewRows(o)
  BY <1>2 DEF RowsRead, NewRows, File, files
<1>4. RowsRead(m, o) \cap NewRows(o) = {}
  <2>1. next \notin FilesRead(m)
    BY <1>1 DEF FilesRead
  <2> QED
    BY <2>1 DEF RowsRead, NewRows
<1>5. IsFiniteSet(RowsRead(m, o))
  BY DEF MeasInv, RowsInv, CountedRows
<1>6. IsFiniteSet(RowsAt(File, o)) /\ IsFiniteSet(RowsAs(m, File, o, "valid"))
  <2>1. RowsAt(File, o) \subseteq RowsOf(File) /\ RowsAs(m, File, o, "valid") \subseteq RowsOf(File)
    BY DEF RowsAt, RowsAs
  <2> QED
    BY <1>1, <2>1, RowsFinite
<1>7. IsFiniteSet(NewRows(o)) /\ Cardinality(NewRows(o)) = Cardinality(RowsAt(File, o))
  BY <1>6, PairedSize DEF NewRows
<1>8. /\ IsFiniteSet(RowsRead(m, o) \cup NewRows(o))
      /\ Cardinality(RowsRead(m, o) \cup NewRows(o)) = Cardinality(RowsRead(m, o)) + Cardinality(NewRows(o))
  BY <1>4, <1>5, <1>7, TwoParts
<1>9. IsFiniteSet(NewValid(m, o)) /\ Cardinality(NewValid(m, o)) = Cardinality(RowsAs(m, File, o, "valid"))
  BY <1>6, PairedSize DEF NewValid
<1>10. ValidRead(m, o)' = ValidRead(m, o) \cup NewValid(m, o)
  <2>1. ValidRead(m, o)' = {r \in RowsRead(m, o)' : Outcome(m, files[r[1]], files[r[1]].rows[r[2]]) = "valid"}
    BY DEF ValidRead, files, Outcome, ValidColumns, Present
  <2>2. {r \in NewRows(o) : Outcome(m, files[r[1]], files[r[1]].rows[r[2]]) = "valid"} = NewValid(m, o)
    BY DEF NewRows, NewValid, RowsAs, File
  <2> QED
    BY <1>3, <2>1, <2>2 DEF ValidRead
<1>11. Cardinality(ValidRead(m, o) \cup NewValid(m, o)) = Cardinality(ValidRead(m, o)) + Cardinality(NewValid(m, o))
  <2>1. ValidRead(m, o) \subseteq RowsRead(m, o) /\ NewValid(m, o) \subseteq NewRows(o)
    BY DEF ValidRead, NewValid, NewRows, RowsAs
  <2>2. IsFiniteSet(ValidRead(m, o)) /\ ValidRead(m, o) \cap NewValid(m, o) = {}
    BY <1>4, <1>5, <2>1, FS_Subset
  <2> QED
    BY <1>9, <2>2, TwoParts
<1> QED
  BY <1>3, <1>7, <1>8, <1>9, <1>10, <1>11

\* The points of a file are numbers, and stand for its valid rows with a time.
LEMMA PointsOfFile ==
  ASSUME task \in Tasks, NEW n \in 1..Len(files), NEW m
  PROVE  /\ IsFiniteSet(PointsOf(m, n))
         /\ \A p \in PointsOf(m, n) : p.time \in Int /\ p.value \in Int /\ p.file = n
         /\ \A o : {<<p.file, p.row>> : p \in {q \in PointsOf(m, n) : q.object = o}}
                     = {<<n, i>> : i \in {j \in RowsAs(m, files[n], o, "valid") : HasTime(files[n].rows[j])}}
<1>1. PICK file : file = files[n] /\ GoodFile(file)
  BY FilesGood
<1>2. PICK V : V = {j \in RowsOf(file) : Outcome(m, file, file.rows[j]) = "valid" /\ HasTime(file.rows[j])}
  OBVIOUS
<1>3. PICK f : f = [i \in V |-> [object |-> file.rows[i].object, time |-> file.rows[i].time,
                                 period |-> PeriodOf(file.rows[i]),
                                 value |-> Value(m, file, file.rows[i]), file |-> n, row |-> i]]
  OBVIOUS
<1>4. PointsOf(m, n) = {f[i] : i \in V} /\ DOMAIN f = V
  BY <1>1, <1>2, <1>3 DEF PointsOf
<1>5. IsFiniteSet(V)
  BY <1>1, <1>2, RowsFinite
<1>6. ASSUME NEW i \in V PROVE f[i].time \in Int /\ f[i].value \in Int /\ f[i].file = n
  <2>1. IsRow(file.rows[i])
    BY <1>1, <1>2 DEF GoodFile, RowsOf
  <2>2. ValidColumns(m, file, file.rows[i]) # {} /\ HasTime(file.rows[i])
    BY <1>2 DEF Outcome
  <2>3. Value(m, file, file.rows[i]) \in Int
    BY <2>1, <2>2, ValueTyped
  <2> QED
    BY <1>3, <2>1, <2>2, <2>3 DEF IsRow, HasTime, IsNumber
<1>7. ASSUME NEW o
      PROVE  {<<p.file, p.row>> : p \in {q \in PointsOf(m, n) : q.object = o}}
               = {<<n, i>> : i \in {j \in RowsAs(m, files[n], o, "valid") : HasTime(files[n].rows[j])}}
  <2>1. PICK R : R = {j \in RowsAs(m, file, o, "valid") : HasTime(file.rows[j])}
    OBVIOUS
  <2>2. R = {i \in V : file.rows[i].object = o}
    BY <1>2, <2>1 DEF RowsAs, RowsAt
  <2>3. \A i \in V : f[i].object = file.rows[i].object /\ f[i].file = n /\ f[i].row = i
    BY <1>3
  <2>4. {q \in PointsOf(m, n) : q.object = o} = {f[i] : i \in R}
    BY <1>4, <2>2, <2>3
  <2>5. {<<p.file, p.row>> : p \in {f[i] : i \in R}} = {<<n, i>> : i \in R}
    BY <2>2, <2>3
  <2> QED
    BY <1>1, <2>1, <2>4, <2>5
<1>8. IsFiniteSet({f[i] : i \in V})
  BY <1>4, <1>5, FiniteImage
<1> QED
  BY <1>4, <1>6, <1>7, <1>8

\* So the points read stand for the rows read.
LEMMA PointsGrow ==
  ASSUME MeasInv, next <= Len(files), NEW m \in MeasMetrics,
         NEW S, S = series[m] \cup PointsOf(m, next)
  PROVE  /\ IsFiniteSet(S) /\ \A p \in S : p.time \in Int /\ p.value \in Int /\ p.file \in 1..next
         /\ \A o \in Objects : {<<p.file, p.row>> : p \in {q \in S : q.object = o}}
                                = WithTime(ValidRead(m, o)) \cup WithTime(NewValid(m, o))
<1>1. next \in 1..Len(files) /\ next \in Nat \ {0} /\ task \in Tasks
  <2>1. task \in Tasks /\ next \in 1..(Len(files) + 1)
    BY DEF MeasInv, MeasTypes
  <2>2. Len(files) \in Nat
    BY <2>1, FilesGood
  <2> QED
    BY <2>1, <2>2
<1>2. PICK P : P = PointsOf(m, next)
  OBVIOUS
<1>3. /\ IsFiniteSet(P) /\ \A p \in P : p.time \in Int /\ p.value \in Int /\ p.file = next
      /\ \A o : {<<p.file, p.row>> : p \in {q \in P : q.object = o}}
                  = {<<next, i>> : i \in {j \in RowsAs(m, File, o, "valid") : HasTime(File.rows[j])}}
  BY <1>1, <1>2, PointsOfFile DEF File
<1>4. IsFiniteSet(series[m]) /\ \A p \in series[m] : p.time \in Int /\ p.value \in Int /\ p.file \in 1..(next - 1)
  BY DEF MeasInv, SeriesInv, GoodPoints
<1>5. IsFiniteSet(S)
  <2>1. IsFiniteSet(series[m] \cup P)
    BY <1>3, <1>4, FS_Union
  <2> QED
    BY <1>2, <2>1
<1>6. ASSUME NEW p \in S PROVE p.time \in Int /\ p.value \in Int /\ p.file \in 1..next
  <2>1. CASE p \in series[m]
    <3>1. p.file \in 1..(next - 1)
      BY <1>4, <2>1
    <3> QED
      BY <1>1, <1>4, <2>1, <3>1
  <2>2. CASE p \in P
    BY <1>1, <1>3, <2>2
  <2> QED
    BY <1>2, <2>1, <2>2
<1>7. ASSUME NEW o \in Objects
      PROVE  {<<p.file, p.row>> : p \in {q \in S : q.object = o}}
               = WithTime(ValidRead(m, o)) \cup WithTime(NewValid(m, o))
  <2>1. {<<p.file, p.row>> : p \in {q \in S : q.object = o}}
          = PointRows(m, o) \cup {<<p.file, p.row>> : p \in {q \in P : q.object = o}}
    BY <1>2 DEF PointRows
  <2>2. {<<next, i>> : i \in {j \in RowsAs(m, File, o, "valid") : HasTime(File.rows[j])}} = WithTime(NewValid(m, o))
    BY DEF WithTime, NewValid, File
  <2>3. PointRows(m, o) = WithTime(ValidRead(m, o))
    BY DEF MeasInv, RowsInv, CountedRows
  <2> QED
    BY <1>3, <2>1, <2>2, <2>3
<1> QED
  BY <1>5, <1>6, <1>7

Here == {m \in MeasMetrics : Present(m, File) # {}}

\* What ReadFile does, in the terms used here.
LEMMA ReadFileIs ==
  ASSUME ReadFile
  PROVE  /\ stage = "read" /\ next <= Len(files) /\ next' = next + 1
         /\ task' = task /\ stage' = stage /\ judged' = judged
         /\ File.discovered = "matched" /\ ~File.lost
         /\ status' = IF status = "none" THEN "pass" ELSE status
         /\ \A m \in MeasMetrics :
              /\ m \in Here <=> Reads(m)
              /\ m \in Here => /\ observed'[m] = Merge(observed[m], Observe(m, File))
                               /\ series'[m] = series[m] \cup PointsOf(m, next)
              /\ m \notin Here => observed'[m] = observed[m] /\ series'[m] = series[m]
         /\ \/ byObject' = byObject
            \/ byObject' = Merge(byObject, [o \in ObjectsIn(File) |-> SumFor(Here, File, o)])
<1>1. /\ stage = "read" /\ next <= Len(files) /\ next' = next + 1
      /\ task' = task /\ stage' = stage /\ judged' = judged
      /\ File.discovered = "matched" /\ ~File.lost
      /\ status' = IF status = "none" THEN "pass" ELSE status
  BY DEF ReadFile, Reading
<1>2. /\ observed' = [m \in MeasMetrics |-> IF m \in Here THEN Merge(observed[m], Observe(m, File)) ELSE observed[m]]
      /\ series' = [m \in MeasMetrics |-> IF m \in Here THEN series[m] \cup PointsOf(m, next) ELSE series[m]]
  BY DEF ReadFile, Here
<1>3. byObject' = IF Here = {} THEN byObject ELSE Merge(byObject, [o \in ObjectsIn(File) |-> SumFor(Here, File, o)])
  BY Zenon DEF ReadFile, Here, SumFor
<1>4. \A m \in MeasMetrics : m \in Here <=> Reads(m)
  BY <1>1 DEF Here, Reads
<1> QED
  BY <1>1, <1>2, <1>3, <1>4

\* Reading a file keeps the invariant: its rows and points are new, and its
\* counters are added.
LEMMA ReadFileKeeps == ASSUME MeasInv, ReadFile PROVE MeasInv'
<1>0. /\ stage = "read" /\ next <= Len(files) /\ next' = next + 1
      /\ task' = task /\ stage' = stage /\ judged' = judged
      /\ status' = IF status = "none" THEN "pass" ELSE status
      /\ \A m \in MeasMetrics :
           /\ m \in Here <=> Reads(m)
           /\ m \in Here => /\ observed'[m] = Merge(observed[m], Observe(m, File))
                            /\ series'[m] = series[m] \cup PointsOf(m, next)
           /\ m \notin Here => observed'[m] = observed[m] /\ series'[m] = series[m]
  BY ReadFileIs
<1>1. /\ task \in Tasks /\ next \in Nat \ {0} /\ Len(files) \in Nat /\ next \in 1..Len(files)
      /\ GoodFile(File)
  <2>1. task \in Tasks /\ next \in 1..(Len(files) + 1)
    BY DEF MeasInv, MeasTypes
  <2>2. Len(files) \in Nat /\ \A k \in 1..Len(files) : GoodFile(files[k])
    BY <2>1, FilesGood
  <2>3. next \in 1..Len(files)
    BY <1>0, <2>1, <2>2
  <2> QED
    BY <2>1, <2>2, <2>3 DEF File
<1>2. \A m \in MeasMetrics : Counted(observed[m])
  BY DEF MeasInv, MeasTypes
<1>3. ASSUME NEW m \in MeasMetrics
      PROVE  Counted(observed'[m]) /\ GoodPoints(m)'
  <2>1. CASE m \in Here
    <3>1. /\ DOMAIN Observe(m, File) \subseteq Objects
          /\ \A o \in DOMAIN Observe(m, File) : Observe(m, File)[o] \in Tally
      BY <1>1, ObserveSeen
    <3>2. /\ DOMAIN observed'[m] = DOMAIN observed[m] \cup DOMAIN Observe(m, File)
          /\ \A o \in DOMAIN observed'[m] : observed'[m][o] \in Tally
      <4>1. PICK f, g : f = observed[m] /\ g = Observe(m, File)
        OBVIOUS
      <4>2. /\ \A o \in DOMAIN f : f[o] \in Tally
            /\ \A o \in DOMAIN g : g[o] \in Tally
        BY <1>2, <3>1, <4>1 DEF Counted
      <4>3. observed'[m] = Merge(f, g)
        BY <1>0, <2>1, <4>1
      <4>4. /\ DOMAIN Merge(f, g) = DOMAIN f \cup DOMAIN g
            /\ \A o \in DOMAIN Merge(f, g) : Merge(f, g)[o] \in Tally
        BY <4>2, MergeAdds
      <4> QED
        BY <4>1, <4>3, <4>4
    <3>3. Counted(observed'[m])
      BY <1>2, <3>1, <3>2 DEF Counted
    <3>4. series'[m] = series[m] \cup PointsOf(m, next)
      BY <1>0, <2>1
    <3>5. /\ IsFiniteSet(series'[m])
          /\ \A p \in series'[m] : p.time \in Int /\ p.value \in Int /\ p.file \in 1..next
      BY <1>0, <3>4, PointsGrow
    <3>6. next' - 1 = next
      BY <1>0, <1>1
    <3> QED
      BY <3>3, <3>5, <3>6 DEF GoodPoints
  <2>2. CASE m \notin Here
    <3>1. GoodPoints(m)
      BY DEF MeasInv, SeriesInv
    <3>2. \A k : k \in 1..(next - 1) => k \in 1..(next' - 1)
      BY <1>0, <1>1
    <3>3. observed'[m] = observed[m] /\ series'[m] = series[m]
      BY <1>0, <2>2
    <3> QED
      BY <1>2, <3>1, <3>2, <3>3 DEF GoodPoints
  <2> QED
    BY <2>1, <2>2
<1>4. ASSUME NEW m \in MeasMetrics, NEW o \in Objects PROVE CountedRows(m, o)'
  <2>0. CountedRows(m, o)
    BY DEF MeasInv, RowsInv
  <2>1. CASE m \in Here
    <3>1. Reads(m)
      BY <1>0, <2>1
    <3>2. /\ IsFiniteSet(RowsRead(m, o)')
          /\ Cardinality(RowsRead(m, o)') = Cardinality(RowsRead(m, o)) + Cardinality(RowsAt(File, o))
          /\ ValidRead(m, o)' = ValidRead(m, o) \cup NewValid(m, o)
          /\ Cardinality(ValidRead(m, o)') = Cardinality(ValidRead(m, o)) + Cardinality(RowsAs(m, File, o, "valid"))
      BY <1>0, <3>1, RowsReadGrow
    <3>3. PICK a : a = SeenIn(observed[m], o)
      OBVIOUS
    <3>4. PICK b : b = SeenIn(Observe(m, File), o)
      OBVIOUS
    <3>5. PICK c : c = SeenIn(observed'[m], o)
      OBVIOUS
    <3>6. /\ b \in Tally /\ Balanced(b) /\ b.rows = Cardinality(RowsAt(File, o))
          /\ b.valid = Cardinality(RowsAs(m, File, o, "valid"))
          /\ \A x \in DOMAIN Observe(m, File) : Observe(m, File)[x] \in Tally
      BY <1>1, <3>4, ObserveSeen
    <3>7. a \in Tally /\ AddsUp(c, a, b)
      BY <1>0, <1>2, <2>1, <3>3, <3>4, <3>5, <3>6, MergeAdds DEF Counted
    <3>8. Balanced(c)
      BY <2>0, <3>3, <3>6, <3>7, AddsBalance DEF CountedRows
    <3>9. PointRows(m, o)' = WithTime(ValidRead(m, o))'
      <4>1. series'[m] = series[m] \cup PointsOf(m, next)
        BY <1>0, <2>1
      <4>2. PointRows(m, o)' = WithTime(ValidRead(m, o)) \cup WithTime(NewValid(m, o))
        BY <1>0, <4>1, PointsGrow DEF PointRows
      <4>3. WithTime(ValidRead(m, o))' = WithTime(ValidRead(m, o)) \cup WithTime(NewValid(m, o))
        BY <1>0, <3>2 DEF WithTime, files
      <4> QED
        BY <4>2, <4>3
    <3>10. c.rows = Cardinality(RowsRead(m, o)')
      BY <2>0, <3>2, <3>3, <3>6, <3>7 DEF CountedRows, AddsUp
    <3>11. c.valid = Cardinality(ValidRead(m, o)')
      BY <2>0, <3>2, <3>3, <3>6, <3>7 DEF CountedRows, AddsUp
    <3>12. SeenIn(observed[m], o)' = c
      BY <3>5 DEF SeenIn
    <3>13. Balanced(SeenIn(observed[m], o))'
      BY <3>8, <3>12 DEF Balanced
    <3> QED
      BY <3>2, <3>9, <3>10, <3>11, <3>12, <3>13 DEF CountedRows
  <2>2. CASE m \notin Here
    <3>1. FilesRead(m)' = FilesRead(m)
      BY <1>0, <1>1, <2>2, FilesReadGrows
    <3>2. RowsRead(m, o)' = RowsRead(m, o)
      BY <1>0, <3>1 DEF RowsRead, files
    <3>3. SeenIn(observed[m], o)' = SeenIn(observed[m], o) /\ series'[m] = series[m]
      BY <1>0, <2>2 DEF SeenIn
    <3>4. Balanced(SeenIn(observed[m], o))' <=> Balanced(SeenIn(observed[m], o))
      BY <3>3 DEF Balanced
    <3>5. ValidRead(m, o)' = ValidRead(m, o)
      BY <1>0, <3>2 DEF ValidRead, files, Outcome, ValidColumns, Present
    <3>6. PointRows(m, o)' = PointRows(m, o)
      BY <3>3 DEF PointRows
    <3>7. WithTime(ValidRead(m, o))' = WithTime(ValidRead(m, o))
      BY <1>0, <3>5 DEF WithTime, files
    <3> QED
      BY <2>0, <3>2, <3>3, <3>4, <3>5, <3>6, <3>7 DEF CountedRows
  <2> QED
    BY <2>1, <2>2
<1>5. Counted(byObject') /\ \A o \in DOMAIN byObject' : Balanced(byObject'[o])
  <2>0. Counted(byObject) /\ \A o \in DOMAIN byObject : Balanced(byObject[o])
    BY DEF MeasInv, MeasTypes, RowsInv
  <2>1. CASE byObject' = byObject
    BY <2>0, <2>1
  <2>2. CASE byObject' = Merge(byObject, [o \in ObjectsIn(File) |-> SumFor(Here, File, o)])
    <3>1. PICK g : g = [o \in ObjectsIn(File) |-> SumFor(Here, File, o)]
      OBVIOUS
    <3>2. IsFiniteSet(Here)
      BY MeasurementAssumption, FS_Subset DEF MeasurementAssumption, Here
    <3>3. DOMAIN g = ObjectsIn(File) /\ \A o \in DOMAIN g : g[o] \in Tally /\ Balanced(g[o])
      BY <1>1, <3>1, <3>2, SumBalances
    <3>4. ObjectsIn(File) \subseteq Objects
      BY <1>1, ObserveSeen
    <3>5. /\ DOMAIN byObject' = DOMAIN byObject \cup DOMAIN g
          /\ \A o \in DOMAIN byObject' : byObject'[o] \in Tally
          /\ \A o : /\ SeenIn(byObject, o) \in Tally /\ SeenIn(g, o) \in Tally
                    /\ AddsUp(SeenIn(byObject', o), SeenIn(byObject, o), SeenIn(g, o))
      BY <2>0, <2>2, <3>1, <3>3, MergeAdds DEF Counted
    <3>6. Counted(byObject')
      BY <2>0, <3>3, <3>4, <3>5 DEF Counted
    <3>7. \A o : Balanced(SeenIn(byObject, o)) /\ Balanced(SeenIn(g, o))
      BY <2>0, <3>3, EmptyTally DEF SeenIn
    <3>8. \A o : Balanced(SeenIn(byObject', o))
      BY <3>5, <3>7, AddsBalance
    <3>9. \A o \in DOMAIN byObject' : SeenIn(byObject', o) = byObject'[o]
      BY DEF SeenIn
    <3> QED
      BY <3>6, <3>8, <3>9
  <2>3. byObject' = byObject \/ byObject' = Merge(byObject, [o \in ObjectsIn(File) |-> SumFor(Here, File, o)])
    BY ReadFileIs
  <2> QED
    BY <2>1, <2>2, <2>3
<1>6. MeasTypes'
  <2>1. next' \in 1..(Len(files') + 1) /\ files' = files
    BY <1>0, <1>1 DEF files
  <2>2. task' \in Tasks /\ stage' \in {"discover", "read", "derive", "done"}
    BY <1>0, <1>1
  <2>3. status' \in {"none", "pass", "warn", "fail", "skip", "error"}
    BY <1>0 DEF MeasInv, MeasTypes
  <2>4. Counted(byObject)' /\ \A m \in MeasMetrics : Counted(observed[m])'
    BY <1>3, <1>5 DEF Counted
  <2> QED
    BY <2>1, <2>2, <2>3, <2>4 DEF MeasTypes
<1>7. SeriesInv'
  BY <1>3 DEF SeriesInv
<1>8. RowsInv'
  <2>1. (\A o \in DOMAIN byObject : Balanced(byObject[o]))'
    BY <1>5 DEF Balanced
  <2> QED
    BY <1>4, <2>1 DEF RowsInv
<1>9. StageInv'
  <2>1. judged = <<>> /\ (ParseError => status \notin {"none", "pass", "warn"})
    BY <1>0 DEF MeasInv, StageInv
  <2>2. ParseError' <=> ParseError
    BY <1>0 DEF ParseError, files
  <2> QED
    BY <1>0, <2>1, <2>2 DEF StageInv
<1> QED
  BY <1>6, <1>7, <1>8, <1>9 DEF MeasInv

\* The steps that read nothing keep the counts; a file left out keeps them
\* because it is not among the files read.
LEMMA LeftOutKeeps ==
  ASSUME MeasInv, LeaveOut \/ NoBindings \/ Unreadable
  PROVE  MeasInv'
<1>0. /\ stage = "read" /\ next <= Len(files) /\ next' = next + 1
      /\ task' = task /\ stage' = stage /\ judged' = judged
      /\ observed' = observed /\ byObject' = byObject /\ series' = series
      /\ status' \in {status, "skip", "error"}
      /\ \A m \in MeasMetrics : ~Reads(m)
  <2>1. CASE LeaveOut
    BY <2>1 DEF LeaveOut, Reading, Reads
  <2>2. CASE NoBindings
    BY <2>2 DEF NoBindings, Reading, Reads, Present
  <2>3. CASE Unreadable
    BY <2>3 DEF Unreadable, Reading, Reads
  <2> QED
    BY <2>1, <2>2, <2>3
<1>1. task \in Tasks /\ next \in Nat \ {0} /\ Len(files) \in Nat /\ next' \in 1..(Len(files) + 1)
  <2>1. task \in Tasks /\ next \in 1..(Len(files) + 1)
    BY DEF MeasInv, MeasTypes
  <2>2. Len(files) \in Nat
    BY <2>1, FilesGood
  <2> QED
    BY <1>0, <2>1, <2>2
<1>2. SeriesInv' /\ RowsInv'
  <2>1. \A m \in MeasMetrics : FilesRead(m)' = FilesRead(m)
    BY <1>0, <1>1, FilesReadGrows
  <2>2. next' \in {next, next + 1}
    BY <1>0
  <2> QED
    BY <1>0, <2>1, <2>2, QuietKeeps
<1>3. MeasTypes'
  <2>1. next' \in 1..(Len(files') + 1) /\ task' \in Tasks /\ stage' \in {"discover", "read", "derive", "done"}
    BY <1>0, <1>1 DEF files
  <2>2. status' \in {"none", "pass", "warn", "fail", "skip", "error"}
    BY <1>0 DEF MeasInv, MeasTypes
  <2>3. Counted(byObject)' /\ \A m \in MeasMetrics : Counted(observed[m])'
    BY <1>0 DEF MeasInv, MeasTypes, Counted
  <2> QED
    BY <2>1, <2>2, <2>3 DEF MeasTypes
<1>4. StageInv'
  <2>1. judged = <<>> /\ (ParseError => status \notin {"none", "pass", "warn"})
    BY <1>0 DEF MeasInv, StageInv
  <2>2. ParseError' <=> ParseError
    BY <1>0 DEF ParseError, files
  <2> QED
    BY <1>0, <2>1, <2>2 DEF StageInv
<1> QED
  BY <1>2, <1>3, <1>4 DEF MeasInv

\* Neither do the steps that settle a stage; what they judge stays as it was read.
LEMMA SettleKeeps ==
  ASSUME MeasInv, Discover \/ JudgeMetric \/ Derive
  PROVE  MeasInv'
<1>0. task' = task /\ next' = next /\ observed' = observed /\ byObject' = byObject /\ series' = series
  BY DEF Discover, JudgeMetric, Derive
<1>1. SeriesInv' /\ RowsInv'
  <2>1. \A m \in MeasMetrics : FilesRead(m)' = FilesRead(m)
    BY <1>0 DEF FilesRead, files, Present
  <2> QED
    BY <1>0, <2>1, QuietKeeps
<1>2. status \in {"none", "pass", "warn", "fail", "skip", "error"}
  BY DEF MeasInv, MeasTypes
<1>3. MeasTypes'
  <2>1. stage' \in {"discover", "read", "derive", "done"}
    BY DEF Discover, JudgeMetric, Derive
  <2>2. status' \in {"none", "pass", "warn", "fail", "skip", "error"}
    BY <1>2 DEF Discover, JudgeMetric, Derive
  <2>3. next' \in 1..(Len(files') + 1) /\ task' \in Tasks
    BY <1>0 DEF MeasInv, MeasTypes, files
  <2>4. Counted(byObject)' /\ \A m \in MeasMetrics : Counted(observed[m])'
    BY <1>0 DEF MeasInv, MeasTypes, Counted
  <2> QED
    BY <2>1, <2>2, <2>3, <2>4 DEF MeasTypes
<1>4. (ParseError' <=> ParseError) /\ (ParseError /\ stage # "discover" => status \notin {"none", "pass", "warn"})
  BY <1>0 DEF ParseError, files, MeasInv, StageInv
<1>5. Found' = Found
  BY <1>0 DEF Found
<1>6. \A m : Judgement(m)' = Judgement(m)
  BY <1>0 DEF Judgement, PrimaryTrend
<1>7. StageInv'
  <2>1. CASE Discover
    <3>1. stage' = "read" /\ judged' = <<>> /\ (ParseError => status' = "error")
      BY <2>1 DEF Discover, ParseError, MeasInv, StageInv
    <3> QED
      BY <1>4, <3>1 DEF StageInv
  <2>2. CASE JudgeMetric
    <3>1. stage = "read" /\ stage' = "derive" /\ judged' = [m \in Found |-> Judgement(m)]
      BY <2>2 DEF JudgeMetric
    <3>2. judged' = [m \in Found' |-> Judgement(m)']
      BY <1>5, <1>6, <3>1
    <3>3. \A m \in Found : judged'[m] = Judgement(m)
      BY <3>1
    <3>4. PICK read : /\ read = IF \E m \in Found : ~judged'[m].ok THEN "fail" ELSE status
                      /\ status' \in {"fail", read} \/ (read = "pass" /\ status' = "warn")
      BY <2>2 DEF JudgeMetric
    <3>5. (\E m \in Found' : ~Judgement(m)'.ok) => status' = "fail"
      BY <1>5, <1>6, <3>3, <3>4
    <3>6. ParseError' => status' \notin {"none", "pass", "warn"}
      BY <1>4, <3>1, <3>4
    <3> QED
      BY <3>1, <3>2, <3>5, <3>6 DEF StageInv
  <2>3. CASE Derive
    <3>1. stage = "derive" /\ stage' = "done" /\ judged' = judged /\ status' \in {status, "fail"}
      BY <2>3 DEF Derive
    <3>2. judged = [m \in Found |-> Judgement(m)] /\ ((\E m \in Found : ~Judgement(m).ok) => status = "fail")
      BY <3>1 DEF MeasInv, StageInv
    <3>3. judged' = [m \in Found' |-> Judgement(m)'] /\ ((\E m \in Found' : ~Judgement(m)'.ok) => status' = "fail")
      BY <1>5, <1>6, <3>1, <3>2
    <3> QED
      BY <1>4, <3>1, <3>3 DEF StageInv
  <2> QED
    BY <2>1, <2>2, <2>3
<1> QED
  BY <1>1, <1>3, <1>7 DEF MeasInv

\* So every step keeps the invariant,
LEMMA MeasKept == ASSUME MeasInv, [MeasNext]_measVars PROVE MeasInv'
<1>1. CASE ReadFile
  BY <1>1, ReadFileKeeps
<1>2. CASE LeaveOut \/ NoBindings \/ Unreadable
  BY <1>2, LeftOutKeeps
<1>3. CASE Discover \/ JudgeMetric \/ Derive
  BY <1>3, SettleKeeps
<1>4. CASE UNCHANGED measVars
  <2>0. /\ task' = task /\ next' = next /\ observed' = observed /\ byObject' = byObject /\ series' = series
        /\ stage' = stage /\ status' = status /\ judged' = judged
    BY <1>4 DEF measVars
  <2>1. SeriesInv' /\ RowsInv'
    <3>1. \A m \in MeasMetrics : FilesRead(m)' = FilesRead(m)
      BY <2>0 DEF FilesRead, files, Present
    <3> QED
      BY <2>0, <3>1, QuietKeeps
  <2>2. MeasTypes'
    <3>1. Counted(byObject)' /\ \A m \in MeasMetrics : Counted(observed[m])'
      BY <2>0 DEF MeasInv, MeasTypes, Counted
    <3> QED
      BY <2>0, <3>1 DEF MeasInv, MeasTypes, files
  <2>3. StageInv'
    <3>1. Found' = Found
      BY <2>0 DEF Found
    <3>2. \A m : Judgement(m)' = Judgement(m)
      BY <2>0 DEF Judgement, PrimaryTrend
    <3>3. ParseError' <=> ParseError
      BY <2>0 DEF ParseError, files
    <3>4. StageInv
      BY DEF MeasInv
    <3> QED
      BY <2>0, <3>1, <3>2, <3>3, <3>4 DEF StageInv
  <2> QED
    BY <2>1, <2>2, <2>3 DEF MeasInv
<1> QED
  BY <1>1, <1>2, <1>3, <1>4 DEF MeasNext

\* and it always holds.
LEMMA MeasAlways == MeasSpec => []MeasInv
<1>1. MeasInit => MeasInv
  BY MeasStarts
<1>2. MeasInv /\ [MeasNext]_measVars => MeasInv'
  BY MeasKept
<1> QED
  BY <1>1, <1>2, PTL DEF MeasSpec

\* An average beyond another is beyond every threshold the other is beyond.
LEMMA LessThanScaled ==
  ASSUME NEW x \in Int, NEW y \in Int, NEW t \in Int, NEW p \in Int, NEW q \in Int, p > 0, q > 0
  PROVE  /\ x * q < y * p /\ y <= t * q => x <= t * p
         /\ x * q > y * p /\ y >= t * q => x >= t * p
<1>1. \A a \in Int, b \in Int, k \in Int : k > 0 /\ a <= b => a * k <= b * k
  <2> SUFFICES ASSUME NEW a \in Int, NEW b \in Int, NEW k \in Int, k > 0, a <= b PROVE a * k <= b * k
    OBVIOUS
  <2>1. PICK d \in Nat : b = a + d
    <3>1. b - a \in Nat /\ b = a + (b - a)
      OBVIOUS
    <3> QED
      BY <3>1
  <2>2. d * k \in Nat
    OBVIOUS
  <2>3. (a + d) * k = a * k + d * k
    OBVIOUS
  <2> QED
    BY <2>1, <2>2, <2>3
<1>2. \A a \in Int, b \in Int, k \in Int : k > 0 /\ a * k < b * k => a < b
  <2> SUFFICES ASSUME NEW a \in Int, NEW b \in Int, NEW k \in Int, k > 0, a * k < b * k, b <= a PROVE FALSE
    OBVIOUS
  <2>1. b * k <= a * k
    BY <1>1
  <2>2. a * k \in Int /\ b * k \in Int
    OBVIOUS
  <2> QED
    BY <2>1, <2>2
<1>3. (t * q) * p = (t * p) * q /\ (t * q) \in Int /\ (t * p) \in Int
  OBVIOUS
<1>4. ASSUME x * q < y * p, y <= t * q PROVE x <= t * p
  <2>1. y * p <= (t * q) * p
    BY <1>1, <1>3, <1>4
  <2>2. x * q \in Int /\ y * p \in Int /\ (t * p) * q \in Int
    BY <1>3
  <2>3. x * q < (t * p) * q
    BY <1>3, <1>4, <2>1, <2>2
  <2>4. x < t * p
    BY <1>2, <1>3, <2>3
  <2> QED
    BY <1>3, <2>4
<1>5. ASSUME x * q > y * p, y >= t * q PROVE x >= t * p
  <2>1. (t * q) * p <= y * p
    BY <1>1, <1>3, <1>5
  <2>2. x * q \in Int /\ y * p \in Int /\ (t * p) * q \in Int
    BY <1>3
  <2>3. (t * p) * q < x * q
    BY <1>3, <1>5, <2>1, <2>2
  <2>4. t * p < x
    BY <1>2, <1>3, <2>3
  <2> QED
    BY <1>3, <2>4
<1> QED
  BY <1>4, <1>5

\* A worse average is judged no better.
LEMMA WorseIsNotBetter ==
  ASSUME NEW m \in MeasMetrics, NEW a \in Tally, NEW b \in Tally, a.valid > 0, b.valid > 0,
         IF Direction[m] = "higher_better" THEN a.sum * b.valid < b.sum * a.valid
                                           ELSE a.sum * b.valid > b.sum * a.valid
  PROVE  Rank(BusinessStatus(a, m)) >= Rank(BusinessStatus(b, m))
<1>1. Warning[m] \in Int \cup {None} /\ Critical[m] \in Int \cup {None}
  BY MeasurementAssumption DEF MeasurementAssumption
<1>2. a.sum \in Int /\ b.sum \in Int /\ a.valid \in Int /\ b.valid \in Int
  BY DEF Tally
<1>3. ASSUME NEW t \in Int \cup {None}, Crosses(b, t, Direction[m]) PROVE Crosses(a, t, Direction[m])
  <2>1. t # None /\ t \in Int
    BY <1>3 DEF Crosses
  <2>2. CASE Direction[m] = "higher_better"
    <3>1. a.sum * b.valid < b.sum * a.valid /\ b.sum <= t * b.valid
      BY <1>3, <2>2 DEF Crosses
    <3>2. a.sum <= t * a.valid
      BY <1>2, <2>1, <3>1, LessThanScaled
    <3> QED
      BY <2>1, <2>2, <3>2 DEF Crosses
  <2>3. CASE Direction[m] # "higher_better"
    <3>1. a.sum * b.valid > b.sum * a.valid /\ b.sum >= t * b.valid
      BY <1>3, <2>3 DEF Crosses
    <3>2. a.sum >= t * a.valid
      BY <1>2, <2>1, <3>1, LessThanScaled
    <3> QED
      BY <2>1, <2>3, <3>2 DEF Crosses
  <2> QED
    BY <2>2, <2>3
<1>4. /\ Crosses(b, Critical[m], Direction[m]) => Crosses(a, Critical[m], Direction[m])
      /\ Crosses(b, Warning[m], Direction[m]) => Crosses(a, Warning[m], Direction[m])
  BY <1>1, <1>3
<1>5. a.valid # 0 /\ b.valid # 0
  BY <1>2
<1> QED
  BY <1>4, <1>5 DEF BusinessStatus, Rank

\* The trend judged is the trend of a series of numbers.
LEMMA TrendTyped ==
  ASSUME MeasInv, NEW m \in MeasMetrics
  PROVE  PrimaryTrend(m) \in Seq(Int)
<1>1. IsFiniteSet(series[m]) /\ \A p \in series[m] : p.time \in Int /\ p.value \in Int
  BY DEF MeasInv, SeriesInv, GoodPoints
<1>2. \A k : Series(series[m], k) \in Seq(Int)
  BY <1>1, SeriesTyped
<1>3. <<>> \in Seq(Int)
  OBVIOUS
<1> QED
  BY <1>2, <1>3 DEF PrimaryTrend

\* The stages, the status and the counters are of their kinds, whatever files
\* are read.
THEOREM MeasurementTypes == MeasSpec => []MeasTypeOK
<1>1. MeasInv => MeasTypeOK
  BY DEF MeasInv, MeasTypes, MeasTypeOK, Counted
<1> QED
  BY <1>1, MeasAlways, PTL

\* The reading of measurement files counts every row once and under one
\* outcome, also over several files (_merge_observation); a worse average has
\* no better business status; the opposite series has the opposite trend up to
\* the exceptions stated; and a unit with a file that could not be parsed or
\* with a blank or bad value is not reported as passed.
THEOREM MeasurementIsSafe == MeasSpec => []MeasSafe
<1>1. ASSUME MeasInv PROVE RowsCounted
  <2>1. ASSUME NEW m \in MeasMetrics, NEW o \in Objects
        PROVE  LET seen == IF o \in DOMAIN observed[m] THEN observed[m][o] ELSE Empty
               IN /\ seen.rows = Cardinality(RowsRead(m, o)) /\ Balanced(seen)
                  /\ seen.valid = Cardinality(ValidRead(m, o))
                  /\ PointRows(m, o) = {r \in ValidRead(m, o) : HasTime(files[r[1]].rows[r[2]])}
    BY <1>1 DEF MeasInv, RowsInv, CountedRows, SeenIn, WithTime
  <2> QED
    BY <1>1, <2>1 DEF RowsCounted, MeasInv, RowsInv
<1>2. ASSUME MeasInv PROVE StatusMonotone
  <2> SUFFICES ASSUME NEW m \in Found, NEW p \in DOMAIN observed[m], NEW q \in DOMAIN observed[m],
                      observed[m][p].valid > 0, observed[m][q].valid > 0,
                      IF Direction[m] = "higher_better"
                      THEN observed[m][p].sum * observed[m][q].valid < observed[m][q].sum * observed[m][p].valid
                      ELSE observed[m][p].sum * observed[m][q].valid > observed[m][q].sum * observed[m][p].valid
               PROVE  Rank(BusinessStatus(observed[m][p], m)) >= Rank(BusinessStatus(observed[m][q], m))
    BY Zenon DEF StatusMonotone
  <2>1. m \in MeasMetrics
    BY DEF Found
  <2>2. observed[m][p] \in Tally /\ observed[m][q] \in Tally
    BY <1>2, <2>1 DEF MeasInv, MeasTypes, Counted
  <2> QED
    BY <2>1, <2>2, WorseIsNotBetter
<1>3. ASSUME MeasInv PROVE TrendMirrors
  <2>1. judged = <<>> \/ judged = [m \in Found |-> Judgement(m)]
    BY <1>3 DEF MeasInv, MeasTypes, StageInv
  <2>2. ASSUME NEW m \in DOMAIN judged
        PROVE  m \in MeasMetrics /\ judged[m].trend = Classify(PrimaryTrend(m))
    <3>1. CASE judged = <<>>
      <4>1. DOMAIN <<>> = {}
        OBVIOUS
      <4> QED
        BY <2>2, <3>1, <4>1
    <3>2. CASE judged = [n \in Found |-> Judgement(n)]
      <4>1. m \in Found /\ judged[m] = Judgement(m)
        BY <2>2, <3>2
      <4> QED
        BY <4>1 DEF Found, Judgement
    <3> QED
      BY <2>1, <3>1, <3>2
  <2>3. ASSUME NEW m \in DOMAIN judged
        PROVE  LET v == PrimaryTrend(m)
                   mirror == Classify([i \in 1..Len(v) |-> -v[i]])
               IN \/ mirror = Opposite(judged[m].trend)
                  \/ {mirror, judged[m].trend} \subseteq {"recovering", "fluctuating"}
                  \/ Drifts(v) /\ {mirror, judged[m].trend} = {"rising"}
    <3>1. PICK v \in Seq(Int) : v = PrimaryTrend(m)
      BY <1>3, <2>2, TrendTyped
    <3>2. PICK w : w = [i \in 1..Len(v) |-> -v[i]]
      OBVIOUS
    <3>3. \/ Classify(w) = Opposite(Classify(v))
          \/ {Classify(w), Classify(v)} \subseteq {"recovering", "fluctuating"}
          \/ Drifts(v) /\ {Classify(w), Classify(v)} = {"rising"}
      BY <3>2, ClassifyMirrors
    <3> QED
      BY <2>2, <3>1, <3>2, <3>3
  <2> QED
    BY <2>3 DEF TrendMirrors
<1>4. ASSUME MeasInv PROVE TroubleNotPassed
  <2>1. ASSUME stage = "done", NEW m \in Found, NEW o \in DOMAIN observed[m], ~ReadOk(observed[m][o])
        PROVE  status = "fail"
    <3>1. ~Judgement(m).ok
      BY <2>1 DEF Judgement
    <3> QED
      BY <1>4, <2>1, <3>1 DEF MeasInv, StageInv
  <2>2. stage = "done" /\ ParseError => status \notin {"none", "pass", "warn"}
    BY <1>4 DEF MeasInv, StageInv
  <2> QED
    BY <2>1, <2>2 DEF TroubleNotPassed, ParseError
<1>5. MeasInv => MeasSafe
  BY <1>1, <1>2, <1>3, <1>4 DEF MeasSafe
<1> QED
  BY <1>5, MeasAlways, PTL

\* The four components keep their types when they run side by side.
THEOREM KpiTypes == KpiSpec => []KpiTypeOK
<1>1. KpiInit => ConfInit /\ CatInit /\ MeasInit /\ BenchInit /\ turn \in Components
  BY DEF KpiInit
<1>2. [KpiNext]_kpiVars => [ConfNext]_confVars
  BY DEF KpiNext, kpiVars
<1>3. [KpiNext]_kpiVars => [CatNext]_catVars
  BY DEF KpiNext, kpiVars
<1>4. [KpiNext]_kpiVars => [MeasNext]_measVars
  BY DEF KpiNext, kpiVars
<1>5. [KpiNext]_kpiVars => [BenchNext]_benchVars
  BY DEF KpiNext, kpiVars
<1>6. turn \in Components /\ [KpiNext]_kpiVars => (turn \in Components)'
  BY DEF KpiNext, kpiVars
<1>7. ConfTypeOK /\ CatTypeOK /\ MeasTypeOK /\ BenchTypeOK /\ turn \in Components => KpiTypeOK
  BY DEF KpiTypeOK
<1> QED
  BY <1>1, <1>2, <1>3, <1>4, <1>5, <1>6, <1>7,
     ConfigurationTypes, CatalogTypes, MeasurementTypes, BenchTypes, PTL
     DEF KpiSpec, ConfSpec, CatSpec, MeasSpec, BenchSpec
=============================================================================
