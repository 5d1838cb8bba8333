----------------------------- MODULE Measurement -----------------------------
(***************************************************************************)
(* The inspection of one measurement unit's files                          *)
(* (inspect_measurement_files of services/kpi_measurement_units.py): the   *)
(* discovery's parse errors, the reading of each file into observations    *)
(* per metric and object, their merge over files, the judgement of values  *)
(* and trends, and the derived metrics.  The files of the task are chosen  *)
(* at the start; a step reads one file or settles one stage.               *)
(*                                                                         *)
(* A cell is Blank, Bad (not a number) or an integer.  Averages are        *)
(* compared by cross multiplication; the points of a series are kept in    *)
(* units of 1/Scale.                                                       *)
(***************************************************************************)
EXTENDS Integers, Sequences, FiniteSets, FiniteSetsExt

CONSTANTS
  MeasMetrics, Objects,
  Nameless,     \* the objects of rows without a name: the empty name, and "__all__"
  Columns,      \* numbers of the metric columns, in header order
  ColumnMetric,     \* the metric that a column is bound to
  Denominator,  \* the column a success rate column is divided by, or itself
  Direction, Warning, Critical, \* how a metric is judged; thresholds or None
  None, Blank, Bad,
  Tasks,        \* what may be inspected: the unit's files in order, the columns whose binding
                \* is confirmed and enabled, the derivations (pairs of metrics)
  Scale

\* A file has a discovery outcome, a header (a set of columns) or none, and
\* rows with an object, a time, a period in minutes and the cells of the other
\* columns; a short row has fewer cells.
\* "parse_error" files are left out of the matched ones.
IsRow(row) ==
  /\ row.object \in Objects /\ {row.time, row.period} \subseteq Int \cup {Blank, Bad}
  /\ \A c \in DOMAIN row.cells : row.cells[c] \in Int \cup {Blank, Bad}
ASSUME MeasurementAssumption ==
  /\ Columns \subseteq Nat /\ Scale \in Nat \ {0}
  /\ Nameless \subseteq Objects /\ Objects \subseteq Nat /\ IsFiniteSet(MeasMetrics)
  /\ ColumnMetric \in [Columns -> MeasMetrics]
  /\ Denominator \in [Columns -> Columns]
  /\ \A t \in Tasks :
       /\ t.bound \subseteq Columns /\ t.derivations \subseteq MeasMetrics \X MeasMetrics
       /\ Len(t.files) \in Nat /\ DOMAIN t.files = 1..Len(t.files)
       /\ \A i \in DOMAIN t.files :
            LET rows == t.files[i].rows
            IN Len(rows) \in Nat /\ DOMAIN rows = 1..Len(rows) /\ \A j \in DOMAIN rows : IsRow(rows[j])
  /\ Direction \in [MeasMetrics -> {"higher_better", "lower_better", "neutral"}]
  /\ {Warning, Critical} \subseteq [MeasMetrics -> Int \cup {None}]

VARIABLES
  task,     \* the files of the unit, its bindings and derivations
  stage, next,  \* "discover", "read", "derive", "done"; file to read
  status,   \* status of the unit
  observed, \* observations by metric and object
  byObject, \* observations by object, over all metrics
  series,   \* points by metric: object, time, period, value, and the file and row they are from
  judged    \* read status, business status and trend by metric

measVars == <<task, stage, next, status, observed, byObject, series, judged>>

files == task.files
Empty == [rows |-> 0, valid |-> 0, null |-> 0, na |-> 0, bad |-> 0, zero |-> 0, sum |-> 0]

\* The sum of the values of a function.
Total(f) == MapThenSumSet(LAMBDA x : f[x], DOMAIN f)

MeasInit ==
  /\ task \in Tasks
  /\ stage = "discover" /\ next = 1
  /\ status = "none"
  /\ observed = [m \in MeasMetrics |-> <<>>] /\ byObject = <<>>
  /\ series = [m \in MeasMetrics |-> {}]
  /\ judged = <<>>
-----------------------------------------------------------------------------
(* Reading                                                                 *)

IsNumber(cell) == cell \notin {Blank, Bad}
Cell(row, c)   == IF c \in DOMAIN row.cells THEN row.cells[c] ELSE Blank

\* The columns of a metric that this file has; the first in the header with a
\* number gives the value of a row.
Present(m, file)   == {c \in task.bound \cap file.header : ColumnMetric[c] = m}
ValidColumns(m, file, row) == {c \in Present(m, file) : IsNumber(Cell(row, c))}
Value(m, file, row) == Cell(row, Min(ValidColumns(m, file, row)))

DividesByZero(row, c, file) ==
  /\ Denominator[c] # c /\ Denominator[c] \in file.header
  /\ Cell(row, Denominator[c]) = 0

\* A row counts under one outcome.
Outcome(m, file, row) ==
  IF ValidColumns(m, file, row) # {} THEN "valid"
  ELSE IF \E c \in Present(m, file) : Cell(row, c) = Bad THEN "bad"
  ELSE IF \E c \in Present(m, file) : DividesByZero(row, c, file) THEN "na"
  ELSE "null"

\* Only a row in which every cell is blank is passed over: a row that has at
\* least a name, a time or a period counts, if as "null" for every metric.
BlankRow(row) ==
  /\ row.object \in Nameless /\ row.time = Blank /\ row.period = Blank
  /\ \A c \in DOMAIN row.cells : row.cells[c] = Blank
RowsOf(file)    == {i \in DOMAIN file.rows : ~BlankRow(file.rows[i])}
RowsAt(file, o) == {i \in RowsOf(file) : file.rows[i].object = o}
ObjectsIn(file) == {file.rows[i].object : i \in RowsOf(file)}

\* The rows of an object that count under an outcome, and the counters.
RowsAs(m, file, o, k) == {i \in RowsAt(file, o) : Outcome(m, file, file.rows[i]) = k}
Counters(m, file, o) ==
  LET values == [i \in RowsAs(m, file, o, "valid") |-> Value(m, file, file.rows[i])]
      Count(k) == Cardinality(RowsAs(m, file, o, k))
  IN [rows |-> Cardinality(RowsAt(file, o)),
      valid |-> Count("valid"), null |-> Count("null"), na |-> Count("na"), bad |-> Count("bad"),
      zero |-> Cardinality({i \in DOMAIN values : values[i] = 0}), sum |-> Total(values)]
Observe(m, file) == [o \in ObjectsIn(file) |-> Counters(m, file, o)]

\* mutant: the later file replaces the counters
MergeOneLast(a, b) == b

\* _merge_observation: the counters of two files add up.
MergeOne(a, b) == [k \in DOMAIN a |-> a[k] + b[k]]
Merge(f, g) ==
  [o \in DOMAIN f \cup DOMAIN g |->
     IF o \notin DOMAIN g THEN f[o] ELSE IF o \notin DOMAIN f THEN g[o] ELSE MergeOne(f[o], g[o])]

\* A cell that is no time gives no point; one that is no period, or none above
\* zero, gives a point without a period.
HasTime(row)  == IsNumber(row.time)
PeriodOf(row) == IF IsNumber(row.period) /\ row.period > 0 THEN row.period ELSE Blank

\* The points of the n-th file, one for each valid row with a time.
PointsOf(m, n) ==
  {[object |-> files[n].rows[i].object, time |-> files[n].rows[i].time, period |-> PeriodOf(files[n].rows[i]),
    value |-> Value(m, files[n], files[n].rows[i]), file |-> n, row |-> i] :
     i \in {j \in RowsOf(files[n]) :
              Outcome(m, files[n], files[n].rows[j]) = "valid" /\ HasTime(files[n].rows[j])}}

\* A file that the discovery could not parse makes the unit an error before
\* any file is read.
Discover ==
  /\ stage = "discover"
  /\ status' = IF \E i \in 1..Len(files) : files[i].discovered = "parse_error" THEN "error" ELSE status
  /\ stage' = "read"
  /\ UNCHANGED <<task, next, observed, byObject, series, judged>>

File == files[next]
Reading == stage = "read" /\ next <= Len(files) /\ next' = next + 1 /\ UNCHANGED <<task, stage, judged>>

LeaveOut ==
  /\ Reading /\ File.discovered # "matched"
  /\ UNCHANGED <<status, observed, byObject, series>>

\* A unit without a confirmed and enabled binding is skipped.
NoBindings ==
  /\ Reading /\ File.discovered = "matched"
  /\ task.bound = {} /\ status' = "skip"
  /\ UNCHANGED <<observed, byObject, series>>

\* The file could be read by the discovery, and not any more.
Unreadable ==
  /\ Reading /\ File.discovered = "matched"
  /\ task.bound # {} /\ File.lost
  /\ status' = "error"
  /\ UNCHANGED <<observed, byObject, series>>

ReadFile ==
  /\ Reading /\ File.discovered = "matched"
  /\ task.bound # {} /\ ~File.lost
  /\ status' = IF status = "none" THEN "pass" ELSE status
  /\ LET here == {m \in MeasMetrics : Present(m, File) # {}}
         Together(o) == [k \in DOMAIN Empty |-> Total([m \in here |-> Counters(m, File, o)[k]])]
     IN
     /\ observed' = [m \in MeasMetrics |-> IF m \in here THEN Merge(observed[m], Observe(m, File)) ELSE observed[m]]
     /\ byObject' = IF here = {} THEN byObject ELSE Merge(byObject, [o \in ObjectsIn(File) |-> Together(o)])
     /\ series' = [m \in MeasMetrics |-> IF m \in here THEN series[m] \cup PointsOf(m, next) ELSE series[m]]
-----------------------------------------------------------------------------
(* Judging                                                                 *)

\* An object has a series for each period.  _deduplicate_series: values of one
\* time are averaged, times are sorted.
SeriesOf(p) == <<p.object, p.period>>
Series(points, k) ==
  LET mine  == {p \in points : SeriesOf(p) = k}
      times == {p.time : p \in mine}
      Nth(i) == CHOOSE t \in times : Cardinality({s \in times : s < t}) = i - 1
      At(t) == {p \in mine : p.time = t}
  IN [i \in 1..Cardinality(times) |->
        (Scale * Total([p \in At(Nth(i)) |-> p.value])) \div Cardinality(At(Nth(i)))]

Abs(n) == IF n < 0 THEN -n ELSE n

\* _classify_trend; the tolerance is 5% of the mean, a spike or plunge is a
\* change of more than 30% from the mean of the values before.
Within(d, v) == d <= 0 \/ 20 * Len(v) * d <= Abs(Total(v))
Classify(v) ==
  LET n == Len(v)
      before == Total([i \in 1..(n - 1) |-> v[i]])
      change == (n - 1) * v[n] - before
      values == {v[i] : i \in 1..n}
      low   == Min(values)
      lowAt == Min({i \in 1..n : v[i] = low})
  IN
  IF n < 2 THEN "cannot_determine"
  ELSE IF \A i \in 1..n : v[i] = 0 THEN "all_zero"
  ELSE IF Within(Max(values) - low, v) THEN "stable"
  ELSE IF 10 * Abs(change) > 3 * Abs(before) THEN IF change > 0 THEN "spike" ELSE "plunge"
  ELSE IF \A i \in 1..(n - 1) : Within(v[i] - v[i + 1], v) THEN "rising"
  ELSE IF \A i \in 1..(n - 1) : Within(v[i + 1] - v[i], v) THEN "falling"
  ELSE IF 1 < lowAt /\ lowAt < n /\ ~Within(v[n] - low, v) THEN "recovering"
  ELSE "fluctuating"

Signal(label, direction) ==
  CASE direction = "higher_better" /\ label \in {"falling", "plunge", "all_zero"} -> "worsened"
    [] direction = "higher_better" /\ label \in {"rising", "spike"} -> "improved"
    [] direction = "lower_better" /\ label \in {"rising", "spike"} -> "worsened"
    [] direction = "lower_better" /\ label \in {"falling", "plunge"} -> "improved"
    [] OTHER -> "none"

\* _business_status of an average sum / valid: equal to a threshold counts.
Crosses(o, threshold, direction) ==
  /\ threshold # None
  /\ IF direction = "higher_better" THEN o.sum <= threshold * o.valid ELSE o.sum >= threshold * o.valid

BusinessStatus(o, m) ==
  IF o.valid = 0 THEN "not_judgeable"
  ELSE IF Direction[m] = "neutral" THEN "not_applicable"
  ELSE IF Warning[m] = None /\ Critical[m] = None THEN "unconfigured"
  ELSE IF Crosses(o, Critical[m], Direction[m]) THEN "fail"
  ELSE IF Crosses(o, Warning[m], Direction[m]) THEN "warn"
  ELSE "normal"

\* _metric_business_status: the worst object counts.
WorstStatus(S) ==
  IF "fail" \in S THEN "fail" ELSE IF "warn" \in S THEN "warn"
  ELSE IF S = {"normal"} THEN "normal"
  ELSE IF "not_applicable" \in S THEN "not_applicable"
  ELSE IF "unconfigured" \in S THEN "unconfigured" ELSE "not_judgeable"

ReadOk(o) == o.bad = 0 /\ o.null = 0

\* The trend of the series with the most points; ties go to the first, by
\* object and period, the series without a period last.
SeriesBefore(k, l) ==
  \/ k[1] < l[1]
  \/ k[1] = l[1] /\ (l[2] = Blank \/ (k[2] # Blank /\ k[2] < l[2]))
PrimaryTrend(m) ==
  LET keys == {SeriesOf(p) : p \in series[m]}
      longest == {k \in keys : \A l \in keys : Len(Series(series[m], l)) <= Len(Series(series[m], k))}
  IN IF keys = {} THEN <<>>
     ELSE Series(series[m], CHOOSE k \in longest : \A l \in longest \ {k} : SeriesBefore(k, l))

Judgement(m) ==
  [ok |-> \A o \in DOMAIN observed[m] : ReadOk(observed[m][o]),
   business |-> WorstStatus({BusinessStatus(observed[m][o], m) : o \in DOMAIN observed[m]}),
   trend |-> Classify(PrimaryTrend(m)),
   signal |-> Signal(Classify(PrimaryTrend(m)), Direction[m])]

Found == {m \in MeasMetrics : DOMAIN observed[m] # {}}

JudgeMetric ==
  /\ stage = "read" /\ next > Len(files)
  /\ stage' = "derive"
  /\ judged' = [m \in Found |-> Judgement(m)]
  /\ LET read == IF \E m \in Found : ~judged'[m].ok THEN "fail" ELSE status
         Some(s) == \E m \in Found : judged'[m].business = s
     IN status' = IF read # "error" /\ Some("fail") THEN "fail"
                  ELSE IF read = "pass" /\ Some("warn") THEN "warn" ELSE read
  /\ UNCHANGED <<task, next, observed, byObject, series>>

\* A derivation fails when a part was not found, or an object lacks a part or
\* its value; a denominator of zero passes.
DerivedFails(d) ==
  LET num == observed[d[1]]
      den == observed[d[2]]
  IN \/ ~{d[1], d[2]} \subseteq Found
     \/ \E o \in DOMAIN num \cup DOMAIN den :
          \/ o \notin DOMAIN num \cap DOMAIN den
          \/ den[o].valid = 0
          \/ den[o].sum # 0 /\ num[o].valid = 0

Derive ==
  /\ stage = "derive" /\ stage' = "done"
  /\ status' = IF status # "none" /\ \E d \in task.derivations : DerivedFails(d) THEN "fail" ELSE status
  /\ UNCHANGED <<task, next, observed, byObject, series, judged>>

MeasNext == Discover \/ LeaveOut \/ NoBindings \/ Unreadable \/ ReadFile \/ JudgeMetric \/ Derive
MeasSpec == MeasInit /\ [][MeasNext]_measVars
-----------------------------------------------------------------------------
(* Properties                                                              *)

MeasTypeOK ==
  /\ status \in {"none", "pass", "warn", "fail", "skip", "error"}
  /\ next \in 1..(Len(files) + 1)
  /\ DOMAIN byObject \subseteq Objects

\* Every row with a value, of every file that could be read and has the
\* metric, is counted once and under one of the four outcomes, also after the
\* files of a unit are merged; and the points of a metric are its valid rows
\* that have a time.
FilesRead(m) ==
  {k \in 1..(next - 1) : files[k].discovered = "matched" /\ ~files[k].lost /\ Present(m, files[k]) # {}}
RowsRead(m, o) == UNION {{<<k, i>> : i \in RowsAt(files[k], o)} : k \in FilesRead(m)}
ValidRead(m, o) == {r \in RowsRead(m, o) : Outcome(m, files[r[1]], files[r[1]].rows[r[2]]) = "valid"}
PointRows(m, o) == {<<p.file, p.row>> : p \in {q \in series[m] : q.object = o}}
Balanced(c) == c.rows = c.valid + c.null + c.na + c.bad
RowsCounted ==
  /\ \A m \in MeasMetrics, o \in Objects :
       LET seen == IF o \in DOMAIN observed[m] THEN observed[m][o] ELSE Empty
       IN /\ seen.rows = Cardinality(RowsRead(m, o)) /\ Balanced(seen)
          /\ seen.valid = Cardinality(ValidRead(m, o))
          /\ PointRows(m, o) = {r \in ValidRead(m, o) : HasTime(files[r[1]].rows[r[2]])}
  /\ \A o \in DOMAIN byObject : Balanced(byObject[o])

\* A worse average never has a better business status.
Rank(s) == CASE s = "fail" -> 2 [] s = "warn" -> 1 [] OTHER -> 0
StatusMonotone ==
  \A m \in Found : \A p, q \in DOMAIN observed[m] :
    LET a == observed[m][p]
        b == observed[m][q]
        worse == IF Direction[m] = "higher_better" THEN a.sum * b.valid < b.sum * a.valid
                                                   ELSE a.sum * b.valid > b.sum * a.valid
    IN a.valid > 0 /\ b.valid > 0 /\ worse
         => Rank(BusinessStatus(a, m)) >= Rank(BusinessStatus(b, m))

\* The classification treats up and down alike: the opposite series has the
\* opposite label, with two exceptions.  A dip that recovers has no
\* counterpart; and "rising" is tried first and lets a fall within the
\* tolerance pass at every step, so that a series that only drifts is
\* "rising" whether it drifts up or down.
Opposite(label) ==
  CASE label = "rising" -> "falling" [] label = "falling" -> "rising"
    [] label = "spike" -> "plunge" [] label = "plunge" -> "spike" [] OTHER -> label
Drifts(v) == \A i \in 1..(Len(v) - 1) : Within(Abs(v[i + 1] - v[i]), v)
TrendMirrors ==
  \A m \in DOMAIN judged :
    LET v == PrimaryTrend(m)
        mirror == Classify([i \in 1..Len(v) |-> -v[i]])
    IN \/ mirror = Opposite(judged[m].trend)
       \/ {mirror, judged[m].trend} \subseteq {"recovering", "fluctuating"}
       \/ Drifts(v) /\ {mirror, judged[m].trend} = {"rising"}

\* A unit one of whose files could not be parsed or read, or one of whose
\* metrics has no value or a bad one in a row that is not wholly blank, is not
\* reported as passed or warned.
TroubleNotPassed ==
  LET trouble == \/ \E i \in 1..Len(files) : files[i].discovered = "parse_error"
                 \/ \E m \in Found : \E o \in DOMAIN observed[m] : ~ReadOk(observed[m][o])
  IN stage = "done" /\ trouble => status \notin {"none", "pass", "warn"}

\* What the reading and the judging of measurement files keep.
MeasSafe == RowsCounted /\ StatusMonotone /\ TrendMirrors /\ TroubleNotPassed

\* A unit whose discovery failed stays an error, whatever files follow
\* (comment in inspect_measurement_files).
ErrorStatusKept ==
  (stage = "done" /\ \E i \in 1..Len(files) : files[i].discovered = "parse_error") => status = "error"
=============================================================================
