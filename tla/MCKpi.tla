-------------------------------- MODULE MCKpi --------------------------------
(***************************************************************************)
(* The KPI components in one run: the configuration and the freezing of a  *)
(* scope, the catalog of measurements, the reading of measurement files,   *)
(* and the workbench with the daily health.  Each of them is modelled with *)
(* the part of the others it depends on as an input, so they share no      *)
(* variable.  turn names the one that moves, from the first state on; the  *)
(* others stay in one initial state, so that the states explored are the   *)
(* sum of theirs and not the product.                                      *)
(***************************************************************************)
EXTENDS Configuration, MeasurementCatalog, Measurement, Workbench, TLC

VARIABLE turn

CONSTANTS u1, u2, mA, mB, mC, mNum, mDen
-----------------------------------------------------------------------------
(* Configuration: one unit, one metric, two rules and two editors.         *)

MCUnitOf   == [b \in Bindings |-> CHOOSE u \in Units : TRUE]
MCMetricOf == [b \in Bindings |-> CHOOSE m \in Metrics : TRUE]
MCDerived  == AllPairs
Pair == CHOOSE p \in AllPairs : TRUE
Assign(c, t) == [kind |-> "assign", admin |-> TRUE, confirm |-> c, types |-> t]
MCMenu ==
  {Assign(TRUE, t) : t \in [Rules -> SUBSET {FocusType}] \cup UNION {[{r} -> {{FocusType}, {}}] : r \in Rules}}
    \cup {Assign(FALSE, [r \in Rules |-> {}]),
          [kind |-> "focus", admin |-> TRUE, add |-> {Pair}, remove |-> {}],
          [kind |-> "focus", admin |-> TRUE, add |-> {}, remove |-> {Pair}],
          [kind |-> "focus", admin |-> FALSE, add |-> {}, remove |-> {Pair}]}
    \cup [kind: {"unit"}, admin: {TRUE}, unit: Units, to: BOOLEAN]
    \cup [kind: {"binding"}, admin: {TRUE}, binding: Bindings, to: {"confirmed", "ignored"}]
-----------------------------------------------------------------------------
(* Catalog: a name in two units, a second name in one.                     *)

MCColumns   == {<<u1, "a">>, <<u2, "a">>, <<u2, "b">>}
MCCatUnitOf == [c \in MCColumns |-> c[1]]
MCBaseName  == [c \in MCColumns |-> c[2]]
MCInitialName == [m \in CatMetrics |-> IF m = mA THEN "a" ELSE NoName]
CatRow(m, s, o) == [metric |-> m, status |-> s, on |-> o]
NoRows == [c \in MCColumns |-> Unbound]
MCInitialBindings ==
  {NoRows,
   [c \in MCColumns |-> IF c = <<u1, "a">> THEN CatRow(mA, "confirmed", TRUE) ELSE
                        IF c = <<u2, "b">> THEN CatRow(NoMetric, "candidate", TRUE) ELSE Unbound]}
MCWishes ==
  {[op |-> "status", column |-> <<u1, "a">>, status |-> s, on |-> o] : s \in {"ignored", "confirmed"}, o \in {"keep", "off"}}
  \cup {[op |-> "batch", columns |-> {<<u1, "a">>, <<u2, "a">>}]}
  \cup {[op |-> "bind", column |-> <<u2, "b">>, metric |-> mA], [op |-> "register", column |-> <<u2, "b">>, name |-> "b"],
        [op |-> "rename", metric |-> mA, name |-> "b"],
        [op |-> "derive", unit |-> u1, metric |-> mA, parts |-> {mA}]}
-----------------------------------------------------------------------------
(* Measurement: a file or two of a row or two, and series of four values.  *)

MCColumnMetric == [c \in {1, 2, 3} |-> IF c = 3 THEN mDen ELSE mNum]
MCDenominator  == [c \in Columns |-> IF c = 1 THEN 3 ELSE c]
MCWarning   == [m \in MeasMetrics |-> IF m = mNum THEN 2 ELSE None]
MCCritical  == [m \in MeasMetrics |-> IF m = mNum THEN 1 ELSE 3]
MCDirection == [m \in MeasMetrics |-> IF m = mNum THEN "higher_better" ELSE "lower_better"]
Line(o, t, p, c) == [object |-> o, time |-> t, period |-> p, cells |-> c]
FileRows == {Line(o, 1, 15, c) : o \in {1, 2}, c \in [{1, 3} -> {Blank, Bad, 0, 2}]}
              \cup {Line(o, t, 15, (2 :> 1)) : o \in {1, 2}, t \in {2, Blank, Bad}}
              \cup {Line(0, t, p, (1 :> c)) : t \in {Blank, 1}, p \in {Blank, 15}, c \in {Blank, 2}}
AFile(d, h, rows) == [discovered |-> d, lost |-> FALSE, header |-> h, rows |-> rows]
BadFile == AFile("parse_error", {}, <<>>)
OtherFiles ==
  {BadFile, [AFile("matched", {1, 2}, <<>>) EXCEPT !.lost = TRUE], AFile("disabled", {}, <<>>),
   AFile("matched", {1, 2, 3}, <<Line(1, 2, 15, (1 :> 4 @@ 3 :> 1))>>),
   AFile("matched", {2}, <<Line(2, 1, 15, (2 :> Blank))>>),
   AFile("matched", {2}, <<Line(0, Blank, Blank, (2 :> Blank))>>)}
Readings4(v, ps) == <<AFile("matched", {1}, [i \in 1..4 |-> Line(1, i, ps[i], (1 :> v[i]))])>>
SeriesFile(v) == Readings4(v, [i \in 1..4 |-> 15])
TwoPeriods == {<<60, 15, 60, 15>>, <<Bad, 15, 15, 0>>, <<Blank, Bad, 0, 15>>}
FileSets ==
  {<<AFile("matched", {1, 2, 3}, <<r>>), f>> : r \in FileRows, f \in OtherFiles}
  \cup {<<f, AFile("matched", {1, 2, 3}, <<r>>)>> : r \in FileRows, f \in OtherFiles}
  \cup {<<AFile("matched", h, <<r, s>>)>> : h \in {{1, 2}, {1, 3}}, r \in {x \in FileRows : x.object = 1}, s \in FileRows}
  \cup {Readings4(v, ps) : v \in [1..4 -> {0, 2}], ps \in TwoPeriods}
  \cup {SeriesFile(v) : v \in [1..4 -> {-2, 0, 1, 2, 20}] \cup {<<27, 26, 25, 24>>}} \cup {<<BadFile>>, <<>>}
MCTasks == {[files |-> fs, bound |-> Columns, derivations |-> {}] : fs \in FileSets}
  \cup {[files |-> <<f, g>>, bound |-> b, derivations |-> d] :
            f \in OtherFiles, g \in OtherFiles, b \in {{}, {1, 3}}, d \in {{}, {<<mNum, mDen>>}}}
-----------------------------------------------------------------------------
(* Workbench: a load in one unit, a rate and its parts in another.  Values *)
(* are in tenths; the task is of day 3 and its readings reach day 7.      *)

MCKpis    == {"load", "num", "den", "rate"}
MCKpiUnit == [m \in MCKpis |-> IF m = "load" THEN "u1" ELSE "u2"]
MCFormula == [m \in {"rate"} |-> <<"num", "den">>]
Judging(dir, warn, crit) ==
  [direction |-> dir, warning |-> warn, critical |-> crit, aggregation |-> "latest", change |-> Nil,
   percent |-> FALSE, zero |-> "unknown", tolerance |-> 2, template |-> "success_rate"]
MCDefaultRule ==
  [m \in MCKpis |-> CASE m = "load" -> Judging("lower_better", 700, 800)
                      [] m = "rate" -> Judging("higher_better", 990, 900)
                      [] OTHER -> Judging("neutral", Nil, Nil)]
MCCustomRule ==
  [m \in MCKpis |-> [MCDefaultRule[m] EXCEPT !.aggregation = "max", !.zero = "business_not_triggered",
                                             !.percent = m = "rate"]]
Setting(confirmed, candidates, custom) ==
  [on |-> {"u1", "u2"}, confirmed |-> confirmed, candidates |-> candidates, derived |-> {"rate"}, custom |-> custom]
MCSettings ==
  {Setting({"load", "num", "den"}, {}, {"num", "den", "rate"}), Setting({"num", "den"}, {"load"}, {"num", "den"})}
MCUpkeeps == {[rule |-> MCCustomRule, derived |-> {"rate"}], [rule |-> MCDefaultRule, derived |-> {}]}
MCFocuses == {{"load", "rate"}, {"rate"}}
Point(o, t, v) == [object |-> o, time |-> t, value |-> v, file |-> 1]
NoReadings == [m \in MCKpis |-> {}]
MCReadings ==
  {[load |-> {Point(1, 170, 900), Point(1, 150, 500), Point(2, 170, 100)},
    num |-> {Point(1, 170, 0), Point(2, 170, 50)}, den |-> {Point(1, 170, 0), Point(2, 170, 100)},
    rate |-> {Point(2, 170, 500)}],
   [load |-> {Point(1, 170, 600), Point(2, 17, 100)},
    num |-> {Point(1, 170, 96), Point(1, 150, 99), [Point(1, 170, 98) EXCEPT !.file = 2]},
    den |-> {Point(1, 170, 100), Point(1, 150, 100)}, rate |-> {Point(1, 170, 990)}],
   [NoReadings EXCEPT !["num"] = {Point(1, 170, 99), Point(2, 170, 99)}, !["den"] = {Point(1, 170, 99), Point(2, 150, 99)}],
   NoReadings}
Earlier(load, parts) ==
  [NoReadings EXCEPT !["load"] = {load}, !["num"] = parts, !["den"] = parts]
MCEarlier == <<Earlier(Point(2, 150, 90), {Point(1, 150, 90), Point(2, 150, 90)}), Earlier(Point(1, 150, 90), {})>>
-----------------------------------------------------------------------------
Components == {"configuration", "catalog", "measurement", "workbench"}

KpiInit ==
  /\ turn \in Components
  /\ ConfInit
  /\ CatInit /\ (turn # "catalog" => binding = NoRows)
  /\ MeasInit /\ (turn # "measurement" => task = [files |-> <<>>, bound |-> Columns, derivations |-> {}])
  /\ BenchInit
  /\ turn # "workbench" => /\ readings = NoReadings /\ live = CHOOSE s \in Settings : TRUE
                           /\ teamFocus = CHOOSE f \in Focuses : TRUE

KpiNext ==
  /\ turn' = turn
  /\ \/ turn = "configuration" /\ ConfNext /\ UNCHANGED <<catVars, measVars, benchVars>>
     \/ turn = "catalog" /\ CatNext /\ UNCHANGED <<confVars, measVars, benchVars>>
     \/ turn = "measurement" /\ MeasNext /\ UNCHANGED <<confVars, catVars, benchVars>>
     \/ turn = "workbench" /\ BenchNext /\ UNCHANGED <<confVars, catVars, measVars>>

kpiVars == <<turn, confVars, catVars, measVars, benchVars>>

KpiSpec == KpiInit /\ [][KpiNext]_kpiVars

KpiTypeOK == turn \in Components /\ ConfTypeOK /\ CatTypeOK /\ MeasTypeOK /\ BenchTypeOK
=============================================================================
