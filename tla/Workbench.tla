------------------------------ MODULE Workbench ------------------------------
(***************************************************************************)
(* From the readings of a task to what the KPI workbench shows.  A run     *)
(* freezes the scope of the task, the KPI rule judges the readings         *)
(* (build_daily_health_snapshot), the points are mirrored and the verdicts *)
(* are published over the frozen scope (publish_kpi_v6_from_scene), while  *)
(* requests of the workbench read the database statement by statement      *)
(* (get_kpi_workbench_source_data) and editors change the configuration    *)
(* and the team focus.  There are two configurations: scope and judgement  *)
(* go by the tables of the network element type (live), the detail of a    *)
(* metric by the older tables, which have editors of their own and are an  *)
(* input here (Upkeeps).                                                   *)
(*                                                                         *)
(* The tearing of the frozen scope itself is in Configuration, the reading *)
(* of files in Measurement, the rest of publication and its rollback in    *)
(* TaskRecords.                                                            *)
(***************************************************************************)
EXTENDS DailyHealth, Sequences, SequencesExt

CONSTANTS
  Kpis,         \* metrics, each of one unit
  KpiUnit,
  Formula,      \* numerator and denominator of the metrics that can be derived
  InternalKpis, \* metrics with the suffix _NUMERATOR or _DENOMINATOR
  Settings,     \* configurations: units on, metrics confirmed, candidates, derived, with a maintenance row
  DefaultRule,  \* how a metric is judged without a maintenance row
  CustomRule,   \* and with one
  Upkeeps,      \* what the older tables may hold: judgement of each metric, metrics derived
  Focuses,      \* sets of metrics the team may focus on
  Readings,     \* what a package may hold: points of each metric
  EarlierTasks, \* readings of earlier tasks of the device, latest first
  TaskDay,      \* day of the task itself
  Asked,        \* metrics whose evidence is asked for; Nil asks for the lists
  BenchRuns, BenchEdits \* bounds on runs and on edits

ASSUME WorkbenchAssumption ==
  /\ IsFiniteSet(Kpis) /\ DOMAIN Formula \subseteq Kpis /\ InternalKpis \subseteq Kpis
  /\ Settings \subseteq [on: SUBSET {KpiUnit[m] : m \in Kpis}, confirmed: SUBSET Kpis, candidates: SUBSET Kpis,
                         derived: SUBSET DOMAIN Formula, custom: SUBSET Kpis]
  /\ DOMAIN DefaultRule = Kpis /\ DOMAIN CustomRule = Kpis
  /\ \A m \in Kpis : {DefaultRule[m].aggregation, CustomRule[m].aggregation} \subseteq {"latest", "sum", "max", "min", "mean"}
  \* Parts are confirmed in the unit of their metric when a derivation is created.
  /\ \A m \in DOMAIN Formula : \A i \in {1, 2} : Formula[m][i] \in Kpis /\ KpiUnit[Formula[m][i]] = KpiUnit[m]
  /\ Nil \notin Int /\ TaskDay \in Int
  /\ \A r \in Readings : \A m \in Kpis :
       IsFiniteSet(r[m]) /\ r[m] \subseteq [object: Nat, time: Int, value: Int \cup {Nil}, file: Nat]
  /\ \A u \in Upkeeps : DOMAIN u.rule = Kpis /\ u.derived \subseteq DOMAIN Formula
  /\ \A f \in Focuses : f \subseteq Kpis
  /\ Asked \subseteq Kpis \cup {Nil}
  /\ BenchRuns \in Nat /\ BenchEdits \in Nat

VARIABLES
  readings,     \* points of the package
  live, teamFocus, \* current configuration and focus
  frozen,       \* frozen scope of the task: units, items
  health,       \* daily health in the rule result of the scene
  index,        \* KPI points of the scene's index
  mirrored,     \* KPI points mirrored to the database
  results, points, \* published verdicts and points, by metric
  bench,        \* the worker's run: step, mode, resolved scope
  request,      \* a request of the workbench
  runs, edits, published \* runs started, edits made, publications so far

sceneVars == <<health, index>>
dbVars    == <<mirrored, results, points>>
benchVars == <<readings, live, teamFocus, frozen, sceneVars, dbVars, bench, request, runs, edits, published>>

NotFrozen    == [kept |-> FALSE, units |-> {}, items |-> <<>>]
NoPoints  == [m \in Kpis |-> {}]
NoRun     == [step |-> "idle", mode |-> "none", scope |-> NotFrozen]
NoRequest == [step |-> "idle", about |-> Nil, units |-> {}, items |-> {}, focus |-> {}, results |-> <<>>,
              points |-> <<>>, todo |-> {}, kept |-> {}, since |-> 0]

BenchInit ==
  /\ readings \in Readings /\ live \in Settings /\ teamFocus \in Focuses
  /\ frozen = NotFrozen /\ health = <<>> /\ index = NoPoints
  /\ mirrored = NoPoints /\ results = <<>> /\ points = NoPoints
  /\ bench = NoRun /\ request = NoRequest
  /\ runs = 0 /\ edits = 0 /\ published = 0
-----------------------------------------------------------------------------
(* Scope and judgement                                                     *)

\* A confirmed binding is the authority over a derivation that is left over.
BaseKpis(s)    == {m \in s.confirmed : KpiUnit[m] \in s.on}
DerivedKpis(s) == {m \in s.derived : KpiUnit[m] \in s.on} \ BaseKpis(s)

\* A maintenance row replaces the defaults.
RuleOf(s, m) == IF m \in s.custom THEN CustomRule[m] ELSE DefaultRule[m]

\* The metrics that KpiScopeResolver freezes.
Scope(s) == [kept |-> TRUE, units |-> s.on,
             items |-> [m \in BaseKpis(s) \cup DerivedKpis(s) |-> RuleOf(s, m)]]

\* The daily health leaves the parts of success rates out.
Hidden(s) == {m \in InternalKpis : \E r \in DerivedKpis(s) : m \in {Formula[r][1], Formula[r][2]}}
Listed(s) == (BaseKpis(s) \cup DerivedKpis(s)) \ Hidden(s)

Read(m, s) == IF KpiUnit[m] \in s.on THEN readings[m] ELSE {}

\* The day of the latest reading of the enabled units, or that of the task.
DataDay(s) ==
  LET times == {p.time : p \in UNION {Readable(Read(m, s)) : m \in Kpis}}
  IN IF times = {} THEN TaskDay ELSE Day(Max(times))

Verdict(m, s, d) ==
  IF m \in DerivedKpis(s)
  THEN DerivedHealth(Read(Formula[m][1], s), Read(Formula[m][2], s), Read(m, s), RuleOf(s, m), d)
  ELSE BaseHealth(Read(m, s), RuleOf(s, m), d)

\* build_daily_health_snapshot reads the configuration of the moment.
DailyHealthOf(s) ==
  [m \in Listed(s) |-> [sum |-> Verdict(m, s, DataDay(s)), cfg |-> RuleOf(s, m), day |-> DataDay(s),
                        derived |-> m \in DerivedKpis(s)]]
-----------------------------------------------------------------------------
(* The worker                                                              *)

WorkerGoes(step) == bench' = [bench EXCEPT !.step = step]
Quietly == UNCHANGED <<readings, live, teamFocus, request, edits>>

\* The first run persists its scope at once.
BeginRun ==
  /\ bench.step = "idle" /\ runs < BenchRuns /\ frozen = NotFrozen
  /\ bench' = [step |-> "inspect", mode |-> "run", scope |-> Scope(live)]
  /\ frozen' = Scope(live) /\ runs' = runs + 1
  /\ Quietly /\ UNCHANGED <<sceneVars, dbVars, published>>

\* A rebuild keeps the resolved scope until its scene has replaced the old one.
BeginRebuild ==
  /\ bench.step = "idle" /\ runs < BenchRuns /\ frozen # NotFrozen
  /\ bench' = [step |-> "inspect", mode |-> "rebuild", scope |-> Scope(live)]
  /\ runs' = runs + 1
  /\ Quietly /\ UNCHANGED <<frozen, sceneVars, dbVars, published>>

\* mutant: a rerun deletes the old verdicts at its start
BeginRerunCleared ==
  /\ bench.step = "idle" /\ runs < BenchRuns /\ frozen # NotFrozen
  /\ bench' = [step |-> "inspect", mode |-> "rerun", scope |-> frozen]
  /\ runs' = runs + 1 /\ results' = <<>> /\ points' = NoPoints
  /\ Quietly /\ UNCHANGED <<frozen, sceneVars, mirrored, published>>

\* A rerun of the KPI rule goes by the scope of the task.
BeginRerun ==
  /\ bench.step = "idle" /\ runs < BenchRuns /\ frozen # NotFrozen
  /\ bench' = [step |-> "inspect", mode |-> "rerun", scope |-> frozen]
  /\ runs' = runs + 1
  /\ Quietly /\ UNCHANGED <<frozen, sceneVars, dbVars, published>>

Inspect ==
  /\ bench.step = "inspect"
  /\ health' = DailyHealthOf(live) /\ index' = [m \in Kpis |-> Readable(readings[m])]
  /\ WorkerGoes(IF bench.mode = "rebuild" THEN "adopt" ELSE "mirror")
  /\ Quietly /\ UNCHANGED <<frozen, dbVars, runs, published>>

\* A rule that fails leaves a result without daily health; the index is only
\* written at the end, so a rerun keeps the old one.
InspectFails ==
  /\ bench.step = "inspect"
  /\ health' = <<>> /\ index' = IF bench.mode = "rerun" THEN index ELSE NoPoints
  /\ WorkerGoes(IF bench.mode = "rebuild" THEN "adopt" ELSE "mirror")
  /\ Quietly /\ UNCHANGED <<frozen, dbVars, runs, published>>

AdoptScope ==
  /\ bench.step = "adopt"
  /\ frozen' = bench.scope /\ WorkerGoes("mirror")
  /\ Quietly /\ UNCHANGED <<sceneVars, dbVars, runs, published>>

MirrorIndex ==
  /\ bench.step = "mirror"
  /\ mirrored' \in {index, mirrored} \* a failure is only logged
  /\ WorkerGoes("publish")
  /\ Quietly /\ UNCHANGED <<frozen, sceneVars, results, points, runs, published>>

SpecialState(sum) ==
  CASE sum.reason \in {"no_current_data", "dependency_missing"} -> "no_data"
    [] sum.reason = "zero_denominator" -> "zero_denominator"
    [] OTHER -> IF sum.status = "not_applicable" THEN "not_applicable" ELSE "none"

AttentionGroup(sum) ==
  IF SpecialState(sum) \in {"not_applicable", "no_action", "no_baseline", "all_zero", "zero_denominator"} THEN "none"
  ELSE CASE sum.status = "fail" -> "failure"
         [] sum.status = "warn" -> "warning"
         [] sum.status = "normal" /\ sum.trend = "worsened" -> "trend_degraded"
         [] sum.status = "unable_to_judge" -> "unjudgeable"
         [] sum.status = "pending_config" -> "needs_config"
         [] OTHER -> "none"

\* _metric_result; cfg, day and derived record how the verdict was reached.
Result(sum, cfg, day, derived) ==
  [status |-> sum.status, trend |-> sum.trend, special |-> SpecialState(sum), group |-> AttentionGroup(sum),
   today |-> sum.today, yesterday |-> sum.yesterday, count |-> sum.valid, evidence |-> sum.sourced,
   cfg |-> cfg, day |-> day, derived |-> derived]
MissingResult == Result(Summary({NoGroup("no_current_data")}), Nil, TaskDay, FALSE)

\* _scene_points: the points of the index that the scope covers.
ScenePoints == [m \in Kpis |-> IF m \in DOMAIN frozen.items THEN index[m] ELSE {}]

\* publish_kpi_v6_snapshot replaces all verdicts and points in one
\* transaction; an empty scope publishes nothing.
PublishVerdicts ==
  /\ bench.step = "publish" /\ DOMAIN frozen.items # {}
  /\ results' = [m \in DOMAIN frozen.items |->
                   IF m \in DOMAIN health
                   THEN Result(health[m].sum, health[m].cfg, health[m].day, health[m].derived) ELSE MissingResult]
  /\ points' = ScenePoints
  /\ bench' = NoRun /\ published' = published + 1
  /\ request' = [request EXCEPT !.kept = @ \cap DOMAIN frozen.items]
  /\ UNCHANGED <<readings, live, teamFocus, frozen, sceneVars, mirrored, runs, edits>>

PublishesNothing ==
  /\ bench.step = "publish" /\ bench' = NoRun
  /\ Quietly /\ UNCHANGED <<frozen, sceneVars, dbVars, runs, published>>
-----------------------------------------------------------------------------
(* Editors                                                                 *)

BenchEdit ==
  /\ edits < BenchEdits /\ edits' = edits + 1
  /\ UNCHANGED <<readings, frozen, sceneVars, dbVars, bench, request, runs, published>>

\* set_measurement_inspection_enabled
SwitchInspection(u) ==
  /\ live' = [live EXCEPT !.on = IF u \in @ THEN @ \ {u} ELSE @ \cup {u}]
  /\ BenchEdit /\ UNCHANGED teamFocus

\* correct_measurement_binding: a candidate is confirmed or dismissed for good.
CorrectBinding(m) ==
  /\ m \in live.candidates
  /\ \E chosen \in {{m}, {}} :
       live' = [live EXCEPT !.candidates = @ \ {m}, !.confirmed = @ \cup chosen]
  /\ BenchEdit /\ UNCHANGED teamFocus

\* A recovered maintenance row is added; it never replaces one.
AddMaintenance(m) ==
  /\ m \notin live.custom /\ live' = [live EXCEPT !.custom = @ \cup {m}]
  /\ BenchEdit /\ UNCHANGED teamFocus

EditFocus ==
  /\ teamFocus' \in Focuses \ {teamFocus}
  /\ BenchEdit /\ UNCHANGED live
-----------------------------------------------------------------------------
(* A request                                                               *)

RequestGoes(r) ==
  /\ request' = r
  /\ UNCHANGED <<readings, live, teamFocus, frozen, sceneVars, dbVars, bench, runs, edits, published>>

\* The snapshot row; a task without one has to be rebuilt.
ReadSnapshot(about) ==
  /\ request.step = "idle" /\ frozen # NotFrozen
  /\ RequestGoes([NoRequest EXCEPT !.step = "focus", !.about = about, !.units = frozen.units,
                                   !.kept = DOMAIN results, !.since = published])

ReadFocus ==
  /\ request.step = "focus"
  /\ RequestGoes([request EXCEPT !.step = "scope", !.focus = teamFocus])

ReadScope ==
  /\ request.step = "scope"
  /\ RequestGoes([request EXCEPT !.step = "results", !.items = DOMAIN frozen.items])

ReadResults ==
  /\ request.step = "results"
  /\ RequestGoes([request EXCEPT !.step = IF request.about = Nil THEN "shown" ELSE "evidence", !.results = results])

\* The points of the metric and of its parts, each in a session of its own.
\* A metric outside the scope is not found; one without a verdict or without
\* sources has no evidence.
Parts(m) == {m} \cup (IF m \in DOMAIN Formula THEN {Formula[m][1], Formula[m][2]} ELSE {})

HasEvidence(m) ==
  m \in request.items /\ m \in DOMAIN request.results /\ request.results[m].evidence

OpenEvidence ==
  /\ request.step = "evidence"
  /\ RequestGoes(IF HasEvidence(request.about)
                 THEN [request EXCEPT !.step = "points", !.todo = Parts(request.about), !.points = NoPoints]
                 ELSE [request EXCEPT !.step = "refused"])

ReadPoints(m) ==
  /\ request.step = "points" /\ m \in request.todo
  /\ RequestGoes([request EXCEPT !.todo = @ \ {m}, !.points[m] = points[m],
                                 !.step = IF request.todo = {m} THEN "shown" ELSE "points"])

Answer ==
  /\ request.step \in {"shown", "refused"}
  /\ RequestGoes(NoRequest)

\* What a metric of the scope is shown as.
Unpublished(m) ==
  [status |-> "unable_to_judge", group |-> IF m \in request.focus THEN "unjudgeable" ELSE "none", found |-> FALSE]
ShownAs(m) ==
  IF m \in DOMAIN request.results
  THEN [status |-> request.results[m].status, group |-> request.results[m].group, found |-> TRUE]
  ELSE Unpublished(m)

\* The views: all metrics, the team focus that was in scope and enabled when
\* the scope was frozen, and what of it needs attention.
FocusView     == {m \in request.focus \cap request.items : KpiUnit[m] \in request.units}
AttentionView == {m \in FocusView : ShownAs(m).group # "none"}
-----------------------------------------------------------------------------
\* get_kpi_daily_health_metric: the detail is computed again from mirrored
\* points, by what the older tables hold at the moment.
Detail(m, upkeep) ==
  LET d       == health[m].day
      derived == m \in upkeep.derived
      own     == [k \in Parts(m) |-> Window(mirrored[k], d)]
      all     == Completed(own, IF derived THEN Parts(m) \ {m} ELSE {m}, EarlierTasks, d)
  IN IF derived THEN DerivedHealth(all[Formula[m][1]], all[Formula[m][2]], all[m], upkeep.rule[m], d)
     ELSE BaseHealth(all[m], upkeep.rule[m], d)

BenchNext ==
  \/ BeginRun \/ BeginRebuild \/ BeginRerun
  \/ Inspect \/ InspectFails \/ AdoptScope \/ MirrorIndex \/ PublishVerdicts \/ PublishesNothing
  \/ \E u \in {KpiUnit[m] : m \in Kpis} : SwitchInspection(u)
  \/ \E m \in Kpis : CorrectBinding(m) \/ AddMaintenance(m)
  \/ EditFocus
  \/ \E about \in Asked : ReadSnapshot(about)
  \/ ReadFocus \/ ReadScope \/ ReadResults
  \/ OpenEvidence \/ (\E m \in request.todo : ReadPoints(m)) \/ Answer

BenchSpec == BenchInit /\ [][BenchNext]_benchVars
-----------------------------------------------------------------------------
HealthStatuses == ToSet(StatusPriority)
Groups   == {"failure", "warning", "trend_degraded", "unjudgeable", "needs_config", "none"}

BenchTypeOK ==
  /\ readings \in Readings /\ teamFocus \in Focuses
  /\ live.confirmed \cup live.candidates \cup live.custom \subseteq Kpis /\ live.derived \subseteq DOMAIN Formula
  /\ DOMAIN frozen.items \subseteq Kpis
  /\ DOMAIN health \subseteq Kpis /\ \A m \in DOMAIN health : health[m].sum.status \in HealthStatuses
  /\ DOMAIN results \subseteq Kpis
  /\ \A m \in DOMAIN results : results[m].status \in HealthStatuses /\ results[m].group \in Groups
  /\ \A m \in Kpis : points[m] \subseteq readings[m] /\ mirrored[m] \subseteq readings[m]
  /\ bench.step \in {"idle", "inspect", "adopt", "mirror", "publish"}
  /\ request.step \in {"idle", "focus", "scope", "results", "evidence", "points", "shown", "refused"}
  /\ runs \in 0..BenchRuns /\ published \in 0..runs /\ edits \in 0..BenchEdits

\* Whatever other objects of the metric look like: a reading of the data day
\* that reaches the critical threshold it was judged with, undiluted by a
\* second reading of its object, brings a focused metric of the scope into
\* the attention view as a failure.  For a rate: one pair of its parts.
Alone(p, ps, d) == OnDay(OfObject(ps, p.object), d) = {p}
BaseBreach(m, cfg, d) ==
  \E p \in OnDay(Readable(readings[m]), d) :
    Alone(p, readings[m], d) /\ p.value # 0 /\ Reaches(p.value, cfg.critical, cfg)
RateBreach(m, cfg, d) ==
  LET pairs == Pairs(readings[Formula[m][1]], readings[Formula[m][2]], {})
  IN \E p \in OnDay(pairs, d) :
       Alone(p, pairs, d) /\ p.den # 0 /\ Reaches(Turned((p.num * 1000) \div p.den, cfg.template), cfg.critical, cfg)

FailReachesAttention ==
  request.step = "shown" =>
    \A m \in FocusView \cap DOMAIN request.results :
      LET r == request.results[m]
      IN /\ r.cfg # Nil /\ r.cfg.direction \in {"higher_better", "lower_better"}
         /\ IF r.derived THEN RateBreach(m, r.cfg, r.day) ELSE BaseBreach(m, r.cfg, r.day)
         => m \in AttentionView /\ ShownAs(m).group = "failure"

\* While runs publish and scopes change between the statements of a request:
\* a metric that had a verdict during the whole request is not shown as
\* unpublished.
ShownWithItsVerdict ==
  request.step = "shown" => \A m \in request.kept \cap request.items : ShownAs(m).found

\* If nothing was published during the request, the evidence of a base metric
\* holds every reading that its verdict counted.
EvidenceBacksVerdict ==
  /\ request.step = "shown" /\ request.about # Nil /\ request.since = published
  /\ request.about \notin DOMAIN Formula
  => LET r == request.results[request.about]
     IN r.count <= Cardinality(Dedup(OnDay(request.points[request.about], r.day)))

\* Two ways to one answer: the detail, computed from the database, has the
\* status that the rule computed from the files, if both configurations say
\* the same of the metric and the mirrored points are those of the run and of
\* its seven days.  For a rate only if the objects that have one of its parts
\* on the data day have both at some time: the day before, completed from an
\* earlier task, can make the first pair of an object, which the detail then
\* counts as one that cannot be judged.
DetailAgrees ==
  \A m \in DOMAIN health, upkeep \in Upkeeps :
    LET d     == health[m].day
        parts == {Formula[m][1], Formula[m][2]}
        pairs == Pairs(readings[Formula[m][1]], readings[Formula[m][2]], readings[m])
    IN /\ mirrored = index /\ health[m].cfg = upkeep.rule[m] /\ health[m].derived = (m \in upkeep.derived)
       /\ \A k \in Parts(m) : Window(mirrored[k], d) = readings[k]
       /\ health[m].derived => \A k \in parts : ObjectsOf(OnDay(readings[k], d)) \subseteq ObjectsOf(pairs)
       => Detail(m, upkeep).status = health[m].sum.status

\* What the workbench shows of a verdict is the verdict, with what backs it.
VerdictShown == ShownWithItsVerdict /\ EvidenceBacksVerdict /\ DetailAgrees

\* What the docs say: once the scope is frozen, later switches and settings do
\* not touch the results.  Here: when a run whose rule succeeded comes to
\* publish its verdicts over the scope, each metric was judged, and as frozen.
JudgedAsFrozen ==
  bench.step = "publish" /\ health # <<>> =>
    \A m \in DOMAIN frozen.items \ InternalKpis : m \in DOMAIN health /\ health[m].cfg = frozen.items[m]
=============================================================================
