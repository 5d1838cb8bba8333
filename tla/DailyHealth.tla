----------------------------- MODULE DailyHealth -----------------------------
(***************************************************************************)
(* The daily health of a KPI metric, as pure operators                     *)
(* (services/kpi_daily_health.py and the point windows of                  *)
(* services/kpi_daily_health_query.py): points are grouped by object, the  *)
(* data day and the day before are each folded into one value, the value   *)
(* is judged against thresholds and the change against a tolerance, and    *)
(* the worst group speaks for the metric.                                  *)
(*                                                                         *)
(* A point is [object, time, value, file]; object stands for the pair of   *)
(* object and period, time is in hours of UTC, a value is an integer in    *)
(* tenths or Nil when it cannot be read.                                   *)
(***************************************************************************)
EXTENDS Integers, FiniteSets, FiniteSetsExt, Functions

CONSTANT Nil   \* no value

\* The natural day in UTC+8, and the day in UTC.
Day(t)    == (t + 8) \div 24
OnDay(ps, d) == {p \in ps : Day(p.time) = d}

Readable(ps)  == {p \in ps : p.value # Nil}
ObjectsOf(ps) == {p.object : p \in ps}
OfObject(ps, o) == {p \in ps : p.object = o}
SumOf(ps)     == MapThenSumSet(LAMBDA p : p.value, ps)
Mean(ps)      == IF ps = {} THEN Nil ELSE SumOf(ps) \div Cardinality(ps)

\* Several readings of one object at one time count as one, their mean.
Dedup(points) ==
  {[object |-> k[1], time |-> k[2],
    value |-> Mean(Readable({p \in points : <<p.object, p.time>> = k}))] :
     k \in {<<p.object, p.time>> : p \in points}}

NoBucket == [value |-> Nil, valid |-> 0, denominator |-> Nil, status |-> "no_data"]

\* aggregate_daily_bucket for the points of one object on one day.
Folded(valid, aggregation) ==
  CASE aggregation = "latest" -> (CHOOSE p \in valid : \A q \in valid : q.time <= p.time).value
    [] aggregation = "sum"    -> SumOf(valid)
    [] aggregation = "max"    -> Max({p.value : p \in valid})
    [] aggregation = "min"    -> Min({p.value : p \in valid})
    [] aggregation = "mean"   -> Mean(valid)

Bucket(ps, aggregation) ==
  LET valid == Readable(ps)
  IN IF valid = {}
     THEN [NoBucket EXCEPT !.status = IF ps = {} THEN "no_data" ELSE "unreadable"]
     ELSE [NoBucket EXCEPT !.value = Folded(valid, aggregation), !.valid = Cardinality(valid), !.status = "ok"]

\* Numerator, denominator and reported rate of one object at one time.
Pairs(numerators, denominators, rates) ==
  LET both   == {x \in Readable(Dedup(numerators)) \X Readable(Dedup(denominators)) :
                   x[1].object = x[2].object /\ x[1].time = x[2].time}
      Raw(n) == LET told == {r \in Dedup(rates) : r.object = n.object /\ r.time = n.time}
                IN IF told = {} THEN Nil ELSE (CHOOSE r \in told : TRUE).value
  IN {[object |-> x[1].object, time |-> x[1].time, num |-> x[1].value, den |-> x[2].value, raw |-> Raw(x[1])] :
        x \in both}

NumSum(pairs) == MapThenSumSet(LAMBDA p : p.num, pairs)
DenSum(pairs) == MapThenSumSet(LAMBDA p : p.den, pairs)
Turned(rate, template) == IF template = "reverse_success_rate" THEN 1000 - rate ELSE rate

DerivedBucket(pairs, template) ==
  IF pairs = {} THEN NoBucket
  ELSE LET rated == [NoBucket EXCEPT !.valid = Cardinality(pairs), !.denominator = DenSum(pairs)]
       IN IF DenSum(pairs) = 0 THEN [rated EXCEPT !.status = "zero_denominator"]
          ELSE [rated EXCEPT !.status = "ok",
                  !.value = Turned((NumSum(pairs) * 1000) \div DenSum(pairs), template)]
-----------------------------------------------------------------------------
(* Judgement of one group                                                  *)

Reaches(value, threshold, cfg) ==
  /\ threshold # Nil
  /\ IF cfg.direction = "higher_better" THEN value <= threshold ELSE value >= threshold

\* judge_current_status: the status and its reason, the first rule that applies.
Judge(bucket, cfg, allZero) ==
  IF bucket.denominator = 0 THEN <<"not_applicable", "zero_denominator">>
  ELSE IF bucket.valid = 0
    THEN <<"unable_to_judge", IF bucket.status = "unreadable" THEN "data_unreadable" ELSE "no_current_data">>
  ELSE IF allZero /\ cfg.zero = "unknown" THEN <<"pending_config", "all_zero_unconfirmed">>
  ELSE IF allZero /\ cfg.zero = "business_not_triggered" THEN <<"not_applicable", "business_not_triggered">>
  ELSE IF cfg.direction \notin {"higher_better", "lower_better"} THEN <<"pending_config", "direction_missing">>
  ELSE IF cfg.warning = Nil /\ cfg.critical = Nil THEN <<"pending_config", "threshold_missing">>
  ELSE IF Reaches(bucket.value, cfg.critical, cfg) THEN <<"fail", "critical_threshold">>
  ELSE IF Reaches(bucket.value, cfg.warning, cfg) THEN <<"warn", "warning_threshold">>
  ELSE <<"normal", "threshold_satisfied">>

\* classify_daily_trend; the default tolerance is 0.2 points or 5 percent.
BeyondTolerance(now, before, cfg) ==
  LET delta == IF now >= before THEN now - before ELSE before - now
      size  == IF before >= 0 THEN before ELSE -before
  IN IF cfg.percent THEN delta > (IF cfg.change = Nil THEN 2 ELSE cfg.change)
     ELSE IF before = 0 THEN now # before
     ELSE delta * 1000 > (IF cfg.change = Nil THEN 50 ELSE cfg.change) * size

Trend(now, before, cfg) ==
  IF now = Nil \/ before = Nil \/ cfg.direction = Nil THEN "no_baseline"
  ELSE IF ~BeyondTolerance(now, before, cfg) THEN "stable"
  ELSE IF cfg.direction \notin {"higher_better", "lower_better"} THEN "observe"
  ELSE IF (now > before) = (cfg.direction = "higher_better") THEN "improved" ELSE "worsened"

\* _consistency_evidence: the reported rates, weighted by the denominators,
\* against the recomputed one; both sides are multiplied by the denominator.
Inconsistent(pairs, cfg) ==
  LET told     == {p \in pairs : p.raw # Nil /\ p.den > 0}
      reported == MapThenSumSet(LAMBDA p : p.raw * p.den, told)
      computed == IF cfg.template = "reverse_success_rate"
                  THEN 1000 * (DenSum(told) - NumSum(told)) ELSE 1000 * NumSum(told)
      allowed  == cfg.tolerance * DenSum(told)
  IN told # {} /\ (reported - computed > allowed \/ computed - reported > allowed)

Group(o, verdict, today, yesterday, cfg) ==
  [object |-> o, status |-> verdict[1], reason |-> verdict[2], today |-> today.value,
   yesterday |-> yesterday.value, valid |-> today.valid, trend |-> Trend(today.value, yesterday.value, cfg)]

BaseGroup(o, ps, cfg, d) ==
  LET today == Bucket(OnDay(ps, d), cfg.aggregation)
      zero  == \A p \in Readable(OnDay(ps, d)) : p.value = 0
  IN Group(o, Judge(today, cfg, zero), today, Bucket(OnDay(ps, d - 1), cfg.aggregation), cfg)

DerivedGroup(o, pairs, cfg, d) ==
  LET now     == OnDay(pairs, d)
      today   == DerivedBucket(now, cfg.template)
      verdict == Judge(today, cfg, \A p \in now : p.num = 0 /\ p.den = 0)
  IN Group(o, IF verdict[1] = "normal" /\ Inconsistent(now, cfg)
              THEN <<"pending_config", "consistency_exceeded">> ELSE verdict,
           today, DerivedBucket(OnDay(pairs, d - 1), cfg.template), cfg)

NoGroup(reason) ==
  [object |-> 0, status |-> "unable_to_judge", reason |-> reason, today |-> Nil,
   yesterday |-> Nil, valid |-> 0, trend |-> "no_baseline"]
-----------------------------------------------------------------------------
(* The metric                                                              *)

StatusPriority == <<"fail", "warn", "unable_to_judge", "pending_config", "not_applicable", "normal">>
TrendPriority  == <<"worsened", "improved", "observe", "no_baseline", "stable">>
Worst(priority, values) == priority[Min({i \in DOMAIN priority : priority[i] \in values})]

FirstOf(groups) == CHOOSE g \in groups : \A h \in groups : g.object <= h.object
FirstValue(groups, field) ==
  LET with == {g \in groups : g[field] # Nil}
  IN IF with = {} THEN Nil ELSE FirstOf(with)[field]

\* mutant: the reason is that of the first group, not of the one that decided
SummaryFirst(groups) ==
  [status |-> Worst(StatusPriority, {g.status : g \in groups}), reason |-> FirstOf(groups).reason,
   trend  |-> Worst(TrendPriority, {g.trend : g \in groups}),
   today  |-> FirstValue(groups, "today"), yesterday |-> FirstValue(groups, "yesterday"),
   valid  |-> MapThenSumSet(LAMBDA g : g.valid, groups), sourced |-> \E g \in groups : g.object # 0]

\* build_metric_daily_health and _metric_summary over the groups of a metric.
Summary(groups) ==
  LET status == Worst(StatusPriority, {g.status : g \in groups})
  IN [status |-> status, reason |-> FirstOf({g \in groups : g.status = status}).reason,
      trend  |-> Worst(TrendPriority, {g.trend : g \in groups}),
      today  |-> FirstValue(groups, "today"), yesterday |-> FirstValue(groups, "yesterday"),
      valid  |-> MapThenSumSet(LAMBDA g : g.valid, groups), sourced |-> \E g \in groups : g.object # 0]

BaseHealth(points, cfg, d) ==
  LET ps == Dedup(points)
  IN IF ps = {} THEN Summary({NoGroup("no_current_data")})
     ELSE Summary({BaseGroup(o, OfObject(ps, o), cfg, d) : o \in ObjectsOf(ps)})

DerivedHealth(numerators, denominators, rates, cfg, d) ==
  LET pairs == Pairs(numerators, denominators, rates)
  IN IF pairs = {} THEN Summary({NoGroup("dependency_missing")})
     ELSE Summary({DerivedGroup(o, OfObject(pairs, o), cfg, d) : o \in ObjectsOf(pairs)})
-----------------------------------------------------------------------------
(* The detail of a metric is computed again from stored points: the seven  *)
(* days up to the data day, and what an earlier task of the device knows   *)
(* of the day before for the objects that lack it.                         *)

Window(ps, d) == {p \in ps : Day(p.time) \in (d - 6)..d}

WithoutYesterday(ps, d) == ObjectsOf(OnDay(ps, d)) \ ObjectsOf(OnDay(ps, d - 1))

Known(earlier, objects, d) == {p \in OnDay(earlier, d - 1) : p.object \in objects}

\* The first earlier task that has something for every metric which lacks the
\* day before; earlier is a sequence of functions from metrics to points.
Completed(own, required, earlier, d) ==
  LET lacking  == {m \in required : WithoutYesterday(own[m], d) # {}}
      usable   == {i \in DOMAIN earlier :
                     \A m \in lacking : Known(earlier[i][m], WithoutYesterday(own[m], d), d) # {}}
  IN IF lacking = {} \/ usable = {} THEN own
     ELSE [m \in DOMAIN own |->
             IF m \in lacking
             THEN own[m] \cup Known(earlier[Min(usable)][m], WithoutYesterday(own[m], d), d)
             ELSE own[m]]
=============================================================================
