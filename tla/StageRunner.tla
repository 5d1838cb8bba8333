----------------------------- MODULE StageRunner -----------------------------
(***************************************************************************)
(* The execution of the rules of one task (Executor.run_all and            *)
(* run_rule_with_deps of app/services/executor.py over the StageRunner of  *)
(* app/services/parallel.py and execute_unit of unit_runtime.py).          *)
(*                                                                         *)
(* A run has two stages: the private prepares of the rules, then the rules *)
(* themselves.  The parent process plans a stage, hands its units to a     *)
(* process pool through a bounded window or runs them itself, and then     *)
(* flushes the outcomes in plan order.  A unit that kills its process      *)
(* breaks the pool and takes the units in flight with it; these and the    *)
(* units not yet submitted are run again one by one in a fresh pool of one *)
(* process.  What a prepare wrote, and its cache marker, outlive the run.  *)
(* They lie in one directory, which is removed entry by entry before the   *)
(* prepare runs again: a removal that is cut off, or that meets a file it  *)
(* cannot remove, may take data and leave the marker.                      *)
(***************************************************************************)
EXTENDS Naturals, FiniteSets

CONSTANTS
  N,           \* number of rules; a rule is its position in the plan
  Prepared,    \* the rules that declare a prepare
  Matching,    \* what the source patterns of each rule may find
  Natures,     \* the ways each unit may behave, by stage
  Versions,    \* digests of the rule files
  NoMarker,    \* no .prepare.sha256
  Resisting,   \* the rules whose directory may hold what cannot be removed
  MaxWorkers, MinUnits,
  MaxRuns      \* bound on the number of runs

Rules == 1 .. N

Stages == {"prepare", "inspect"}

\* a unit returns; raises, which is caught; returns what cannot be sent
\* between processes; ends its process now and then, or always
AllNatures == {"good", "raises", "unsendable", "flaky", "kills"}

\* the patterns of a rule find files, find none, or are rejected
Finds == {"some", "none", "bad"}

ASSUME RunnerAssumption ==
  /\ N \in Nat
  /\ Prepared \subseteq Rules
  /\ Matching \in [Rules -> SUBSET Finds]
  /\ Natures \in [Stages -> [Rules -> SUBSET AllNatures]]
  /\ NoMarker \notin Versions
  /\ Resisting \subseteq Rules
  /\ MaxWorkers \in Nat \ {0}
  /\ MinUnits \in Nat
  /\ MaxRuns \in Nat

VARIABLES
  pc,          \* where the parent process is
  stage,       \* "prepare" or "inspect"
  scope,       \* the rules of this run
  single,      \* a single-rule run: never parallel
  force,       \* force_prepare_rebuild
  version,     \* the digest of the rule files now
  \* prepared/<rule>/
  data, marker,
  torn,        \* history: the rules whose marker outlived the last removal
               \* of their directory, and was not written anew since
  \* prepare_states and the results of the run
  state, result,
  \* the stage
  pending, queue, flight, future, window, measured, degraded, flushed, runs,
  \* the runner and its pool
  broken, pool,
  nature,      \* how each unit behaves, by stage
  match,       \* what the patterns of each rule find
  budget       \* runs begun

planning == <<scope, single, force>>
cache    == <<data, marker, torn>>
answers  == <<state, result>>
batch    == <<pending, queue, flight, future, window, measured, degraded, flushed, runs>>
runner   == <<broken, pool>>
world    == <<version, nature, match, budget>>
vars     == <<pc, stage, planning, cache, answers, batch, runner, world>>

-----------------------------------------------------------------------------
Data    == [made : {"nothing", "part", "whole"}, by : Versions \cup {NoMarker}]
Empty   == [made |-> "nothing", by |-> NoMarker]
Part    == [made |-> "part", by |-> version]
Whole   == [made |-> "whole", by |-> version]
Pc      == {"idle", "extract", "plan", "start", "submit", "wait", "drain",
            "recover", "serial", "flush"}
States  == {"none", "HIT", "SKIP", "FAILED", "REBUILT"}
Outcome == {"none", "ok", "raised", "crashed"}
Futures == {"none", "waiting", "running", "ok", "raised", "lost"}

Behaviours ==
  {f \in [Stages -> [Rules -> AllNatures]] :
     \A s \in Stages, r \in Rules : f[s][r] \in Natures[s][r]}
Matches == {f \in [Rules -> Finds] : \A r \in Rules : f[r] \in Matching[r]}

TypeOK ==
  /\ pc \in Pc
  /\ stage \in Stages
  /\ scope \subseteq Rules
  /\ single \in BOOLEAN /\ force \in BOOLEAN
  /\ version \in Versions
  /\ data \in [Rules -> Data]
  /\ marker \in [Rules -> Versions \cup {NoMarker}]
  /\ torn \subseteq Rules
  /\ state \in [Rules -> States]
  /\ result \in [Rules -> {"none", "ok", "error", "skip"}]
  /\ pending \subseteq scope
  /\ queue \subseteq pending
  /\ flight \subseteq pending
  /\ future \in [Rules -> Futures]
  /\ window \in Nat
  /\ measured \in [Rules -> Outcome]
  /\ degraded \in BOOLEAN /\ broken \in BOOLEAN
  /\ flushed \in 0 .. N
  /\ runs \in [Rules -> Nat]
  /\ pool \in {"none", "alive", "broken"}
  /\ nature \in Behaviours /\ match \in Matches
  /\ budget \in 0 .. MaxRuns

Init ==
  /\ pc = "idle" /\ stage = "prepare"
  /\ scope = {} /\ single = FALSE /\ force = FALSE
  /\ version \in Versions
  /\ data = [r \in Rules |-> Empty]
  /\ marker = [r \in Rules |-> NoMarker]
  /\ torn = {}
  /\ state = [r \in Rules |-> "none"]
  /\ result = [r \in Rules |-> "none"]
  /\ pending = {} /\ queue = {} /\ flight = {}
  /\ future = [r \in Rules |-> "none"]
  /\ window = 0
  /\ measured = [r \in Rules |-> "none"]
  /\ degraded = FALSE /\ broken = FALSE /\ flushed = 0
  /\ runs = [r \in Rules |-> 0]
  /\ pool = "none"
  /\ nature \in Behaviours /\ match \in Matches
  /\ budget = 0

\* mutant: the queue of the last stage is kept
QueueKept ==
  /\ flight' = {} /\ window' = 0 /\ degraded' = FALSE /\ flushed' = 0
  /\ future' = [r \in Rules |-> "none"]
  /\ measured' = [r \in Rules |-> "none"]
  /\ runs' = [r \in Rules |-> 0]
  /\ UNCHANGED queue
EmptyBatch ==
  /\ queue' = {} /\ flight' = {} /\ window' = 0 /\ degraded' = FALSE /\ flushed' = 0
  /\ future' = [r \in Rules |-> "none"]
  /\ measured' = [r \in Rules |-> "none"]
  /\ runs' = [r \in Rules |-> 0]

-----------------------------------------------------------------------------
(* A run begins: all rules of the task, or a single rule.                  *)

BeginRun(rules, one, rebuild) ==
  /\ pc = "idle"
  /\ budget < MaxRuns
  /\ budget' = budget + 1
  /\ pc' = "extract"
  /\ stage' = "prepare"
  /\ scope' = rules /\ single' = one /\ force' = rebuild
  /\ state' = [r \in Rules |-> "none"]
  /\ result' = [r \in Rules |-> "none"]
  /\ pending' = {}
  /\ EmptyBatch
  /\ broken' = FALSE /\ pool' = "none"
  /\ UNCHANGED <<cache, version, nature, match>>

RunAll == BeginRun(Rules, FALSE, FALSE)
RunRule == \E r \in Rules, rebuild \in BOOLEAN : BeginRun({r}, TRUE, rebuild)

\* a new release of the rule files between two runs
Upgrade ==
  /\ pc = "idle"
  /\ \E v \in Versions \ {version} : version' = v
  /\ UNCHANGED <<pc, stage, planning, cache, answers, batch, runner, nature, match, budget>>

\* the parent process ends, and with it every worker
Stop == pc' = "idle" /\ pending' = {} /\ EmptyBatch /\ broken' = FALSE /\ pool' = "none"

\* a failed extraction blocks both stages
Extract ==
  /\ pc = "extract"
  /\ \/ pc' = "plan" /\ UNCHANGED <<batch, runner>>
     \/ Stop
  /\ UNCHANGED <<stage, planning, cache, answers, world>>

-----------------------------------------------------------------------------
(* Planning.                                                               *)

\* the marker of the current rule file: what was prepared is used again
Hit(r) == ~force /\ marker[r] = version

\* mutant: the owner's directory and its marker are kept
ClearedKept(gone, left) == UNCHANGED cache
\* The directories of the rules in gone are removed, markers included; of
\* those in left some entries stay: data, the marker, or both.
Cleared(gone, left) ==
  \E spoilt \in SUBSET left, kept \in SUBSET left :
    /\ data' = [r \in Rules |->
         IF r \in gone THEN Empty
         ELSE IF r \in spoilt /\ data[r].made = "whole" THEN [data[r] EXCEPT !.made = "part"]
         ELSE data[r]]
    /\ marker' = [r \in Rules |-> IF r \in gone \cup (left \ kept) THEN NoMarker ELSE marker[r]]
    /\ torn' = (torn \ (gone \cup left)) \cup {r \in kept : marker[r] # NoMarker}

Owners  == scope \cap Prepared
Found   == {r \in Owners : match[r] = "some"}
Rebuild == {r \in Found : ~Hit(r)}

\* a file that cannot be removed is passed over
PlanPrepare ==
  /\ pc = "plan" /\ stage = "prepare"
  /\ pc' = "start"
  /\ state' = [r \in Rules |->
       IF r \in Found \ Rebuild THEN "HIT"
       ELSE IF r \in Owners /\ match[r] = "none" THEN "SKIP"
       ELSE IF r \in Owners /\ match[r] = "bad" THEN "FAILED"
       ELSE "none"]
  /\ \E left \in SUBSET (Rebuild \cap Resisting) : Cleared(Rebuild \ left, left)
  /\ pending' = Rebuild
  /\ EmptyBatch
  /\ UNCHANGED <<stage, planning, result, runner, world>>

\* the process ends, or a directory cannot be made, while the prepares are
\* planned in turn: those before r are removed, r perhaps begun
RemovalCut ==
  /\ pc = "plan" /\ stage = "prepare"
  /\ \E r \in Rebuild :
       LET before == {i \in Rebuild : i < r}
       IN  \E left \in SUBSET ((before \cap Resisting) \cup {r}) : Cleared(before \ left, left)
  /\ Stop
  /\ UNCHANGED <<stage, planning, answers, world>>

\* mutant: a failed prepare does not stop its rule
NotReadyIgnored(r) == state[r] = "SKIP"
NotReady(r) == state[r] \in {"SKIP", "FAILED"}

PlanInspect ==
  LET skipped == {r \in scope : NotReady(r) \/ match[r] = "none"}
      wrong   == {r \in scope \ skipped : match[r] = "bad"}
  IN  /\ pc = "plan" /\ stage = "inspect"
      /\ pc' = "start"
      /\ result' = [r \in Rules |-> IF r \in skipped THEN "skip"
                                    ELSE IF r \in wrong THEN "error" ELSE "none"]
      /\ pending' = scope \ (skipped \cup wrong)
      /\ EmptyBatch
      /\ UNCHANGED <<stage, planning, cache, state, runner, world>>

\* ParallelPolicy.decide; whether the matched files are large enough is left
\* open, and a broken pool is never used again
StartStage ==
  /\ pc = "start"
  /\ \/ /\ pending # {} /\ Cardinality(pending) >= MinUnits
        /\ ~single /\ ~broken
        /\ pc' = "submit"
        /\ queue' = pending
        /\ window' = IF Cardinality(pending) < MaxWorkers THEN Cardinality(pending)
                     ELSE MaxWorkers
        /\ pool' = IF pool = "none" THEN "alive" ELSE pool
     \/ /\ pc' = "serial"
        /\ queue' = pending
        /\ UNCHANGED <<window, pool>>
  /\ UNCHANGED <<stage, planning, cache, answers, pending, flight, future, measured,
                 degraded, flushed, runs, broken, world>>

-----------------------------------------------------------------------------
(* Executing a unit, in a worker process or in the parent.                 *)

Nature(r) == nature[stage][r]
Running == {r \in Rules : future[r] = "running"}

\* the process begins the unit; a prepare begins to write its directory
Starts(r) ==
  /\ future' = [future EXCEPT ![r] = "running"]
  /\ runs' = [runs EXCEPT ![r] = @ + 1]
  /\ data' = IF stage = "prepare" THEN [data EXCEPT ![r] = Part] ELSE data

\* a prepare that returned has written everything
Written(r) == IF stage = "prepare" THEN [data EXCEPT ![r] = Whole] ELSE data

Dies(r) == Nature(r) \in {"flaky", "kills"}

\* what an execution that does not end its process answers
Answer(r) == IF Nature(r) = "raises" THEN "raised" ELSE "ok"
Returns(r) == Nature(r) # "kills"

UnitStarts(r) ==
  /\ pc \in {"submit", "wait", "drain"} /\ pool = "alive"
  /\ future[r] = "waiting"
  /\ Starts(r)
  /\ UNCHANGED <<pc, stage, planning, marker, torn, answers, pending, queue, flight, window,
                 measured, degraded, flushed, runner, world>>

\* the answer comes back, unless it cannot be sent
UnitReturns(r) ==
  /\ pc \in {"submit", "wait", "drain"}
  /\ future[r] = "running" /\ Returns(r)
  /\ future' = [future EXCEPT ![r] = IF Nature(r) = "unsendable" THEN "lost" ELSE Answer(r)]
  /\ data' = IF Answer(r) = "ok" THEN Written(r) ELSE data
  /\ UNCHANGED <<pc, stage, planning, marker, torn, answers, pending, queue, flight, window,
                 measured, degraded, flushed, runs, runner, world>>

\* the process dies: the pool is broken, its other processes are ended and
\* every unit it still had is lost
UnitDies(r) ==
  /\ pc \in {"submit", "wait", "drain"}
  /\ future[r] = "running" /\ Dies(r)
  /\ pool' = "broken"
  /\ future' = [i \in Rules |-> IF future[i] \in {"waiting", "running"} THEN "lost"
                                ELSE future[i]]
  /\ UNCHANGED <<pc, stage, planning, cache, answers, pending, queue, flight, window,
                 measured, degraded, flushed, runs, broken, world>>

-----------------------------------------------------------------------------
(* _run_parallel: the parent keeps at most a window of units in flight.    *)

First(s, r) == r \in s /\ \A i \in s : r <= i
Room == queue # {} /\ Cardinality(flight) < window /\ ~broken

Submit ==
  /\ pc = "submit" /\ Room /\ pool = "alive"
  /\ \E r \in Rules :
       /\ First(queue, r)
       /\ queue' = queue \ {r}
       /\ flight' = flight \cup {r}
       /\ future' = [future EXCEPT ![r] = "waiting"]
  /\ UNCHANGED <<pc, stage, planning, cache, answers, pending, window, measured, degraded,
                 flushed, runs, runner, world>>

\* mutant: the refusal is not remembered
SubmitRefusedUnnoticed ==
  /\ pc = "submit" /\ Room /\ pool = "broken"
  /\ degraded' = TRUE
  /\ UNCHANGED <<pc, stage, planning, cache, answers, pending, queue, flight, future, window,
                 measured, flushed, runs, runner, world>>

\* the pool broke before the parent heard of it: the unit stays in the queue
SubmitRefused ==
  /\ pc = "submit" /\ Room /\ pool = "broken"
  /\ broken' = TRUE /\ degraded' = TRUE
  /\ UNCHANGED <<pc, stage, planning, cache, answers, pending, queue, flight, future, window,
                 measured, flushed, runs, pool, world>>

SubmitEnd ==
  /\ pc = "submit" /\ ~Room
  /\ pc' = IF flight # {} THEN "wait" ELSE IF degraded THEN "recover" ELSE "flush"
  /\ UNCHANGED <<stage, planning, cache, answers, batch, runner, world>>

Settled(r) == future[r] \in {"ok", "raised", "lost"}
\* mutant: a unit lost with the pool is recorded as crashed
MeasureLost(s) ==
  [r \in Rules |-> IF r \in s THEN IF future[r] = "lost" THEN "crashed" ELSE future[r]
                   ELSE measured[r]]
Measure(s) == [r \in Rules |-> IF r \in s /\ future[r] # "lost" THEN future[r] ELSE measured[r]]

\* wait(FIRST_COMPLETED): everything that has ended by now is settled
Wait ==
  LET done == {r \in flight : Settled(r)}
      lost == \E r \in done : future[r] = "lost"
  IN  /\ pc = "wait" /\ done # {}
      /\ flight' = flight \ done
      /\ measured' = Measure(done)
      /\ broken' = (broken \/ lost) /\ degraded' = (degraded \/ lost)
      /\ pc' = IF broken' THEN "drain" ELSE "submit"
      /\ UNCHANGED <<stage, planning, cache, answers, pending, queue, future, window,
                     flushed, runs, pool, world>>

\* a broken runner waits for the rest of the window and submits no more
Drain ==
  /\ pc = "drain" /\ \A r \in flight : Settled(r)
  /\ flight' = {}
  /\ measured' = Measure(flight)
  /\ pc' = "recover"
  /\ UNCHANGED <<stage, planning, cache, answers, pending, queue, future, window, degraded,
                 flushed, runs, runner, world>>

\* mutant: units whose answer was lost are not run again
UnmeasuredInQueue == {r \in queue : measured[r] = "none"}
\* mutant: the whole stage is run again
UnmeasuredAll == {r \in pending : measured[r] = "none" \/ runs[r] = 1}
\* the units without an answer: those lost with the pool, then the queue
Unmeasured == {r \in pending : measured[r] = "none"}

-----------------------------------------------------------------------------
(* _recover_units: one unit at a time in a pool of one process, which is   *)
(* replaced when a unit breaks it.                                         *)

RecoverStart ==
  /\ pc = "recover" /\ Running = {}
  /\ \E r \in Unmeasured : Starts(r)
  /\ UNCHANGED <<pc, stage, planning, marker, torn, answers, pending, queue, flight, window,
                 measured, degraded, flushed, runner, world>>

\* a unit that dies or cannot answer is recorded as crashed, for good
Crashed(r) == measured' = [measured EXCEPT ![r] = "crashed"]

RecoverReturns(r) ==
  /\ pc = "recover" /\ r \in Running /\ Returns(r) /\ Nature(r) # "unsendable"
  /\ measured' = [measured EXCEPT ![r] = Answer(r)]
  /\ future' = [future EXCEPT ![r] = Answer(r)]
  /\ data' = IF Answer(r) = "ok" THEN Written(r) ELSE data
  /\ UNCHANGED <<pc, stage, planning, marker, torn, answers, pending, queue, flight, window,
                 degraded, flushed, runs, runner, world>>

RecoverFails(r) ==
  /\ pc = "recover" /\ r \in Running
  /\ \/ Dies(r) /\ UNCHANGED data
     \/ Nature(r) = "unsendable" /\ data' = Written(r)
  /\ Crashed(r)
  /\ future' = [future EXCEPT ![r] = "lost"]
  /\ UNCHANGED <<pc, stage, planning, marker, torn, answers, pending, queue, flight, window,
                 degraded, flushed, runs, runner, world>>

RecoverEnd ==
  /\ pc = "recover" /\ Running = {} /\ Unmeasured = {}
  /\ pc' = "flush"
  /\ UNCHANGED <<stage, planning, cache, answers, batch, runner, world>>

-----------------------------------------------------------------------------
(* The serial path: the parent runs the units itself, in plan order.       *)

SerialStart ==
  /\ pc = "serial" /\ Running = {} /\ queue # {}
  /\ \E r \in Rules : First(queue, r) /\ Starts(r) /\ queue' = queue \ {r}
  /\ UNCHANGED <<pc, stage, planning, marker, torn, answers, pending, flight, window, measured,
                 degraded, flushed, runner, world>>

SerialReturns(r) ==
  /\ pc = "serial" /\ r \in Running /\ Returns(r)
  /\ measured' = [measured EXCEPT ![r] = Answer(r)]
  /\ future' = [future EXCEPT ![r] = Answer(r)]
  /\ data' = IF Answer(r) = "ok" THEN Written(r) ELSE data
  /\ UNCHANGED <<pc, stage, planning, marker, torn, answers, pending, queue, flight, window,
                 degraded, flushed, runs, runner, world>>

\* a unit that ends its process ends the parent here
SerialDies(r) ==
  /\ pc = "serial" /\ r \in Running /\ Dies(r)
  /\ Stop
  /\ UNCHANGED <<stage, planning, cache, answers, world>>

SerialEnd ==
  /\ pc = "serial" /\ Running = {} /\ queue = {}
  /\ pc' = "flush"
  /\ UNCHANGED <<stage, planning, cache, answers, batch, runner, world>>

-----------------------------------------------------------------------------
(* Flushing in plan order.                                                 *)

Next1 == flushed + 1

\* _finish_prepare
Marked(r) ==
  IF measured[r] = "ok"
  THEN marker' = [marker EXCEPT ![r] = version] /\ torn' = torn \ {r}
  ELSE UNCHANGED <<marker, torn>>

FlushPrepare ==
  /\ pc = "flush" /\ stage = "prepare" /\ flushed < N
  /\ flushed' = Next1
  /\ IF measured[Next1] # "none"
     THEN /\ Marked(Next1)
          /\ state' = [state EXCEPT ![Next1] =
                         IF measured[Next1] = "ok" THEN "REBUILT" ELSE "FAILED"]
     ELSE UNCHANGED <<marker, torn, state>>
  /\ UNCHANGED <<pc, stage, planning, data, result, pending, queue, flight, future, window,
                 measured, degraded, runs, runner, world>>

FlushInspect ==
  /\ pc = "flush" /\ stage = "inspect" /\ flushed < N
  /\ flushed' = Next1
  /\ result' = IF Next1 \in pending
               THEN [result EXCEPT ![Next1] = IF measured[Next1] = "ok" THEN "ok" ELSE "error"]
               ELSE result
  /\ UNCHANGED <<pc, stage, planning, cache, state, pending, queue, flight, future, window,
                 measured, degraded, runs, runner, world>>

\* after the prepares the rules are planned, after the rules the run ends
\* and the pool is closed
StageEnd ==
  /\ pc = "flush" /\ flushed = N
  /\ IF stage = "prepare"
     THEN pc' = "plan" /\ stage' = "inspect" /\ pending' = {} /\ EmptyBatch /\ UNCHANGED runner
     ELSE Stop /\ UNCHANGED stage
  /\ UNCHANGED <<planning, cache, answers, world>>

\* the parent process is stopped from outside
Crash ==
  /\ pc # "idle"
  /\ Stop
  /\ UNCHANGED <<stage, planning, cache, answers, world>>

-----------------------------------------------------------------------------
Parent ==
  \/ Extract \/ PlanPrepare \/ PlanInspect \/ StartStage
  \/ Submit \/ SubmitRefused \/ SubmitEnd \/ Wait \/ Drain
  \/ RecoverStart \/ RecoverEnd
  \/ SerialStart \/ SerialEnd
  \/ FlushPrepare \/ FlushInspect \/ StageEnd

Unit(r) ==
  \/ UnitStarts(r) \/ UnitReturns(r) \/ UnitDies(r)
  \/ RecoverReturns(r) \/ RecoverFails(r)
  \/ SerialReturns(r) \/ SerialDies(r)

Next == RunAll \/ RunRule \/ Upgrade \/ Crash \/ RemovalCut \/ Parent \/ \E r \in Rules : Unit(r)

Spec == Init /\ [][Next]_vars

\* the parent goes on and every unit comes to an end
FairSpec == Spec /\ WF_vars(Parent) /\ \A r \in Rules : WF_vars(Unit(r))

-----------------------------------------------------------------------------
(* Properties.                                                             *)

\* the answers a unit of this stage may get, as far as its own behaviour goes
Possible(r) ==
  CASE Nature(r) = "good"       -> {"ok"}
    [] Nature(r) = "raises"     -> {"raised"}
    [] Nature(r) = "unsendable" -> {"ok", "crashed"}
    [] Nature(r) = "flaky"      -> {"ok", "crashed"}
    [] Nature(r) = "kills"      -> {"crashed"}

Settlement ==
  INSTANCE UnitSettlement WITH
    Units <- Rules, Answers <- {"ok", "raised", "crashed"}, NoAnswer <- "none",
    asked <- pending, may <- [r \in Rules |-> Possible(r)], answer <- measured

\* The runner settles every unit at most once and never answers for a unit
\* what only another unit's crash explains (run_stage and _recover_units).
SettlesEachUnit == Settlement!Spec

Begins(r) == future[r] # "running" /\ future'[r] = "running"

\* A unit is executed again only when its first execution was lost, and then
\* once (_run_parallel, _recover_units: no retries).
RunsAgainOnlyLost ==
  [][\A r \in Rules : Begins(r) =>
       /\ measured[r] = "none"
       /\ runs[r] > 0 => degraded /\ runs[r] = 1 /\ future[r] = "lost"]_vars

\* The marker of a prepare stands for data written completely by the rule
\* file it names, unless it outlived the last removal of its directory: no
\* prepare that dies, raises or is flushed late, no crash between writing and
\* marking and no new rule file separates them (_plan_prepare, _finish_prepare).
MarkerSound ==
  \A r \in Rules \ torn :
    marker[r] # NoMarker => data[r] = [made |-> "whole", by |-> marker[r]]

\* Without the exemption it is false: a forced rebuild that is cut off after
\* it removed data, and before it removed the marker, leaves a marker that the
\* next run takes for a hit (executor.py:201, 219).
MarkerAlwaysSound ==
  \A r \in Rules : marker[r] # NoMarker => data[r] = [made |-> "whole", by |-> marker[r]]

\* A rule with a prepare only ever runs on data its current prepare wrote
\* completely, be it in this run or in an earlier one, unless the run took a
\* marker for a hit that outlived the last removal of its directory.
InspectsReadWhole ==
  \A r \in Prepared \ torn : stage = "inspect" /\ future[r] = "running" => data[r] = Whole

Behaves(r, s) == nature[s][r] = "good"
RunOver == pc = "flush" /\ stage = "inspect" /\ flushed = N

\* A rule whose prepare and check behave gets its own result at the end of
\* the run, whichever other units raise, vanish or break the pool.
InnocentUnaffected ==
  RunOver => \A r \in scope :
    match[r] = "some" /\ Behaves(r, "inspect") /\ (r \in Prepared => Behaves(r, "prepare"))
      => result[r] = "ok"

\* A prepare that is run finds its directory empty.
PrepareStartsClean ==
  [][\A r \in Rules : stage = "prepare" /\ Begins(r) => data[r] = Empty]_vars

\* Every run comes to an end, with its results or with its process.
EveryRunEnds == pc # "idle" ~> pc = "idle"
=============================================================================
