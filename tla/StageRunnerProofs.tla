------------------------- MODULE StageRunnerProofs -------------------------
(***************************************************************************)
(* Proofs about StageRunner, for any number of rules, versions, workers    *)
(* and runs, and any behaviour of the units.                               *)
(*                                                                         *)
(* StageTypes: TypeOK is inductive.                                        *)
(* MarkersSound: MarkerSound says nothing of the prepares that are being   *)
(* run.  MarkerInv adds that those have no marker and that an answer       *)
(* stands for complete data, StageInv that the pool holds only units of    *)
(* the stage that have no answer.                                          *)
(* ReadsAreWhole: Settling says that no unit is forgotten, so that every   *)
(* prepare is answered when the stage ends; ReadInv that a prepare that is *)
(* ready has the marker of the current rule file and that only rules with  *)
(* a ready prepare are run.  MarkersSound gives the data.                  *)
(* SettlesUnits: StageRunner implements UnitSettlement.  AnswerInv says    *)
(* that what was measured, or waits in the pool, is an answer the unit     *)
(* itself may give.                                                        *)
(* AgainOnlyLost: RunsInv counts the executions of the units without an    *)
(* answer: none before their first, one once they are lost.                *)
(* InnocentsUnaffected: InnocentInv says that a rule that behaves is never *)
(* put aside and is flushed with its own result; AnswerInv that "ok" is    *)
(* the only answer such a rule can have.                                   *)
(***************************************************************************)
EXTENDS StageRunner, FiniteSetTheorems, TLAPS

\* The bounds are numbers.
LEMMA BoundTypes == 0 \in 0 .. N /\ MaxWorkers \in Nat /\ 0 \in 0 .. MaxRuns
  BY RunnerAssumption

\* The types of what the actions write.
LEMMA DataTypes ==
  ASSUME TypeOK
  PROVE  /\ Empty \in Data /\ Part \in Data /\ Whole \in Data
         /\ \A r \in Rules : Answer(r) \in {"ok", "raised"}
         /\ \A r \in Rules : Written(r) \in [Rules -> Data]
<1>1. Empty \in Data /\ Part \in Data /\ Whole \in Data
  BY DEF Empty, Part, Whole, Data, TypeOK
<1> QED
  BY <1>1 DEF Answer, Written, TypeOK

\* The units of a stage can be counted.
LEMMA PendingFinite ==
  ASSUME TypeOK
  PROVE  IsFiniteSet(pending) /\ Cardinality(pending) \in Nat
<1>1. IsFiniteSet(Rules)
  BY RunnerAssumption, FS_Interval DEF Rules
<1>2. pending \subseteq Rules
  BY DEF TypeOK
<1> QED
  BY <1>1, <1>2, FS_Subset, FS_CardinalityType

\* A fresh stage has the types of a stage.
LEMMA EmptyBatchType ==
  ASSUME EmptyBatch
  PROVE  /\ queue' = {} /\ flight' = {}
         /\ future' \in [Rules -> Futures]
         /\ window' \in Nat
         /\ measured' \in [Rules -> Outcome]
         /\ degraded' \in BOOLEAN
         /\ flushed' \in 0 .. N
         /\ runs' \in [Rules -> Nat]
  BY BoundTypes DEF EmptyBatch, Futures, Outcome

\* What is collected of units that have ended is an outcome.
LEMMA MeasureType ==
  ASSUME TypeOK, NEW s, \A r \in s : Settled(r)
  PROVE  Measure(s) \in [Rules -> Outcome]
  BY DEF Measure, Settled, TypeOK, Outcome

\* What is planned to be prepared is in the run.
LEMMA RebuildInScope ==
  /\ Rebuild \subseteq scope /\ Rebuild \subseteq Prepared
  /\ TypeOK => Rebuild \subseteq Rules
  BY DEF Rebuild, Found, Owners, TypeOK

\* A removal preserves the types.
LEMMA ClearedType ==
  ASSUME TypeOK, NEW gone, NEW left \in SUBSET Rules, Cleared(gone, left)
  PROVE  /\ data' \in [Rules -> Data] /\ torn' \subseteq Rules
         /\ marker' \in [Rules -> Versions \cup {NoMarker}]
<1>1. PICK spoilt \in SUBSET left, kept \in SUBSET left :
        /\ data' = [r \in Rules |->
             IF r \in gone THEN Empty
             ELSE IF r \in spoilt /\ data[r].made = "whole" THEN [data[r] EXCEPT !.made = "part"]
             ELSE data[r]]
        /\ marker' = [r \in Rules |-> IF r \in gone \cup (left \ kept) THEN NoMarker ELSE marker[r]]
        /\ torn' = (torn \ (gone \cup left)) \cup {r \in kept : marker[r] # NoMarker}
  BY DEF Cleared
<1>2. Empty \in Data /\ \A r \in Rules : data[r] \in Data
  BY DataTypes DEF TypeOK
<1>3. \A d \in Data : [d EXCEPT !.made = "part"] \in Data
  BY DEF Data
<1> QED
  BY <1>1, <1>2, <1>3 DEF TypeOK

\* A removal that is cut off removes some directories and leaves some.
LEMMA CutClears ==
  ASSUME TypeOK, RemovalCut
  PROVE  \E gone, left \in SUBSET Rules : Cleared(gone, left)
<1>1. PICK r \in Rebuild :
        \E left \in SUBSET (({i \in Rebuild : i < r} \cap Resisting) \cup {r}) :
          Cleared({i \in Rebuild : i < r} \ left, left)
  BY DEF RemovalCut
<1>2. Rebuild \subseteq Rules
  BY RebuildInScope
<1> QED
  BY <1>1, <1>2

\* So does the planning of the prepares.
LEMMA PlanClears ==
  ASSUME TypeOK, PlanPrepare
  PROVE  \E left \in SUBSET Rules : left \subseteq Rebuild /\ Cleared(Rebuild \ left, left)
<1>1. PICK left \in SUBSET (Rebuild \cap Resisting) : Cleared(Rebuild \ left, left)
  BY DEF PlanPrepare
<1> QED
  BY <1>1, RebuildInScope

\* Beginning a run, a new release and the end of the process preserve the types.
LEMMA RunType == TypeOK /\ (RunAll \/ RunRule \/ Upgrade \/ Crash \/ RemovalCut \/ Extract) => TypeOK'
<1> SUFFICES ASSUME TypeOK, RunAll \/ RunRule \/ Upgrade \/ Crash \/ RemovalCut \/ Extract
             PROVE  TypeOK'
  OBVIOUS
<1> USE DEF planning, cache, answers, batch, runner, world
<1>1. ASSUME NEW rules \in SUBSET Rules, NEW one \in BOOLEAN, NEW rebuild \in BOOLEAN,
             BeginRun(rules, one, rebuild)
      PROVE  TypeOK'
  <2>1. budget' \in 0 .. MaxRuns
    BY <1>1, RunnerAssumption DEF BeginRun, TypeOK
  <2> QED
    BY <1>1, <2>1, EmptyBatchType DEF TypeOK, BeginRun, Pc, Stages, States
<1>2. CASE RunAll \/ RunRule
  BY <1>1, <1>2 DEF RunAll, RunRule
<1>3. CASE Upgrade
  BY <1>3 DEF Upgrade, TypeOK
<1>4. ASSUME Stop, UNCHANGED <<stage, planning, cache, answers, world>> PROVE TypeOK'
  BY <1>4, EmptyBatchType DEF Stop, TypeOK, Pc
<1>5. CASE Crash
  BY <1>4, <1>5 DEF Crash
<1>6. CASE Extract
  BY <1>4, <1>6 DEF Extract, TypeOK, Pc
<1>7. CASE RemovalCut
  <2>1. /\ data' \in [Rules -> Data] /\ torn' \subseteq Rules
        /\ marker' \in [Rules -> Versions \cup {NoMarker}]
    BY <1>7, CutClears, ClearedType
  <2>2. Stop /\ UNCHANGED <<stage, planning, answers, world>>
    BY <1>7 DEF RemovalCut
  <2> QED
    BY <2>1, <2>2, EmptyBatchType DEF Stop, TypeOK, Pc
<1> QED
  BY <1>2, <1>3, <1>5, <1>6, <1>7

\* Planning and the choice between pool and parent preserve the types.
LEMMA PlanType == TypeOK /\ (PlanPrepare \/ PlanInspect \/ StartStage) => TypeOK'
<1> SUFFICES ASSUME TypeOK, PlanPrepare \/ PlanInspect \/ StartStage PROVE TypeOK'
  OBVIOUS
<1> USE DEF planning, cache, answers, batch, runner, world
<1>1. CASE PlanPrepare
  <2>1. /\ data' \in [Rules -> Data] /\ torn' \subseteq Rules
        /\ marker' \in [Rules -> Versions \cup {NoMarker}]
    BY <1>1, PlanClears, ClearedType
  <2>2. /\ pc' = "start" /\ pending' = Rebuild /\ EmptyBatch
        /\ state' \in [Rules -> States]
        /\ UNCHANGED <<stage, planning, result, runner, world>>
    BY <1>1 DEF PlanPrepare, States
  <2> QED
    BY <2>1, <2>2, EmptyBatchType, RebuildInScope DEF TypeOK, Pc
<1>2. CASE PlanInspect
  BY <1>2, EmptyBatchType DEF PlanInspect, TypeOK, Pc
<1>3. CASE StartStage
  BY <1>3, PendingFinite, RunnerAssumption DEF StartStage, TypeOK, Pc
<1> QED
  BY <1>1, <1>2, <1>3

\* The window over the pool preserves the types.
LEMMA WindowType ==
  TypeOK /\ (Submit \/ SubmitRefused \/ SubmitEnd \/ Wait \/ Drain) => TypeOK'
<1> SUFFICES ASSUME TypeOK, Submit \/ SubmitRefused \/ SubmitEnd \/ Wait \/ Drain
             PROVE  TypeOK'
  OBVIOUS
<1> USE DEF planning, cache, answers, batch, runner, world
<1>1. CASE Submit
  BY <1>1 DEF Submit, First, TypeOK, Futures
<1>2. CASE SubmitRefused
  BY <1>2 DEF SubmitRefused, TypeOK
<1>3. CASE SubmitEnd
  BY <1>3 DEF SubmitEnd, TypeOK, Pc
<1>4. CASE Wait
  <2> DEFINE done == {r \in flight : Settled(r)}
  <2>1. measured' \in [Rules -> Outcome]
    BY <1>4, MeasureType DEF Wait
  <2>2. /\ flight' \subseteq flight /\ pc' \in Pc
        /\ broken' \in BOOLEAN /\ degraded' \in BOOLEAN
    BY <1>4 DEF Wait, Pc
  <2> QED
    BY <1>4, <2>1, <2>2 DEF Wait, TypeOK
<1>5. CASE Drain
  BY <1>5, MeasureType DEF Drain, TypeOK, Pc
<1> QED
  BY <1>1, <1>2, <1>3, <1>4, <1>5

\* Recovery and the serial path preserve the types.
LEMMA AloneType ==
  TypeOK /\ (RecoverStart \/ RecoverEnd \/ SerialStart \/ SerialEnd) => TypeOK'
<1> SUFFICES ASSUME TypeOK, RecoverStart \/ RecoverEnd \/ SerialStart \/ SerialEnd
             PROVE  TypeOK'
  OBVIOUS
<1> USE DEF planning, cache, answers, batch, runner, world
<1>1. ASSUME NEW r \in Rules, Starts(r)
      PROVE  /\ future' \in [Rules -> Futures] /\ runs' \in [Rules -> Nat]
             /\ data' \in [Rules -> Data]
  BY <1>1, DataTypes DEF Starts, TypeOK, Futures
<1>2. CASE RecoverStart
  BY <1>1, <1>2 DEF RecoverStart, Unmeasured, TypeOK
<1>3. CASE RecoverEnd
  BY <1>3 DEF RecoverEnd, TypeOK, Pc
<1>4. CASE SerialStart
  BY <1>1, <1>4 DEF SerialStart, TypeOK
<1>5. CASE SerialEnd
  BY <1>5 DEF SerialEnd, TypeOK, Pc
<1> QED
  BY <1>2, <1>3, <1>4, <1>5

\* Flushing preserves the types.
LEMMA FlushType == TypeOK /\ (FlushPrepare \/ FlushInspect \/ StageEnd) => TypeOK'
<1> SUFFICES ASSUME TypeOK, FlushPrepare \/ FlushInspect \/ StageEnd PROVE TypeOK'
  OBVIOUS
<1> USE DEF planning, cache, answers, batch, runner, world
<1>1. flushed < N => flushed + 1 \in 0 .. N /\ flushed + 1 \in Rules
  BY RunnerAssumption DEF TypeOK, Rules
<1>2. CASE FlushPrepare
  BY <1>1, <1>2 DEF FlushPrepare, Next1, Marked, TypeOK, States
<1>3. CASE FlushInspect
  BY <1>1, <1>3 DEF FlushInspect, Next1, TypeOK
<1>4. CASE StageEnd
  BY <1>4, EmptyBatchType DEF StageEnd, Stop, TypeOK, Pc, Stages
<1> QED
  BY <1>2, <1>3, <1>4

\* The units preserve the types.
LEMMA UnitType == ASSUME TypeOK, NEW r \in Rules, Unit(r) PROVE TypeOK'
<1> USE DEF planning, cache, answers, batch, runner, world
<1>1. CASE UnitStarts(r)
  BY <1>1, DataTypes DEF UnitStarts, Starts, TypeOK, Futures
<1>2. CASE UnitReturns(r)
  BY <1>2, DataTypes DEF UnitReturns, TypeOK, Futures
<1>3. CASE UnitDies(r)
  BY <1>3 DEF UnitDies, TypeOK, Futures
<1>4. CASE RecoverReturns(r)
  BY <1>4, DataTypes DEF RecoverReturns, TypeOK, Futures, Outcome
<1>5. CASE RecoverFails(r)
  BY <1>5, DataTypes DEF RecoverFails, Crashed, TypeOK, Futures, Outcome
<1>6. CASE SerialReturns(r)
  BY <1>6, DataTypes DEF SerialReturns, TypeOK, Futures, Outcome
<1>7. CASE SerialDies(r)
  BY <1>7, EmptyBatchType DEF SerialDies, Stop, TypeOK, Pc
<1> QED
  BY <1>1, <1>2, <1>3, <1>4, <1>5, <1>6, <1>7 DEF Unit

\* Every reachable state of the runner has the types of the code's values:
\* in particular only units of the stage wait in the queue or the pool.
THEOREM StageTypes == Spec => []TypeOK
<1>1. Init => TypeOK
  <2>1. Empty \in Data
    BY DEF Empty, Data
  <2>2. [r \in Rules |-> Empty] \in [Rules -> Data]
    BY <2>1
  <2>3. /\ [r \in Rules |-> NoMarker] \in [Rules -> Versions \cup {NoMarker}]
        /\ [r \in Rules |-> "none"] \in [Rules -> States]
        /\ [r \in Rules |-> "none"] \in [Rules -> Futures]
        /\ [r \in Rules |-> "none"] \in [Rules -> Outcome]
    BY DEF States, Futures, Outcome
  <2>4. /\ [r \in Rules |-> "none"] \in [Rules -> {"none", "ok", "error", "skip"}]
        /\ [r \in Rules |-> 0] \in [Rules -> Nat]
    OBVIOUS
  <2> SUFFICES ASSUME Init PROVE TypeOK
    OBVIOUS
  <2>5. /\ pc \in Pc /\ stage \in Stages /\ version \in Versions /\ scope \subseteq Rules
        /\ torn \subseteq Rules
        /\ pending \subseteq scope /\ queue \subseteq pending /\ flight \subseteq pending
        /\ nature \in Behaviours /\ match \in Matches
    BY DEF Init, Pc, Stages
  <2>6. /\ single \in BOOLEAN /\ force \in BOOLEAN
        /\ degraded \in BOOLEAN /\ broken \in BOOLEAN
        /\ pool \in {"none", "alive", "broken"}
    BY DEF Init
  <2>7. window \in Nat /\ flushed \in 0 .. N /\ budget \in 0 .. MaxRuns
    BY BoundTypes DEF Init
  <2>8. /\ data \in [Rules -> Data] /\ state \in [Rules -> States]
        /\ marker \in [Rules -> Versions \cup {NoMarker}]
        /\ result \in [Rules -> {"none", "ok", "error", "skip"}]
        /\ future \in [Rules -> Futures] /\ measured \in [Rules -> Outcome]
        /\ runs \in [Rules -> Nat]
    BY <2>2, <2>3, <2>4 DEF Init
  <2> QED
    BY <2>5, <2>6, <2>7, <2>8 DEF TypeOK
<1>2. TypeOK /\ [Next]_vars => TypeOK'
  <2>1. ASSUME TypeOK, UNCHANGED vars PROVE TypeOK'
    BY <2>1 DEF vars, planning, cache, answers, batch, runner, world, TypeOK
  <2> QED
    BY <2>1, RunType, PlanType, WindowType, AloneType, FlushType, UnitType
       DEF Next, Parent
<1> QED
  BY <1>1, <1>2, PTL DEF Spec

-----------------------------------------------------------------------------
(* Markers.                                                                *)

Planned == {"idle", "extract", "plan", "start"}
InPool  == {"submit", "wait", "drain"}

\* What is in the pool belongs to the stage and has no answer yet.
StageInv ==
  /\ pc # "flush" => flushed = 0
  /\ pc \in Planned => \A r \in Rules : measured[r] = "none" /\ future[r] = "none"
  /\ pc \in Planned \cup {"serial"} => flight = {}
  /\ pc \notin {"recover", "flush"} =>
       /\ \A r \in flight : measured[r] = "none"
       /\ \A r \in queue : measured[r] = "none" /\ future[r] = "none"
  /\ queue \cap flight = {}
  /\ \A r \in Rules : future[r] # "none" => r \in pending
  /\ \A r \in Rules : future[r] \in {"waiting", "running"} => measured[r] = "none"

\* A prepare that is to be run has no marker until it is flushed, but for one
\* that outlived the removal, and one that answered has written everything.
MarkerInv ==
  /\ MarkerSound
  /\ stage = "prepare" => \A r \in pending : r > flushed => r \in torn \/ marker[r] = NoMarker
  /\ stage = "prepare" =>
       \A r \in Rules : measured[r] = "ok" \/ future[r] = "ok" => data[r] = Whole

\* StageInv holds of a stage that has not begun, whatever it is about.
LEMMA FreshStage ==
  ASSUME TypeOK, EmptyBatch
  PROVE  StageInv'
  BY DEF EmptyBatch, StageInv, TypeOK

\* Planning and the choice between pool and parent preserve StageInv.
LEMMA StageInvPlan ==
  TypeOK /\ StageInv /\ (RunAll \/ RunRule \/ Upgrade \/ Crash \/ RemovalCut \/ Extract
                       \/ PlanPrepare \/ PlanInspect \/ StartStage) => StageInv'
<1> SUFFICES ASSUME TypeOK, StageInv, RunAll \/ RunRule \/ Upgrade \/ Crash \/ RemovalCut \/ Extract
                                      \/ PlanPrepare \/ PlanInspect \/ StartStage
             PROVE  StageInv'
  OBVIOUS
<1> USE DEF planning, cache, answers, batch, runner, world
<1>1. CASE RunAll \/ RunRule
  BY <1>1, FreshStage DEF RunAll, RunRule, BeginRun
<1>2. CASE Upgrade
  BY <1>2 DEF Upgrade, StageInv
<1>3. CASE Crash \/ RemovalCut
  BY <1>3, FreshStage DEF Crash, RemovalCut, Stop
<1>4. CASE Extract
  BY <1>4, FreshStage DEF Extract, Stop, StageInv, Planned
<1>5. CASE PlanPrepare \/ PlanInspect
  BY <1>5, FreshStage DEF PlanPrepare, PlanInspect
<1>6. CASE StartStage
  BY <1>6 DEF StartStage, StageInv, Planned, TypeOK
<1> QED
  BY <1>1, <1>2, <1>3, <1>4, <1>5, <1>6

\* The window over the pool preserves StageInv.
LEMMA StageInvWindow ==
  TypeOK /\ StageInv /\ (Submit \/ SubmitRefused \/ SubmitEnd \/ Wait \/ Drain) => StageInv'
<1> SUFFICES ASSUME TypeOK, StageInv, Submit \/ SubmitRefused \/ SubmitEnd \/ Wait \/ Drain
             PROVE  StageInv'
  OBVIOUS
<1> USE DEF planning, cache, answers, batch, runner, world
<1>1. CASE Submit
  BY <1>1 DEF Submit, First, StageInv, Planned, TypeOK
<1>2. CASE SubmitRefused
  BY <1>2 DEF SubmitRefused, StageInv, Planned
<1>3. CASE SubmitEnd
  BY <1>3 DEF SubmitEnd, StageInv, Planned
<1>4. CASE Wait
  BY <1>4 DEF Wait, Measure, Settled, StageInv, Planned, TypeOK
<1>5. CASE Drain
  BY <1>5 DEF Drain, Measure, Settled, StageInv, Planned, TypeOK
<1> QED
  BY <1>1, <1>2, <1>3, <1>4, <1>5

\* Recovery, the serial path and the flushing preserve StageInv.
LEMMA StageInvAlone ==
  TypeOK /\ StageInv /\ (RecoverStart \/ RecoverEnd \/ SerialStart \/ SerialEnd
                       \/ FlushPrepare \/ FlushInspect \/ StageEnd) => StageInv'
<1> SUFFICES ASSUME TypeOK, StageInv, RecoverStart \/ RecoverEnd \/ SerialStart \/ SerialEnd
                                      \/ FlushPrepare \/ FlushInspect \/ StageEnd
             PROVE  StageInv'
  OBVIOUS
<1> USE DEF planning, cache, answers, batch, runner, world
<1>1. CASE RecoverStart
  BY <1>1 DEF RecoverStart, Unmeasured, Starts, StageInv, Planned, TypeOK
<1>2. CASE RecoverEnd \/ SerialEnd
  BY <1>2 DEF RecoverEnd, SerialEnd, StageInv, Planned
<1>3. CASE SerialStart
  BY <1>3 DEF SerialStart, First, Starts, StageInv, Planned, TypeOK
<1>4. CASE FlushPrepare \/ FlushInspect
  BY <1>4 DEF FlushPrepare, FlushInspect, StageInv, Planned
<1>5. CASE StageEnd
  BY <1>5, FreshStage DEF StageEnd, Stop
<1> QED
  BY <1>1, <1>2, <1>3, <1>4, <1>5

\* The units preserve StageInv.
LEMMA StageInvUnit == ASSUME TypeOK, StageInv, NEW r \in Rules, Unit(r) PROVE StageInv'
<1> USE DEF planning, cache, answers, batch, runner, world
<1>1. CASE UnitStarts(r)
  BY <1>1 DEF UnitStarts, Starts, StageInv, Planned, TypeOK
<1>2. CASE UnitReturns(r)
  BY <1>2 DEF UnitReturns, Answer, StageInv, Planned, TypeOK
<1>3. CASE UnitDies(r)
  BY <1>3 DEF UnitDies, StageInv, Planned, TypeOK
<1>4. CASE RecoverReturns(r)
  BY <1>4 DEF RecoverReturns, Running, Answer, StageInv, Planned, TypeOK
<1>5. CASE RecoverFails(r)
  BY <1>5 DEF RecoverFails, Crashed, Running, StageInv, Planned, TypeOK
<1>6. CASE SerialReturns(r)
  BY <1>6 DEF SerialReturns, Running, Answer, StageInv, Planned, TypeOK
<1>7. CASE SerialDies(r)
  BY <1>7, FreshStage DEF SerialDies, Stop
<1> QED
  BY <1>1, <1>2, <1>3, <1>4, <1>5, <1>6, <1>7 DEF Unit

\* MarkerInv survives whatever leaves cache and answers alone.
LEMMA MarkerInvFresh ==
  ASSUME TypeOK, MarkerInv, EmptyBatch, pending' = {}, UNCHANGED cache
  PROVE  MarkerInv'
  BY DEF MarkerInv, MarkerSound, EmptyBatch, cache, TypeOK

\* After a removal the markers that are left are sound, or torn.
LEMMA ClearedSound ==
  ASSUME TypeOK, MarkerSound, NEW gone, NEW left \in SUBSET Rules, Cleared(gone, left)
  PROVE  /\ MarkerSound'
         /\ \A r \in Rules \cap (gone \cup left) : r \in torn' \/ marker'[r] = NoMarker
         /\ \A r \in Rules \ (gone \cup left) : marker'[r] = marker[r]
<1>1. PICK spoilt \in SUBSET left, kept \in SUBSET left :
        /\ data' = [r \in Rules |->
             IF r \in gone THEN Empty
             ELSE IF r \in spoilt /\ data[r].made = "whole" THEN [data[r] EXCEPT !.made = "part"]
             ELSE data[r]]
        /\ marker' = [r \in Rules |-> IF r \in gone \cup (left \ kept) THEN NoMarker ELSE marker[r]]
        /\ torn' = (torn \ (gone \cup left)) \cup {r \in kept : marker[r] # NoMarker}
  BY DEF Cleared
<1>2. \A r \in Rules \cap (gone \cup left) : r \in torn' \/ marker'[r] = NoMarker
  BY <1>1 DEF TypeOK
<1>3. \A r \in Rules \ (gone \cup left) :
        /\ marker'[r] = marker[r] /\ data'[r] = data[r] /\ (r \in torn <=> r \in torn')
  BY <1>1 DEF TypeOK
<1> QED
  BY <1>2, <1>3 DEF MarkerSound

\* Planning preserves MarkerInv: a prepare that is to be run loses its marker.
LEMMA MarkerInvPlan ==
  TypeOK /\ StageInv /\ MarkerInv
    /\ (RunAll \/ RunRule \/ Upgrade \/ Crash \/ RemovalCut \/ Extract
        \/ PlanPrepare \/ PlanInspect \/ StartStage) => MarkerInv'
<1> SUFFICES ASSUME TypeOK, StageInv, MarkerInv,
                    RunAll \/ RunRule \/ Upgrade \/ Crash \/ RemovalCut \/ Extract
                      \/ PlanPrepare \/ PlanInspect \/ StartStage
             PROVE  MarkerInv'
  OBVIOUS
<1> USE DEF planning, cache, answers, batch, runner, world
<1>1. CASE RunAll \/ RunRule
  BY <1>1, MarkerInvFresh DEF RunAll, RunRule, BeginRun
<1>2. CASE Upgrade
  BY <1>2 DEF Upgrade, StageInv, Planned, MarkerInv, MarkerSound
<1>3. CASE Crash
  BY <1>3, MarkerInvFresh DEF Crash, Stop
<1>4. CASE Extract
  BY <1>4, MarkerInvFresh DEF Extract, Stop, MarkerInv, MarkerSound, Whole
<1>5. CASE PlanPrepare
  <2>1. PICK left \in SUBSET Rules : left \subseteq Rebuild /\ Cleared(Rebuild \ left, left)
    BY <1>5, PlanClears
  <2>2. /\ MarkerSound'
        /\ \A r \in Rules \cap ((Rebuild \ left) \cup left) : r \in torn' \/ marker'[r] = NoMarker
    BY <2>1, ClearedSound DEF MarkerInv
  <2>3. pending' = Rebuild /\ EmptyBatch
    BY <1>5 DEF PlanPrepare
  <2> QED
    BY <2>1, <2>2, <2>3, RebuildInScope DEF EmptyBatch, MarkerInv
<1>6. CASE PlanInspect
  BY <1>6 DEF PlanInspect, MarkerInv, MarkerSound
<1>7. CASE StartStage
  BY <1>7 DEF StartStage, MarkerInv, MarkerSound, Whole
<1>8. CASE RemovalCut
  <2>1. MarkerSound'
    BY <1>8, CutClears, ClearedSound DEF MarkerInv
  <2> QED
    BY <1>8, <2>1 DEF RemovalCut, Stop, EmptyBatch, MarkerInv
<1> QED
  BY <1>1, <1>2, <1>3, <1>4, <1>5, <1>6, <1>7, <1>8

\* The window over the pool preserves MarkerInv.
LEMMA MarkerInvWindow ==
  TypeOK /\ StageInv /\ MarkerInv
    /\ (Submit \/ SubmitRefused \/ SubmitEnd \/ Wait \/ Drain) => MarkerInv'
<1> SUFFICES ASSUME TypeOK, StageInv, MarkerInv,
                    Submit \/ SubmitRefused \/ SubmitEnd \/ Wait \/ Drain
             PROVE  MarkerInv'
  OBVIOUS
<1> USE DEF planning, cache, answers, batch, runner, world
<1>1. CASE Submit
  BY <1>1 DEF Submit, First, MarkerInv, MarkerSound, Whole, TypeOK
<1>2. CASE SubmitRefused \/ SubmitEnd
  BY <1>2 DEF SubmitRefused, SubmitEnd, MarkerInv, MarkerSound, Whole
<1>3. CASE Wait
  BY <1>3 DEF Wait, Measure, MarkerInv, MarkerSound, Whole, TypeOK
<1>4. CASE Drain
  BY <1>4 DEF Drain, Measure, MarkerInv, MarkerSound, Whole, TypeOK
<1> QED
  BY <1>1, <1>2, <1>3, <1>4

\* A prepare that begins has neither a marker nor an answer, so that its
\* directory may be written.
LEMMA MarkerInvStarts ==
  ASSUME TypeOK, MarkerInv, NEW r \in pending, flushed = 0, Starts(r), measured[r] = "none",
         UNCHANGED <<pending, flushed, measured, marker, torn, stage, version>>
  PROVE  MarkerInv'
<1>1. r \in Rules /\ r > 0
  BY RunnerAssumption DEF TypeOK, Rules
<1>2. CASE stage = "prepare"
  <2>1. r \in torn \/ marker[r] = NoMarker
    BY <1>1, <1>2 DEF MarkerInv
  <2> QED
    BY <1>1, <1>2, <2>1 DEF Starts, Part, Whole, MarkerInv, MarkerSound, TypeOK
<1>3. CASE stage # "prepare"
  BY <1>3 DEF Starts, MarkerInv, MarkerSound
<1> QED
  BY <1>2, <1>3

\* Recovery and the serial path preserve MarkerInv.
LEMMA MarkerInvAlone ==
  TypeOK /\ StageInv /\ MarkerInv
    /\ (RecoverStart \/ RecoverEnd \/ SerialStart \/ SerialEnd) => MarkerInv'
<1> SUFFICES ASSUME TypeOK, StageInv, MarkerInv,
                    RecoverStart \/ RecoverEnd \/ SerialStart \/ SerialEnd
             PROVE  MarkerInv'
  OBVIOUS
<1> USE DEF planning, cache, answers, batch, runner, world
<1>1. CASE RecoverStart
  BY <1>1, MarkerInvStarts DEF RecoverStart, Unmeasured, StageInv
<1>2. CASE RecoverEnd \/ SerialEnd
  BY <1>2 DEF RecoverEnd, SerialEnd, MarkerInv, MarkerSound, Whole
<1>3. CASE SerialStart
  BY <1>3, MarkerInvStarts DEF SerialStart, First, StageInv, TypeOK
<1> QED
  BY <1>1, <1>2, <1>3

\* The flushing preserves MarkerInv: a marker is written for complete data.
LEMMA MarkerInvFlush ==
  TypeOK /\ StageInv /\ MarkerInv /\ (FlushPrepare \/ FlushInspect \/ StageEnd) => MarkerInv'
<1> SUFFICES ASSUME TypeOK, StageInv, MarkerInv, FlushPrepare \/ FlushInspect \/ StageEnd
             PROVE  MarkerInv'
  OBVIOUS
<1> USE DEF planning, cache, answers, batch, runner, world
<1>1. CASE FlushPrepare
  <2>1. Next1 \in Rules
    BY <1>1, RunnerAssumption DEF FlushPrepare, Next1, TypeOK, Rules
  <2>2. \A r \in pending : r > flushed + 1 => r > flushed /\ r # Next1
    BY RunnerAssumption DEF Next1, TypeOK, Rules
  <2>3. measured[Next1] = "ok" => data[Next1] = [made |-> "whole", by |-> version]
    BY <1>1, <2>1 DEF FlushPrepare, MarkerInv, Whole
  <2>4. \/ marker' = marker /\ torn' = torn
        \/ /\ measured[Next1] = "ok" /\ torn' = torn \ {Next1}
           /\ marker' = [marker EXCEPT ![Next1] = version]
    BY <1>1 DEF FlushPrepare, Marked
  <2>5. MarkerSound'
    BY <1>1, <2>3, <2>4 DEF FlushPrepare, MarkerInv, MarkerSound, TypeOK
  <2>6. \A r \in pending : r > flushed' => r \in torn' \/ marker'[r] = NoMarker
    BY <1>1, <2>2, <2>4 DEF FlushPrepare, Next1, MarkerInv, TypeOK
  <2> QED
    BY <1>1, <2>5, <2>6 DEF FlushPrepare, MarkerInv, Whole
<1>2. CASE FlushInspect
  BY <1>2 DEF FlushInspect, MarkerInv, MarkerSound
<1>3. CASE StageEnd
  BY <1>3, MarkerInvFresh DEF StageEnd, Stop
<1> QED
  BY <1>1, <1>2, <1>3

\* A prepare that comes back has no marker; it has written everything if it
\* answered.
LEMMA MarkerInvReturns ==
  ASSUME TypeOK, StageInv, MarkerInv, NEW r \in Rules, future[r] = "running", pc # "flush",
         \/ data' = data /\ measured'[r] # "ok" /\ future'[r] # "ok"
         \/ data' = Written(r),
         future' = [future EXCEPT ![r] = future'[r]],
         measured' = [measured EXCEPT ![r] = measured'[r]],
         UNCHANGED <<pending, flushed, marker, torn, stage, version>>
  PROVE  MarkerInv'
<1>1. flushed = 0 /\ r > 0 /\ r \in pending
  BY RunnerAssumption DEF StageInv, TypeOK, Rules
<1>2. CASE stage = "prepare"
  <2>1. r \in torn \/ marker[r] = NoMarker
    BY <1>1, <1>2 DEF MarkerInv
  <2>2. MarkerSound'
    BY <1>2, <2>1 DEF Written, MarkerInv, MarkerSound, TypeOK
  <2>3. \A i \in Rules : measured'[i] = "ok" \/ future'[i] = "ok" => data'[i] = Whole
    BY <1>2 DEF Written, MarkerInv, TypeOK
  <2> QED
    BY <1>2, <2>2, <2>3 DEF MarkerInv, Whole
<1>3. CASE stage # "prepare"
  BY <1>3 DEF Written, MarkerInv, MarkerSound
<1> QED
  BY <1>2, <1>3

\* The units preserve MarkerInv.
LEMMA MarkerInvUnit ==
  ASSUME TypeOK, StageInv, MarkerInv, NEW r \in Rules, Unit(r) PROVE MarkerInv'
<1> USE DEF planning, cache, answers, batch, runner, world
<1>1. CASE UnitStarts(r)
  BY <1>1, MarkerInvStarts DEF UnitStarts, StageInv
<1>2. CASE UnitReturns(r)
  <2>1. measured[r] = "none" /\ measured' = [measured EXCEPT ![r] = measured'[r]]
    BY <1>2 DEF UnitReturns, StageInv, TypeOK
  <2>2. /\ future' = [future EXCEPT ![r] = future'[r]]
        /\ future'[r] = "ok" => Answer(r) = "ok"
    BY <1>2 DEF UnitReturns, TypeOK
  <2>3. \/ data' = data /\ measured'[r] # "ok" /\ future'[r] # "ok"
        \/ data' = Written(r)
    BY <1>2, <2>1, <2>2 DEF UnitReturns
  <2> QED
    BY <1>2, <2>1, <2>2, <2>3, MarkerInvReturns DEF UnitReturns
<1>3. CASE UnitDies(r)
  BY <1>3 DEF UnitDies, MarkerInv, MarkerSound, Whole, TypeOK
<1>4. CASE RecoverReturns(r)
  BY <1>4, MarkerInvReturns DEF RecoverReturns, Running, Answer, TypeOK
<1>5. CASE RecoverFails(r)
  BY <1>5, MarkerInvReturns DEF RecoverFails, Crashed, Running, TypeOK
<1>6. CASE SerialReturns(r)
  BY <1>6, MarkerInvReturns DEF SerialReturns, Running, Answer, TypeOK
<1>7. CASE SerialDies(r)
  BY <1>7, MarkerInvFresh DEF SerialDies, Stop
<1> QED
  BY <1>1, <1>2, <1>3, <1>4, <1>5, <1>6, <1>7 DEF Unit

\* A marker stands for data written completely by the rule file it names,
\* across crashes, forced rebuilds and new releases, unless it outlived a
\* removal of its directory that was cut off or met what it cannot remove.
THEOREM MarkersSound == Spec => []MarkerSound
<1>1. Init => StageInv /\ MarkerInv
  BY DEF Init, StageInv, Planned, MarkerInv, MarkerSound
<1>2. TypeOK /\ StageInv /\ MarkerInv /\ [Next]_vars => StageInv' /\ MarkerInv'
  <2>1. ASSUME StageInv, MarkerInv, UNCHANGED vars PROVE StageInv' /\ MarkerInv'
    BY <2>1 DEF vars, planning, cache, answers, batch, runner, world, StageInv, Planned,
                MarkerInv, MarkerSound, Whole
  <2>2. TypeOK /\ StageInv /\ Next => StageInv'
    BY StageInvPlan, StageInvWindow, StageInvAlone, StageInvUnit DEF Next, Parent
  <2>3. TypeOK /\ StageInv /\ MarkerInv /\ Next => MarkerInv'
    BY MarkerInvPlan, MarkerInvWindow, MarkerInvAlone, MarkerInvFlush, MarkerInvUnit
       DEF Next, Parent
  <2> QED
    BY <2>1, <2>2, <2>3
<1>3. MarkerInv => MarkerSound
  BY DEF MarkerInv
<1> QED
  BY <1>1, <1>2, <1>3, StageTypes, PTL DEF Spec

-----------------------------------------------------------------------------
(* Reading prepared data.                                                  *)

\* No unit of the stage is forgotten: it waits, runs or is answered, unless
\* the pool broke and the units without an answer are run again.
Settling ==
  /\ \A r \in Rules : measured[r] # "none" => r \in pending
  /\ pc \in {"submit", "wait"} =>
       /\ window > 0
       /\ broken => degraded
       /\ \A r \in pending : r \in queue \cup flight \/ measured[r] # "none" \/ degraded
  /\ pc = "serial" =>
       \A r \in pending : r \in queue \/ measured[r] # "none" \/ future[r] = "running"
  /\ pc = "flush" => \A r \in pending : measured[r] # "none"

Owner(r) == r \in scope \cap Prepared /\ match[r] = "some"
Ready    == {"HIT", "REBUILT"}

\* A prepare that is ready has the marker of the current rule file; after the
\* first stage every prepare with files is ready or has failed, and then its
\* rule is not run.
ReadInv ==
  /\ pc # "idle" => \A r \in Rules : state[r] \in Ready => marker[r] = version
  /\ stage = "prepare" /\ pc \notin {"idle", "extract", "plan"} =>
       \A r \in Rules : Owner(r) =>
         \/ state[r] = "HIT"
         \/ r \in pending /\ (r > flushed \/ state[r] \in {"REBUILT", "FAILED"})
  /\ stage = "inspect" /\ pc # "idle" =>
       \A r \in Rules : Owner(r) => state[r] \in Ready \cup {"FAILED"}
  /\ stage = "inspect" => \A r \in pending \cap Prepared : state[r] \in Ready

\* Settling holds where no stage is under way.
LEMMA SettlingFresh ==
  ASSUME TypeOK, EmptyBatch, pc' \notin {"submit", "wait", "serial", "flush"}
  PROVE  Settling'
  BY DEF EmptyBatch, Settling

\* Planning a stage and choosing where it runs preserves Settling.
LEMMA SettlingPlan ==
  TypeOK /\ StageInv /\ Settling
    /\ (RunAll \/ RunRule \/ Upgrade \/ Crash \/ RemovalCut \/ Extract
        \/ PlanPrepare \/ PlanInspect \/ StartStage) => Settling'
<1> SUFFICES ASSUME TypeOK, StageInv, Settling,
                    RunAll \/ RunRule \/ Upgrade \/ Crash \/ RemovalCut \/ Extract
                      \/ PlanPrepare \/ PlanInspect \/ StartStage
             PROVE  Settling'
  OBVIOUS
<1> USE DEF planning, cache, answers, batch, runner, world
<1>1. CASE RunAll \/ RunRule
  BY <1>1, SettlingFresh DEF RunAll, RunRule, BeginRun
<1>2. CASE Upgrade
  BY <1>2 DEF Upgrade, Settling
<1>3. CASE Crash \/ RemovalCut
  BY <1>3, SettlingFresh DEF Crash, RemovalCut, Stop
<1>4. CASE Extract
  BY <1>4, SettlingFresh DEF Extract, Stop, Settling
<1>5. CASE PlanPrepare \/ PlanInspect
  BY <1>5, SettlingFresh DEF PlanPrepare, PlanInspect
<1>6. CASE StartStage
  <2>1. pending # {} => Cardinality(pending) > 0
    <3>1. Cardinality(pending) = 0 <=> pending = {}
      BY PendingFinite, FS_EmptySet
    <3> QED
      BY <3>1, PendingFinite
  <2>2. pc' = "submit" => window' > 0
    BY <1>6, <2>1, BoundTypes, RunnerAssumption DEF StartStage
  <2> QED
    BY <1>6, <2>2 DEF StartStage, StageInv, Planned, Settling
<1> QED
  BY <1>1, <1>2, <1>3, <1>4, <1>5, <1>6

\* The window forgets no unit.
LEMMA SettlingWindow ==
  TypeOK /\ StageInv /\ Settling
    /\ (Submit \/ SubmitRefused \/ SubmitEnd \/ Wait \/ Drain) => Settling'
<1> SUFFICES ASSUME TypeOK, StageInv, Settling,
                    Submit \/ SubmitRefused \/ SubmitEnd \/ Wait \/ Drain
             PROVE  Settling'
  OBVIOUS
<1> USE DEF planning, cache, answers, batch, runner, world
<1>1. CASE Submit
  BY <1>1 DEF Submit, First, Settling, TypeOK
<1>2. CASE SubmitRefused
  BY <1>2 DEF SubmitRefused, Settling
<1>3. CASE SubmitEnd
  <2>1. flight = {} => Cardinality(flight) = 0
    BY FS_EmptySet
  <2>2. pc' = "flush" => queue = {} /\ flight = {} /\ ~degraded
    BY <1>3, <2>1 DEF SubmitEnd, Room, Settling, TypeOK
  <2> QED
    BY <1>3, <2>2 DEF SubmitEnd, Settling
<1>4. CASE Wait
  <2> DEFINE done == {r \in flight : Settled(r)}
             lost == \E r \in done : future[r] = "lost"
  <2>1. /\ measured' = Measure(done) /\ flight' = flight \ done
        /\ broken' = (broken \/ lost) /\ degraded' = (degraded \/ lost)
        /\ pc = "wait" /\ pc' \in {"drain", "submit"}
        /\ UNCHANGED <<queue, pending, window, future>>
    BY <1>4 DEF Wait
  <2>2. \A r \in Rules : measured[r] # "none" => measured'[r] # "none"
    BY <2>1 DEF Measure, Settled, TypeOK
  <2>3. \A r \in done : measured'[r] # "none" \/ lost
    BY <2>1 DEF Measure, Settled, TypeOK
  <2>4. \A r \in Rules : measured'[r] # "none" => r \in pending
    BY <2>1 DEF Measure, Settling, TypeOK
  <2>5. \A r \in pending : r \in queue \cup flight' \/ measured'[r] # "none" \/ degraded'
    BY <2>1, <2>2, <2>3 DEF Settling, TypeOK
  <2> QED
    BY <2>1, <2>4, <2>5 DEF Settling
<1>5. CASE Drain
  BY <1>5 DEF Drain, Measure, Settled, Settling, TypeOK
<1> QED
  BY <1>1, <1>2, <1>3, <1>4, <1>5

\* Neither does the recovery, the serial path or the flushing.
LEMMA SettlingAlone ==
  TypeOK /\ StageInv /\ Settling
    /\ (RecoverStart \/ RecoverEnd \/ SerialStart \/ SerialEnd
        \/ FlushPrepare \/ FlushInspect \/ StageEnd) => Settling'
<1> SUFFICES ASSUME TypeOK, StageInv, Settling,
                    RecoverStart \/ RecoverEnd \/ SerialStart \/ SerialEnd
                      \/ FlushPrepare \/ FlushInspect \/ StageEnd
             PROVE  Settling'
  OBVIOUS
<1> USE DEF planning, cache, answers, batch, runner, world
<1>1. CASE RecoverStart
  BY <1>1 DEF RecoverStart, Settling
<1>2. CASE RecoverEnd
  BY <1>2 DEF RecoverEnd, Unmeasured, Settling
<1>3. CASE SerialStart
  BY <1>3 DEF SerialStart, First, Starts, Running, Settling, TypeOK
<1>4. CASE SerialEnd
  BY <1>4 DEF SerialEnd, Running, Settling, TypeOK
<1>5. CASE FlushPrepare \/ FlushInspect
  BY <1>5 DEF FlushPrepare, FlushInspect, Settling
<1>6. CASE StageEnd
  BY <1>6, SettlingFresh DEF StageEnd, Stop
<1> QED
  BY <1>1, <1>2, <1>3, <1>4, <1>5, <1>6

\* Nor do the units.
LEMMA SettlingUnit ==
  ASSUME TypeOK, StageInv, Settling, NEW r \in Rules, Unit(r) PROVE Settling'
<1> USE DEF planning, cache, answers, batch, runner, world
<1>1. CASE UnitStarts(r)
  BY <1>1 DEF UnitStarts, Settling
<1>2. CASE UnitReturns(r)
  BY <1>2 DEF UnitReturns, Settling
<1>3. CASE UnitDies(r)
  BY <1>3 DEF UnitDies, Settling
<1>4. CASE RecoverReturns(r)
  BY <1>4 DEF RecoverReturns, Running, Answer, StageInv, Settling, TypeOK
<1>5. CASE RecoverFails(r)
  BY <1>5 DEF RecoverFails, Running, Crashed, StageInv, Settling, TypeOK
<1>6. CASE SerialReturns(r)
  BY <1>6 DEF SerialReturns, Running, Answer, StageInv, Settling, TypeOK
<1>7. CASE SerialDies(r)
  BY <1>7, SettlingFresh DEF SerialDies, Stop
<1> QED
  BY <1>1, <1>2, <1>3, <1>4, <1>5, <1>6, <1>7 DEF Unit

\* The end of the process forgets the stage and what was ready.
LEMMA ReadInvStop == ASSUME Stop PROVE ReadInv'
  BY DEF Stop, ReadInv

\* Planning puts every prepare with files among the ready or the pending, and
\* every rule whose prepare is not ready aside.
LEMMA ReadInvPlan ==
  TypeOK /\ StageInv /\ ReadInv
    /\ (RunAll \/ RunRule \/ Upgrade \/ Crash \/ RemovalCut \/ Extract
        \/ PlanPrepare \/ PlanInspect \/ StartStage) => ReadInv'
<1> SUFFICES ASSUME TypeOK, StageInv, ReadInv,
                    RunAll \/ RunRule \/ Upgrade \/ Crash \/ RemovalCut \/ Extract
                      \/ PlanPrepare \/ PlanInspect \/ StartStage
             PROVE  ReadInv'
  OBVIOUS
<1> USE DEF planning, cache, answers, batch, runner, world
<1>1. CASE RunAll \/ RunRule
  BY <1>1 DEF RunAll, RunRule, BeginRun, ReadInv, Ready
<1>2. CASE Upgrade
  BY <1>2 DEF Upgrade, ReadInv
<1>3. CASE Crash \/ RemovalCut
  BY <1>3, ReadInvStop DEF Crash, RemovalCut
<1>4. CASE Extract
  BY <1>4, ReadInvStop DEF Extract, ReadInv, Owner
<1>5. CASE PlanPrepare
  <2>1. /\ stage = "prepare" /\ stage' = "prepare" /\ flushed' = 0
        /\ pending' = Rebuild
        /\ UNCHANGED <<scope, match, version>>
        /\ state' = [r \in Rules |->
             IF r \in Found \ Rebuild THEN "HIT"
             ELSE IF r \in Owners /\ match[r] = "none" THEN "SKIP"
             ELSE IF r \in Owners /\ match[r] = "bad" THEN "FAILED"
             ELSE "none"]
    BY <1>5 DEF PlanPrepare, EmptyBatch
  <2>2. PICK left \in SUBSET Rules : left \subseteq Rebuild /\ Cleared(Rebuild \ left, left)
    BY <1>5, PlanClears
  <2>3. \A r \in Rules : state'[r] \in Ready => r \in Found \ Rebuild
    BY <2>1 DEF Ready
  <2>4. \A r \in Found \ Rebuild : marker[r] = version
    BY DEF Rebuild, Hit
  <2>5. \A r \in Rules \ Rebuild : marker'[r] = marker[r]
    BY <2>2 DEF Cleared
  <2>6. \A r \in Rules : state'[r] \in Ready => marker'[r] = version'
    BY <2>1, <2>3, <2>4, <2>5
  <2>7. \A r \in Rules : Owner(r)' => state'[r] = "HIT" \/ (r \in pending' /\ r > flushed')
    BY <2>1, RunnerAssumption DEF Owner, Rules, Found, Owners
  <2> QED
    BY <2>1, <2>6, <2>7 DEF ReadInv
<1>6. CASE PlanInspect
  <2>1. \A r \in pending' \cap Prepared : Owner(r) /\ state[r] \notin {"SKIP", "FAILED"}
    BY <1>6, RunnerAssumption DEF PlanInspect, NotReady, Owner, TypeOK, Matches, Finds
  <2>2. \A r \in pending' \cap Prepared : state[r] \in Ready
    BY <1>6, <2>1 DEF PlanInspect, ReadInv, Owner, TypeOK
  <2> QED
    BY <1>6, <2>2 DEF PlanInspect, ReadInv, Owner
<1>7. CASE StartStage
  BY <1>7 DEF StartStage, StageInv, ReadInv, Owner
<1> QED
  BY <1>1, <1>2, <1>3, <1>4, <1>5, <1>6, <1>7

\* Running the units changes nothing ReadInv is about.
LEMMA ReadInvUnits ==
  TypeOK /\ StageInv /\ ReadInv
    /\ (Submit \/ SubmitRefused \/ SubmitEnd \/ Wait \/ Drain \/ RecoverStart \/ RecoverEnd
        \/ SerialStart \/ SerialEnd \/ \E r \in Rules : Unit(r)) => ReadInv'
<1> SUFFICES ASSUME TypeOK, StageInv, ReadInv,
                    Submit \/ SubmitRefused \/ SubmitEnd \/ Wait \/ Drain \/ RecoverStart
                      \/ RecoverEnd \/ SerialStart \/ SerialEnd \/ \E r \in Rules : Unit(r)
             PROVE  ReadInv'
  OBVIOUS
<1> USE DEF planning, cache, answers, batch, runner, world
<1>1. ASSUME pc \in InPool \cup {"recover", "serial"}, pc' \notin {"idle", "extract", "plan"},
             UNCHANGED <<stage, scope, marker, state, match, version, pending, flushed>>
      PROVE  ReadInv'
  BY <1>1 DEF InPool, ReadInv, Owner
<1>2. CASE Submit \/ SubmitRefused \/ SubmitEnd
  BY <1>1, <1>2 DEF Submit, SubmitRefused, SubmitEnd, InPool
<1>3. CASE Wait \/ Drain
  BY <1>1, <1>3 DEF Wait, Drain, InPool
<1>4. CASE RecoverStart \/ RecoverEnd \/ SerialStart \/ SerialEnd
  BY <1>1, <1>4 DEF RecoverStart, RecoverEnd, SerialStart, SerialEnd
<1>5. ASSUME NEW r \in Rules, Unit(r) PROVE ReadInv'
  <2>1. CASE UnitStarts(r) \/ UnitReturns(r) \/ UnitDies(r)
    BY <1>1, <2>1 DEF UnitStarts, UnitReturns, UnitDies, InPool
  <2>2. CASE RecoverReturns(r) \/ RecoverFails(r) \/ SerialReturns(r)
    BY <1>1, <2>2 DEF RecoverReturns, RecoverFails, SerialReturns
  <2>3. CASE SerialDies(r)
    BY <2>3, ReadInvStop DEF SerialDies
  <2> QED
    BY <1>5, <2>1, <2>2, <2>3 DEF Unit
<1> QED
  BY <1>2, <1>3, <1>4, <1>5

\* A prepare is ready once it is flushed with its marker, and none is left
\* when the stage ends.
LEMMA ReadInvFlush ==
  TypeOK /\ StageInv /\ Settling /\ ReadInv
    /\ (FlushPrepare \/ FlushInspect \/ StageEnd) => ReadInv'
<1> SUFFICES ASSUME TypeOK, StageInv, Settling, ReadInv,
                    FlushPrepare \/ FlushInspect \/ StageEnd
             PROVE  ReadInv'
  OBVIOUS
<1> USE DEF planning, cache, answers, batch, runner, world
<1>1. CASE FlushPrepare
  <2>1. /\ pc = "flush" /\ pc' = "flush" /\ stage = "prepare" /\ stage' = "prepare"
        /\ flushed' = Next1 /\ Next1 = flushed + 1 /\ Next1 \in Rules
        /\ UNCHANGED <<scope, match, version, pending>>
    BY <1>1, RunnerAssumption DEF FlushPrepare, Next1, TypeOK, Rules
  <2>2. \A r \in Rules : r > flushed => r > flushed' \/ r = Next1
    BY <2>1, RunnerAssumption DEF TypeOK, Rules
  <2>3. Next1 \in pending => measured[Next1] # "none"
    BY <2>1 DEF Settling
  <2>4. \A r \in Rules : r # Next1 => state'[r] = state[r] /\ marker'[r] = marker[r]
    BY <1>1 DEF FlushPrepare, Marked, TypeOK
  <2>5. measured[Next1] = "ok" => state'[Next1] = "REBUILT" /\ marker'[Next1] = version
    BY <1>1, <2>1 DEF FlushPrepare, Marked, TypeOK
  <2>6. measured[Next1] \notin {"none", "ok"} => state'[Next1] = "FAILED"
    BY <1>1, <2>1 DEF FlushPrepare, TypeOK
  <2>7. measured[Next1] = "none" =>
          state'[Next1] = state[Next1] /\ marker'[Next1] = marker[Next1]
    BY <1>1 DEF FlushPrepare
  <2>8. measured[Next1] # "none" => Next1 \in pending
    BY <2>1 DEF Settling
  <2>9. \A r \in Rules : state'[r] \in Ready => marker'[r] = version
    BY <2>1, <2>4, <2>5, <2>6, <2>7 DEF ReadInv, Ready
  <2>10. \A r \in Rules : Owner(r) =>
           \/ state'[r] = "HIT"
           \/ r \in pending /\ (r > flushed' \/ state'[r] \in {"REBUILT", "FAILED"})
    <3> SUFFICES ASSUME NEW r \in Rules, Owner(r)
                 PROVE  \/ state'[r] = "HIT"
                        \/ /\ r \in pending
                           /\ r > flushed' \/ state'[r] \in {"REBUILT", "FAILED"}
      OBVIOUS
    <3>1. \/ state[r] = "HIT"
          \/ r \in pending /\ (r > flushed \/ state[r] \in {"REBUILT", "FAILED"})
      BY <2>1 DEF ReadInv
    <3>2. CASE r = Next1
      BY <2>3, <2>5, <2>6, <2>7, <2>8, <3>1, <3>2
    <3>3. CASE r # Next1
      BY <2>2, <2>4, <3>1, <3>3
    <3> QED
      BY <3>2, <3>3
  <2> QED
    BY <2>1, <2>9, <2>10 DEF ReadInv, Owner
<1>2. CASE FlushInspect
  BY <1>2 DEF FlushInspect, ReadInv, Owner
<1>3. CASE StageEnd
  <2>1. CASE stage = "prepare"
    <3>1. \A r \in Rules : ~(r > flushed)
      BY <1>3, RunnerAssumption DEF StageEnd, Rules
    <3>2. \A r \in Rules : Owner(r) => state[r] \in Ready \cup {"FAILED"}
      BY <1>3, <2>1, <3>1 DEF StageEnd, ReadInv, Ready
    <3> QED
      BY <1>3, <2>1, <3>2 DEF StageEnd, ReadInv, Owner
  <2>2. CASE stage # "prepare"
    BY <1>3, <2>2, ReadInvStop DEF StageEnd
  <2> QED
    BY <2>1, <2>2
<1> QED
  BY <1>1, <1>2, <1>3

\* A rule with a prepare reads only what its current prepare wrote completely:
\* in this run or, by a marker that outlived no removal, in an earlier one.
THEOREM ReadsAreWhole == Spec => []InspectsReadWhole
<1>1. Init => StageInv /\ Settling /\ ReadInv
  BY DEF Init, StageInv, Planned, Settling, ReadInv, Ready
<1>2. TypeOK /\ StageInv /\ Settling /\ ReadInv /\ [Next]_vars
        => StageInv' /\ Settling' /\ ReadInv'
  <2>1. ASSUME StageInv, Settling, ReadInv, UNCHANGED vars
        PROVE  StageInv' /\ Settling' /\ ReadInv'
    BY <2>1 DEF vars, planning, cache, answers, batch, runner, world, StageInv, Planned,
                Settling, ReadInv, Owner
  <2>2. TypeOK /\ StageInv /\ Next => StageInv'
    BY StageInvPlan, StageInvWindow, StageInvAlone, StageInvUnit DEF Next, Parent
  <2>3. TypeOK /\ StageInv /\ Settling /\ Next => Settling'
    BY SettlingPlan, SettlingWindow, SettlingAlone, SettlingUnit DEF Next, Parent
  <2>4. TypeOK /\ StageInv /\ Settling /\ ReadInv /\ Next => ReadInv'
    BY ReadInvPlan, ReadInvUnits, ReadInvFlush DEF Next, Parent
  <2> QED
    BY <2>1, <2>2, <2>3, <2>4
<1>3. TypeOK /\ StageInv /\ ReadInv /\ MarkerSound => InspectsReadWhole
  <2> SUFFICES ASSUME TypeOK, StageInv, ReadInv, MarkerSound,
                      NEW r \in Prepared \ torn, stage = "inspect", future[r] = "running"
               PROVE  data[r] = Whole
    BY DEF InspectsReadWhole
  <2>1. r \in Rules /\ version # NoMarker
    BY RunnerAssumption DEF TypeOK
  <2>2. r \in pending /\ pc # "idle"
    BY <2>1 DEF StageInv, Planned
  <2>3. marker[r] = version
    BY <2>1, <2>2 DEF ReadInv
  <2> QED
    BY <2>1, <2>3 DEF MarkerSound, Whole
<1> QED
  BY <1>1, <1>2, <1>3, StageTypes, MarkersSound, PTL DEF Spec
-----------------------------------------------------------------------------
(* The answers of the units.                                               *)

\* An answer, measured or still in the pool, is one the unit itself gives.
AnswerInv ==
  \A r \in Rules :
    /\ measured[r] # "none" => measured[r] \in Possible(r)
    /\ future[r] \in {"ok", "raised"} => future[r] \in Possible(r)

\* How often a unit without an answer was begun, and what became of it.
RunsInv ==
  /\ pc \in {"drain", "recover"} => degraded
  /\ pc \in InPool => \A r \in Rules :
       future[r] # "none" /\ measured[r] = "none" => r \in flight \/ future[r] = "lost"
  /\ \A r \in Rules : measured[r] = "none" =>
       /\ future[r] \in {"none", "waiting"} => runs[r] = 0
       /\ future[r] = "lost" => runs[r] \in {0, 1}
       /\ pc = "recover" => future[r] \in {"none", "running", "lost"}
       /\ future[r] \in {"running", "ok", "raised"} /\ pc \in InPool => runs[r] = 1

\* A rule whose prepare and check behave, and for which there are files.
Innocent(r) ==
  /\ match[r] = "some" /\ Behaves(r, "inspect")
  /\ r \in Prepared => Behaves(r, "prepare")

\* Such a rule is never put aside, and what is flushed of it is its result.
InnocentInv ==
  /\ stage = "prepare" => pending \subseteq Prepared
  /\ pc # "idle" => \A r \in scope : Innocent(r) => ~NotReady(r)
  /\ stage = "inspect" /\ pc \notin {"idle", "plan"} =>
       \A r \in scope : Innocent(r) =>
         r \in pending /\ (r <= flushed => result[r] = "ok")

\* What an execution answers is among what its unit may be answered.
LEMMA AnswerPossible ==
  ASSUME TypeOK, NEW r \in Rules
  PROVE  /\ Returns(r) => Answer(r) \in Possible(r)
         /\ Dies(r) \/ Nature(r) = "unsendable" => "crashed" \in Possible(r)
<1>1. Nature(r) \in AllNatures
  BY DEF TypeOK, Behaviours, Nature
<1> QED
  BY <1>1 DEF AllNatures, Answer, Returns, Dies, Possible

\* A new or a forgotten stage has no answers.
LEMMA AnswerFresh ==
  ASSUME EmptyBatch PROVE AnswerInv'
  BY DEF EmptyBatch, AnswerInv

\* A step that leaves the stage, the natures and the answers alone.
LEMMA AnswerKept ==
  ASSUME AnswerInv, UNCHANGED <<stage, nature, measured, future>>
  PROVE  AnswerInv'
  BY DEF AnswerInv, Possible, Nature

\* The steps of the parent keep AnswerInv.
LEMMA AnswerParent ==
  ASSUME TypeOK, StageInv, AnswerInv, RunAll \/ RunRule \/ Upgrade \/ Crash \/ RemovalCut \/ Parent
  PROVE  AnswerInv'
<1> USE DEF planning, cache, answers, batch, runner, world
<1>1. CASE RunAll \/ RunRule
  BY <1>1, AnswerFresh DEF RunAll, RunRule, BeginRun
<1>2. CASE Crash \/ RemovalCut
  BY <1>2, AnswerFresh DEF Crash, RemovalCut, Stop
<1>3. CASE Extract
  BY <1>3, AnswerFresh, AnswerKept DEF Extract, Stop
<1>4. CASE PlanPrepare \/ PlanInspect
  BY <1>4, AnswerFresh DEF PlanPrepare, PlanInspect
<1>5. CASE StageEnd
  BY <1>5, AnswerFresh DEF StageEnd, Stop
<1>6. CASE Upgrade
  BY <1>6, AnswerKept DEF Upgrade
<1>7. CASE StartStage
  BY <1>7, AnswerKept DEF StartStage
<1>8. CASE SubmitRefused \/ SubmitEnd \/ RecoverEnd \/ SerialEnd
  BY <1>8, AnswerKept DEF SubmitRefused, SubmitEnd, RecoverEnd, SerialEnd
<1>9. CASE FlushPrepare \/ FlushInspect
  BY <1>9, AnswerKept DEF FlushPrepare, FlushInspect
<1>10. CASE Submit
  BY <1>10 DEF Submit, AnswerInv, Possible, Nature, TypeOK
<1>11. CASE Wait
  BY <1>11 DEF Wait, Measure, Settled, AnswerInv, Possible, Nature, TypeOK
<1>12. CASE Drain
  BY <1>12 DEF Drain, Measure, Settled, AnswerInv, Possible, Nature, TypeOK
<1>13. CASE RecoverStart
  BY <1>13 DEF RecoverStart, Starts, AnswerInv, Possible, Nature, TypeOK
<1>14. CASE SerialStart
  BY <1>14 DEF SerialStart, Starts, AnswerInv, Possible, Nature, TypeOK
<1> QED
  BY <1>1, <1>2, <1>3, <1>4, <1>5, <1>6, <1>7, <1>8, <1>9, <1>10, <1>11, <1>12, <1>13, <1>14
     DEF Parent

\* The steps of the units keep AnswerInv.
LEMMA AnswerUnit ==
  ASSUME TypeOK, StageInv, AnswerInv, NEW r \in Rules, Unit(r)
  PROVE  AnswerInv'
<1> USE DEF planning, cache, answers, batch, runner, world
<1>1. CASE UnitStarts(r)
  BY <1>1 DEF UnitStarts, Starts, AnswerInv, Possible, Nature, TypeOK
<1>2. CASE UnitReturns(r)
  <2>1. Answer(r) \in Possible(r)
    BY <1>2, AnswerPossible DEF UnitReturns
  <2>2. \A i \in Rules : i # r => future'[i] = future[i]
    BY <1>2 DEF UnitReturns, TypeOK
  <2>3. future'[r] \in {"lost", Answer(r)}
    BY <1>2 DEF UnitReturns, TypeOK
  <2>4. \A i \in Rules : Possible(i)' = Possible(i)
    BY <1>2 DEF UnitReturns, Possible, Nature
  <2> QED
    BY <1>2, <2>1, <2>2, <2>3, <2>4 DEF UnitReturns, AnswerInv
<1>3. CASE UnitDies(r)
  BY <1>3 DEF UnitDies, AnswerInv, Possible, Nature, TypeOK
<1>4. CASE RecoverReturns(r) \/ SerialReturns(r)
  <2>1. Answer(r) \in Possible(r)
    BY <1>4, AnswerPossible DEF RecoverReturns, SerialReturns
  <2>2. \A i \in Rules : i # r => future'[i] = future[i] /\ measured'[i] = measured[i]
    BY <1>4 DEF RecoverReturns, SerialReturns, TypeOK
  <2>3. future'[r] = Answer(r) /\ measured'[r] = Answer(r)
    BY <1>4 DEF RecoverReturns, SerialReturns, TypeOK
  <2>4. \A i \in Rules : Possible(i)' = Possible(i)
    BY <1>4 DEF RecoverReturns, SerialReturns, Possible, Nature
  <2> QED
    BY <2>1, <2>2, <2>3, <2>4 DEF AnswerInv
<1>5. CASE RecoverFails(r)
  <2>1. "crashed" \in Possible(r)
    BY <1>5, AnswerPossible DEF RecoverFails
  <2>2. \A i \in Rules : i # r => future'[i] = future[i] /\ measured'[i] = measured[i]
    BY <1>5 DEF RecoverFails, Crashed, TypeOK
  <2>3. future'[r] = "lost" /\ measured'[r] = "crashed"
    BY <1>5 DEF RecoverFails, Crashed, TypeOK
  <2>4. \A i \in Rules : Possible(i)' = Possible(i)
    BY <1>5 DEF RecoverFails, Possible, Nature
  <2> QED
    BY <2>1, <2>2, <2>3, <2>4 DEF AnswerInv
<1>6. CASE SerialDies(r)
  BY <1>6, AnswerFresh DEF SerialDies, Stop
<1> QED
  BY <1>1, <1>2, <1>3, <1>4, <1>5, <1>6 DEF Unit

\* Every stage gives each of its units at most one answer, one its own
\* behaviour allows: StageRunner implements UnitSettlement.
LEMMA SettleStep ==
  ASSUME TypeOK, TypeOK', StageInv, AnswerInv', UNCHANGED <<stage, nature, pending>>,
         \A r \in Rules : measured'[r] # measured[r] => r \in pending /\ measured[r] = "none"
  PROVE  Settlement!Settle
<1>1. measured' \in [Rules -> {"ok", "raised", "crashed"} \cup {"none"}]
  BY DEF TypeOK, Outcome
<1>2. \A r \in Rules : Possible(r)' = Possible(r)
  BY DEF Possible, Nature
<1>3. \A r \in Rules : measured'[r] # measured[r] => measured'[r] \in Possible(r)
  BY <1>2 DEF AnswerInv
<1>4. [r \in Rules |-> Possible(r)]' = [r \in Rules |-> Possible(r)]
  BY <1>2
<1> QED
  BY <1>1, <1>3, <1>4 DEF Settlement!Settle

LEMMA AskStep ==
  ASSUME TypeOK, TypeOK', EmptyBatch
  PROVE  Settlement!Ask
<1>1. pending' \subseteq Rules
  BY DEF TypeOK
<1>2. [r \in Rules |-> Possible(r)]' \in [Rules -> SUBSET {"ok", "raised", "crashed"}]
  <2>1. \A r \in Rules : Nature(r)' \in AllNatures
    BY DEF TypeOK, Behaviours, Nature
  <2> QED
    BY <2>1 DEF AllNatures, Possible
<1> QED
  BY <1>1, <1>2 DEF EmptyBatch, Settlement!Ask, Settlement!Unanswered

\* The steps of the parent: a stage is asked for or forgotten, or its answers
\* are collected.
LEMMA ParentSettles ==
  ASSUME TypeOK, TypeOK', StageInv, AnswerInv',
         RunAll \/ RunRule \/ Upgrade \/ Crash \/ RemovalCut \/ Parent
  PROVE  Settlement!Next
<1> USE DEF planning, cache, answers, batch, runner, world
<1> SUFFICES Settlement!Ask \/ Settlement!Settle
  BY DEF Settlement!Next
<1>1. CASE RunAll \/ RunRule \/ Crash \/ RemovalCut \/ PlanPrepare \/ PlanInspect \/ StageEnd
  <2>1. EmptyBatch
    BY <1>1 DEF RunAll, RunRule, BeginRun, Crash, RemovalCut, Stop, PlanPrepare, PlanInspect,
                StageEnd
  <2> QED
    BY <2>1, AskStep
<1>2. CASE Extract
  <2>1. EmptyBatch \/ UNCHANGED <<stage, nature, pending, measured>>
    BY <1>2 DEF Extract, Stop
  <2> QED
    BY <2>1, AskStep, SettleStep
<1>3. CASE Upgrade \/ StartStage \/ Submit \/ SubmitRefused \/ SubmitEnd \/ RecoverEnd \/ SerialEnd
  <2>1. UNCHANGED <<stage, nature, pending, measured>>
    BY <1>3 DEF Upgrade, StartStage, Submit, SubmitRefused, SubmitEnd, RecoverEnd, SerialEnd
  <2> QED
    BY <2>1, SettleStep
<1>4. CASE RecoverStart \/ SerialStart \/ FlushPrepare \/ FlushInspect
  <2>1. UNCHANGED <<stage, nature, pending, measured>>
    BY <1>4 DEF RecoverStart, SerialStart, FlushPrepare, FlushInspect
  <2> QED
    BY <2>1, SettleStep
<1>5. CASE Wait \/ Drain
  <2>1. UNCHANGED <<stage, nature, pending>>
    BY <1>5 DEF Wait, Drain
  <2>2. \A r \in Rules : measured'[r] # measured[r] => r \in flight
    BY <1>5 DEF Wait, Drain, Measure, TypeOK
  <2>3. flight \subseteq pending /\ \A r \in flight : measured[r] = "none"
    BY <1>5 DEF Wait, Drain, StageInv, TypeOK
  <2> QED
    BY <2>1, <2>2, <2>3, SettleStep
<1> QED
  BY <1>1, <1>2, <1>3, <1>4, <1>5 DEF Parent

\* The steps of the units.
LEMMA UnitSettles ==
  ASSUME TypeOK, TypeOK', StageInv, AnswerInv', NEW r \in Rules, Unit(r)
  PROVE  Settlement!Next
<1> USE DEF planning, cache, answers, batch, runner, world
<1> SUFFICES Settlement!Ask \/ Settlement!Settle
  BY DEF Settlement!Next
<1>1. CASE UnitStarts(r) \/ UnitReturns(r) \/ UnitDies(r)
  <2>1. UNCHANGED <<stage, nature, pending, measured>>
    BY <1>1 DEF UnitStarts, UnitReturns, UnitDies
  <2> QED
    BY <2>1, SettleStep
<1>2. CASE RecoverReturns(r) \/ RecoverFails(r) \/ SerialReturns(r)
  <2>1. UNCHANGED <<stage, nature, pending>>
    BY <1>2 DEF RecoverReturns, RecoverFails, SerialReturns
  <2>2. \A i \in Rules : measured'[i] # measured[i] => i = r
    BY <1>2 DEF RecoverReturns, RecoverFails, Crashed, SerialReturns, TypeOK
  <2>3. future[r] = "running"
    BY <1>2 DEF RecoverReturns, RecoverFails, SerialReturns, Running
  <2>4. r \in pending /\ measured[r] = "none"
    BY <2>3 DEF StageInv
  <2> QED
    BY <2>1, <2>2, <2>4, SettleStep
<1>3. CASE SerialDies(r)
  BY <1>3, AskStep DEF SerialDies, Stop
<1> QED
  BY <1>1, <1>2, <1>3 DEF Unit

\* A run settles every unit of its stages as UnitSettlement promises: at most
\* one answer each, and never one that only another unit explains.
THEOREM SettlesUnits == Spec => SettlesEachUnit
<1>1. Init => StageInv /\ AnswerInv
  BY DEF Init, StageInv, Planned, AnswerInv
<1>2. TypeOK /\ StageInv /\ AnswerInv /\ [Next]_vars => StageInv' /\ AnswerInv'
  <2>1. ASSUME StageInv, AnswerInv, UNCHANGED vars PROVE StageInv' /\ AnswerInv'
    BY <2>1, AnswerKept DEF vars, planning, cache, answers, batch, runner, world, StageInv, Planned
  <2>2. TypeOK /\ StageInv /\ Next => StageInv'
    BY StageInvPlan, StageInvWindow, StageInvAlone, StageInvUnit DEF Next, Parent
  <2>3. TypeOK /\ StageInv /\ AnswerInv /\ Next => AnswerInv'
    BY AnswerParent, AnswerUnit DEF Next
  <2> QED
    BY <2>1, <2>2, <2>3
<1>3. Init => Settlement!Init
  <2> SUFFICES ASSUME Init PROVE Settlement!Init
    OBVIOUS
  <2>1. \A r \in Rules : Nature(r) \in AllNatures
    BY DEF Init, Behaviours, Nature, Stages
  <2>2. [r \in Rules |-> Possible(r)] \in [Rules -> SUBSET {"ok", "raised", "crashed"}]
    BY <2>1 DEF AllNatures, Possible
  <2> QED
    BY <2>2 DEF Init, Settlement!Init, Settlement!Unanswered
<1>4. TypeOK /\ TypeOK' /\ StageInv /\ AnswerInv' /\ [Next]_vars
        => [Settlement!Next]_Settlement!vars
  <2>1. ASSUME UNCHANGED vars PROVE UNCHANGED Settlement!vars
    BY <2>1 DEF vars, planning, answers, batch, world, Settlement!vars, Possible, Nature
  <2> QED
    BY <2>1, ParentSettles, UnitSettles DEF Next
<1> QED
  BY <1>1, <1>2, <1>3, <1>4, StageTypes, PTL DEF Spec, SettlesEachUnit, Settlement!Spec

-----------------------------------------------------------------------------
(* Executions.                                                             *)

\* Nothing was begun in a stage that has not begun.
LEMMA RunsFresh ==
  ASSUME EmptyBatch, pc' \notin {"drain", "recover"} PROVE RunsInv'
  BY DEF EmptyBatch, RunsInv, InPool

\* The steps of the parent keep RunsInv.
LEMMA RunsParent ==
  ASSUME TypeOK, StageInv, Settling, RunsInv, RunAll \/ RunRule \/ Upgrade \/ Crash \/ RemovalCut \/ Parent
  PROVE  RunsInv'
<1> USE DEF planning, cache, answers, batch, runner, world, InPool
<1>1. CASE RunAll \/ RunRule
  BY <1>1, RunsFresh DEF RunAll, RunRule, BeginRun
<1>2. CASE Crash \/ RemovalCut
  BY <1>2, RunsFresh DEF Crash, RemovalCut, Stop
<1>3. CASE Extract
  BY <1>3, RunsFresh DEF Extract, Stop, RunsInv
<1>4. CASE PlanPrepare \/ PlanInspect
  BY <1>4, RunsFresh DEF PlanPrepare, PlanInspect
<1>5. CASE StageEnd
  BY <1>5, RunsFresh DEF StageEnd, Stop
<1>6. CASE Upgrade
  BY <1>6 DEF Upgrade, RunsInv
<1>7. CASE StartStage
  BY <1>7 DEF StartStage, RunsInv, StageInv, Planned
<1>8. CASE SubmitRefused \/ RecoverEnd \/ SerialEnd
  BY <1>8 DEF SubmitRefused, RecoverEnd, SerialEnd, RunsInv
<1>9. CASE FlushPrepare \/ FlushInspect
  BY <1>9 DEF FlushPrepare, FlushInspect, RunsInv
<1>10. CASE Submit
  BY <1>10 DEF Submit, First, RunsInv, StageInv, TypeOK
<1>11. CASE SubmitEnd
  BY <1>11 DEF SubmitEnd, RunsInv, TypeOK, Futures
<1>12. CASE Wait
  <2>1. /\ pc = "wait" /\ pc' \in {"drain", "submit"} /\ UNCHANGED <<future, runs>>
        /\ (broken => degraded) /\ degraded \in BOOLEAN /\ broken \in BOOLEAN
    BY <1>12 DEF Wait, Settling, TypeOK
  <2>2. pc' = "drain" => degraded'
    BY <1>12, <2>1 DEF Wait
  <2>3. \A r \in Rules : measured'[r] = "none" =>
          measured[r] = "none" /\ (r \in flight => r \in flight' \/ future[r] = "lost")
    BY <1>12 DEF Wait, Measure, Settled, TypeOK
  <2> QED
    BY <2>1, <2>2, <2>3 DEF RunsInv
<1>13. CASE Drain
  <2>1. /\ pc = "drain" /\ pc' = "recover" /\ UNCHANGED <<future, runs, degraded>>
    BY <1>13 DEF Drain
  <2>2. \A r \in Rules : measured'[r] = "none" =>
          measured[r] = "none" /\ future[r] \in {"none", "lost"}
    BY <1>13 DEF Drain, Measure, Settled, RunsInv, TypeOK
  <2> QED
    BY <2>1, <2>2 DEF RunsInv
<1>14. CASE RecoverStart
  BY <1>14 DEF RecoverStart, Unmeasured, Starts, RunsInv, TypeOK
<1>15. CASE SerialStart
  BY <1>15 DEF SerialStart, Starts, RunsInv, TypeOK
<1> QED
  BY <1>1, <1>2, <1>3, <1>4, <1>5, <1>6, <1>7, <1>8, <1>9, <1>10, <1>11, <1>12, <1>13, <1>14,
     <1>15 DEF Parent

\* The steps of the units keep RunsInv.
LEMMA RunsUnit ==
  ASSUME TypeOK, StageInv, RunsInv, NEW r \in Rules, Unit(r)
  PROVE  RunsInv'
<1> USE DEF planning, cache, answers, batch, runner, world, InPool
<1>1. CASE UnitStarts(r)
  BY <1>1 DEF UnitStarts, Starts, RunsInv, StageInv, TypeOK
<1>2. CASE UnitReturns(r)
  BY <1>2 DEF UnitReturns, Answer, RunsInv, StageInv, TypeOK
<1>3. CASE UnitDies(r)
  BY <1>3 DEF UnitDies, RunsInv, StageInv, TypeOK
<1>4. CASE RecoverReturns(r) \/ SerialReturns(r)
  BY <1>4 DEF RecoverReturns, SerialReturns, Answer, RunsInv, TypeOK
<1>5. CASE RecoverFails(r)
  BY <1>5 DEF RecoverFails, Crashed, RunsInv, TypeOK
<1>6. CASE SerialDies(r)
  BY <1>6, RunsFresh DEF SerialDies, Stop
<1> QED
  BY <1>1, <1>2, <1>3, <1>4, <1>5, <1>6 DEF Unit

\* A unit is begun only without an answer, and again only once, after its
\* first execution was lost with the pool.
LEMMA BeginsOnce ==
  ASSUME TypeOK, StageInv, RunsInv, Next, NEW r \in Rules, Begins(r)
  PROVE  /\ measured[r] = "none"
         /\ runs[r] > 0 => degraded /\ runs[r] = 1 /\ future[r] = "lost"
<1> USE DEF planning, cache, answers, batch, runner, world, InPool
<1>1. CASE RunAll \/ RunRule \/ Crash \/ RemovalCut \/ Extract \/ PlanPrepare \/ PlanInspect \/ StageEnd
  BY <1>1 DEF RunAll, RunRule, BeginRun, Crash, RemovalCut, Extract, PlanPrepare, PlanInspect, StageEnd,
              Stop, EmptyBatch, Begins
<1>2. CASE Upgrade \/ StartStage \/ SubmitRefused \/ SubmitEnd \/ Wait \/ Drain
           \/ RecoverEnd \/ SerialEnd \/ FlushPrepare \/ FlushInspect
  BY <1>2 DEF Upgrade, StartStage, SubmitRefused, SubmitEnd, Wait, Drain, RecoverEnd, SerialEnd,
              FlushPrepare, FlushInspect, Begins
<1>3. CASE Submit
  BY <1>3 DEF Submit, Begins, TypeOK
<1>4. CASE RecoverStart
  BY <1>4 DEF RecoverStart, Unmeasured, Starts, Begins, RunsInv, TypeOK
<1>5. CASE SerialStart
  <2>1. r \in queue /\ pc = "serial"
    BY <1>5 DEF SerialStart, First, Starts, Begins, TypeOK
  <2> QED
    BY <2>1 DEF StageInv, RunsInv
<1>6. ASSUME NEW i \in Rules, Unit(i) PROVE measured[r] = "none" /\ runs[r] = 0
  <2>1. CASE UnitStarts(i)
    BY <2>1 DEF UnitStarts, Starts, Begins, StageInv, RunsInv, TypeOK
  <2>2. CASE UnitReturns(i) \/ UnitDies(i)
    BY <2>2 DEF UnitReturns, UnitDies, Answer, Begins, TypeOK
  <2>3. CASE RecoverReturns(i) \/ RecoverFails(i) \/ SerialReturns(i)
    BY <2>3 DEF RecoverReturns, RecoverFails, SerialReturns, Answer, Begins, TypeOK
  <2>4. CASE SerialDies(i)
    BY <2>4 DEF SerialDies, Stop, EmptyBatch, Begins
  <2> QED
    BY <1>6, <2>1, <2>2, <2>3, <2>4 DEF Unit
<1> QED
  BY <1>1, <1>2, <1>3, <1>4, <1>5, <1>6 DEF Next, Parent

\* A unit is executed again only when its first execution was lost with the
\* pool, and then once (_run_parallel, _recover_units).
THEOREM AgainOnlyLost == Spec => RunsAgainOnlyLost
<1>1. Init => StageInv /\ Settling /\ RunsInv
  BY DEF Init, StageInv, Planned, Settling, RunsInv, InPool
<1>2. TypeOK /\ StageInv /\ Settling /\ RunsInv /\ [Next]_vars
        => StageInv' /\ Settling' /\ RunsInv'
  <2>1. ASSUME StageInv, Settling, RunsInv, UNCHANGED vars
        PROVE  StageInv' /\ Settling' /\ RunsInv'
    BY <2>1 DEF vars, planning, cache, answers, batch, runner, world, StageInv, Planned,
                Settling, RunsInv, InPool
  <2>2. TypeOK /\ StageInv /\ Next => StageInv'
    BY StageInvPlan, StageInvWindow, StageInvAlone, StageInvUnit DEF Next, Parent
  <2>3. TypeOK /\ StageInv /\ Settling /\ Next => Settling'
    BY SettlingPlan, SettlingWindow, SettlingAlone, SettlingUnit DEF Next, Parent
  <2>4. TypeOK /\ StageInv /\ Settling /\ RunsInv /\ Next => RunsInv'
    BY RunsParent, RunsUnit DEF Next
  <2> QED
    BY <2>1, <2>2, <2>3, <2>4
<1>3. TypeOK /\ StageInv /\ RunsInv /\ [Next]_vars =>
        [\A r \in Rules : Begins(r) =>
           /\ measured[r] = "none"
           /\ runs[r] > 0 => degraded /\ runs[r] = 1 /\ future[r] = "lost"]_vars
  BY BeginsOnce
<1> QED
  BY <1>1, <1>2, <1>3, StageTypes, PTL DEF Spec, RunsAgainOnlyLost
-----------------------------------------------------------------------------
(* The results of the rules that behave.                                   *)

\* What behaves and has answered has answered "ok".
LEMMA GoodAnswer ==
  ASSUME AnswerInv, NEW r \in Rules, measured[r] # "none", Behaves(r, stage)
  PROVE  measured[r] = "ok"
  BY DEF AnswerInv, Possible, Nature, Behaves

\* The end of the process.
LEMMA InnocentStop ==
  ASSUME Stop PROVE InnocentInv'
  BY DEF Stop, InnocentInv

\* A step that changes nothing InnocentInv is about.
LEMMA InnocentKept ==
  ASSUME InnocentInv,
         UNCHANGED <<stage, scope, pending, match, nature, state, result, flushed>>,
         pc # "idle", stage = "inspect" => pc \notin {"plan"} \/ pc' = pc
  PROVE  InnocentInv'
  BY DEF InnocentInv, Innocent, Behaves, NotReady

\* Beginning a run and planning its stages: a rule that behaves is not put
\* aside.
LEMMA InnocentPlan ==
  ASSUME TypeOK, StageInv, InnocentInv,
         RunAll \/ RunRule \/ Upgrade \/ Crash \/ RemovalCut \/ Extract \/ PlanPrepare \/ PlanInspect
           \/ StartStage
  PROVE  InnocentInv'
<1> USE DEF planning, cache, answers, batch, runner, world
<1>1. CASE RunAll \/ RunRule
  BY <1>1 DEF RunAll, RunRule, BeginRun, InnocentInv, NotReady
<1>2. CASE Upgrade
  BY <1>2 DEF Upgrade, InnocentInv
<1>3. CASE Crash \/ RemovalCut
  BY <1>3, InnocentStop DEF Crash, RemovalCut
<1>4. CASE Extract
  BY <1>4, InnocentStop DEF Extract, InnocentInv, Innocent, Behaves, NotReady
<1>5. CASE PlanPrepare
  <2>1. /\ stage = "prepare" /\ stage' = "prepare" /\ pending' \subseteq Prepared
        /\ UNCHANGED <<scope, match, nature>>
    BY <1>5, RebuildInScope DEF PlanPrepare
  <2>2. \A r \in scope : match[r] = "some" => state'[r] \in {"HIT", "none"}
    BY <1>5 DEF PlanPrepare, TypeOK
  <2> QED
    BY <2>1, <2>2 DEF InnocentInv, Innocent, Behaves, NotReady
<1>6. CASE PlanInspect
  <2>1. /\ stage' = "inspect" /\ stage = "inspect" /\ pc = "plan" /\ flushed' = 0
        /\ UNCHANGED <<scope, match, nature, state>>
    BY <1>6 DEF PlanInspect, EmptyBatch
  <2>2. \A r \in scope : Innocent(r) => ~NotReady(r) /\ match[r] = "some"
    BY <2>1 DEF InnocentInv, Innocent
  <2>3. \A r \in scope : Innocent(r) => r \in pending' /\ ~(r <= 0)
    BY <1>6, <2>2, RunnerAssumption DEF PlanInspect, TypeOK, Rules
  <2> QED
    BY <2>1, <2>2, <2>3 DEF InnocentInv, Innocent, Behaves, NotReady
<1>7. CASE StartStage
  BY <1>7, InnocentKept DEF StartStage
<1> QED
  BY <1>1, <1>2, <1>3, <1>4, <1>5, <1>6, <1>7

\* Running the units.
LEMMA InnocentUnits ==
  ASSUME TypeOK, StageInv, InnocentInv,
         Submit \/ SubmitRefused \/ SubmitEnd \/ Wait \/ Drain \/ RecoverStart \/ RecoverEnd
           \/ SerialStart \/ SerialEnd \/ \E r \in Rules : Unit(r)
  PROVE  InnocentInv'
<1> USE DEF planning, cache, answers, batch, runner, world
<1>1. CASE Submit \/ SubmitRefused \/ SubmitEnd \/ Wait \/ Drain
  BY <1>1, InnocentKept DEF Submit, SubmitRefused, SubmitEnd, Wait, Drain
<1>2. CASE RecoverStart \/ RecoverEnd \/ SerialStart \/ SerialEnd
  BY <1>2, InnocentKept DEF RecoverStart, RecoverEnd, SerialStart, SerialEnd
<1>3. ASSUME NEW r \in Rules, Unit(r) PROVE InnocentInv'
  <2>1. CASE UnitStarts(r) \/ UnitReturns(r) \/ UnitDies(r)
    BY <2>1, InnocentKept DEF UnitStarts, UnitReturns, UnitDies
  <2>2. CASE RecoverReturns(r) \/ RecoverFails(r) \/ SerialReturns(r)
    BY <2>2, InnocentKept DEF RecoverReturns, RecoverFails, SerialReturns
  <2>3. CASE SerialDies(r)
    BY <2>3, InnocentStop DEF SerialDies
  <2> QED
    BY <1>3, <2>1, <2>2, <2>3 DEF Unit
<1> QED
  BY <1>1, <1>2, <1>3

\* A prepare that behaves is flushed as ready, a check that behaves with its
\* own result.
LEMMA InnocentFlush ==
  ASSUME TypeOK, StageInv, Settling, AnswerInv, InnocentInv,
         FlushPrepare \/ FlushInspect \/ StageEnd
  PROVE  InnocentInv'
<1> USE DEF planning, cache, answers, batch, runner, world
<1>1. CASE FlushPrepare
  <2>1. /\ pc = "flush" /\ stage = "prepare" /\ stage' = "prepare" /\ Next1 \in Rules
        /\ UNCHANGED <<scope, match, nature, pending>>
    BY <1>1, RunnerAssumption DEF FlushPrepare, Next1, TypeOK, Rules
  <2>2. Innocent(Next1) /\ measured[Next1] # "none" => measured[Next1] = "ok"
    <3>1. measured[Next1] # "none" => Next1 \in Prepared
      BY <2>1 DEF Settling, InnocentInv
    <3> QED
      BY <2>1, <3>1, GoodAnswer DEF Innocent
  <2>3. \A r \in Rules : r # Next1 \/ measured[r] = "none" => state'[r] = state[r]
    BY <1>1 DEF FlushPrepare, TypeOK
  <2>4. measured[Next1] = "ok" => state'[Next1] = "REBUILT"
    BY <1>1, <2>1 DEF FlushPrepare, TypeOK
  <2>5. \A r \in scope : Innocent(r) => ~NotReady(r)'
    BY <2>1, <2>2, <2>3, <2>4 DEF InnocentInv, NotReady, TypeOK
  <2> QED
    BY <2>1, <2>5 DEF InnocentInv, Innocent, Behaves
<1>2. CASE FlushInspect
  <2>1. /\ pc = "flush" /\ pc' = "flush" /\ stage = "inspect" /\ stage' = "inspect"
        /\ Next1 \in Rules /\ flushed' = Next1 /\ Next1 = flushed + 1 /\ flushed \in Nat
        /\ UNCHANGED <<scope, match, nature, pending, state>>
    BY <1>2, RunnerAssumption DEF FlushInspect, Next1, TypeOK, Rules
  <2>2. Innocent(Next1) /\ Next1 \in pending => measured[Next1] = "ok"
    BY <2>1, GoodAnswer DEF Settling, Innocent
  <2>3. \A r \in Rules : r <= flushed' => r <= flushed \/ r = Next1
    BY <2>1, RunnerAssumption DEF Rules
  <2>4. \A r \in Rules : r # Next1 => result'[r] = result[r]
    BY <1>2 DEF FlushInspect, TypeOK
  <2>5. Next1 \in pending /\ measured[Next1] = "ok" => result'[Next1] = "ok"
    BY <1>2, <2>1 DEF FlushInspect, TypeOK
  <2>6. \A r \in scope : Innocent(r) => r \in pending /\ (r <= flushed' => result'[r] = "ok")
    BY <2>1, <2>2, <2>3, <2>4, <2>5 DEF InnocentInv, TypeOK
  <2> QED
    BY <2>1, <2>6 DEF InnocentInv, Innocent, Behaves, NotReady
<1>3. CASE StageEnd
  <2>1. CASE stage = "prepare"
    BY <1>3, <2>1 DEF StageEnd, InnocentInv, Innocent, Behaves, NotReady
  <2>2. CASE stage # "prepare"
    BY <1>3, <2>2, InnocentStop DEF StageEnd
  <2> QED
    BY <2>1, <2>2
<1> QED
  BY <1>1, <1>2, <1>3

\* A rule whose prepare and check behave has its own result at the end of
\* the run, whatever the other units do.
THEOREM InnocentsUnaffected == Spec => []InnocentUnaffected
<1>1. Init => StageInv /\ Settling /\ AnswerInv /\ InnocentInv
  BY DEF Init, StageInv, Planned, Settling, AnswerInv, InnocentInv
<1>2. TypeOK /\ StageInv /\ Settling /\ AnswerInv /\ InnocentInv /\ [Next]_vars
        => StageInv' /\ Settling' /\ AnswerInv' /\ InnocentInv'
  <2>1. ASSUME StageInv, Settling, AnswerInv, InnocentInv, UNCHANGED vars
        PROVE  StageInv' /\ Settling' /\ AnswerInv' /\ InnocentInv'
    BY <2>1, AnswerKept DEF vars, planning, cache, answers, batch, runner, world, StageInv,
       Planned, Settling, InnocentInv, Innocent, Behaves, NotReady
  <2>2. TypeOK /\ StageInv /\ Next => StageInv'
    BY StageInvPlan, StageInvWindow, StageInvAlone, StageInvUnit DEF Next, Parent
  <2>3. TypeOK /\ StageInv /\ Settling /\ Next => Settling'
    BY SettlingPlan, SettlingWindow, SettlingAlone, SettlingUnit DEF Next, Parent
  <2>4. TypeOK /\ StageInv /\ AnswerInv /\ Next => AnswerInv'
    BY AnswerParent, AnswerUnit DEF Next
  <2>5. TypeOK /\ StageInv /\ Settling /\ AnswerInv /\ InnocentInv /\ Next => InnocentInv'
    BY InnocentPlan, InnocentUnits, InnocentFlush DEF Next, Parent
  <2> QED
    BY <2>1, <2>2, <2>3, <2>4, <2>5
<1>3. TypeOK /\ InnocentInv => InnocentUnaffected
  BY RunnerAssumption DEF InnocentInv, InnocentUnaffected, Innocent, RunOver, TypeOK, Rules
<1> QED
  BY <1>1, <1>2, <1>3, StageTypes, PTL DEF Spec
=============================================================================
