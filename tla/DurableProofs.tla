--------------------------- MODULE DurableProofs ---------------------------
(***************************************************************************)
(* The composition of the run durable: what is proved of each component    *)
(* by itself holds of the components side by side.                         *)
(***************************************************************************)
EXTENDS Durable, ExtractionProofs, RecordsProofs, AttributionProofs

\* A step of the composition is a step of each component or leaves it alone.
LEMMA StepOfEach ==
  [DurableNext]_durableVars =>
    /\ [SiteNext]_siteVars /\ [RouteNext]_routeVars /\ [ClassNext]_classVars
    /\ [RecNext]_recVars /\ [InvNext]_invVars /\ [AttrNext]_attrVars
  BY DEF DurableNext, durableVars

\* A behavior of the composition is one of every component.
THEOREM DurableIsEach ==
  DurableSpec => SiteSpec /\ RouteSpec /\ ClassSpec /\ RecSpec /\ InvSpec /\ AttrSpec
<1>1. DurableInit => SiteInit /\ RouteInit /\ ClassInit /\ RecInit /\ InvInit /\ AttrInit
  BY DEF DurableInit
<1> QED
  BY <1>1, StepOfEach, PTL DEF DurableSpec, SiteSpec, RouteSpec, ClassSpec, RecSpec, InvSpec, AttrSpec

\* DurableTypeOK: the files and rows of all six have the types of the code's values.
THEOREM DurableTypes == DurableSpec => []DurableTypeOK
<1>1. DurableInit => turn \in Components
  BY DEF DurableInit
<1>2. turn \in Components /\ [DurableNext]_durableVars => (turn \in Components)'
  BY DEF DurableNext, durableVars, Components
<1>3. AttrTypes => AttrTypeOK
  BY DEF AttrTypes
<1>4. AttrSpec => []AttrTypeOK
  BY <1>3, AttrInvInit, AttrInvStep, PTL DEF AttrSpec
<1>5. DurableSpec => [](turn \in Components)
  BY <1>1, <1>2, PTL DEF DurableSpec
<1> QED
  BY <1>4, <1>5, DurableIsEach, SiteTypes, RouteTypes, ClassTypes, RecTypes, InvTypes, PTL DEF DurableTypeOK

\* What the run checks of the steps and states of the six, each of which knows
\* nothing of the others: the scene can be trusted, the routing is sound, the
\* records, the ledger and the attributions are safe, no landed file is written
\* over, a start leaves settled tasks alone, changes are audited, edits survive.
THEOREM DurableIsSafe ==
  DurableSpec => /\ [](SceneTrusted /\ RoutingSound /\ RecordsSafe /\ LedgerSound /\ AttrSafe)
                 /\ NeverOverwrites /\ RestartLeavesSettled /\ ChangesAudited /\ EditsSurvive
<1>1. DurableSpec => [](SceneTrusted /\ RoutingSound /\ RecordsSafe /\ LedgerSound /\ AttrSafe)
  BY DurableIsEach, SceneIsTrusted, RoutingIsSound, RecordsAreSafe, LedgerIsSound, AttrIsSafe, PTL
<1>2. DurableSpec => NeverOverwrites /\ RestartLeavesSettled /\ ChangesAudited /\ EditsSurvive
  BY DurableIsEach, NothingOverwritten, StartKeepsSettled, OverwritesAudited, EditsAreKept
<1> QED
  BY <1>1, <1>2
=============================================================================
