-------------------------- MODULE ExtractionProofs --------------------------
(***************************************************************************)
(* Proofs about SceneSite, RoutePatterns and Classification: the scene of  *)
(* a task, the configuration that says what goes into it and the landing   *)
(* of the files, for any number of target roots, runs, faults and crashes, *)
(* any configurations and packages.                                        *)
(*                                                                         *)
(* SceneIsTrusted: a classification that passes leaves a whole scene,      *)
(* crashes alone never leave a manifest over roots that are not its        *)
(* catalog, and the evidence is the package of the task.  All three speak  *)
(* of what a run leaves on the disk, so SiteInv says what it holds between *)
(* its steps: of the evidence (EvidenceInv), of the roots it has exchanged *)
(* and those it has still to exchange (ExchangeInv), and of the disk as    *)
(* long as no step has failed (CrashInv).                                  *)
(*                                                                         *)
(* SiteTypes and RouteTypes: what the disk can hold, and that a search     *)
(* only meets states of its automata and leaves nothing behind (WalkInv).  *)
(*                                                                         *)
(* RoutingIsSound: what validation clears the matcher keeps apart.  The    *)
(* matcher's backtracking succeeds where a file can be cut along the       *)
(* elements of a pattern (Cuts); cuts are a run of the automaton of the    *)
(* pattern over the word of the file (Run, Path), whose letters are the    *)
(* symbols that both patterns name and OTHER.  SearchInv says that the     *)
(* successors of every visited pair are visited or still to visit, so that *)
(* a search which ends has been at the last states of the two runs of any  *)
(* file that fits both patterns (SearchClears).  ClearedInv collects what  *)
(* the ended searches have shown.  That every file has a route needs that  *)
(* the choices of the scan, of a scene among candidates and of a route     *)
(* among those that match, are of a finite set in a strict order           *)
(* (MaximalExists).                                                        *)
(*                                                                         *)
(* NothingOverwritten and FailuresStayLocal: the target of a file is the   *)
(* count of the files that wanted the same one, so it is free only because *)
(* their slots have no gap (SlotInv), also after part of a file was left;  *)
(* and the manifest is accepted because every entry has an identity and a  *)
(* target of its own, which what is still to land does not ask for         *)
(* (CatalogInv).                                                           *)
(***************************************************************************)
EXTENDS SceneSite, RoutePatterns, Classification, TLAPS, WellFoundedInduction, FiniteSetTheorems

AfterEvidence == {"classify", "land", "prepare", "hide", "swap_out", "swap_in", "place", "tidy"}
Exchanging    == {"hide", "swap_out", "swap_in", "place"}

\* A manifest on the disk was written for evidence of the package of the task.
ManifestInv(m) == m = NoManifest \/ \E c \in DOMAIN RootsOf, e \in {Expected, Foreign} :
                                      m = ManifestFor(c, e) /\ (e = Expected \/ putBack)

ManifestsInv == ManifestInv(manifest) /\ ManifestInv(manifestPrev) /\ ManifestInv(manifestStaging)

\* The evidence, where it is and where it is being built.
EvidenceInv ==
  /\ package \in {Expected, Foreign} /\ layout \in DOMAIN RootsOf /\ putBack \in BOOLEAN
  /\ evidence \in {Absent, Damaged, Expected, Foreign} /\ evidencePrev \in {Absent, Damaged, Expected, Foreign}
  /\ evidence = Foreign \/ evidencePrev = Foreign => putBack
  /\ siteStep = "verify" => /\ evidenceStaging \in {Expected, Foreign}
                            /\ package = Expected /\ evidenceStaging = Foreign => putBack
  /\ siteStep \in {"move_out", "move_in"} => evidenceStaging = Expected \/ (evidenceStaging = Foreign /\ putBack)
  /\ siteStep \in AfterEvidence => evidence \in {Expected, Foreign}

\* The roots of the publication under way.
ExchangeInv ==
  /\ target = [r \in SiteRoots |-> target[r]] /\ staged = [r \in SiteRoots |-> staged[r]] /\ swapTodo \subseteq SiteRoots
  /\ siteStep = "prepare" => staged = Classified(layout, evidence)
  /\ siteStep \in Exchanging =>
       /\ manifestStaging = ManifestFor(layout, evidence)
       /\ \A r \in SiteRoots :
            IF r \in swapTodo THEN staged[r] = Classified(layout, evidence)[r] ELSE target[r] = Classified(layout, evidence)[r]
  /\ siteStep \in {"swap_out", "swap_in"} => swapTodo # {} /\ manifest = NoManifest
  /\ siteStep = "place" => swapTodo = {} /\ manifest = NoManifest
  /\ siteStep = "tidy" => /\ manifest = ManifestFor(layout, evidence) /\ target = Classified(layout, evidence)
                          /\ manifestStaging = NoManifest

\* No step has failed: every root is in the catalog of the manifest, or damaged.
CrashInv ==
  /\ DOMAIN budget = {"runs", "faults", "crashes", "edits"} /\ budget.faults \in 0..SiteFaults
  /\ siteStep = "undo" => budget.faults < SiteFaults
  /\ budget.faults = SiteFaults /\ manifest # NoManifest =>
       \A r \in SiteRoots : target[r] \in {manifest.catalog[r], Broken}

SiteInv == EvidenceInv /\ ManifestsInv /\ ExchangeInv /\ CrashInv /\ DoneIsWhole
-----------------------------------------------------------------------------
(* The operators of the model                                              *)

\* A nonempty set of roots has a first one.
LEMMA MinRoot ==
  ASSUME NEW S \in SUBSET SiteRoots, S # {}
  PROVE  Min(S) \in S
<1>1. PICK m \in S : \A y \in S : <<y, m>> \notin OpToRel(<, Nat)
  BY SiteAssumption, NatLessThanWellFounded, WFMin
<1>2. \A y \in S : m =< y
  <2> TAKE y \in S
  <2>1. ~(y < m)
    BY <1>1, SiteAssumption, Zenon DEF OpToRel
  <2>2. y \in Nat /\ m \in Nat
    BY SiteAssumption
  <2> QED
    BY <2>1, <2>2
<1> QED
  BY <1>2 DEF Min

\* What classifying puts into the roots.
LEMMA ClassifiedRoots ==
  ASSUME NEW c, NEW e
  PROVE  /\ DOMAIN Classified(c, e) = SiteRoots
         /\ \A r \in SiteRoots : Classified(c, e)[r] = IF r \in RootsOf[c] THEN <<c, e, r>> ELSE Empty
         /\ \A r : <<c, e, r>> # Empty /\ <<c, e, r>> # Broken
  BY DEF Classified, Empty, Broken

\* A manifest and its catalog.
LEMMA ManifestFields ==
  ASSUME NEW c, NEW e
  PROVE  /\ ManifestFor(c, e).config = c /\ ManifestFor(c, e).evidence = e
         /\ ManifestFor(c, e).catalog = Classified(c, e)
  BY DEF ManifestFor

\* A step that costs something, and one that costs nothing.
LEMMA Spent ==
  ASSUME CrashInv, NEW kind \in {"runs", "faults", "crashes", "edits"}, Spend(kind)
  PROVE  /\ DOMAIN budget' = {"runs", "faults", "crashes", "edits"}
         /\ kind = "faults" => budget'.faults \in 0..SiteFaults /\ budget'.faults < SiteFaults
         /\ kind # "faults" => budget'.faults = budget.faults
<1>1. SiteFaults \in Nat
  BY SiteAssumption
<1> QED
  BY <1>1 DEF CrashInv, Spend
-----------------------------------------------------------------------------
(* The steps                                                               *)

LEMMA SiteInitSound == SiteInit => SiteInv
<1> SUFFICES ASSUME SiteInit PROVE SiteInv
  OBVIOUS
<1>1. EvidenceInv
  BY SiteAssumption DEF SiteInit, EvidenceInv, AfterEvidence
<1>2. ExchangeInv /\ ManifestsInv
  BY DEF SiteInit, ExchangeInv, Exchanging, ManifestsInv, ManifestInv, NoTree
<1>3. CrashInv
  BY SiteAssumption DEF SiteInit, CrashInv
<1> QED
  BY <1>1, <1>2, <1>3 DEF SiteInit, SiteInv, DoneIsWhole

\* The evidence through every step.
LEMMA EvidenceStep ==
  ASSUME SiteInv, [SiteNext]_siteVars
  PROVE  EvidenceInv'
<1> USE SiteAssumption DEF SiteInv, EvidenceInv, AfterEvidence, outside
<1>1. CASE StartRun
  BY <1>1 DEF StartRun, mainFiles
<1>2. CASE CheckEvidence
  <2>1. ReusableEvidence => evidence \in {Expected, Foreign}
    BY DEF ReusableEvidence, ManifestsInv, ManifestInv, ManifestFor
  <2> QED
    BY <1>2, <2>1 DEF CheckEvidence
<1>3. CASE Unpack
  BY <1>3 DEF Unpack
<1>4. CASE VerifyUnpacked
  BY <1>4 DEF VerifyUnpacked
<1>5. CASE MoveOut
  BY <1>5 DEF MoveOut
<1>6. CASE MoveIn
  <2>1. siteStep = "move_in" /\ evidencePrev' = Absent /\ UNCHANGED <<package, layout, putBack>>
    BY <1>6 DEF MoveIn
  <2>2. \/ siteStep' = "classify" /\ evidence' = evidenceStaging
        \/ siteStep' = "failed" /\ evidence' = evidencePrev
    BY <1>6 DEF MoveIn
  <2>3. evidenceStaging = Expected \/ (evidenceStaging = Foreign /\ putBack)
    BY <2>1
  <2>4. CASE siteStep' = "classify" /\ evidence' = evidenceStaging
    BY <2>1, <2>3, <2>4
  <2>5. CASE siteStep' = "failed" /\ evidence' = evidencePrev
    BY <2>1, <2>5
  <2> QED
    BY <2>2, <2>4, <2>5
<1>7. CASE CheckScene
  BY <1>7 DEF CheckScene, mainFiles
<1>8. CASE Land
  BY <1>8 DEF Land, mainFiles
<1>9. CASE Prepare
  BY <1>9 DEF Prepare, mainFiles
<1>10. CASE HideManifest
  BY <1>10 DEF HideManifest, mainFiles
<1>11. CASE SwapOut
  BY <1>11 DEF SwapOut, mainFiles
<1>12. CASE SwapIn
  BY <1>12 DEF SwapIn, mainFiles
<1>13. CASE PlaceManifest
  BY <1>13 DEF PlaceManifest, mainFiles
<1>14. CASE Tidy
  BY <1>14 DEF Tidy, mainFiles
<1>15. CASE UndoRoot
  BY <1>15 DEF UndoRoot, mainFiles
<1>16. CASE RestoreManifest
  BY <1>16 DEF RestoreManifest, mainFiles
<1>17. CASE SiteCrash
  BY <1>17 DEF SiteCrash, mainFiles
<1>18. CASE ReplacePackage \/ PutBackPackage
  BY <1>18 DEF ReplacePackage, PutBackPackage, mainFiles
<1>19. CASE EditBetweenRuns
  BY <1>19 DEF EditBetweenRuns, Resting
<1>20. CASE UNCHANGED siteVars
  BY <1>20 DEF siteVars
<1> QED
  BY <1>1, <1>2, <1>3, <1>4, <1>5, <1>6, <1>7, <1>8, <1>9, <1>10, <1>11, <1>12, <1>13, <1>14, <1>15, <1>16, <1>17,
     <1>18, <1>19, <1>20 DEF SiteNext, RunStep
\* The manifests through every step.
LEMMA ManifestsStep ==
  ASSUME SiteInv, [SiteNext]_siteVars
  PROVE  ManifestsInv'
<1>1. putBack => putBack'
  BY DEF SiteNext, RunStep, siteVars, outside, StartRun, CheckEvidence, Unpack, VerifyUnpacked, MoveOut, MoveIn, CheckScene,
     Land, Prepare, HideManifest, SwapOut, SwapIn, PlaceManifest, Tidy, UndoRoot, RestoreManifest, SiteCrash,
     ReplacePackage, PutBackPackage, EditBetweenRuns
<1>2. ASSUME NEW m, ManifestInv(m) PROVE ManifestInv(m)'
  BY <1>1, <1>2 DEF ManifestInv
<1>3. PICK held : held = {manifest, manifestPrev, manifestStaging}
  OBVIOUS
<1>4. \A m \in held : ManifestInv(m)
  BY <1>3 DEF SiteInv, ManifestsInv
<1>5. ASSUME NEW m, m \in held \/ m = NoManifest PROVE ManifestInv(m)'
  BY <1>2, <1>4, <1>5 DEF ManifestInv
<1>6. CASE Prepare
  <2>1. ASSUME NEW m, m = ManifestFor(layout, evidence) PROVE ManifestInv(m)'
    <3>1. /\ siteStep = "prepare" /\ layout \in DOMAIN RootsOf /\ evidence \in {Expected, Foreign}
          /\ evidence = Foreign => putBack
      BY <1>6 DEF Prepare, SiteInv, EvidenceInv, AfterEvidence
    <3> QED
      BY <1>1, <2>1, <3>1 DEF ManifestInv
  <2>2. PICK m1, m2, m3 : m1 = manifest' /\ m2 = manifestPrev' /\ m3 = manifestStaging'
    OBVIOUS
  <2>3. m1 \in held /\ m2 = NoManifest /\ (m3 = NoManifest \/ m3 = ManifestFor(layout, evidence))
    BY <1>3, <1>6, <2>2 DEF Prepare
  <2>4. ManifestInv(m1)' /\ ManifestInv(m2)' /\ ManifestInv(m3)'
    BY <1>5, <2>1, <2>3
  <2> QED
    BY <2>2, <2>4 DEF ManifestsInv, ManifestInv
<1>7. CASE {manifest', manifestPrev', manifestStaging'} \subseteq held \cup {NoManifest}
  <2>1. PICK m1, m2, m3 : m1 = manifest' /\ m2 = manifestPrev' /\ m3 = manifestStaging'
    OBVIOUS
  <2>2. ManifestInv(m1)' /\ ManifestInv(m2)' /\ ManifestInv(m3)'
    BY <1>5, <1>7, <2>1
  <2> QED
    BY <2>1, <2>2 DEF ManifestsInv, ManifestInv
<1>8. ASSUME [SiteNext]_siteVars, ~Prepare
      PROVE  {manifest', manifestPrev', manifestStaging'} \subseteq held \cup {NoManifest}
  <2>1. CASE HideManifest \/ PlaceManifest \/ Tidy \/ RestoreManifest
    BY <1>3, <2>1 DEF HideManifest, PlaceManifest, Tidy, RestoreManifest
  <2>2. CASE UNCHANGED controls
    BY <1>3, <2>2 DEF controls
  <2> QED
    BY <1>8, <2>1, <2>2 DEF SiteNext, RunStep, siteVars, controls, StartRun, CheckEvidence, Unpack, VerifyUnpacked, MoveOut, MoveIn,
       CheckScene, Land, SwapOut, SwapIn, UndoRoot, SiteCrash, ReplacePackage, PutBackPackage, EditBetweenRuns
<1> QED
  BY <1>6, <1>7, <1>8

\* The roots through every step.
LEMMA ExchangeStep ==
  ASSUME SiteInv, [SiteNext]_siteVars
  PROVE  ExchangeInv'
<1> USE DEF SiteInv, ExchangeInv, Exchanging, outside, trees, controls, mainFiles, runMemory
<1>1. CASE StartRun
  BY <1>1 DEF StartRun
<1>2. CASE CheckEvidence
  BY <1>2 DEF CheckEvidence
<1>3. CASE Unpack \/ VerifyUnpacked \/ MoveOut \/ MoveIn
  BY <1>3 DEF Unpack, VerifyUnpacked, MoveOut, MoveIn
<1>4. CASE CheckScene
  BY <1>4 DEF CheckScene, NoTree
<1>5. CASE Land
  <2>1. staged' = [r \in SiteRoots |-> staged'[r]]
    BY <1>5 DEF Land, NoTree, Classified
  <2> QED
    BY <1>5, <2>1 DEF Land
<1>6. CASE Prepare
  <2>1. SwapRoots \subseteq SiteRoots /\ \A r \in SiteRoots \ SwapRoots : r \notin RootsOf[layout] /\ target[r] = Empty
    BY SiteAssumption DEF SwapRoots, EvidenceInv
  <2>2. \A r \in SiteRoots : IF r \in SwapRoots THEN staged[r] = Classified(layout, evidence)[r]
                                               ELSE target[r] = Classified(layout, evidence)[r]
    <3> TAKE r \in SiteRoots
    <3>1. staged = Classified(layout, evidence)
      BY <1>6 DEF Prepare
    <3>2. r \notin SwapRoots => target[r] = Empty /\ Classified(layout, evidence)[r] = Empty
      BY <2>1 DEF Classified
    <3> QED
      BY <3>1, <3>2
  <2>3. siteStep' = "failed" => staged' = [r \in SiteRoots |-> staged'[r]]
    BY <1>6 DEF Prepare, NoTree
  <2> HIDE DEF SwapRoots
  <2> QED
    BY <1>6, <2>1, <2>2, <2>3 DEF Prepare
<1>7. CASE HideManifest
  BY <1>7 DEF HideManifest
<1>8. CASE SwapOut
  <2>1. Min(swapTodo) \in swapTodo
    BY <1>8, MinRoot DEF SwapOut
  <2> QED
    BY <1>8, <2>1 DEF SwapOut
<1>9. CASE SwapIn
  <2>1. Min(swapTodo) \in swapTodo
    BY <1>9, MinRoot DEF SwapIn
  <2> QED
    BY <1>9, <2>1 DEF SwapIn
<1>10. CASE PlaceManifest
  <2>1. siteStep' = "tidy" => target = Classified(layout, evidence)
    <3>1. \A r \in SiteRoots : target[r] = Classified(layout, evidence)[r]
      BY <1>10 DEF PlaceManifest
    <3>2. target = [r \in SiteRoots |-> target[r]] /\ Classified(layout, evidence) = [r \in SiteRoots |-> Classified(layout, evidence)[r]]
      BY DEF Classified
    <3> QED
      BY <3>1, <3>2
  <2> QED
    BY <1>10, <2>1 DEF PlaceManifest
<1>11. CASE Tidy
  BY <1>11 DEF Tidy, NoTree
<1>12. CASE UndoRoot
  BY <1>12 DEF UndoRoot
<1>13. CASE RestoreManifest
  BY <1>13 DEF RestoreManifest, NoTree
<1>14. CASE SiteCrash
  BY <1>14 DEF SiteCrash
<1>15. CASE ReplacePackage \/ PutBackPackage
  BY <1>15 DEF ReplacePackage, PutBackPackage
<1>16. CASE EditBetweenRuns
  BY <1>16 DEF EditBetweenRuns, Resting
<1>17. CASE UNCHANGED siteVars
  BY <1>17 DEF siteVars
<1> QED
  BY <1>1, <1>2, <1>3, <1>4, <1>5, <1>6, <1>7, <1>8, <1>9, <1>10, <1>11, <1>12, <1>13, <1>14, <1>15, <1>16, <1>17
     DEF SiteNext, RunStep
\* What a step may do with the budget of faults: only a rollback follows one.
FaultsGoDown ==
  /\ DOMAIN budget' = {"runs", "faults", "crashes", "edits"} /\ budget'.faults \in 0..SiteFaults
  /\ budget'.faults =< budget.faults
  /\ siteStep' = "undo" => budget'.faults < SiteFaults

LEMMA FaultsSpent ==
  ASSUME SiteInv, [SiteNext]_siteVars
  PROVE  FaultsGoDown
<1>1. SiteFaults \in Nat /\ CrashInv
  BY SiteAssumption DEF SiteInv
<1>2. ASSUME Fault PROVE FaultsGoDown
  <2>1. budget'.faults = budget.faults - 1 /\ DOMAIN budget' = DOMAIN budget /\ budget.faults > 0
    BY <1>1, <1>2 DEF Fault, Spend, CrashInv
  <2> QED
    BY <1>1, <2>1 DEF CrashInv, FaultsGoDown
<1>3. ASSUME NoFault \/ Spend("runs") \/ Spend("crashes") \/ Spend("edits"), siteStep' = "undo" => siteStep = "undo"
      PROVE  FaultsGoDown
  <2>1. budget'.faults = budget.faults /\ DOMAIN budget' = DOMAIN budget
    BY <1>1, <1>3 DEF NoFault, Spend, CrashInv
  <2> QED
    BY <1>1, <1>3, <2>1 DEF CrashInv, FaultsGoDown
<1>4. CASE StartRun \/ SiteCrash \/ ReplacePackage \/ PutBackPackage \/ EditBetweenRuns
  BY <1>3, <1>4 DEF StartRun, SiteCrash, ReplacePackage, PutBackPackage, EditBetweenRuns, NoFault
<1>5. CASE RunStep
  <2>1. Fault \/ (NoFault /\ (siteStep' = "undo" => siteStep = "undo"))
    BY <1>5 DEF RunStep, CheckEvidence, Unpack, VerifyUnpacked, MoveOut, MoveIn, CheckScene, Land, Prepare, HideManifest,
       SwapOut, SwapIn, PlaceManifest, Tidy, UndoRoot, RestoreManifest
  <2> QED
    BY <1>2, <1>3, <2>1
<1>6. CASE UNCHANGED siteVars
  BY <1>3, <1>6 DEF siteVars, NoFault
<1> QED
  BY <1>4, <1>5, <1>6 DEF SiteNext

\* The roots of the manifest through every step, as long as none has failed.
LEMMA CrashStep ==
  ASSUME SiteInv, [SiteNext]_siteVars
  PROVE  CrashInv'
<1>1. FaultsGoDown /\ CrashInv /\ ExchangeInv /\ SiteFaults \in Nat
  BY FaultsSpent, SiteAssumption DEF SiteInv
<1> SUFFICES ASSUME budget'.faults = SiteFaults, manifest' # NoManifest, NEW r \in SiteRoots
             PROVE  target'[r] \in {manifest'.catalog[r], Broken}
  BY <1>1 DEF CrashInv, FaultsGoDown
<1>2. budget.faults = SiteFaults /\ siteStep # "undo" /\ siteStep' # "undo" /\ ~Fault
  BY <1>1 DEF CrashInv, FaultsGoDown, Fault, Spend
<1>3. manifest # NoManifest => target[r] \in {manifest.catalog[r], Broken}
  BY <1>1, <1>2 DEF CrashInv
<1>4. CASE manifest' = manifest /\ target'[r] \in {target[r], Broken}
  BY <1>3, <1>4
<1>5. CASE HideManifest \/ SwapOut \/ SwapIn
  BY <1>1, <1>2, <1>5 DEF HideManifest, SwapOut, SwapIn, ExchangeInv, controls
<1>6. CASE PlaceManifest
  <2>1. siteStep = "place" /\ manifest' = manifestStaging /\ target' = target
    BY <1>2, <1>6 DEF PlaceManifest, trees
  <2>2. manifestStaging = ManifestFor(layout, evidence) /\ target[r] = Classified(layout, evidence)[r]
    BY <1>1, <2>1 DEF ExchangeInv, Exchanging
  <2> QED
    BY <2>1, <2>2, ManifestFields
<1>7. CASE EditBetweenRuns
  <2>1. target'[r] \in {target[r], Broken}
    BY <1>1, <1>7 DEF EditBetweenRuns, ExchangeInv
  <2> QED
    BY <1>4, <1>7, <2>1 DEF EditBetweenRuns, controls
<1>8. CASE StartRun \/ CheckEvidence \/ Unpack \/ VerifyUnpacked \/ MoveOut \/ MoveIn \/ CheckScene \/ Land
  BY <1>4, <1>8 DEF StartRun, CheckEvidence, Unpack, VerifyUnpacked, MoveOut, MoveIn, CheckScene, Land, trees, controls
<1>9. CASE Prepare \/ Tidy \/ SiteCrash \/ ReplacePackage \/ PutBackPackage \/ UNCHANGED siteVars
  BY <1>4, <1>9 DEF Prepare, Tidy, SiteCrash, ReplacePackage, PutBackPackage, siteVars, trees, controls
<1>10. CASE UndoRoot \/ RestoreManifest
  BY <1>2, <1>10 DEF UndoRoot, RestoreManifest
<1> QED
  BY <1>5, <1>6, <1>7, <1>8, <1>9, <1>10 DEF SiteNext, RunStep

\* What a run that passes leaves, when it starts to say so.
LEMMA DoneStep ==
  ASSUME SiteInv, [SiteNext]_siteVars
  PROVE  DoneIsWhole'
<1> SUFFICES ASSUME siteStep' = "done", ~putBack'
             PROVE  DoneIsWhole'
  BY DEF DoneIsWhole
<1>1. EvidenceInv /\ ManifestsInv /\ ExchangeInv /\ DoneIsWhole
  BY DEF SiteInv
<1>2. CASE CheckScene
  <2>1. /\ siteStep = "classify" /\ ReusableScene /\ reused' = TRUE
        /\ UNCHANGED <<layout, putBack, evidence, manifest, target>>
    BY <1>2 DEF CheckScene, outside, mainFiles, controls
  <2>2. evidence = Expected
    BY <1>1, <2>1 DEF EvidenceInv, AfterEvidence
  <2>3. PICK c \in DOMAIN RootsOf, e \in {Expected, Foreign} : manifest = ManifestFor(c, e)
    BY <1>1, <2>1 DEF ManifestsInv, ManifestInv, ReusableScene, ReusableEvidence
  <2>4. manifest = ManifestFor(layout, Expected)
    BY <2>1, <2>2, <2>3, ManifestFields DEF ReusableScene, ReusableEvidence
  <2>5. manifest.catalog = Classified(layout, Expected)
    BY <2>4, ManifestFields
  <2>6. ASSUME NEW r \in RootsOf[layout] PROVE target[r] = manifest.catalog[r]
    <3>1. r \in SiteRoots
      BY <1>1, SiteAssumption DEF EvidenceInv
    <3>2. manifest.catalog[r] = <<layout, Expected, r>>
      BY <2>5, <3>1 DEF Classified
    <3>3. manifest.catalog[r] # Empty
      BY <3>2, ClassifiedRoots
    <3> QED
      BY <2>1, <3>1, <3>3 DEF ReusableScene, CatalogVerified
  <2> QED
    BY <2>1, <2>2, <2>4, <2>6 DEF DoneIsWhole, ManifestFor, Classified
<1>3. CASE Tidy
  <2>1. /\ siteStep = "tidy" /\ UNCHANGED <<layout, putBack, evidence, manifest, manifestStaging, target>>
        /\ staged' = NoTree /\ backup' = NoTree /\ manifestPrev' = NoManifest
    BY <1>3 DEF Tidy, outside, mainFiles
  <2>2. evidence = Expected
    BY <1>1, <2>1 DEF EvidenceInv, AfterEvidence
  <2>3. manifest = ManifestFor(layout, Expected) /\ target = Classified(layout, Expected) /\ manifestStaging = NoManifest
    BY <1>1, <2>1, <2>2 DEF ExchangeInv
  <2>4. manifest.catalog = target
    BY <2>3, ManifestFields
  <2> QED
    BY <2>1, <2>2, <2>3, <2>4 DEF DoneIsWhole, ManifestFor, Classified, NoTree, NoManifest
<1>4. CASE UNCHANGED siteVars \/ ReplacePackage \/ PutBackPackage
  BY <1>1, <1>4 DEF DoneIsWhole, siteVars, ReplacePackage, PutBackPackage, mainFiles, controls, trees, ManifestFor, Classified, NoTree, NoManifest
<1>5. ASSUME ~CheckScene, ~Tidy, ~ReplacePackage, ~PutBackPackage, ~UNCHANGED siteVars PROVE FALSE
  BY <1>5 DEF SiteNext, RunStep, StartRun, CheckEvidence, Unpack, VerifyUnpacked, MoveOut, MoveIn, Land, Prepare, HideManifest,
     SwapOut, SwapIn, PlaceManifest, UndoRoot, RestoreManifest, SiteCrash, EditBetweenRuns
<1> QED
  BY <1>2, <1>3, <1>4, <1>5

\* Together.
LEMMA SiteInvStep == SiteInv /\ [SiteNext]_siteVars => SiteInv'
  BY EvidenceStep, ManifestsStep, ExchangeStep, CrashStep, DoneStep DEF SiteInv
-----------------------------------------------------------------------------
(* Whatever steps fail, whenever the process dies and whatever happens to the *)
(* files from outside: a classification that passes leaves the scene of the   *)
(* package and of the configuration in force, and a manifest on the disk that *)
(* only crashes have touched never stands over a mixture of two scenes.       *)
LEMMA SiteInvTrusted == SiteInv => SceneTrusted
<1> SUFFICES ASSUME SiteInv PROVE SceneTrusted
  OBVIOUS
<1>1. CrashNeverMixes
  <2> SUFFICES ASSUME budget.faults = SiteFaults, manifest # NoManifest, \A r \in SiteRoots : target[r] # Broken
               PROVE  target = manifest.catalog
    BY DEF CrashNeverMixes
  <2>1. \A r \in SiteRoots : target[r] = manifest.catalog[r]
    BY DEF SiteInv, CrashInv
  <2>2. PICK c, e : manifest = ManifestFor(c, e)
    BY DEF SiteInv, ManifestsInv, ManifestInv
  <2>3. manifest.catalog = [r \in SiteRoots |-> manifest.catalog[r]]
    BY <2>2 DEF ManifestFor, Classified
  <2>4. target = [r \in SiteRoots |-> target[r]]
    BY DEF SiteInv, ExchangeInv
  <2> QED
    BY <2>1, <2>3, <2>4
<1>2. EvidenceIsPackage
  BY DEF SiteInv, EvidenceInv, EvidenceIsPackage
<1> QED
  BY <1>1, <1>2 DEF SceneTrusted, SiteInv

\* What a classification leaves can be trusted by the rules: whole, from the
\* package of the task and under the current configuration, whichever rename
\* failed or was the last before a crash (publish_classification_run, site.py).
THEOREM SceneIsTrusted == SiteSpec => []SceneTrusted
  BY SiteInitSound, SiteInvStep, SiteInvTrusted, PTL DEF SiteSpec
-----------------------------------------------------------------------------
(* The types of a site                                                         *)

\* What a root can hold.
RootKinds == {Empty, Broken} \cup {<<c, e, r>> : c \in DOMAIN RootsOf, e \in Values, r \in SiteRoots}

\* The trees, and what a step makes of one.
LEMMA TreesAre ==
  /\ Trees = [SiteRoots -> RootKinds] /\ NoTree \in Trees
  /\ \A c \in DOMAIN RootsOf, e \in Values : Classified(c, e) \in Trees
  /\ \A t \in Trees : \A r : [t EXCEPT ![r] = Empty] \in Trees
  /\ \A t \in Trees, r \in SiteRoots : t[r] \in RootKinds
  /\ \A t \in Trees : \A r, x : (x \in RootKinds \/ r \notin SiteRoots) => [t EXCEPT ![r] = x] \in Trees
<1>1. Trees = [SiteRoots -> RootKinds]
  BY DEF Trees, RootKinds
<1>2. Empty \in RootKinds
  BY DEF RootKinds
<1>3. NoTree \in [SiteRoots -> RootKinds]
  BY <1>2 DEF NoTree
<1>4. ASSUME NEW c \in DOMAIN RootsOf, NEW e \in Values PROVE Classified(c, e) \in [SiteRoots -> RootKinds]
  <2>1. \A r \in SiteRoots : <<c, e, r>> \in RootKinds
    BY DEF RootKinds
  <2> QED
    BY <1>2, <2>1 DEF Classified
<1>5. \A t \in [SiteRoots -> RootKinds] : \A r, x : (x \in RootKinds \/ r \notin SiteRoots) => [t EXCEPT ![r] = x] \in [SiteRoots -> RootKinds]
  OBVIOUS
<1> QED
  BY <1>1, <1>2, <1>3, <1>4, <1>5

\* The manifests.
LEMMA ManifestsAre ==
  /\ NoManifest \in Manifests
  /\ \A c \in DOMAIN RootsOf, e \in Values : ManifestFor(c, e) \in Manifests
  BY DEF Manifests

SiteSteps == Resting \cup {"main", "unpack", "verify", "move_out", "move_in", "classify", "land", "prepare", "hide",
                           "swap_out", "swap_in", "place", "tidy", "undo"}

\* The conjuncts of the types, grouped by what a step changes.
FileTypes == {evidence, evidencePrev, evidenceStaging} \subseteq Values
ControlTypes == {manifest, manifestPrev, manifestStaging} \subseteq Manifests
TreeTypes == target \in Trees /\ staged \in Trees /\ backup \in Trees
RestTypes == /\ package \in {Expected, Foreign} /\ layout \in DOMAIN RootsOf /\ siteStep \in SiteSteps
             /\ swapTodo \cup swapRecords \subseteq SiteRoots /\ {hidden, reused, putBack} \subseteq BOOLEAN
             /\ \A k \in DOMAIN budget : budget[k] \in Nat

\* Together they are the types.
LEMMA SiteTypesAre == SiteTypeOK <=> FileTypes /\ ControlTypes /\ TreeTypes /\ RestTypes
  BY DEF SiteTypeOK, FileTypes, ControlTypes, TreeTypes, RestTypes, SiteSteps

USE DEF outside, mainFiles, controls, trees, runMemory, siteVars

\* The evidence is absent, damaged or of a package.
LEMMA FileTypesStep == SiteTypeOK /\ [SiteNext]_siteVars => FileTypes'
<1> SUFFICES ASSUME SiteTypeOK, [SiteNext]_siteVars PROVE FileTypes'
  OBVIOUS
<1>1. /\ evidence \in Values /\ evidencePrev \in Values /\ evidenceStaging \in Values
      /\ package \in {Expected, Foreign}
  BY SiteTypesAre DEF FileTypes, RestTypes
<1>2. Absent \in Values /\ Damaged \in Values /\ Expected \in Values /\ Foreign \in Values
  BY DEF Values
<1> SUFFICES evidence' \in Values /\ evidencePrev' \in Values /\ evidenceStaging' \in Values
  BY DEF FileTypes
<1>3. CASE CheckEvidence \/ Unpack \/ VerifyUnpacked
  BY <1>1, <1>2, <1>3 DEF CheckEvidence, Unpack, VerifyUnpacked
<1>4. CASE MoveOut \/ MoveIn
  BY <1>1, <1>2, <1>4 DEF MoveOut, MoveIn
<1>5. CASE EditBetweenRuns
  BY <1>1, <1>2, <1>5 DEF EditBetweenRuns
<1> QED
  BY <1>1, <1>3, <1>4, <1>5 DEF SiteNext, RunStep, StartRun, CheckScene, Land, Prepare, HideManifest, SwapOut, SwapIn,
     PlaceManifest, Tidy, UndoRoot, RestoreManifest, SiteCrash, ReplacePackage, PutBackPackage

\* A manifest is of a configuration and of evidence.
LEMMA ControlTypesStep == SiteTypeOK /\ [SiteNext]_siteVars => ControlTypes'
<1> SUFFICES ASSUME SiteTypeOK, [SiteNext]_siteVars PROVE ControlTypes'
  OBVIOUS
<1>1. manifest \in Manifests /\ manifestPrev \in Manifests /\ manifestStaging \in Manifests
  BY SiteTypesAre DEF ControlTypes
<1>2. layout \in DOMAIN RootsOf /\ evidence \in Values
  BY SiteTypesAre DEF FileTypes, RestTypes
<1>3. NoManifest \in Manifests /\ ManifestFor(layout, evidence) \in Manifests
  BY <1>2, ManifestsAre
<1> SUFFICES manifest' \in Manifests /\ manifestPrev' \in Manifests /\ manifestStaging' \in Manifests
  BY DEF ControlTypes
<1>4. CASE Prepare
  BY <1>1, <1>3, <1>4 DEF Prepare
<1>5. CASE HideManifest
  BY <1>1, <1>3, <1>5 DEF HideManifest
<1>6. CASE PlaceManifest
  BY <1>1, <1>3, <1>6 DEF PlaceManifest
<1>7. CASE Tidy
  BY <1>1, <1>3, <1>7 DEF Tidy
<1>8. CASE RestoreManifest
  BY <1>1, <1>3, <1>8 DEF RestoreManifest
<1> QED
  BY <1>1, <1>4, <1>5, <1>6, <1>7, <1>8 DEF SiteNext, RunStep, StartRun, CheckEvidence, Unpack, VerifyUnpacked, MoveOut, MoveIn,
     CheckScene, Land, SwapOut, SwapIn, UndoRoot, SiteCrash, ReplacePackage, PutBackPackage, EditBetweenRuns

\* The trees exchange roots, or are of a classification.
LEMMA TreeTypesStep == SiteTypeOK /\ [SiteNext]_siteVars => TreeTypes'
<1> SUFFICES ASSUME SiteTypeOK, [SiteNext]_siteVars PROVE TreeTypes'
  OBVIOUS
<1>1. target \in Trees /\ staged \in Trees /\ backup \in Trees
  BY SiteTypesAre DEF TreeTypes
<1>2. layout \in DOMAIN RootsOf /\ evidence \in Values
  BY SiteTypesAre DEF FileTypes, RestTypes
<1>3. NoTree \in Trees /\ Classified(layout, evidence) \in Trees
  BY <1>2, TreesAre
<1> SUFFICES target' \in Trees /\ staged' \in Trees /\ backup' \in Trees
  BY DEF TreeTypes
\* A root of one tree takes the place of the same root of another.
<1>4. ASSUME NEW t \in Trees, NEW u \in Trees, NEW r PROVE [t EXCEPT ![r] = u[r]] \in Trees
  BY TreesAre
<1>5. ASSUME NEW t \in Trees, NEW r PROVE [t EXCEPT ![r] = Empty] \in Trees
  BY TreesAre
<1>6. CASE CheckScene \/ Land
  BY <1>1, <1>3, <1>6 DEF CheckScene, Land
<1>7. CASE Prepare \/ Tidy \/ RestoreManifest
  BY <1>1, <1>3, <1>7 DEF Prepare, Tidy, RestoreManifest
<1>8. CASE SwapOut
  BY <1>1, <1>4, <1>5, <1>8 DEF SwapOut
<1>9. CASE SwapIn
  BY <1>1, <1>4, <1>5, <1>9 DEF SwapIn
<1>10. CASE UndoRoot
  <2> DEFINE r == Max(swapRecords)
             takenBack == IF r \in RootsOf[layout] /\ target[r] # Empty THEN [target EXCEPT ![r] = Empty] ELSE target
             putAside == IF r \in RootsOf[layout] /\ target[r] # Empty THEN [staged EXCEPT ![r] = target[r]] ELSE staged
  <2>1. takenBack \in Trees /\ putAside \in Trees
    BY <1>1, <1>4, <1>5
  <2>2. /\ target' \in {target, takenBack, [takenBack EXCEPT ![r] = backup[r]]}
        /\ staged' \in {staged, putAside} /\ backup' \in {backup, [backup EXCEPT ![r] = Empty]}
    BY <1>10 DEF UndoRoot
  <2> HIDE DEF r, takenBack, putAside
  <2>3. [takenBack EXCEPT ![r] = backup[r]] \in Trees /\ [backup EXCEPT ![r] = Empty] \in Trees
    BY <1>1, <1>4, <1>5, <2>1
  <2> QED
    BY <1>1, <2>1, <2>2, <2>3
<1>11. CASE EditBetweenRuns
  <2>1. \A r : [target EXCEPT ![r] = Broken] \in Trees
    BY <1>1, TreesAre DEF RootKinds
  <2> QED
    BY <1>1, <1>11, <2>1 DEF EditBetweenRuns
<1> QED
  BY <1>1, <1>6, <1>7, <1>8, <1>9, <1>10, <1>11 DEF SiteNext, RunStep, StartRun, CheckEvidence, Unpack, VerifyUnpacked, MoveOut, MoveIn,
     HideManifest, PlaceManifest, SiteCrash, ReplacePackage, PutBackPackage

\* What a run and the outside keep.
LEMMA RestTypesStep == SiteTypeOK /\ [SiteNext]_siteVars => RestTypes'
<1> SUFFICES ASSUME SiteTypeOK, [SiteNext]_siteVars PROVE RestTypes'
  OBVIOUS
<1>1. RestTypes
  BY SiteTypesAre
<1>2. \A k \in DOMAIN budget' : budget'[k] \in Nat
  <2>1. \A k \in DOMAIN budget : budget[k] \in Nat
    BY <1>1 DEF RestTypes
  <2>2. ASSUME NEW kind, kind \in {"runs", "faults", "crashes", "edits"}, Spend(kind) PROVE \A k \in DOMAIN budget' : budget'[k] \in Nat
    BY <2>1, <2>2 DEF Spend
  <2>3. \/ budget' = budget
        \/ Spend("runs") \/ Spend("faults") \/ Spend("crashes") \/ Spend("edits")
    BY DEF SiteNext, RunStep, NoFault, Fault, StartRun, CheckEvidence, Unpack, VerifyUnpacked, MoveOut, MoveIn,
       CheckScene, Land, Prepare, HideManifest, SwapOut, SwapIn, PlaceManifest, Tidy, UndoRoot, RestoreManifest,
       SiteCrash, ReplacePackage, PutBackPackage, EditBetweenRuns
  <2> QED
    BY <2>1, <2>2, <2>3
<1>3. siteStep' \in SiteSteps
  BY <1>1 DEF RestTypes, SiteSteps, Resting, SiteNext, RunStep, StartRun, CheckEvidence, Unpack, VerifyUnpacked, MoveOut, MoveIn,
       CheckScene, Land, Prepare, HideManifest, SwapOut, SwapIn, PlaceManifest, Tidy, UndoRoot, RestoreManifest,
       SiteCrash, ReplacePackage, PutBackPackage, EditBetweenRuns
<1>4. package' \in {Expected, Foreign} /\ layout' \in DOMAIN RootsOf
  BY <1>1 DEF RestTypes, SiteNext, RunStep, StartRun, CheckEvidence, Unpack, VerifyUnpacked, MoveOut, MoveIn,
       CheckScene, Land, Prepare, HideManifest, SwapOut, SwapIn, PlaceManifest, Tidy, UndoRoot, RestoreManifest,
       SiteCrash, ReplacePackage, PutBackPackage, EditBetweenRuns
<1>5. swapTodo' \subseteq SiteRoots /\ swapRecords' \subseteq SiteRoots
  <2>1. swapTodo \subseteq SiteRoots /\ swapRecords \subseteq SiteRoots /\ SwapRoots \subseteq SiteRoots
    BY <1>1, SiteAssumption DEF RestTypes, SwapRoots
  <2> QED
    BY <2>1 DEF SiteNext, RunStep, StartRun, CheckEvidence, Unpack, VerifyUnpacked, MoveOut, MoveIn,
       CheckScene, Land, Prepare, HideManifest, SwapOut, SwapIn, PlaceManifest, Tidy, UndoRoot, RestoreManifest,
       SiteCrash, ReplacePackage, PutBackPackage, EditBetweenRuns
<1>6. hidden' \in BOOLEAN /\ reused' \in BOOLEAN /\ putBack' \in BOOLEAN
  BY <1>1 DEF RestTypes, SiteNext, RunStep, StartRun, CheckEvidence, Unpack, VerifyUnpacked, MoveOut, MoveIn,
       CheckScene, Land, Prepare, HideManifest, SwapOut, SwapIn, PlaceManifest, Tidy, UndoRoot, RestoreManifest,
       SiteCrash, ReplacePackage, PutBackPackage, EditBetweenRuns
<1> QED
  BY <1>2, <1>3, <1>4, <1>5, <1>6 DEF RestTypes

HIDE DEF outside, mainFiles, controls, trees, runMemory, siteVars

\* SiteTypeOK: the evidence, the roots and the manifests are what the code can
\* leave on the disk, whichever step of a run fails (site.py).
THEOREM SiteTypes == SiteSpec => []SiteTypeOK
<1>1. SiteInit => SiteTypeOK
  <2> SUFFICES ASSUME SiteInit PROVE SiteTypeOK
    OBVIOUS
  <2>1. FileTypes /\ ControlTypes /\ TreeTypes
    BY TreesAre, ManifestsAre DEF SiteInit, FileTypes, ControlTypes, TreeTypes, Values
  <2>2. RestTypes
    <3>1. SiteRuns \in Nat /\ SiteFaults \in Nat /\ SiteCrashes \in Nat /\ SiteEdits \in Nat
      BY SiteAssumption
    <3>2. budget = [runs |-> SiteRuns, faults |-> SiteFaults, crashes |-> SiteCrashes, edits |-> SiteEdits]
      BY DEF SiteInit
    <3>3. DOMAIN budget = {"runs", "faults", "crashes", "edits"}
      BY <3>2
    <3>4. \A k \in DOMAIN budget : budget[k] \in Nat
      BY <3>1, <3>2, <3>3
    <3>5. siteStep \in SiteSteps
      BY DEF SiteInit, SiteSteps, Resting
    <3> QED
      BY <3>4, <3>5 DEF SiteInit, RestTypes
  <2> QED
    BY <2>1, <2>2, SiteTypesAre
<1>2. SiteTypeOK /\ [SiteNext]_siteVars => SiteTypeOK'
  <2>1. (FileTypes /\ ControlTypes /\ TreeTypes /\ RestTypes)' => SiteTypeOK'
    BY DEF SiteTypeOK, FileTypes, ControlTypes, TreeTypes, RestTypes, SiteSteps
  <2> QED
    BY <2>1, FileTypesStep, ControlTypesStep, TreeTypesStep, RestTypesStep
<1> QED
  BY <1>1, <1>2, PTL DEF SiteSpec
-----------------------------------------------------------------------------
(* Recursive functions of numbers, without induction over data: a least       *)
(* counterexample has a predecessor, and a solution grows by one more value.*)

\* A set of numbers has a least one.
LEMMA LeastOf ==
  ASSUME NEW U, U \subseteq Nat, U # {}
  PROVE  \E m \in U : \A y \in U : m <= y
<1>1. PICK m \in U : \A y \in U : <<y, m>> \notin OpToRel(<, Nat)
  BY NatLessThanWellFounded, WFMin
<1>2. \A y \in U : m <= y
  <2> TAKE y \in U
  <2>1. y \in Nat /\ m \in Nat
    OBVIOUS
  <2>2. ~(y < m)
    BY <1>1, <2>1, Zenon DEF OpToRel
  <2> QED
    BY <2>1, <2>2
<1> QED
  BY <1>2

\* Induction over 0 .. N, as a fact about sets of numbers.
LEMMA UpToN ==
  ASSUME NEW N \in Nat, NEW T, 0 \in T, \A n \in 0 .. N : n < N /\ n \in T => n + 1 \in T
  PROVE  0 .. N \subseteq T
<1> DEFINE U == (0 .. N) \ T
<1> SUFFICES ASSUME U # {} PROVE FALSE
  OBVIOUS
<1>1. PICK m \in U : \A y \in U : m <= y
  <2> U \subseteq Nat
    OBVIOUS
  <2> HIDE DEF U
  <2> QED
    BY LeastOf
<1>2. m \in 0 .. N /\ m # 0 /\ m - 1 \in 0 .. N /\ m - 1 < N /\ m - 1 + 1 = m
  OBVIOUS
<1>3. m - 1 \in T
  BY <1>1, <1>2
<1> QED
  BY <1>2, <1>3

\* A function f on 0 .. N whose value at 0 is b and at each other k what G makes
\* of the one before.
Recursive(N, b, G, f) == \A k \in 0 .. N : f[k] = IF k = 0 THEN b ELSE G[<<k, f[k - 1]>>]

\* A recursive function on 0 .. n has one on 0 .. n + 1 that goes on.
LEMMA RecursionGrows ==
  ASSUME NEW n \in Nat, NEW X, NEW b, NEW G \in [(1 .. n + 1) \X X -> X],
         NEW f \in [0 .. n -> X], Recursive(n, b, G, f)
  PROVE  \E g \in [0 .. n + 1 -> X] : Recursive(n + 1, b, G, g)
<1> DEFINE v == G[<<n + 1, f[n]>>]
<1> DEFINE g == [k \in 0 .. n + 1 |-> IF k = n + 1 THEN v ELSE f[k]]
<1>1. v \in X
  <2>1. n + 1 \in 1 .. n + 1 /\ f[n] \in X
    OBVIOUS
  <2> QED
    BY <2>1
<1> HIDE DEF v
<1>2. g \in [0 .. n + 1 -> X]
  BY <1>1
<1>3. ASSUME NEW k \in 0 .. n + 1 PROVE g[k] = IF k = 0 THEN b ELSE G[<<k, g[k - 1]>>]
  <2>1. CASE k = n + 1
    <3>1. k - 1 = n /\ g[k - 1] = f[n] /\ g[k] = v /\ k # 0
      BY <2>1
    <3> QED
      BY <2>1, <3>1 DEF v
  <2>2. CASE k # n + 1
    <3>1. k \in 0 .. n /\ g[k] = f[k]
      BY <2>2
    <3>2. k # 0 => g[k - 1] = f[k - 1]
      BY <2>2
    <3>3. f[k] = IF k = 0 THEN b ELSE G[<<k, f[k - 1]>>]
      BY <3>1 DEF Recursive
    <3> QED
      BY <3>1, <3>2, <3>3
  <2> QED
    BY <2>1, <2>2
<1> HIDE DEF g
<1>4. Recursive(n + 1, b, G, g)
  BY <1>3 DEF Recursive
<1> QED
  BY <1>2, <1>4

\* The recursion of a recursive function has a solution.
LEMMA RecursionExists ==
  ASSUME NEW N \in Nat, NEW X, NEW b \in X, NEW G \in [(1 .. N) \X X -> X]
  PROVE  \E f \in [0 .. N -> X] : Recursive(N, b, G, f)
<1> DEFINE T == {n \in 0 .. N : \E f \in [0 .. n -> X] : Recursive(n, b, G, f)}
<1>1. 0 \in T
  <2> DEFINE f == [k \in 0 .. 0 |-> b]
  <2>1. f \in [0 .. 0 -> X] /\ \A k \in 0 .. 0 : k = 0 /\ f[k] = b
    OBVIOUS
  <2> HIDE DEF f
  <2>2. Recursive(0, b, G, f)
    BY <2>1 DEF Recursive
  <2> QED
    BY <2>1, <2>2
<1>2. ASSUME NEW n \in 0 .. N, n < N, n \in T PROVE n + 1 \in T
  <2>1. PICK f \in [0 .. n -> X] : Recursive(n, b, G, f)
    BY <1>2
  <2> DEFINE H == [x \in (1 .. n + 1) \X X |-> G[x]]
  <2>2. H \in [(1 .. n + 1) \X X -> X]
    <3>1. ASSUME NEW x \in (1 .. n + 1) \X X PROVE G[x] \in X
      <4>1. x \in (1 .. N) \X X
        BY <1>2
      <4> QED
        BY <4>1
    <3> QED
      BY <3>1
  <2>3. ASSUME NEW k \in 1 .. n + 1, NEW y \in X PROVE H[<<k, y>>] = G[<<k, y>>]
    OBVIOUS
  <2> HIDE DEF H
  <2>4. Recursive(n, b, H, f)
    <3> SUFFICES ASSUME NEW k \in 0 .. n PROVE f[k] = IF k = 0 THEN b ELSE H[<<k, f[k - 1]>>]
      BY DEF Recursive
    <3>1. f[k] = IF k = 0 THEN b ELSE G[<<k, f[k - 1]>>]
      BY <2>1 DEF Recursive
    <3>2. k # 0 => k \in 1 .. n + 1 /\ f[k - 1] \in X
      OBVIOUS
    <3> QED
      BY <3>1, <3>2, <2>3
  <2>5. PICK g \in [0 .. n + 1 -> X] : Recursive(n + 1, b, H, g)
    <3>1. n \in Nat
      OBVIOUS
    <3> QED
      BY <2>1, <2>2, <2>4, <3>1, RecursionGrows
  <2>6. Recursive(n + 1, b, G, g)
    <3> SUFFICES ASSUME NEW k \in 0 .. n + 1 PROVE g[k] = IF k = 0 THEN b ELSE G[<<k, g[k - 1]>>]
      BY DEF Recursive
    <3>1. g[k] = IF k = 0 THEN b ELSE H[<<k, g[k - 1]>>]
      BY <2>5 DEF Recursive
    <3>2. k # 0 => k \in 1 .. n + 1 /\ g[k - 1] \in X
      OBVIOUS
    <3> QED
      BY <3>1, <3>2, <2>3
  <2> QED
    BY <1>2, <2>6
<1> HIDE DEF T
<1>3. N \in T
  BY <1>1, <1>2, UpToN
<1> QED
  BY <1>3 DEF T

-----------------------------------------------------------------------------
(* The closure of a set of states                                           *)

\* The edges of an automaton lead from a state to a later one.
Rising(nfa) ==
  /\ nfa.accept \in Nat
  /\ \A e \in nfa.epsilon : e[1] \in 0 .. nfa.accept /\ e[2] \in 0 .. nfa.accept /\ e[1] < e[2]

Grown(nfa, S) == UNION {{s} \cup {e[2] : e \in {x \in nfa.epsilon : x[1] = s}} : s \in S}
Closing(nfa, S, f) == f = [k \in 0 .. nfa.accept |-> IF k = 0 THEN S ELSE Grown(nfa, f[k - 1])]

\* What one more turn of the closure reaches.
LEMMA InGrown ==
  ASSUME NEW nfa, NEW S, NEW t
  PROVE  t \in Grown(nfa, S) <=> t \in S \/ \E e \in nfa.epsilon : e[1] \in S /\ e[2] = t
  BY DEF Grown

\* The recursion of EpsilonClosure has a solution.
LEMMA ClosingExists ==
  ASSUME NEW nfa, Rising(nfa), NEW S \in SUBSET (0 .. nfa.accept)
  PROVE  \E f : Closing(nfa, S, f) /\ f \in [0 .. nfa.accept -> SUBSET (0 .. nfa.accept)]
<1> DEFINE N == nfa.accept
<1> DEFINE X == SUBSET (0 .. N)
<1> DEFINE G == [p \in (1 .. N) \X X |-> Grown(nfa, p[2])]
<1>1. N \in Nat /\ S \in X
  BY DEF Rising
<1>2. ASSUME NEW k \in 1 .. N, NEW T \in X PROVE G[<<k, T>>] = Grown(nfa, T)
  OBVIOUS
<1>3. G \in [(1 .. N) \X X -> X]
  <2> SUFFICES ASSUME NEW p \in (1 .. N) \X X PROVE Grown(nfa, p[2]) \subseteq 0 .. N
    OBVIOUS
  <2>1. p[2] \in X
    OBVIOUS
  <2> SUFFICES ASSUME NEW t \in Grown(nfa, p[2]) PROVE t \in 0 .. N
    OBVIOUS
  <2>2. t \in p[2] \/ \E e \in nfa.epsilon : e[2] = t
    BY InGrown
  <2> QED
    BY <2>1, <2>2 DEF Rising
<1> HIDE DEF G, X
<1>4. PICK f \in [0 .. N -> X] : Recursive(N, S, G, f)
  BY <1>1, <1>3, RecursionExists
<1>5. f = [k \in 0 .. N |-> IF k = 0 THEN S ELSE Grown(nfa, f[k - 1])]
  <2> SUFFICES ASSUME NEW k \in 0 .. N PROVE f[k] = IF k = 0 THEN S ELSE Grown(nfa, f[k - 1])
    BY <1>4
  <2>1. f[k] = IF k = 0 THEN S ELSE G[<<k, f[k - 1]>>]
    BY <1>4 DEF Recursive
  <2>2. CASE k = 0
    BY <2>1, <2>2
  <2>3. CASE k # 0
    <3>1. k \in 1 .. N /\ k - 1 \in 0 .. N
      BY <1>1, <2>3
    <3>2. f[k - 1] \in X
      BY <1>4, <3>1
    <3> QED
      BY <2>1, <2>3, <3>1, <3>2, <1>2
  <2> QED
    BY <2>2, <2>3
<1> QED
  BY <1>4, <1>5 DEF Closing, X

\* EpsilonClosure is what its recursion says of it.
LEMMA ClosureIs ==
  ASSUME NEW nfa, Rising(nfa), NEW S \in SUBSET (0 .. nfa.accept)
  PROVE  \E f \in [0 .. nfa.accept -> SUBSET (0 .. nfa.accept)] :
            /\ EpsilonClosure(nfa, S) = f[nfa.accept]
            /\ \A k \in 0 .. nfa.accept : f[k] = IF k = 0 THEN S ELSE Grown(nfa, f[k - 1])
<1> DEFINE f == CHOOSE g : Closing(nfa, S, g)
<1>1. EpsilonClosure(nfa, S) = f[nfa.accept]
  BY DEF EpsilonClosure, Closing, Grown
<1>2. PICK h : Closing(nfa, S, h) /\ h \in [0 .. nfa.accept -> SUBSET (0 .. nfa.accept)]
  BY ClosingExists
<1>3. Closing(nfa, S, f)
  BY <1>2
<1> HIDE DEF f
<1>4. nfa.accept \in Nat
  BY DEF Rising
<1>5. \A k \in 0 .. nfa.accept : f[k] = IF k = 0 THEN S ELSE Grown(nfa, f[k - 1])
  BY <1>3 DEF Closing
<1>6. \A k \in 0 .. nfa.accept : h[k] = IF k = 0 THEN S ELSE Grown(nfa, h[k - 1])
  BY <1>2 DEF Closing
<1>7. 0 .. nfa.accept \subseteq {k \in 0 .. nfa.accept : f[k] = h[k]}
  <2> DEFINE T == {k \in 0 .. nfa.accept : f[k] = h[k]}
  <2>1. 0 \in T
    BY <1>4, <1>5, <1>6
  <2>2. ASSUME NEW n \in 0 .. nfa.accept, n < nfa.accept, n \in T PROVE n + 1 \in T
    <3>1. n + 1 \in 0 .. nfa.accept /\ n + 1 # 0 /\ n + 1 - 1 = n
      BY <1>4, <2>2
    <3>2. f[n + 1] = Grown(nfa, f[n + 1 - 1]) /\ h[n + 1] = Grown(nfa, h[n + 1 - 1])
      BY <1>5, <1>6, <3>1
    <3> QED
      BY <2>2, <3>1, <3>2
  <2> HIDE DEF T
  <2>3. 0 .. nfa.accept \subseteq T
    BY <1>4, <2>1, <2>2, UpToN
  <2> QED
    BY <2>3 DEF T
<1>8. nfa.accept \in 0 .. nfa.accept
  BY <1>4
<1> QED
  BY <1>1, <1>2, <1>6, <1>7, <1>8

\* A closure holds its states, and whatever an epsilon of it leads to.
LEMMA ClosureLarger ==
  ASSUME NEW nfa, Rising(nfa), NEW S \in SUBSET (0 .. nfa.accept)
  PROVE  /\ EpsilonClosure(nfa, S) \subseteq 0 .. nfa.accept
         /\ S \subseteq EpsilonClosure(nfa, S)
         /\ \A e \in nfa.epsilon : e[1] \in EpsilonClosure(nfa, S) => e[2] \in EpsilonClosure(nfa, S)
<1> DEFINE N == nfa.accept
<1>1. N \in Nat /\ N \in 0 .. N
  BY DEF Rising
<1>2. PICK f \in [0 .. N -> SUBSET (0 .. N)] :
         /\ EpsilonClosure(nfa, S) = f[N]
         /\ \A k \in 0 .. N : f[k] = IF k = 0 THEN S ELSE Grown(nfa, f[k - 1])
  BY ClosureIs
<1>3. ASSUME NEW k \in 0 .. N, k < N
      PROVE  f[k + 1] = Grown(nfa, f[k]) /\ f[k] \subseteq f[k + 1]
  <2>1. k + 1 \in 0 .. N /\ k + 1 # 0 /\ k + 1 - 1 = k
    BY <1>1, <1>3
  <2>2. f[k + 1] = Grown(nfa, f[k])
    BY <1>2, <2>1
  <2> QED
    BY <2>2, InGrown
\* What appears at step k has a number of at least k.
<1> DEFINE T == {k \in 0 .. N : \A s \in f[k] : s >= k \/ (k > 0 /\ s \in f[k - 1])}
<1>4. 0 \in T
  <2>1. 0 \in 0 .. N
    BY <1>1
  <2>2. f[0] \subseteq 0 .. N
    BY <1>2, <2>1
  <2> QED
    BY <2>1, <2>2
<1>5. ASSUME NEW n \in 0 .. N, n < N, n \in T PROVE n + 1 \in T
  <2>1. n + 1 \in 0 .. N /\ n + 1 > 0 /\ n + 1 - 1 = n
    BY <1>1, <1>5
  <2> SUFFICES ASSUME NEW s \in f[n + 1], s \notin f[n] PROVE s >= n + 1
    BY <2>1
  <2>2. PICK e \in nfa.epsilon : e[1] \in f[n] /\ e[2] = s
    BY <1>3, <1>5, InGrown
  <2>3. e[1] >= n
    <3> SUFFICES ASSUME n > 0, e[1] \in f[n - 1] PROVE FALSE
      BY <1>5, <2>2
    <3>1. n - 1 \in 0 .. N /\ n - 1 < N /\ n - 1 + 1 = n
      BY <1>1
    <3>2. f[n] = Grown(nfa, f[n - 1])
      BY <1>3, <3>1
    <3> QED
      BY <2>2, <3>2, InGrown
  <2> QED
    BY <2>2, <2>3, <1>1 DEF Rising
<1> HIDE DEF T
<1>6. 0 .. N \subseteq T
  BY <1>1, <1>4, <1>5, UpToN
<1>7. S \subseteq f[N]
  <2> DEFINE U == {k \in 0 .. N : S \subseteq f[k]}
  <2>1. 0 \in U
    BY <1>1, <1>2
  <2>2. ASSUME NEW n \in 0 .. N, n < N, n \in U PROVE n + 1 \in U
    BY <2>2, <1>3, <1>1
  <2> HIDE DEF U
  <2>3. 0 .. N \subseteq U
    BY <1>1, <2>1, <2>2, UpToN
  <2> QED
    BY <1>1, <2>3 DEF U
<1>8. ASSUME NEW e \in nfa.epsilon, e[1] \in f[N] PROVE e[2] \in f[N]
  <2>1. e[1] \in 0 .. N /\ e[2] \in 0 .. N /\ e[1] < e[2]
    BY DEF Rising
  <2>2. e[1] < N
    BY <2>1, <1>1
  <2>3. N > 0 /\ e[1] \in f[N - 1]
    <3>1. N \in T
      BY <1>1, <1>6
    <3> QED
      BY <1>1, <1>8, <2>1, <2>2, <3>1 DEF T
  <2>4. N - 1 \in 0 .. N /\ N - 1 < N /\ N - 1 + 1 = N
    BY <1>1, <2>3
  <2>5. f[N] = Grown(nfa, f[N - 1])
    BY <1>3, <2>4
  <2> QED
    BY <2>3, <2>5, InGrown
<1>9. f[N] \subseteq 0 .. N
  BY <1>1
<1> QED
  BY <1>2, <1>7, <1>8, <1>9

-----------------------------------------------------------------------------
(* A match is a sequence of cuts                                            *)

\* How much of actual the first i elements of a pattern can take, given how much
\* the first i - 1 can (GlobMatches).
TakenBy(star, pattern, actual, i, T) ==
  IF pattern[i] = star THEN UNION {k .. Len(actual) : k \in T}
  ELSE {k + 1 : k \in {x \in T : x < Len(actual) /\ pattern[i] \in {actual[x + 1], "?"}}}

Taking(star, pattern, actual, f) ==
  f = [i \in 0 .. Len(pattern) |-> IF i = 0 THEN {0} ELSE TakenBy(star, pattern, actual, i, f[i - 1])]

\* The elements of the pattern take actual in the cuts c: element i what is
\* after cut i - 1 up to cut i.
CutBy(star, pattern, actual, i, j, k) ==
  IF pattern[i] = star THEN j <= k ELSE k = j + 1 /\ pattern[i] \in {actual[k], "?"}
Cuts(star, pattern, actual, c) ==
  /\ c \in [0 .. Len(pattern) -> 0 .. Len(actual)]
  /\ c[0] = 0 /\ c[Len(pattern)] = Len(actual)
  /\ \A i \in 1 .. Len(pattern) : CutBy(star, pattern, actual, i, c[i - 1], c[i])

\* One element of a pattern takes what lies between its two cuts.
LEMMA InTakenBy ==
  ASSUME NEW star, NEW pattern, NEW actual, Len(actual) \in Nat, NEW i, NEW T, T \subseteq 0 .. Len(actual)
  PROVE  /\ TakenBy(star, pattern, actual, i, T) \subseteq 0 .. Len(actual)
         /\ \A k \in 0 .. Len(actual) :
              k \in TakenBy(star, pattern, actual, i, T) <=> \E j \in T : CutBy(star, pattern, actual, i, j, k)
<1>1. CASE pattern[i] = star
  <2>1. TakenBy(star, pattern, actual, i, T) = UNION {k .. Len(actual) : k \in T}
    BY <1>1 DEF TakenBy
  <2>2. \A j, k : CutBy(star, pattern, actual, i, j, k) <=> j <= k
    BY <1>1 DEF CutBy
  <2>3. \A k : k \in UNION {j .. Len(actual) : j \in T} <=> \E j \in T : k \in j .. Len(actual)
    OBVIOUS
  <2> QED
    BY <2>1, <2>2, <2>3
<1>2. CASE pattern[i] # star
  <2>1. TakenBy(star, pattern, actual, i, T) =
          {k + 1 : k \in {x \in T : x < Len(actual) /\ pattern[i] \in {actual[x + 1], "?"}}}
    BY <1>2 DEF TakenBy
  <2>2. \A j, k : CutBy(star, pattern, actual, i, j, k) <=> k = j + 1 /\ pattern[i] \in {actual[k], "?"}
    BY <1>2 DEF CutBy
  <2>3. TakenBy(star, pattern, actual, i, T) \subseteq 0 .. Len(actual)
    BY <2>1
  <2>4. ASSUME NEW k \in TakenBy(star, pattern, actual, i, T)
        PROVE  \E j \in T : k = j + 1 /\ pattern[i] \in {actual[k], "?"}
    BY <2>1
  <2>5. ASSUME NEW k \in 0 .. Len(actual), NEW j \in T, k = j + 1, pattern[i] \in {actual[k], "?"}
        PROVE  k \in TakenBy(star, pattern, actual, i, T)
    BY <2>1, <2>5
  <2> QED
    BY <2>2, <2>3, <2>4, <2>5
<1> QED
  BY <1>1, <1>2

\* The recursion of GlobMatches has a solution.
LEMMA TakingExists ==
  ASSUME NEW star, NEW pattern, NEW actual, Len(pattern) \in Nat, Len(actual) \in Nat
  PROVE  \E f : Taking(star, pattern, actual, f)
<1> DEFINE N == Len(pattern)
<1> DEFINE X == SUBSET (0 .. Len(actual))
<1> DEFINE G == [p \in (1 .. N) \X X |-> TakenBy(star, pattern, actual, p[1], p[2])]
<1>1. N \in Nat /\ {0} \in X
  OBVIOUS
<1>2. ASSUME NEW k \in 1 .. N, NEW T \in X PROVE G[<<k, T>>] = TakenBy(star, pattern, actual, k, T)
  OBVIOUS
<1>3. G \in [(1 .. N) \X X -> X]
  <2> SUFFICES ASSUME NEW p \in (1 .. N) \X X PROVE TakenBy(star, pattern, actual, p[1], p[2]) \subseteq 0 .. Len(actual)
    OBVIOUS
  <2>1. p[2] \subseteq 0 .. Len(actual)
    OBVIOUS
  <2> QED
    BY <2>1, InTakenBy
<1> HIDE DEF G, X
<1>4. PICK f \in [0 .. N -> X] : Recursive(N, {0}, G, f)
  BY <1>1, <1>3, RecursionExists
<1>5. f = [k \in 0 .. N |-> IF k = 0 THEN {0} ELSE TakenBy(star, pattern, actual, k, f[k - 1])]
  <2> SUFFICES ASSUME NEW k \in 0 .. N PROVE f[k] = IF k = 0 THEN {0} ELSE TakenBy(star, pattern, actual, k, f[k - 1])
    BY <1>4
  <2>1. f[k] = IF k = 0 THEN {0} ELSE G[<<k, f[k - 1]>>]
    BY <1>4 DEF Recursive
  <2>2. CASE k = 0
    BY <2>1, <2>2
  <2>3. CASE k # 0
    <3>1. k \in 1 .. N /\ k - 1 \in 0 .. N
      BY <1>1, <2>3
    <3>2. f[k - 1] \in X
      BY <1>4, <3>1
    <3> QED
      BY <2>1, <2>3, <3>1, <3>2, <1>2
  <2> QED
    BY <2>2, <2>3
<1> QED
  BY <1>5 DEF Taking

\* GlobMatches is what its recursion says of it.
LEMMA GlobTakes ==
  ASSUME NEW star, NEW pattern, NEW actual, Len(pattern) \in Nat, Len(actual) \in Nat
  PROVE  \E f \in [0 .. Len(pattern) -> SUBSET (0 .. Len(actual))] :
           /\ GlobMatches(star, pattern, actual) <=> Len(actual) \in f[Len(pattern)]
           /\ f[0] = {0}
           /\ \A i \in 1 .. Len(pattern), k \in 0 .. Len(actual) :
                k \in f[i] <=> \E j \in f[i - 1] : CutBy(star, pattern, actual, i, j, k)
<1> DEFINE f == CHOOSE g : Taking(star, pattern, actual, g)
<1> DEFINE N == Len(pattern)
<1>1. GlobMatches(star, pattern, actual) <=> Len(actual) \in f[N]
  BY DEF GlobMatches, Taking, TakenBy
<1>2. Taking(star, pattern, actual, f)
  BY TakingExists
<1> HIDE DEF f
<1>3. \A i \in 0 .. N : f[i] = IF i = 0 THEN {0} ELSE TakenBy(star, pattern, actual, i, f[i - 1])
  BY <1>2 DEF Taking
<1>4. f[0] = {0}
  BY <1>3
<1>5. ASSUME NEW n \in 0 .. N, n < N PROVE n + 1 \in 1 .. N /\ f[n + 1] = TakenBy(star, pattern, actual, n + 1, f[n])
  <2>1. n + 1 \in 0 .. N /\ n + 1 # 0 /\ n + 1 - 1 = n /\ n + 1 \in 1 .. N
    BY <1>5
  <2> QED
    BY <2>1, <1>3
<1> DEFINE T == {i \in 0 .. N : f[i] \subseteq 0 .. Len(actual)}
<1>6. 0 \in T
  BY <1>4
<1>7. ASSUME NEW n \in 0 .. N, n < N, n \in T PROVE n + 1 \in T
  <2>1. n + 1 \in 0 .. N /\ f[n] \subseteq 0 .. Len(actual)
    BY <1>7
  <2>2. TakenBy(star, pattern, actual, n + 1, f[n]) \subseteq 0 .. Len(actual)
    BY <2>1, InTakenBy
  <2> QED
    BY <2>1, <2>2, <1>5, <1>7
<1> HIDE DEF T
<1>8. 0 .. N \subseteq T
  BY <1>6, <1>7, UpToN
<1>9. f = [i \in 0 .. N |-> f[i]]
  BY <1>2 DEF Taking
<1>10. f \in [0 .. N -> SUBSET (0 .. Len(actual))]
  BY <1>8, <1>9 DEF T
<1>11. ASSUME NEW i \in 1 .. N, NEW k \in 0 .. Len(actual)
       PROVE  k \in f[i] <=> \E j \in f[i - 1] : CutBy(star, pattern, actual, i, j, k)
  <2>1. i - 1 \in 0 .. N /\ i - 1 < N /\ i - 1 + 1 = i
    OBVIOUS
  <2>2. f[i] = TakenBy(star, pattern, actual, i, f[i - 1])
    BY <2>1, <1>5
  <2>3. f[i - 1] \subseteq 0 .. Len(actual)
    BY <2>1, <1>10
  <2>4. k \in TakenBy(star, pattern, actual, i, f[i - 1]) <=>
          \E j \in f[i - 1] : CutBy(star, pattern, actual, i, j, k)
    BY <2>3, InTakenBy
  <2> QED
    BY <2>2, <2>4
<1> QED
  BY <1>1, <1>4, <1>10, <1>11

\* The matcher finds the cuts of a match, and every match has cuts.
LEMMA GlobHasCuts ==
  ASSUME NEW star, NEW pattern, NEW actual, Len(pattern) \in Nat, Len(actual) \in Nat,
         GlobMatches(star, pattern, actual)
  PROVE  \E c : Cuts(star, pattern, actual, c)
<1> DEFINE N == Len(pattern)
<1> DEFINE L == Len(actual)
<1>1. PICK f \in [0 .. N -> SUBSET (0 .. L)] :
        /\ L \in f[N] /\ f[0] = {0}
        /\ \A i \in 1 .. N, k \in 0 .. L : k \in f[i] <=> \E j \in f[i - 1] : CutBy(star, pattern, actual, i, j, k)
  BY GlobTakes
<1> DEFINE Cut(n, c) == /\ c \in [0 .. n -> 0 .. L] /\ c[0] = 0
                        /\ \A i \in 1 .. n : CutBy(star, pattern, actual, i, c[i - 1], c[i])
<1> DEFINE T == {n \in 0 .. N : \A k \in f[n] : \E c : Cut(n, c) /\ c[n] = k}
<1>2. 0 \in T
  <2> DEFINE c == [i \in 0 .. 0 |-> 0]
  <2>1. Cut(0, c) /\ c[0] = 0
    OBVIOUS
  <2>2. \A k \in f[0] : k = 0
    BY <1>1
  <2>3. 0 \in 0 .. N
    OBVIOUS
  <2> HIDE DEF c, Cut
  <2> QED
    BY <2>1, <2>2, <2>3
<1>3. ASSUME NEW n \in 0 .. N, n < N, n \in T PROVE n + 1 \in T
  <2>1. n + 1 \in 0 .. N /\ n + 1 \in 1 .. N /\ n + 1 - 1 = n
    BY <1>3
  <2> SUFFICES ASSUME NEW k \in f[n + 1] PROVE \E c : Cut(n + 1, c) /\ c[n + 1] = k
    BY <2>1
  <2>2. k \in 0 .. L
    BY <2>1
  <2>3. PICK j \in f[n] : CutBy(star, pattern, actual, n + 1, j, k)
    BY <1>1, <2>1, <2>2
  <2>4. PICK c : Cut(n, c) /\ c[n] = j
    BY <1>3
  <2> DEFINE d == [i \in 0 .. n + 1 |-> IF i = n + 1 THEN k ELSE c[i]]
  <2>5. d \in [0 .. n + 1 -> 0 .. L] /\ d[0] = 0 /\ d[n + 1] = k /\ \A i \in 0 .. n : d[i] = c[i]
    BY <2>2, <2>4
  <2> HIDE DEF d
  <2>6. ASSUME NEW i \in 1 .. n + 1 PROVE CutBy(star, pattern, actual, i, d[i - 1], d[i])
    <3>1. CASE i = n + 1
      <4>1. n \in 0 .. n /\ d[n] = j /\ d[i - 1] = j /\ d[i] = k
        BY <3>1, <2>1, <2>4, <2>5
      <4> QED
        BY <3>1, <4>1, <2>3
    <3>2. CASE i # n + 1
      <4>1. i \in 1 .. n /\ i \in 0 .. n /\ i - 1 \in 0 .. n
        BY <3>2
      <4> QED
        BY <4>1, <2>4, <2>5
    <3> QED
      BY <3>1, <3>2
  <2> QED
    BY <2>5, <2>6
<1>4. 0 .. N \subseteq T
  <2> HIDE DEF T
  <2> QED
    BY <1>2, <1>3, UpToN
<1>5. PICK c : Cut(N, c) /\ c[N] = L
  <2>1. N \in T
    <3>1. N \in 0 .. N
      OBVIOUS
    <3> HIDE DEF T
    <3> QED
      BY <1>4, <3>1
  <2> HIDE DEF Cut
  <2> QED
    BY <1>1, <2>1
<1> QED
  BY <1>5 DEF Cuts

\* Whatever has cuts is a match.
LEMMA CutsMatch ==
  ASSUME NEW star, NEW pattern, NEW actual, Len(pattern) \in Nat, Len(actual) \in Nat,
         NEW c, Cuts(star, pattern, actual, c)
  PROVE  GlobMatches(star, pattern, actual)
<1> DEFINE N == Len(pattern)
<1> DEFINE L == Len(actual)
<1>1. PICK f \in [0 .. N -> SUBSET (0 .. L)] :
        /\ GlobMatches(star, pattern, actual) <=> L \in f[N]
        /\ f[0] = {0}
        /\ \A i \in 1 .. N, k \in 0 .. L : k \in f[i] <=> \E j \in f[i - 1] : CutBy(star, pattern, actual, i, j, k)
  BY GlobTakes
<1> DEFINE T == {n \in 0 .. N : c[n] \in f[n]}
<1>2. 0 \in T
  BY <1>1 DEF Cuts
<1>3. ASSUME NEW n \in 0 .. N, n < N, n \in T PROVE n + 1 \in T
  <2>1. n + 1 \in 0 .. N /\ n + 1 \in 1 .. N /\ n + 1 - 1 = n
    BY <1>3
  <2>2. c[n + 1] \in 0 .. L /\ CutBy(star, pattern, actual, n + 1, c[n], c[n + 1])
    BY <2>1 DEF Cuts
  <2> QED
    BY <1>1, <1>3, <2>1, <2>2
<1>4. 0 .. N \subseteq T
  <2> HIDE DEF T
  <2> QED
    BY <1>2, <1>3, UpToN
<1> QED
  BY <1>1, <1>4 DEF Cuts

-----------------------------------------------------------------------------
(* The word of a file, and its runs                                         *)

\* The symbol an automaton reads for a name, and the word it reads for a file.
Sym(kind, x, symbols) == IF <<kind, x>> \in symbols THEN <<kind, x>> ELSE <<kind, "OTHER">>
Word(d, n, symbols) ==
  [k \in 1 .. Len(d) + Len(n) |->
     IF k <= Len(d) THEN Sym("directory", d[k], symbols) ELSE Sym("file", n[k - Len(d)], symbols)]

\* The elements e of a pattern read the L symbols of w in the cuts c.
RunBy(e, w, symbols, j, k) ==
  IF IsStar(e) THEN j <= k /\ \A t \in j + 1 .. k : w[t] \in Taken(e, symbols)
  ELSE k = j + 1 /\ w[k] \in Taken(e, symbols)
Run(e, w, L, symbols, c) ==
  /\ c \in [0 .. Len(e) -> 0 .. L] /\ c[0] = 0 /\ c[Len(e)] = L
  /\ \A i \in 1 .. Len(e) : RunBy(e[i], w, symbols, c[i - 1], c[i])

\* The elements of a sequence are those of its range.
LEMMA SequenceHas ==
  ASSUME NEW s, IsSequence(s)
  PROVE  Len(s) \in Nat /\ DOMAIN s = 1 .. Len(s) /\ \A i \in 1 .. Len(s) : s[i] \in Range(s)
<1>1. s \in Seq(Range(s))
  BY DEF IsSequence
<1>2. Len(s) \in Nat /\ DOMAIN s = 1 .. Len(s)
  BY <1>1
<1> QED
  BY <1>2 DEF Range

\* A sequence of some set is a sequence of its own range.
LEMMA SequencesAre == ASSUME NEW X, NEW s \in Seq(X) PROVE IsSequence(s) /\ Range(s) \subseteq X
<1>1. Len(s) \in Nat /\ DOMAIN s = 1 .. Len(s) /\ \A i \in 1 .. Len(s) : s[i] \in X
  OBVIOUS
<1>2. s = [i \in 1 .. Len(s) |-> s[i]]
  OBVIOUS
<1>3. \A i \in 1 .. Len(s) : s[i] \in Range(s)
  BY <1>1 DEF Range
<1>4. s \in Seq(Range(s))
  BY <1>1, <1>2, <1>3
<1> QED
  BY <1>1, <1>4 DEF IsSequence, Range

\* The elements of a concatenation.
LEMMA Concatenated ==
  ASSUME NEW X, NEW a \in Seq(X), NEW b \in Seq(X)
  PROVE  /\ Len(a \o b) = Len(a) + Len(b)
         /\ \A i \in 1 .. Len(a) : (a \o b)[i] = a[i]
         /\ \A i \in 1 .. Len(b) : (a \o b)[Len(a) + i] = b[i]
  OBVIOUS

\* Cuts of one length follow cuts of another.
Spans(D, A, c) == c \in [0 .. D -> 0 .. A] /\ c[0] = 0 /\ c[D] = A
Joined(D, F, A, c1, c2, c) ==
  /\ \A i \in 0 .. D : c[i] = c1[i]
  /\ \A i \in 0 .. F : c[D + i] = A + c2[i]

\* Cuts of one length, followed by those of another, are cuts of both.
LEMMA JoinCuts ==
  ASSUME NEW D \in Nat, NEW F \in Nat, NEW A \in Nat, NEW B \in Nat,
         NEW c1, Spans(D, A, c1), NEW c2, Spans(F, B, c2)
  PROVE  \E c : Spans(D + F, A + B, c) /\ Joined(D, F, A, c1, c2, c)
<1>0. /\ c1 \in [0 .. D -> 0 .. A] /\ c1[0] = 0 /\ c1[D] = A
      /\ c2 \in [0 .. F -> 0 .. B] /\ c2[0] = 0 /\ c2[F] = B
  BY DEF Spans
<1> DEFINE c == [i \in 0 .. D + F |-> IF i <= D THEN c1[i] ELSE A + c2[i - D]]
<1>1. c \in [0 .. D + F -> 0 .. A + B]
  BY <1>0
<1>2. \A i \in 0 .. D : c[i] = c1[i]
  OBVIOUS
<1>3. ASSUME NEW i \in 0 .. F PROVE c[D + i] = A + c2[i]
  <2>1. CASE i = 0
    BY <2>1, <1>0, <1>2
  <2>2. CASE i # 0
    <3>1. D + i \in 0 .. D + F /\ ~(D + i <= D) /\ D + i - D = i
      BY <2>2
    <3> QED
      BY <3>1
  <2> QED
    BY <2>1, <2>2
<1> HIDE DEF c
<1>4. c[0] = 0 /\ c[D + F] = A + B
  BY <1>0, <1>2, <1>3
<1> QED
  BY <1>1, <1>2, <1>3, <1>4 DEF Spans, Joined

\* The elements of a pattern are its directories, then its characters.
LEMMA ElementsAre ==
  ASSUME NEW p, GoodPattern(p)
  PROVE  /\ Len(p.dirs) \in Nat /\ Len(p.file) \in Nat
         /\ Len(Elements(p)) = Len(p.dirs) + Len(p.file)
         /\ \A i \in 1 .. Len(p.dirs) : Elements(p)[i] = <<"directory", p.dirs[i]>>
         /\ \A i \in 1 .. Len(p.file) : Elements(p)[Len(p.dirs) + i] = <<"file", p.file[i]>>
<1> DEFINE X == {"directory", "file"} \X (Range(p.dirs) \cup Range(p.file))
<1> DEFINE a == [i \in 1 .. Len(p.dirs) |-> <<"directory", p.dirs[i]>>]
<1> DEFINE b == [i \in 1 .. Len(p.file) |-> <<"file", p.file[i]>>]
<1>1. /\ Len(p.dirs) \in Nat /\ \A i \in 1 .. Len(p.dirs) : p.dirs[i] \in Range(p.dirs)
      /\ Len(p.file) \in Nat /\ \A i \in 1 .. Len(p.file) : p.file[i] \in Range(p.file)
  BY SequenceHas DEF GoodPattern
<1>2. a \in Seq(X) /\ Len(a) = Len(p.dirs) /\ b \in Seq(X) /\ Len(b) = Len(p.file)
  BY <1>1
<1>3. \A i \in 1 .. Len(p.dirs) : a[i] = <<"directory", p.dirs[i]>>
  OBVIOUS
<1>4. \A i \in 1 .. Len(p.file) : b[i] = <<"file", p.file[i]>>
  OBVIOUS
<1>5. Elements(p) = a \o b
  BY DEF Elements
<1> HIDE DEF a, b, X
<1>9. PICK u \in Seq(X), v \in Seq(X) : u = a /\ v = b
  BY <1>2
<1>6. /\ Len(a \o b) = Len(a) + Len(b)
      /\ \A i \in 1 .. Len(a) : (a \o b)[i] = a[i]
      /\ \A i \in 1 .. Len(b) : (a \o b)[Len(a) + i] = b[i]
  <2>1. /\ Len(u \o v) = Len(u) + Len(v)
        /\ \A i \in 1 .. Len(u) : (u \o v)[i] = u[i]
        /\ \A i \in 1 .. Len(v) : (u \o v)[Len(u) + i] = v[i]
    BY Concatenated
  <2> QED
    BY <1>9, <2>1, Zenon
<1>7. Len(p.dirs) \in Nat /\ Len(p.file) \in Nat
  BY <1>1
<1> QED
  BY <1>2, <1>3, <1>4, <1>5, <1>6, <1>7, Zenon

\* There is a symbol for whatever no pattern names.
LEMMA OtherSymbols == ASSUME NEW P PROVE <<"directory", "OTHER">> \in Symbols(P) /\ <<"file", "OTHER">> \in Symbols(P)
  BY DEF Symbols

\* What a pattern names is a symbol.
LEMMA NamedSymbols ==
  ASSUME NEW P, NEW p \in P, GoodPattern(p)
  PROVE  /\ \A i \in 1 .. Len(p.dirs) : p.dirs[i] # "**" => <<"directory", p.dirs[i]>> \in Symbols(P)
         /\ \A i \in 1 .. Len(p.file) : p.file[i] \notin {"*", "?"} => <<"file", p.file[i]>> \in Symbols(P)
<1>2. DOMAIN p.dirs = 1 .. Len(p.dirs) /\ DOMAIN p.file = 1 .. Len(p.file)
  BY SequenceHas DEF GoodPattern
<1>3. ASSUME NEW i \in 1 .. Len(p.dirs), p.dirs[i] # "**" PROVE <<"directory", p.dirs[i]>> \in Symbols(P)
  <2>1. p.dirs[i] \in Range(p.dirs)
    BY <1>2 DEF Range
  <2>2. p.dirs[i] \in (UNION {Range(q.dirs) : q \in P}) \ {"**"}
    <3> DEFINE U == {Range(q.dirs) : q \in P}
    <3>1. Range(p.dirs) \in U
      OBVIOUS
    <3> HIDE DEF U
    <3>2. p.dirs[i] \in UNION U
      BY <2>1, <3>1
    <3>3. p.dirs[i] \in (UNION U) \ {"**"}
      BY <1>3, <3>2
    <3> QED
      BY <3>3 DEF U
  <2> QED
    BY <2>2 DEF Symbols
<1>4. ASSUME NEW i \in 1 .. Len(p.file), p.file[i] \notin {"*", "?"} PROVE <<"file", p.file[i]>> \in Symbols(P)
  <2>1. p.file[i] \in Range(p.file)
    BY <1>2 DEF Range
  <2>2. p.file[i] \in (UNION {Range(q.file) : q \in P}) \ {"*", "?"}
    <3> DEFINE U == {Range(q.file) : q \in P}
    <3>1. Range(p.file) \in U
      OBVIOUS
    <3> HIDE DEF U
    <3>2. p.file[i] \in UNION U
      BY <2>1, <3>1
    <3>3. p.file[i] \in (UNION U) \ {"*", "?"}
      BY <1>4, <3>2
    <3> QED
      BY <3>3 DEF U
  <2> QED
    BY <2>2 DEF Symbols
<1> QED
  BY <1>3, <1>4

\* The symbol of what an element of a pattern matches is one the automaton moves
\* on there.
LEMMA ReadsDirectory ==
  ASSUME NEW P, NEW p \in P, GoodPattern(p), NEW i \in 1 .. Len(p.dirs), NEW x,
         p.dirs[i] = "**" \/ p.dirs[i] \in {x, "?"}
  PROVE  /\ IsStar(<<"directory", p.dirs[i]>>) <=> p.dirs[i] = "**"
         /\ Sym("directory", x, Symbols(P)) \in Taken(<<"directory", p.dirs[i]>>, Symbols(P))
<1>1. IsStar(<<"directory", p.dirs[i]>>) <=> p.dirs[i] = "**"
  BY DEF IsStar
<1>2. CASE p.dirs[i] = "**"
  <2>1. Sym("directory", x, Symbols(P)) \in Symbols(P) /\ Sym("directory", x, Symbols(P))[1] = "directory"
    BY OtherSymbols DEF Sym
  <2> QED
    BY <1>1, <1>2, <2>1 DEF Taken
<1>3. CASE p.dirs[i] # "**"
  <2>1. p.dirs[i] # "?"
    <3>1. "?" \notin Range(p.dirs)
      BY DEF GoodPattern
    <3>2. p.dirs[i] \in Range(p.dirs)
      BY SequenceHas DEF GoodPattern
    <3> QED
      BY <3>1, <3>2
  <2>2. p.dirs[i] = x
    BY <1>3, <2>1
  <2>3. Sym("directory", x, Symbols(P)) = <<"directory", p.dirs[i]>>
    BY <1>3, <2>2, NamedSymbols DEF Sym
  <2>4. Taken(<<"directory", p.dirs[i]>>, Symbols(P)) = {<<"directory", p.dirs[i]>>}
    BY <1>1, <1>3 DEF Taken
  <2> QED
    BY <1>1, <2>3, <2>4
<1> QED
  BY <1>2, <1>3

\* A character of the file pattern reads the symbol of the one it takes.
LEMMA ReadsCharacter ==
  ASSUME NEW P, NEW p \in P, GoodPattern(p), NEW i \in 1 .. Len(p.file), NEW x,
         p.file[i] = "*" \/ p.file[i] \in {x, "?"}
  PROVE  /\ IsStar(<<"file", p.file[i]>>) <=> p.file[i] = "*"
         /\ Sym("file", x, Symbols(P)) \in Taken(<<"file", p.file[i]>>, Symbols(P))
<1>1. IsStar(<<"file", p.file[i]>>) <=> p.file[i] = "*"
  BY DEF IsStar
<1>2. CASE p.file[i] \in {"*", "?"}
  <2>1. Sym("file", x, Symbols(P)) \in Symbols(P) /\ Sym("file", x, Symbols(P))[1] = "file"
    BY OtherSymbols DEF Sym
  <2>2. Taken(<<"file", p.file[i]>>, Symbols(P)) = {s \in Symbols(P) : s[1] = "file"}
    BY <1>1, <1>2 DEF Taken
  <2> QED
    BY <1>1, <2>1, <2>2
<1>3. CASE p.file[i] \notin {"*", "?"}
  <2>1. p.file[i] = x
    BY <1>3
  <2>2. Sym("file", x, Symbols(P)) = <<"file", p.file[i]>>
    BY <1>3, <2>1, NamedSymbols DEF Sym
  <2>3. Taken(<<"file", p.file[i]>>, Symbols(P)) = {<<"file", p.file[i]>>}
    BY <1>1, <1>3 DEF Taken
  <2> QED
    BY <1>1, <2>2, <2>3
<1> QED
  BY <1>2, <1>3

\* The cuts of a matched file are those of a run over its word.
LEMMA RunOfCuts ==
  ASSUME NEW P, NEW p \in P, GoodPattern(p), NEW d, NEW n, Len(d) \in Nat, Len(n) \in Nat,
         NEW c1, Cuts("**", p.dirs, d, c1), NEW c2, Cuts("*", p.file, n, c2)
  PROVE  \E c : Run(Elements(p), Word(d, n, Symbols(P)), Len(d) + Len(n), Symbols(P), c)
<1> DEFINE S == Symbols(P)
<1> DEFINE w == Word(d, n, S)
<1> DEFINE e == Elements(p)
<1>0. PICK D \in Nat, F \in Nat : D = Len(p.dirs) /\ F = Len(p.file)
  BY ElementsAre
<1>1. Len(e) = D + F
  BY <1>0, ElementsAre
<1>2. Spans(D, Len(d), c1) /\ Spans(F, Len(n), c2)
  BY <1>0 DEF Cuts, Spans
<1>3. PICK c : Spans(D + F, Len(d) + Len(n), c) /\ Joined(D, F, Len(d), c1, c2, c)
  BY <1>2, JoinCuts
<1>4. /\ c \in [0 .. D + F -> 0 .. Len(d) + Len(n)]
      /\ c[0] = 0 /\ c[D + F] = Len(d) + Len(n)
      /\ \A i \in 0 .. D : c[i] = c1[i] /\ c1[i] \in 0 .. Len(d)
      /\ \A i \in 0 .. F : c[D + i] = Len(d) + c2[i] /\ c2[i] \in 0 .. Len(n)
  BY <1>2, <1>3 DEF Spans, Joined
<1>5. /\ \A k \in 1 .. Len(d) : w[k] = Sym("directory", d[k], S)
      /\ \A k \in 1 .. Len(n) : w[Len(d) + k] = Sym("file", n[k], S)
  BY DEF Word
<1> HIDE DEF w
<1>6. ASSUME NEW i \in 1 .. D PROVE RunBy(e[i], w, S, c[i - 1], c[i])
  <2>1. i \in 1 .. Len(p.dirs) /\ e[i] = <<"directory", p.dirs[i]>>
    BY <1>0, ElementsAre
  <2>2. c[i - 1] = c1[i - 1] /\ c[i] = c1[i] /\ c1[i - 1] \in 0 .. Len(d) /\ c1[i] \in 0 .. Len(d)
    <3>1. i - 1 \in 0 .. D /\ i \in 0 .. D
      OBVIOUS
    <3> QED
      BY <1>2, <1>4, <3>1
  <2>3. CutBy("**", p.dirs, d, i, c1[i - 1], c1[i])
    BY <2>1 DEF Cuts
  <2>4. CASE p.dirs[i] = "**"
    <3>1. ASSUME NEW t \in c1[i - 1] + 1 .. c1[i] PROVE w[t] \in Taken(e[i], S)
      <4>1. t \in 1 .. Len(d)
        BY <2>2
      <4>2. w[t] = Sym("directory", d[t], S)
        BY <1>5, <4>1
      <4> QED
        BY <2>1, <2>4, <4>2, ReadsDirectory
    <3>2. IsStar(e[i])
      BY <2>1, <2>4, ReadsDirectory
    <3>3. c1[i - 1] <= c1[i]
      BY <2>3, <2>4 DEF CutBy
    <3> QED
      BY <2>2, <3>1, <3>2, <3>3 DEF RunBy
  <2>5. CASE p.dirs[i] # "**"
    <3>1. c1[i] = c1[i - 1] + 1 /\ p.dirs[i] \in {d[c1[i]], "?"}
      BY <2>3, <2>5 DEF CutBy
    <3>2. c1[i] \in 1 .. Len(d)
      BY <2>2, <3>1
    <3>3. w[c1[i]] = Sym("directory", d[c1[i]], S)
      BY <1>5, <3>2
    <3>4. ~IsStar(e[i]) /\ w[c1[i]] \in Taken(e[i], S)
      BY <2>1, <2>5, <3>1, <3>3, ReadsDirectory
    <3> QED
      BY <2>2, <3>1, <3>4 DEF RunBy
  <2> QED
    BY <2>4, <2>5
<1>7. ASSUME NEW i \in 1 .. F PROVE RunBy(e[D + i], w, S, c[D + i - 1], c[D + i])
  <2>1. i \in 1 .. Len(p.file) /\ e[D + i] = <<"file", p.file[i]>>
    BY <1>0, ElementsAre
  <2>2. /\ c[D + i - 1] = Len(d) + c2[i - 1] /\ c[D + i] = Len(d) + c2[i]
        /\ c2[i - 1] \in 0 .. Len(n) /\ c2[i] \in 0 .. Len(n)
    <3>1. i - 1 \in 0 .. F /\ i \in 0 .. F /\ D + i - 1 = D + (i - 1)
      BY <1>1
    <3> QED
      BY <1>2, <1>4, <3>1
  <2>3. CutBy("*", p.file, n, i, c2[i - 1], c2[i])
    BY <2>1 DEF Cuts
  <2>4. CASE p.file[i] = "*"
    <3>1. ASSUME NEW t \in c[D + i - 1] + 1 .. c[D + i] PROVE w[t] \in Taken(e[D + i], S)
      <4>1. t - Len(d) \in 1 .. Len(n) /\ t = Len(d) + (t - Len(d))
        <5>1. t \in Len(d) + c2[i - 1] + 1 .. Len(d) + c2[i]
          BY <2>2
        <5>2. Len(d) \in Nat /\ Len(n) \in Nat /\ c2[i - 1] \in 0 .. Len(n) /\ c2[i] \in 0 .. Len(n)
          BY <2>2
        <5> HIDE DEF e
        <5> QED
          BY <5>1, <5>2
      <4>2. w[t] = Sym("file", n[t - Len(d)], S)
        BY <1>5, <4>1
      <4> QED
        BY <2>1, <2>4, <4>2, ReadsCharacter
    <3>2. IsStar(e[D + i])
      BY <2>1, <2>4, ReadsCharacter
    <3>3. c2[i - 1] <= c2[i]
      BY <2>3, <2>4 DEF CutBy
    <3>4. c[D + i - 1] <= c[D + i]
      BY <2>2, <3>3
    <3> QED
      BY <3>1, <3>2, <3>4 DEF RunBy
  <2>5. CASE p.file[i] # "*"
    <3>1. c2[i] = c2[i - 1] + 1 /\ p.file[i] \in {n[c2[i]], "?"}
      BY <2>3, <2>5 DEF CutBy
    <3>2. c2[i] \in 1 .. Len(n)
      BY <2>2, <3>1
    <3>3. w[Len(d) + c2[i]] = Sym("file", n[c2[i]], S)
      BY <1>5, <3>2
    <3>4. ~IsStar(e[D + i]) /\ w[c[D + i]] \in Taken(e[D + i], S)
      BY <2>1, <2>2, <2>5, <3>1, <3>3, ReadsCharacter
    <3>5. c[D + i] = c[D + i - 1] + 1
      BY <2>2, <3>1
    <3> QED
      BY <3>4, <3>5 DEF RunBy
  <2> QED
    BY <2>4, <2>5
<1>8. ASSUME NEW i \in 1 .. D + F PROVE RunBy(e[i], w, S, c[i - 1], c[i])
  <2>1. CASE i <= D
    BY <1>6, <2>1
  <2>2. CASE i > D
    <3>1. i - D \in 1 .. F /\ D + (i - D) = i /\ D + (i - D) - 1 = i - 1
      BY <1>1, <2>2
    <3> QED
      BY <1>7, <3>1
  <2> QED
    BY <1>1, <2>1, <2>2
<1> HIDE DEF e
<1>9. Run(e, w, Len(d) + Len(n), S, c)
  BY <1>1, <1>4, <1>8 DEF Run
<1> QED
  BY <1>9 DEF e, w

-----------------------------------------------------------------------------
(* A route within the scene is one with a star ahead                        *)

\* A pattern with a star put before it.
LEMMA StarAhead ==
  ASSUME NEW s, IsSequence(s), "?" \notin Range(s)
  PROVE  LET q == <<"**">> \o s
         IN  /\ Len(q) = 1 + Len(s) /\ q[1] = "**" /\ \A i \in 1 .. Len(s) : q[1 + i] = s[i]
             /\ IsSequence(q) /\ "?" \notin Range(q)
<1> DEFINE q == <<"**">> \o s
<1> HIDE DEF q
<1> DEFINE Y == Range(s) \cup {"**"}
<1>0. s \in Seq(Y)
  BY SequenceHas DEF IsSequence
<1>9. "**" \in Y
  OBVIOUS
<1> HIDE DEF Y
<1>1. PICK z \in Y, v \in Seq(Y) : z = "**" /\ v = s
  BY <1>0, <1>9
<1> DEFINE u == <<z>>
<1>2. u \in Seq(Y) /\ Len(u) = 1 /\ u[1] = "**"
  BY <1>1
<1> HIDE DEF u
<1>3. /\ Len(u \o v) = Len(u) + Len(v)
      /\ \A i \in 1 .. Len(u) : (u \o v)[i] = u[i]
      /\ \A i \in 1 .. Len(v) : (u \o v)[Len(u) + i] = v[i]
  <2>1. PICK t \in Seq(Y) : t = u
    BY <1>2
  <2>2. /\ Len(t \o v) = Len(t) + Len(v)
        /\ \A i \in 1 .. Len(t) : (t \o v)[i] = t[i]
        /\ \A i \in 1 .. Len(v) : (t \o v)[Len(t) + i] = v[i]
    BY Concatenated
  <2> QED
    BY <2>1, <2>2, Zenon
<1>4. IsSequence(u \o v)
  <2>1. u \o v \in Seq(Y)
    BY <1>2
  <2> QED
    BY <2>1, SequencesAre
<1>5. q = u \o v
  BY <1>1 DEF q, u
<1>6. Len(v) = Len(s)
  BY <1>1
<1>7. \A i \in 1 .. Len(s) : q[1 + i] = s[i]
  BY <1>1, <1>2, <1>3, <1>5, <1>6
<1>8. Len(q) = 1 + Len(s) /\ q[1] = "**"
  BY <1>2, <1>3, <1>5, <1>6
<1>10. Len(q) = 1 + Len(s) /\ q[1] = "**" /\ IsSequence(q) /\ \A i \in 1 .. Len(s) : q[1 + i] = s[i]
  BY <1>4, <1>5, <1>7, <1>8
<1>11. "?" \notin Range(q)
  <2> SUFFICES ASSUME NEW i \in DOMAIN q, q[i] = "?" PROVE FALSE
    BY DEF Range
  <2>1. i \in 1 .. 1 + Len(s)
    BY <1>10, SequenceHas
  <2>2. i # 1
    BY <1>10
  <2>3. i - 1 \in 1 .. Len(s) /\ i = 1 + (i - 1)
    BY <2>1, <2>2
  <2>4. s[i - 1] = "?"
    BY <1>10, <2>3
  <2>5. s[i - 1] \in Range(s)
    BY <2>3, SequenceHas
  <2> QED
    BY <2>4, <2>5
<1> QED
  BY <1>10, <1>11 DEF q

\* The pattern of a route has the form of one.
LEMMA RoutePatternGood == ASSUME NEW r, GoodRoute(r) PROVE GoodPattern(RoutePattern(r)) /\ RoutePattern(r).file = r.file
<1>1. IsSequence(r.dirs) /\ IsSequence(r.file) /\ "?" \notin Range(r.dirs)
  BY DEF GoodRoute, GoodPattern
<1>2. IsSequence(<<"**">> \o r.dirs) /\ "?" \notin Range(<<"**">> \o r.dirs)
  BY <1>1, StarAhead
<1>3. RoutePattern(r).file = r.file /\ RoutePattern(r).dirs \in {r.dirs, <<"**">> \o r.dirs}
  BY DEF RoutePattern
<1> QED
  BY <1>1, <1>2, <1>3 DEF GoodPattern

\* The pattern of a route matches the directories of a file where the route
\* matches them, wherever the scene of the file is.
LEMMA RoutePatternMatches ==
  ASSUME NEW r, GoodRoute(r), NEW X, NEW d \in Seq(X), NEW inScene \in ScenePaths(d), PlaceMatches(r, d, inScene)
  PROVE  \E c : Cuts("**", RoutePattern(r).dirs, d, c)
<1>1. IsSequence(r.dirs) /\ IsSequence(r.file) /\ "?" \notin Range(r.dirs) /\ r.scope \in {"scene", "evidence"}
  BY DEF GoodRoute, GoodPattern
<1>2. Len(d) \in Nat /\ Len(r.dirs) \in Nat
  BY <1>1, SequenceHas
<1>3. CASE r.scope = "evidence"
  <2>1. RoutePattern(r).dirs = r.dirs /\ RoutePattern(r).file = r.file
    BY <1>3 DEF RoutePattern
  <2>2. GlobMatches("**", r.dirs, d)
    BY <1>3 DEF PlaceMatches
  <2> QED
    BY <1>2, <2>1, <2>2, GlobHasCuts
<1>4. CASE r.scope = "scene"
  <2> DEFINE q == <<"**">> \o r.dirs
  <2>1. RoutePattern(r).dirs = q /\ RoutePattern(r).file = r.file
    BY <1>4 DEF RoutePattern
  <2>2. PICK y \in inScene : GlobMatches("**", r.dirs, y)
    BY <1>4 DEF PlaceMatches
  <2>3. PICK k \in 0 .. Len(d) : y = SubSeq(d, k + 1, Len(d))
    BY <2>2 DEF ScenePaths
  <2>4. Len(y) = Len(d) - k /\ Len(y) \in Nat /\ \A i \in 1 .. Len(y) : y[i] = d[k + i]
    BY <1>2, <2>3
  <2>5. PICK c1 : Cuts("**", r.dirs, y, c1)
    BY <1>2, <2>2, <2>4, GlobHasCuts
  <2>6. PICK D \in Nat, A \in Nat : D = Len(r.dirs) /\ A = Len(y)
    BY <1>2, <2>4
  <2> DEFINE c0 == [i \in 0 .. 1 |-> IF i = 0 THEN 0 ELSE k]
  <2>7. Spans(1, k, c0)
    BY DEF Spans
  <2>8. Spans(D, A, c1)
    BY <2>5, <2>6 DEF Cuts, Spans
  <2>9. c0[0] = 0 /\ c0[1] = k
    OBVIOUS
  <2> HIDE DEF c0, q
  <2>10. PICK c : Spans(1 + D, k + A, c) /\ Joined(1, D, k, c0, c1, c)
    BY <2>7, <2>8, JoinCuts
  <2>11. Len(q) = 1 + D /\ q[1] = "**" /\ \A i \in 1 .. D : q[1 + i] = r.dirs[i]
    BY <1>1, <2>6, StarAhead DEF q
  <2>12. ASSUME NEW i \in 1 .. 1 + D PROVE CutBy("**", q, d, i, c[i - 1], c[i])
    <3>1. c[0] = 0 /\ c[1] = k /\ \A j \in 0 .. D : c[1 + j] = k + c1[j]
      <4>1. 0 \in 0 .. 1 /\ 1 \in 0 .. 1
        OBVIOUS
      <4> QED
        BY <2>9, <2>10, <4>1 DEF Joined
    <3>2. CASE i = 1
      BY <2>11, <3>1, <3>2 DEF CutBy
    <3>3. CASE i # 1
      <4>1. PICK j \in 1 .. D : i = 1 + j
        <5>1. i - 1 \in 1 .. D /\ i = 1 + (i - 1)
          BY <3>3
        <5> QED
          BY <5>1
      <4>2. j - 1 \in 0 .. D /\ j \in 0 .. D /\ i - 1 = 1 + (j - 1)
        BY <4>1
      <4>3. c[i - 1] = k + c1[j - 1] /\ c[i] = k + c1[j] /\ q[i] = r.dirs[j]
        BY <2>11, <3>1, <4>1, <4>2
      <4>4. CutBy("**", r.dirs, y, j, c1[j - 1], c1[j]) /\ c1[j - 1] \in 0 .. A /\ c1[j] \in 0 .. A
        BY <2>5, <2>6, <2>8, <4>1, <4>2 DEF Cuts, Spans
      <4>5. CASE q[i] = "**"
        BY <4>3, <4>4, <4>5 DEF CutBy
      <4>6. CASE q[i] # "**"
        <5>1. c1[j] = c1[j - 1] + 1 /\ q[i] \in {y[c1[j]], "?"}
          BY <4>3, <4>4, <4>6 DEF CutBy
        <5>2. c1[j] \in 1 .. Len(y)
          BY <2>6, <4>4, <5>1
        <5>3. y[c1[j]] = d[k + c1[j]]
          BY <2>4, <5>2
        <5>4. c[i] = c[i - 1] + 1 /\ q[i] \in {d[c[i]], "?"}
          BY <4>3, <4>4, <5>1, <5>3
        <5> QED
          BY <4>6, <5>4 DEF CutBy
      <4> QED
        BY <4>5, <4>6
    <3> QED
      BY <3>2, <3>3
  <2>13. k + A = Len(d)
    BY <2>4, <2>6, <1>2
  <2>14. Cuts("**", q, d, c)
    BY <2>10, <2>11, <2>12, <2>13 DEF Cuts, Spans
  <2> QED
    BY <2>1, <2>14
<1> QED
  BY <1>1, <1>3, <1>4

-----------------------------------------------------------------------------
(* The runs of the automata                                                 *)

\* The edges and moves of an automaton.
LEMMA CompileIs ==
  ASSUME NEW p, GoodPattern(p), NEW S
  PROVE  LET e == Elements(p)
             nfa == Compile(p, S)
         IN  /\ Len(e) \in Nat /\ nfa.accept = 2 * Len(e) /\ Rising(nfa)
             /\ \A i \in 1 .. Len(e) : IsStar(e[i]) =>
                  {<<2 * i - 2, 2 * i>>, <<2 * i - 2, 2 * i - 1>>, <<2 * i - 1, 2 * i>>} \subseteq nfa.epsilon
             /\ \A i \in 1 .. Len(e) : \A s \in Taken(e[i], S) :
                  IF IsStar(e[i]) THEN <<2 * i - 1, s, 2 * i - 1>> \in nfa.moves ELSE <<2 * i - 2, s, 2 * i>> \in nfa.moves
             /\ \A m \in nfa.moves : m[3] \in 0 .. nfa.accept
<1> DEFINE e == Elements(p)
<1> DEFINE nfa == Compile(p, S)
<1> DEFINE stars == {i \in 1 .. Len(e) : IsStar(e[i])}
<1> DEFINE edges(i) == {<<2 * i - 2, 2 * i>>, <<2 * i - 2, 2 * i - 1>>, <<2 * i - 1, 2 * i>>}
<1> DEFINE from(i) == IF i \in stars THEN 2 * i - 1 ELSE 2 * i - 2
<1> DEFINE to(i) == IF i \in stars THEN 2 * i - 1 ELSE 2 * i
<1>0. PICK N \in Nat : N = Len(e)
  <2>1. Len(e) \in Nat
    BY ElementsAre
  <2> QED
    BY <2>1
<1>1. /\ nfa.accept = 2 * N /\ nfa.epsilon = UNION {edges(i) : i \in stars}
      /\ nfa.moves = UNION {{<<from(i), s, to(i)>> : s \in Taken(e[i], S)} : i \in 1 .. N}
  BY <1>0 DEF Compile
<1> HIDE DEF nfa
<1>2. stars \subseteq 1 .. N
  BY <1>0
<1>3. ASSUME NEW x \in nfa.epsilon PROVE x[1] \in 0 .. nfa.accept /\ x[2] \in 0 .. nfa.accept /\ x[1] < x[2]
  <2>1. PICK i \in stars : x \in edges(i)
    BY <1>1
  <2>2. i \in 1 .. N
    BY <1>2
  <2> QED
    BY <2>1, <2>2, <1>1
<1>4. ASSUME NEW m \in nfa.moves PROVE m[3] \in 0 .. nfa.accept
  <2>1. PICK i \in 1 .. N : m \in {<<from(i), s, to(i)>> : s \in Taken(e[i], S)}
    BY <1>1
  <2>2. m[3] = to(i)
    BY <2>1
  <2>3. to(i) \in 0 .. 2 * N
    OBVIOUS
  <2> QED
    BY <2>2, <2>3, <1>1
<1>5. ASSUME NEW i \in 1 .. N, IsStar(e[i]) PROVE edges(i) \subseteq nfa.epsilon
  <2>1. i \in stars
    BY <1>0, <1>5
  <2> QED
    BY <1>1, <2>1
<1>6. ASSUME NEW i \in 1 .. N, NEW s \in Taken(e[i], S)
      PROVE  IF IsStar(e[i]) THEN <<2 * i - 1, s, 2 * i - 1>> \in nfa.moves ELSE <<2 * i - 2, s, 2 * i>> \in nfa.moves
  <2>1. i \in stars <=> IsStar(e[i])
    BY <1>0
  <2>2. <<from(i), s, to(i)>> \in nfa.moves
    <3>1. <<from(i), s, to(i)>> \in {<<from(i), t, to(i)>> : t \in Taken(e[i], S)}
      OBVIOUS
    <3> HIDE DEF from, to
    <3> QED
      BY <1>1, <3>1
  <2> QED
    BY <2>1, <2>2
<1>7. Rising(nfa)
  BY <1>1, <1>3 DEF Rising
<1> QED
  BY <1>0, <1>1, <1>4, <1>5, <1>6, <1>7 DEF nfa

\* Where the run of c is after k symbols: the states reached with the elements
\* that end there, and the loops of the stars under way.
Path(e, c, k) ==
  {2 * i : i \in {j \in 0 .. Len(e) : c[j] = k}}
    \cup {2 * i - 1 : i \in {j \in 1 .. Len(e) : IsStar(e[j]) /\ c[j - 1] <= k /\ k <= c[j]}}

\* A set of states that the edges keep holds all of them as soon as it holds
\* what the last symbol led to.
LEMMA Landing ==
  ASSUME NEW p, GoodPattern(p), NEW S, NEW w, NEW L \in Nat, NEW c, Run(Elements(p), w, L, S, c),
         NEW k \in 0 .. L, NEW M,
         \A x \in Compile(p, S).epsilon : x[1] \in M => x[2] \in M,
         k = 0 => 0 \in M,
         \A i \in 1 .. Len(Elements(p)) : ~IsStar(Elements(p)[i]) /\ c[i] = k => 2 * i \in M,
         \A i \in 1 .. Len(Elements(p)) : IsStar(Elements(p)[i]) /\ c[i - 1] < k /\ k <= c[i] => 2 * i - 1 \in M
  PROVE  Path(Elements(p), c, k) \subseteq M
<1> DEFINE e == Elements(p)
<1> DEFINE nfa == Compile(p, S)
<1>0. PICK N \in Nat : N = Len(e)
  <2>1. Len(e) \in Nat
    BY ElementsAre
  <2> QED
    BY <2>1
<1>1. /\ c \in [0 .. N -> 0 .. L] /\ c[0] = 0 /\ c[N] = L
      /\ \A i \in 1 .. N : RunBy(e[i], w, S, c[i - 1], c[i])
  BY <1>0 DEF Run
<1>2. \A i \in 1 .. N : IsStar(e[i]) =>
        <<2 * i - 2, 2 * i>> \in nfa.epsilon /\ <<2 * i - 2, 2 * i - 1>> \in nfa.epsilon /\ <<2 * i - 1, 2 * i>> \in nfa.epsilon
  BY <1>0, CompileIs
<1>3. \A a, b : <<a, b>> \in nfa.epsilon /\ a \in M => b \in M
  OBVIOUS
<1>4. /\ \A i \in 1 .. N : ~IsStar(e[i]) /\ c[i] = k => 2 * i \in M
      /\ \A i \in 1 .. N : IsStar(e[i]) /\ c[i - 1] < k /\ k <= c[i] => 2 * i - 1 \in M
  BY <1>0
<1> HIDE DEF e, nfa
<1>5. ASSUME NEW i \in 1 .. N, IsStar(e[i]), c[i - 1] = k => 2 * (i - 1) \in M, c[i - 1] <= k, k <= c[i]
      PROVE  2 * i - 1 \in M /\ 2 * i \in M
  <2>1. c[i - 1] \in 0 .. L /\ 2 * (i - 1) = 2 * i - 2
    BY <1>1
  <2>2. 2 * i - 1 \in M
    <3>1. CASE c[i - 1] = k
      BY <1>2, <1>3, <1>5, <2>1, <3>1
    <3>2. CASE c[i - 1] # k
      <4>1. c[i - 1] < k
        BY <1>5, <2>1, <3>2
      <4> QED
        BY <1>4, <1>5, <4>1
    <3> QED
      BY <3>1, <3>2
  <2> QED
    BY <1>2, <1>3, <1>5, <2>2
<1> DEFINE T == {i \in 0 .. N : c[i] = k => 2 * i \in M}
<1>6. 0 \in T
  BY <1>1
<1>7. ASSUME NEW n \in 0 .. N, n < N, n \in T PROVE n + 1 \in T
  <2>1. n + 1 \in 0 .. N /\ n + 1 \in 1 .. N /\ n + 1 - 1 = n
    BY <1>7
  <2> SUFFICES ASSUME c[n + 1] = k PROVE 2 * (n + 1) \in M
    BY <2>1
  <2>2. CASE ~IsStar(e[n + 1])
    BY <1>4, <2>1, <2>2
  <2>3. CASE IsStar(e[n + 1])
    <3>1. c[n] <= c[n + 1]
      BY <1>1, <2>1, <2>3 DEF RunBy
    <3>2. k <= c[n + 1] /\ c[n] <= k
      BY <3>1
    <3>3. c[n] = k => 2 * n \in M
      BY <1>7
    <3> QED
      BY <1>5, <2>1, <2>3, <3>2, <3>3
  <2> QED
    BY <2>2, <2>3
<1>8. 0 .. N \subseteq T
  <2> HIDE DEF T
  <2> QED
    BY <1>6, <1>7, UpToN
<1>9. ASSUME NEW i \in 1 .. N, IsStar(e[i]), c[i - 1] <= k, k <= c[i] PROVE 2 * i - 1 \in M
  <2>1. i - 1 \in 0 .. N
    OBVIOUS
  <2>2. c[i - 1] = k => 2 * (i - 1) \in M
    BY <1>8, <2>1
  <2> QED
    BY <1>5, <1>9, <2>2
<1>10. ASSUME NEW i \in 0 .. N, c[i] = k PROVE 2 * i \in M
  BY <1>8, <1>10
<1>11. ASSUME NEW x \in Path(e, c, k) PROVE x \in M
  <2>1. CASE \E i \in 0 .. N : c[i] = k /\ x = 2 * i
    BY <1>10, <2>1
  <2>2. CASE \E i \in 1 .. N : IsStar(e[i]) /\ c[i - 1] <= k /\ k <= c[i] /\ x = 2 * i - 1
    BY <1>9, <2>2
  <2>3. \/ \E i \in 0 .. N : c[i] = k /\ x = 2 * i
        \/ \E i \in 1 .. N : IsStar(e[i]) /\ c[i - 1] <= k /\ k <= c[i] /\ x = 2 * i - 1
    BY <1>0, <1>11 DEF Path
  <2> QED
    BY <2>1, <2>2, <2>3
<1> QED
  BY <1>11 DEF e

\* The search begins with a pair that has the beginning of every run.
LEMMA StartsThere ==
  ASSUME NEW p, GoodPattern(p), NEW S, NEW w, NEW L \in Nat, NEW c, Run(Elements(p), w, L, S, c)
  PROVE  Path(Elements(p), c, 0) \subseteq EpsilonClosure(Compile(p, S), {0})
<1> DEFINE nfa == Compile(p, S)
<1> DEFINE e == Elements(p)
<1>0. PICK N \in Nat : N = Len(e)
  <2>1. Len(e) \in Nat
    BY ElementsAre
  <2> QED
    BY <2>1
<1>1. Rising(nfa) /\ {0} \in SUBSET (0 .. nfa.accept)
  BY <1>0, CompileIs
<1>2. PICK M : M = EpsilonClosure(nfa, {0})
  OBVIOUS
<1>3. 0 \in M /\ \A x \in nfa.epsilon : x[1] \in M => x[2] \in M
  BY <1>1, <1>2, ClosureLarger
<1>4. /\ c \in [0 .. N -> 0 .. L] /\ \A i \in 1 .. N : RunBy(e[i], w, S, c[i - 1], c[i])
  BY <1>0 DEF Run
<1>5. ASSUME NEW i \in 1 .. N, ~IsStar(e[i]) PROVE c[i] # 0
  <2>1. c[i] = c[i - 1] + 1
    BY <1>4, <1>5 DEF RunBy
  <2>2. c[i - 1] \in 0 .. L
    BY <1>4
  <2> QED
    BY <2>1, <2>2
<1>6. ASSUME NEW i \in 1 .. N PROVE ~(c[i - 1] < 0)
  BY <1>4
<1>7. 0 \in 0 .. L
  OBVIOUS
<1> QED
  BY <1>0, <1>2, <1>3, <1>5, <1>6, <1>7, Landing

\* From a pair with the state of two runs the search goes to one with the next.
LEMMA StepsThere ==
  ASSUME NEW p, GoodPattern(p), NEW S, NEW w, NEW L \in Nat, NEW c, Run(Elements(p), w, L, S, c),
         NEW k \in 0 .. L, k < L, NEW Q, Path(Elements(p), c, k) \subseteq Q
  PROVE  /\ Path(Elements(p), c, k + 1) \subseteq MovesOn(Compile(p, S), Q, w[k + 1])
         /\ \E m \in Compile(p, S).moves : m[1] \in Q /\ m[2] = w[k + 1]
         /\ Path(Elements(p), c, k + 1) # {}
<1> DEFINE nfa == Compile(p, S)
<1> DEFINE e == Elements(p)
<1> DEFINE R == {m[3] : m \in {x \in nfa.moves : x[1] \in Q /\ x[2] = w[k + 1]}}
<1>0. PICK N \in Nat : N = Len(e)
  <2>1. Len(e) \in Nat
    BY ElementsAre
  <2> QED
    BY <2>1
<1>1. /\ Rising(nfa) /\ \A m \in nfa.moves : m[3] \in 0 .. nfa.accept
      /\ \A i \in 1 .. N : \A s \in Taken(e[i], S) :
           IF IsStar(e[i]) THEN <<2 * i - 1, s, 2 * i - 1>> \in nfa.moves ELSE <<2 * i - 2, s, 2 * i>> \in nfa.moves
  BY <1>0, CompileIs
<1>2. PICK M : M = MovesOn(nfa, Q, w[k + 1])
  OBVIOUS
<1>3. R \in SUBSET (0 .. nfa.accept)
  BY <1>1
<1>4. M = EpsilonClosure(nfa, R)
  BY <1>2 DEF MovesOn
<1>5. \A a, b : <<a, w[k + 1], b>> \in nfa.moves /\ a \in Q => b \in R
  OBVIOUS
<1> HIDE DEF R
<1>6. R \subseteq M /\ \A x \in nfa.epsilon : x[1] \in M => x[2] \in M
  BY <1>1, <1>3, <1>4, ClosureLarger
<1>7. /\ c \in [0 .. N -> 0 .. L] /\ c[0] = 0 /\ c[N] = L
      /\ \A i \in 1 .. N : RunBy(e[i], w, S, c[i - 1], c[i])
  BY <1>0 DEF Run
<1>8. /\ \A i \in 0 .. N : c[i] = k => 2 * i \in Q
      /\ \A i \in 1 .. N : IsStar(e[i]) /\ c[i - 1] <= k /\ k <= c[i] => 2 * i - 1 \in Q
  BY <1>0 DEF Path
<1> HIDE DEF nfa, e
\* An element that ends with the symbol.
<1>9. ASSUME NEW i \in 1 .. N, ~IsStar(e[i]), c[i] = k + 1
      PROVE  2 * i - 2 \in Q /\ <<2 * i - 2, w[k + 1], 2 * i>> \in nfa.moves
  <2>1. c[i] = c[i - 1] + 1 /\ w[c[i]] \in Taken(e[i], S)
    BY <1>7, <1>9 DEF RunBy
  <2>2. i - 1 \in 0 .. N /\ c[i - 1] \in 0 .. L /\ 2 * (i - 1) = 2 * i - 2
    BY <1>7
  <2>3. c[i - 1] = k
    BY <1>9, <2>1, <2>2
  <2> QED
    BY <1>1, <1>8, <1>9, <2>1, <2>2, <2>3
\* A star that takes the symbol.
<1>10. ASSUME NEW i \in 1 .. N, IsStar(e[i]), c[i - 1] < k + 1, k + 1 <= c[i]
       PROVE  2 * i - 1 \in Q /\ <<2 * i - 1, w[k + 1], 2 * i - 1>> \in nfa.moves
  <2>1. c[i - 1] \in 0 .. L /\ c[i] \in 0 .. L
    BY <1>7
  <2>2. c[i - 1] <= k /\ k <= c[i] /\ k + 1 \in c[i - 1] + 1 .. c[i]
    BY <1>10, <2>1
  <2>3. w[k + 1] \in Taken(e[i], S)
    BY <1>7, <1>10, <2>2 DEF RunBy
  <2> QED
    BY <1>1, <1>8, <1>10, <2>2, <2>3
<1>11. Path(e, c, k + 1) \subseteq M
  <2>1. \A i \in 1 .. N : ~IsStar(e[i]) /\ c[i] = k + 1 => 2 * i \in M
    BY <1>5, <1>6, <1>9
  <2>2. \A i \in 1 .. N : IsStar(e[i]) /\ c[i - 1] < k + 1 /\ k + 1 <= c[i] => 2 * i - 1 \in M
    BY <1>5, <1>6, <1>10
  <2>3. k + 1 \in 0 .. L /\ k + 1 # 0
    OBVIOUS
  <2> QED
    BY <1>0, <1>6, <2>1, <2>2, <2>3, Landing DEF nfa, e
\* The element that takes the symbol: the first that ends after it.
<1>12. PICK i \in 1 .. N : c[i - 1] < k + 1 /\ k + 1 <= c[i]
  <2> DEFINE U == {j \in 0 .. N : k + 1 <= c[j]}
  <2>1. U \subseteq Nat /\ N \in U
    BY <1>7
  <2>2. PICK i \in U : \A j \in U : i <= j
    <3> HIDE DEF U
    <3> QED
      BY <2>1, LeastOf
  <2>3. i # 0
    BY <1>7, <2>2
  <2>4. i \in 1 .. N /\ i - 1 \in 0 .. N /\ i - 1 \notin U
    BY <2>2, <2>3
  <2>5. c[i - 1] \in 0 .. L
    BY <1>7, <2>4
  <2>6. c[i - 1] < k + 1
    BY <2>4, <2>5
  <2> QED
    BY <2>2, <2>4, <2>6
<1>13. CASE IsStar(e[i])
  <2>1. 2 * i - 1 \in Q /\ <<2 * i - 1, w[k + 1], 2 * i - 1>> \in nfa.moves
    BY <1>10, <1>12, <1>13
  <2>2. c[i - 1] <= k + 1
    BY <1>7, <1>12
  <2>3. 2 * i - 1 \in Path(e, c, k + 1)
    BY <1>0, <1>12, <1>13, <2>2 DEF Path
  <2>4. \E m \in nfa.moves : m[1] \in Q /\ m[2] = w[k + 1]
    BY <2>1
  <2> QED
    BY <1>2, <1>11, <2>3, <2>4 DEF nfa, e
<1>14. CASE ~IsStar(e[i])
  <2>1. c[i] = c[i - 1] + 1 /\ c[i - 1] \in 0 .. L
    BY <1>7, <1>14 DEF RunBy
  <2>2. c[i] = k + 1
    BY <1>12, <2>1
  <2>3. 2 * i - 2 \in Q /\ <<2 * i - 2, w[k + 1], 2 * i>> \in nfa.moves
    BY <1>9, <1>14, <2>2
  <2>4. 2 * i \in Path(e, c, k + 1)
    <3>1. i \in 0 .. N
      OBVIOUS
    <3> QED
      BY <1>0, <2>2, <3>1 DEF Path
  <2>5. \E m \in nfa.moves : m[1] \in Q /\ m[2] = w[k + 1]
    BY <2>3
  <2> QED
    BY <1>2, <1>11, <2>4, <2>5 DEF nfa, e
<1> QED
  BY <1>13, <1>14

-----------------------------------------------------------------------------
(* The search                                                               *)

\* Patterns p match a file in directories d of name n.
Fits(p, d, n) == (\E c : Cuts("**", p.dirs, d, c)) /\ (\E c : Cuts("*", p.file, n, c))
Disjoint(a, b) == \A d, n : Len(d) \in Nat /\ Len(n) \in Nat => ~(Fits(a, d, n) /\ Fits(b, d, n))

\* The running search, as long as it has found nothing: it starts with the two
\* starts, and what it has left behind leads only to what it has still to visit
\* or has visited.
Automaton(t, n) == Compile(Compared(t)[n], Symbols(Range(Compared(t))))
SearchInv ==
  now # <<>> /\ verdict = "open" =>
    /\ automata = <<Automaton(now, 1), Automaton(now, 2)>>
    /\ <<EpsilonClosure(automata[1], {0}), EpsilonClosure(automata[2], {0})>> \in toVisit \cup visited
    /\ \A pair \in visited :
         /\ ~(automata[1].accept \in pair[1] /\ automata[2].accept \in pair[2])
         /\ Successors(pair) \subseteq toVisit \cup visited

\* A search that ended without a conflict has been over the runs of every file.
LEMMA SearchClears ==
  ASSUME SearchInv, now # <<>>, verdict = "open", toVisit = {},
         NEW a, NEW b, Compared(now) = <<a, b>>, GoodPattern(a), GoodPattern(b)
  PROVE  Disjoint(a, b)
<1> SUFFICES ASSUME NEW d, NEW n, Len(d) \in Nat, Len(n) \in Nat, Fits(a, d, n), Fits(b, d, n) PROVE FALSE
  BY DEF Disjoint
<1> DEFINE P == Range(Compared(now))
<1> DEFINE S == Symbols(P)
<1> DEFINE w == Word(d, n, S)
<1>1. a \in P /\ b \in P
  <2>1. DOMAIN <<a, b>> = 1 .. 2 /\ <<a, b>>[1] = a /\ <<a, b>>[2] = b
    OBVIOUS
  <2> QED
    BY <2>1 DEF Range
<1> HIDE DEF P
<1>2. PICK L \in Nat : L = Len(d) + Len(n)
  OBVIOUS
<1>3. PICK c1 : Run(Elements(a), w, L, S, c1)
  BY <1>1, <1>2, RunOfCuts DEF Fits
<1>4. PICK c2 : Run(Elements(b), w, L, S, c2)
  BY <1>1, <1>2, RunOfCuts DEF Fits
<1> HIDE DEF w, S
<1>5. PICK A : A = Compile(a, S)
  OBVIOUS
<1>6. PICK B : B = Compile(b, S)
  OBVIOUS
<1>7. automata[1] = A /\ automata[2] = B
  BY <1>5, <1>6 DEF SearchInv, Automaton, S, P
<1>8. /\ <<EpsilonClosure(A, {0}), EpsilonClosure(B, {0})>> \in visited
      /\ \A pair \in visited : ~(A.accept \in pair[1] /\ B.accept \in pair[2]) /\ Successors(pair) \subseteq visited
  BY <1>7 DEF SearchInv
<1> DEFINE T == {k \in 0 .. L : \E pair \in visited :
                    Path(Elements(a), c1, k) \subseteq pair[1] /\ Path(Elements(b), c2, k) \subseteq pair[2]}
<1>9. 0 \in T
  <2>1. Path(Elements(a), c1, 0) \subseteq EpsilonClosure(A, {0}) /\ Path(Elements(b), c2, 0) \subseteq EpsilonClosure(B, {0})
    BY <1>3, <1>4, <1>5, <1>6, StartsThere
  <2> QED
    BY <1>8, <2>1
<1>10. ASSUME NEW k \in 0 .. L, k < L, k \in T PROVE k + 1 \in T
  <2>1. PICK pair \in visited : Path(Elements(a), c1, k) \subseteq pair[1] /\ Path(Elements(b), c2, k) \subseteq pair[2]
    BY <1>10
  <2> DEFINE q == <<MovesOn(A, pair[1], w[k + 1]), MovesOn(B, pair[2], w[k + 1])>>
  <2>2. /\ Path(Elements(a), c1, k + 1) \subseteq MovesOn(A, pair[1], w[k + 1])
        /\ Path(Elements(a), c1, k + 1) # {}
        /\ \E m \in A.moves : m[1] \in pair[1] /\ m[2] = w[k + 1]
    <3>1. PICK Q : Q = pair[1]
      OBVIOUS
    <3>2. Path(Elements(a), c1, k) \subseteq Q
      BY <2>1, <3>1
    <3>3. /\ Path(Elements(a), c1, k + 1) \subseteq MovesOn(Compile(a, S), Q, w[k + 1])
          /\ \E m \in Compile(a, S).moves : m[1] \in Q /\ m[2] = w[k + 1]
          /\ Path(Elements(a), c1, k + 1) # {}
      BY <1>3, <1>10, <3>2, StepsThere
    <3> QED
      BY <1>5, <3>1, <3>3, Zenon
  <2>3. /\ Path(Elements(b), c2, k + 1) \subseteq MovesOn(B, pair[2], w[k + 1])
        /\ Path(Elements(b), c2, k + 1) # {}
    BY <1>4, <1>6, <1>10, <2>1, StepsThere
  <2>4. q[1] # {} /\ q[2] # {}
    BY <2>2, <2>3
  <2>5. q \in Successors(pair)
    <3> DEFINE V == {m[2] : m \in {x \in A.moves : x[1] \in pair[1]}} \cup {m[2] : m \in {x \in B.moves : x[1] \in pair[2]}}
    <3>1. w[k + 1] \in V
      BY <2>2
    <3>2. Successors(pair) = {p \in {<<MovesOn(A, pair[1], s), MovesOn(B, pair[2], s)>> : s \in V} : p[1] # {} /\ p[2] # {}}
      BY <1>7 DEF Successors
    <3> HIDE DEF V
    <3>3. q \in {<<MovesOn(A, pair[1], s), MovesOn(B, pair[2], s)>> : s \in V}
      BY <3>1
    <3> HIDE DEF q
    <3> QED
      BY <2>4, <3>2, <3>3
  <2>6. q \in visited /\ k + 1 \in 0 .. L
    BY <1>8, <1>10, <2>1, <2>5
  <2> QED
    BY <2>2, <2>3, <2>6
<1>11. L \in T
  <2>1. L \in 0 .. L
    OBVIOUS
  <2> HIDE DEF T
  <2> QED
    BY <1>9, <1>10, <2>1, UpToN
<1>12. PICK pair \in visited : Path(Elements(a), c1, L) \subseteq pair[1] /\ Path(Elements(b), c2, L) \subseteq pair[2]
  BY <1>11
<1>13. A.accept \in Path(Elements(a), c1, L)
  <2>1. PICK N \in Nat : N = Len(Elements(a)) /\ A.accept = 2 * N
    <3>1. Len(Elements(a)) \in Nat /\ A.accept = 2 * Len(Elements(a))
      BY <1>5, CompileIs
    <3> QED
      BY <3>1
  <2>2. c1[N] = L /\ N \in 0 .. N
    BY <1>3, <2>1 DEF Run
  <2> QED
    BY <2>1, <2>2 DEF Path
<1>14. B.accept \in Path(Elements(b), c2, L)
  <2>1. PICK N \in Nat : N = Len(Elements(b)) /\ B.accept = 2 * N
    <3>1. Len(Elements(b)) \in Nat /\ B.accept = 2 * Len(Elements(b))
      BY <1>6, CompileIs
    <3> QED
      BY <3>1
  <2>2. c2[N] = L /\ N \in 0 .. N
    BY <1>4, <2>1 DEF Run
  <2> QED
    BY <2>1, <2>2 DEF Path
<1> QED
  BY <1>8, <1>12, <1>13, <1>14

-----------------------------------------------------------------------------
(* What the validation of a configuration keeps                             *)

RouteShape ==
  /\ config \in DOMAIN RouteConfigs
  /\ stage \in {"parse", "selections", "routes", "scan"} /\ verdict \in {"open", "rejected", "accepted"}
  /\ verdict = "accepted" <=> stage = "scan"
  /\ stage \in {"parse", "scan"} => todo = {}
  /\ stage = "selections" => todo \subseteq SelectionPairs(Active)
  /\ stage = "routes" => todo \subseteq RoutePairs(Active)
  /\ now # <<>> => now \in todo

\* What the comparisons that are over have shown.
ApartIncludes(t) == Disjoint(Active[t[1]].include[t[2]].pattern, Active[t[1]].include[t[3]].pattern)
ApartRoutes(t)   == Disjoint(RoutePattern(Active[t[1]]), RoutePattern(Active[t[2]]))
ClearedInv ==
  /\ stage = "selections" => \A t \in SelectionPairs(Active) \ todo : ApartIncludes(t)
  /\ stage \in {"routes", "scan"} => DefaultsReachable(Active) /\ \A t \in SelectionPairs(Active) : ApartIncludes(t)
  /\ stage \in {"routes", "scan"} => \A t \in RoutePairs(Active) \ todo : ApartRoutes(t)

\* A scan is of a package, as one of the profiles, by an accepted configuration.
Scanned(files, profile) ==
  LET scene == InferSceneRoot(files, SceneAnchors[profile])
  IN [profile |-> profile, scene |-> scene,
      placed |-> [f \in files |-> PickRoute(profile, f, WithinScene(f.dirs, scene))]]
ScanInv == scan # NoScan => stage = "scan" /\ \E files \in RouteTrees, profile \in Profiles : scan = Scanned(files, profile)

RouteInv == RouteShape /\ SearchInv /\ ClearedInv /\ ScanInv

\* The routes of the configuration have the form that parsing asks for.
LEMMA ActiveGood ==
  ASSUME config \in DOMAIN RouteConfigs
  PROVE  IsSequence(Active) /\ \A r \in Range(Active) : GoodRoute(r)
<1>1. Active \in Range(RouteConfigs)
  BY DEF Active, Range
<1> QED
  BY <1>1, RouteAssumption

\* An element of a sequence.
LEMMA AtIndex == ASSUME NEW s, NEW i \in DOMAIN s PROVE s[i] \in Range(s)
  BY DEF Range

\* Includes i and j of route r have different services.
Differing(c, r, i, j) ==
  /\ r \in DOMAIN c /\ i \in DOMAIN c[r].include /\ j \in DOMAIN c[r].include /\ i < j
  /\ "" \notin {c[r].include[i].service, c[r].include[j].service}
  /\ c[r].include[i].service # c[r].include[j].service

\* A comparison of includes is of two that differ.
LEMMA SelectionPairOf ==
  ASSUME NEW c, NEW t \in SelectionPairs(c)
  PROVE  Differing(c, t[1], t[2], t[3])
<1> DEFINE Q(r) == {r} \X (DOMAIN c[r].include) \X (DOMAIN c[r].include)
<1>1. t \in UNION {Q(r) : r \in DOMAIN c}
  BY DEF SelectionPairs
<1>2. PICK r \in DOMAIN c : t \in Q(r)
  <2> HIDE DEF Q
  <2> QED
    BY <1>1
<1>3. t[1] = r /\ t[2] \in DOMAIN c[r].include /\ t[3] \in DOMAIN c[r].include
  BY <1>2
<1>4. /\ t[2] < t[3] /\ "" \notin {c[t[1]].include[t[2]].service, c[t[1]].include[t[3]].service}
      /\ c[t[1]].include[t[2]].service # c[t[1]].include[t[3]].service
  BY DEF SelectionPairs
<1> QED
  BY <1>3, <1>4 DEF Differing

\* Two includes that differ are compared.
LEMMA SelectionPairIn ==
  ASSUME NEW c, NEW r, NEW i, NEW j, Differing(c, r, i, j)
  PROVE  <<r, i, j>> \in SelectionPairs(c)
<1> DEFINE Q(x) == {x} \X (DOMAIN c[x].include) \X (DOMAIN c[x].include)
<1>1. r \in DOMAIN c /\ i \in DOMAIN c[r].include /\ j \in DOMAIN c[r].include
  BY DEF Differing
<1>2. <<r, i, j>> \in Q(r)
  BY <1>1
<1>3. <<r, i, j>>[1] = r /\ <<r, i, j>>[2] = i /\ <<r, i, j>>[3] = j
  OBVIOUS
<1>4. PICK t : t = <<r, i, j>> /\ t[1] = r /\ t[2] = i /\ t[3] = j
  BY <1>3, Zenon
<1> HIDE DEF Q
<1>5. t \in UNION {Q(x) : x \in DOMAIN c}
  BY <1>1, <1>2, <1>4
<1>6. t \in SelectionPairs(c)
  BY <1>4, <1>5 DEF SelectionPairs, Differing, Q
<1> QED
  BY <1>4, <1>6

\* The two patterns of a comparison, by the stage.
LEMMA ComparedIncludes ==
  ASSUME config \in DOMAIN RouteConfigs, stage = "selections", NEW t \in SelectionPairs(Active)
  PROVE  \E a, b : /\ Compared(t) = <<a, b>> /\ GoodPattern(a) /\ GoodPattern(b)
                   /\ ApartIncludes(t) <=> Disjoint(a, b)
<1>1. PICK r, i, j : t[1] = r /\ t[2] = i /\ t[3] = j
  OBVIOUS
<1>2. Differing(Active, r, i, j)
  BY <1>1, SelectionPairOf
<1>3. GoodRoute(Active[r])
  BY <1>2, ActiveGood, AtIndex DEF Differing
<1>4. GoodPattern(Active[r].include[i].pattern) /\ GoodPattern(Active[r].include[j].pattern)
  BY <1>2, <1>3, AtIndex DEF GoodRoute, Differing
<1>5. Compared(t) = <<Active[r].include[i].pattern, Active[r].include[j].pattern>>
  BY <1>1 DEF Compared
<1>6. ApartIncludes(t) <=> Disjoint(Active[r].include[i].pattern, Active[r].include[j].pattern)
  BY <1>1 DEF ApartIncludes
<1> QED
  BY <1>4, <1>5, <1>6

\* The same for two routes.
LEMMA ComparedRoutes ==
  ASSUME config \in DOMAIN RouteConfigs, stage = "routes", NEW t \in RoutePairs(Active)
  PROVE  \E a, b : /\ Compared(t) = <<a, b>> /\ GoodPattern(a) /\ GoodPattern(b)
                   /\ ApartRoutes(t) <=> Disjoint(a, b)
<1>1. t[1] \in DOMAIN Active /\ t[2] \in DOMAIN Active
  BY DEF RoutePairs
<1>2. GoodRoute(Active[t[1]]) /\ GoodRoute(Active[t[2]])
  BY <1>1, ActiveGood, AtIndex
<1>3. Compared(t) = <<RoutePattern(Active[t[1]]), RoutePattern(Active[t[2]])>>
  BY DEF Compared
<1> QED
  BY <1>2, <1>3, RoutePatternGood DEF ApartRoutes

\* The invariant holds of a configuration that is yet to be parsed.
LEMMA RouteInitSound == RouteInit => RouteInv
<1> SUFFICES ASSUME RouteInit PROVE RouteInv
  OBVIOUS
<1>1. RouteShape /\ ClearedInv
  BY DEF RouteInit, RouteShape, ClearedInv
<1>2. SearchInv /\ ScanInv
  BY DEF RouteInit, SearchInv, ScanInv
<1> QED
  BY <1>1, <1>2 DEF RouteInv

\* Every step keeps what is left to compare.
LEMMA ShapeStep == RouteInv /\ [RouteNext]_routeVars => RouteShape'
<1> SUFFICES ASSUME RouteInv, [RouteNext]_routeVars PROVE RouteShape'
  OBVIOUS
<1> USE DEF RouteInv
<1>1. CASE ParseRoutes
  <2>1. todo = {} /\ now = <<>> /\ config' = config /\ now' = now /\ Active' = Active
    BY <1>1 DEF ParseRoutes, RouteShape, Active
  <2>2. \/ verdict' = "rejected" /\ stage' = stage /\ todo' = todo
        \/ stage' = "selections" /\ todo' = SelectionPairs(Active) /\ verdict' = verdict
    BY <1>1 DEF ParseRoutes, Reject
  <2>3. stage = "parse" /\ verdict = "open"
    BY <1>1 DEF ParseRoutes
  <2> QED
    BY <2>1, <2>2, <2>3 DEF RouteShape
<1>2. CASE BeginComparison
  BY <1>2 DEF BeginComparison, RouteShape, Active
<1>3. CASE SearchStep
  <2>1. /\ verdict = "open" /\ verdict' \in {"open", "rejected"}
        /\ config' = config /\ stage' = stage /\ todo' = todo /\ now' = now
    BY <1>3 DEF SearchStep, Reject
  <2> QED
    BY <2>1 DEF RouteShape, Active
<1>4. CASE EndComparison
  <2>1. todo' \subseteq todo /\ now' = <<>> /\ config' = config /\ stage' = stage /\ verdict' = verdict
    BY <1>4 DEF EndComparison
  <2> QED
    BY <2>1 DEF RouteShape, Active
<1>5. CASE CheckDefaults
  <2>1. todo = {} /\ now = <<>> /\ config' = config /\ now' = now /\ Active' = Active
    BY <1>5 DEF CheckDefaults, RouteShape, Active
  <2>2. \/ verdict' = "rejected" /\ stage' = stage /\ todo' = todo
        \/ stage' = "routes" /\ todo' = RoutePairs(Active) /\ verdict' = verdict
    BY <1>5 DEF CheckDefaults, Reject
  <2>3. stage = "selections" /\ verdict = "open"
    BY <1>5 DEF CheckDefaults
  <2> QED
    BY <2>1, <2>2, <2>3 DEF RouteShape
<1>6. CASE Accept
  BY <1>6 DEF Accept, RouteShape, Active
<1>7. CASE ScanTree
  BY <1>7 DEF ScanTree, RouteShape, Active
<1>8. CASE UNCHANGED routeVars
  BY <1>8 DEF routeVars, RouteShape, Active
<1> QED
  BY <1>1, <1>2, <1>3, <1>4, <1>5, <1>6, <1>7, <1>8 DEF RouteNext

\* What comes after a pair depends on the automata alone.
LEMMA SameSuccessors == automata' = automata => \A p : Successors(p)' = Successors(p)
  BY DEF Successors

\* Every step keeps the search: what it visited leads to what it knows of.
LEMMA SearchInvStep == RouteInv /\ [RouteNext]_routeVars => SearchInv'
<1> SUFFICES ASSUME RouteInv, [RouteNext]_routeVars, (now # <<>> /\ verdict = "open")'
             PROVE  (/\ automata = <<Automaton(now, 1), Automaton(now, 2)>>
                     /\ <<EpsilonClosure(automata[1], {0}), EpsilonClosure(automata[2], {0})>> \in toVisit \cup visited
                     /\ \A pair \in visited :
                          /\ ~(automata[1].accept \in pair[1] /\ automata[2].accept \in pair[2])
                          /\ Successors(pair) \subseteq toVisit \cup visited)'
  BY DEF SearchInv
<1>1. CASE ParseRoutes \/ CheckDefaults
  <2>1. todo = {} /\ now = <<>> /\ now' = now
    BY <1>1 DEF ParseRoutes, CheckDefaults, RouteInv, RouteShape
  <2> QED
    BY <2>1
<1>2. CASE BeginComparison
  <2>1. config' = config /\ stage' = stage /\ visited' = {}
    BY <1>2 DEF BeginComparison
  <2>2. \A t : Compared(t)' = Compared(t')
    BY <2>1 DEF Compared, Active
  <2>3. /\ automata' = <<Compile(Compared(now')[1], Symbols(Range(Compared(now')))),
                         Compile(Compared(now')[2], Symbols(Range(Compared(now'))))>>
        /\ toVisit' = {<<EpsilonClosure(Compile(Compared(now')[1], Symbols(Range(Compared(now')))), {0}),
                         EpsilonClosure(Compile(Compared(now')[2], Symbols(Range(Compared(now')))), {0})>>}
    BY <1>2 DEF BeginComparison
  <2>4. Compared(now)' = Compared(now')
    BY <2>1 DEF Compared, Active
  <2> QED
    BY <2>1, <2>3, <2>4 DEF Automaton
<1>3. CASE SearchStep
  <2>1. /\ verdict = "open" /\ config' = config /\ stage' = stage /\ now' = now /\ automata' = automata
    BY <1>3 DEF SearchStep
  <2>2. PICK pair \in toVisit :
          IF automata[1].accept \in pair[1] /\ automata[2].accept \in pair[2]
          THEN Reject /\ toVisit' = toVisit \ {pair} /\ UNCHANGED visited
          ELSE /\ visited' = visited \cup {pair}
               /\ toVisit' = (toVisit \ {pair}) \cup (Successors(pair) \ visited')
               /\ UNCHANGED verdict
    BY <1>3 DEF SearchStep
  <2>3. ~(automata[1].accept \in pair[1] /\ automata[2].accept \in pair[2])
    BY <2>2 DEF Reject
  <2>4. visited' = visited \cup {pair} /\ toVisit' = (toVisit \ {pair}) \cup (Successors(pair) \ visited')
    BY <2>2, <2>3
  <2>5. toVisit \cup visited \subseteq toVisit' \cup visited' /\ Successors(pair) \subseteq toVisit' \cup visited'
    BY <2>4
  <2>6. /\ automata = <<Automaton(now, 1), Automaton(now, 2)>>
        /\ <<EpsilonClosure(automata[1], {0}), EpsilonClosure(automata[2], {0})>> \in toVisit \cup visited
        /\ \A p \in visited :
             /\ ~(automata[1].accept \in p[1] /\ automata[2].accept \in p[2])
             /\ Successors(p) \subseteq toVisit \cup visited
    BY <2>1 DEF RouteInv, SearchInv
  <2>7. Automaton(now, 1)' = Automaton(now, 1) /\ Automaton(now, 2)' = Automaton(now, 2)
    BY <2>1 DEF Automaton, Compared, Active
  <2>8. ASSUME NEW p \in visited'
        PROVE  /\ ~(automata[1].accept \in p[1] /\ automata[2].accept \in p[2])
               /\ Successors(p) \subseteq toVisit' \cup visited'
    BY <2>3, <2>4, <2>5, <2>6
  <2>9. \A p : Successors(p)' = Successors(p)
    BY <2>1, SameSuccessors
  <2> QED
    BY <2>1, <2>5, <2>6, <2>7, <2>8, <2>9
<1>4. CASE EndComparison
  BY <1>4 DEF EndComparison
<1>5. CASE Accept
  <2>1. todo = {} /\ now = <<>> /\ now' = now
    BY <1>5 DEF Accept, RouteInv, RouteShape
  <2> QED
    BY <2>1
<1>6. CASE ScanTree
  BY <1>6 DEF ScanTree, RouteInv, RouteShape
<1>7. CASE UNCHANGED routeVars
  <2>1. UNCHANGED <<config, stage, verdict, todo, now, automata, toVisit, visited, scan>>
    BY <1>7 DEF routeVars
  <2> QED
    <3>1. \A p : Successors(p)' = Successors(p)
      BY <2>1, SameSuccessors
    <3>2. Automaton(now, 1)' = Automaton(now, 1) /\ Automaton(now, 2)' = Automaton(now, 2)
      BY <2>1 DEF Automaton, Compared, Active
    <3> QED
      BY <2>1, <3>1, <3>2 DEF RouteInv, SearchInv
<1> QED
  BY <1>1, <1>2, <1>3, <1>4, <1>5, <1>6, <1>7 DEF RouteNext

\* Every step keeps what the comparisons have shown.
LEMMA ClearedStep == RouteInv /\ [RouteNext]_routeVars => ClearedInv'
<1> SUFFICES ASSUME RouteInv, [RouteNext]_routeVars PROVE ClearedInv'
  OBVIOUS
<1>0. RouteShape /\ SearchInv /\ ClearedInv
  BY DEF RouteInv
<1>1. config' = config
  BY DEF RouteNext, routeVars, ParseRoutes, BeginComparison, SearchStep, EndComparison, CheckDefaults, Accept, ScanTree
<1>2. Active' = Active
  BY <1>1 DEF Active
<1>3. \A t : ApartIncludes(t)' = ApartIncludes(t) /\ ApartRoutes(t)' = ApartRoutes(t)
  BY <1>2 DEF ApartIncludes, ApartRoutes
<1>4. /\ SelectionPairs(Active)' = SelectionPairs(Active) /\ RoutePairs(Active)' = RoutePairs(Active)
      /\ DefaultsReachable(Active)' = DefaultsReachable(Active)
  BY <1>2
<1>5. CASE stage' = stage /\ todo' = todo
  BY <1>0, <1>3, <1>4, <1>5 DEF ClearedInv
<1>6. CASE ParseRoutes
  <2>1. CASE stage' = "selections" /\ todo' = SelectionPairs(Active)
    BY <1>4, <2>1 DEF ClearedInv
  <2> QED
    BY <1>5, <1>6, <2>1 DEF ParseRoutes
<1>7. CASE EndComparison
  <2>1. verdict = "open" /\ now # <<>> /\ toVisit = {} /\ todo' = todo \ {now} /\ stage' = stage
    BY <1>7 DEF EndComparison
  <2>2. now \in todo /\ stage \in {"selections", "routes"} /\ config \in DOMAIN RouteConfigs
    BY <1>0, <2>1 DEF RouteShape
  <2>3. CASE stage = "selections"
    <3>1. now \in SelectionPairs(Active)
      BY <1>0, <2>2, <2>3 DEF RouteShape
    <3>2. PICK a, b : /\ Compared(now) = <<a, b>> /\ GoodPattern(a) /\ GoodPattern(b)
                      /\ ApartIncludes(now) <=> Disjoint(a, b)
      BY <2>2, <2>3, <3>1, ComparedIncludes
    <3>3. ApartIncludes(now)
      BY <1>0, <2>1, <3>2, SearchClears
    <3>4. \A t \in SelectionPairs(Active) \ todo : ApartIncludes(t)
      BY <1>0, <2>3 DEF ClearedInv
    <3>5. \A t \in SelectionPairs(Active) \ todo' : ApartIncludes(t)
      BY <2>1, <3>3, <3>4
    <3> QED
      BY <1>3, <1>4, <2>1, <2>3, <3>5 DEF ClearedInv
  <2>4. CASE stage = "routes"
    <3>1. now \in RoutePairs(Active)
      BY <1>0, <2>2, <2>4 DEF RouteShape
    <3>2. PICK a, b : /\ Compared(now) = <<a, b>> /\ GoodPattern(a) /\ GoodPattern(b)
                      /\ ApartRoutes(now) <=> Disjoint(a, b)
      BY <2>2, <2>4, <3>1, ComparedRoutes
    <3>3. ApartRoutes(now)
      BY <1>0, <2>1, <3>2, SearchClears
    <3>4. /\ \A t \in RoutePairs(Active) \ todo : ApartRoutes(t)
          /\ DefaultsReachable(Active) /\ \A t \in SelectionPairs(Active) : ApartIncludes(t)
      BY <1>0, <2>4 DEF ClearedInv
    <3>5. \A t \in RoutePairs(Active) \ todo' : ApartRoutes(t)
      BY <2>1, <3>3, <3>4
    <3> QED
      BY <1>3, <1>4, <2>1, <2>4, <3>4, <3>5 DEF ClearedInv
  <2> QED
    BY <2>2, <2>3, <2>4
<1>8. CASE CheckDefaults
  <2>1. stage = "selections" /\ todo = {}
    BY <1>8 DEF CheckDefaults
  <2>2. CASE stage' = "routes" /\ todo' = RoutePairs(Active) /\ DefaultsReachable(Active)
    <3>1. \A t \in SelectionPairs(Active) : ApartIncludes(t)
      BY <1>0, <2>1 DEF ClearedInv
    <3> QED
      BY <1>3, <1>4, <2>2, <3>1 DEF ClearedInv
  <2> QED
    BY <1>5, <1>8, <2>2 DEF CheckDefaults
<1>9. CASE Accept
  <2>1. stage = "routes" /\ todo = {} /\ todo' = todo /\ stage' = "scan"
    BY <1>9 DEF Accept
  <2>2. /\ \A t \in RoutePairs(Active) : ApartRoutes(t)
        /\ DefaultsReachable(Active) /\ \A t \in SelectionPairs(Active) : ApartIncludes(t)
    BY <1>0, <2>1 DEF ClearedInv
  <2> QED
    BY <1>3, <1>4, <2>1, <2>2 DEF ClearedInv
<1>10. CASE BeginComparison \/ SearchStep \/ ScanTree \/ UNCHANGED routeVars
  BY <1>5, <1>10 DEF BeginComparison, SearchStep, ScanTree, routeVars
<1> QED
  BY <1>6, <1>7, <1>8, <1>9, <1>10 DEF RouteNext

\* A scan is made once, with the accepted configuration.
LEMMA ScanStep == RouteInv /\ [RouteNext]_routeVars => ScanInv'
<1> SUFFICES ASSUME RouteInv, [RouteNext]_routeVars PROVE ScanInv'
  OBVIOUS
<1>1. config' = config
  BY DEF RouteNext, routeVars, ParseRoutes, BeginComparison, SearchStep, EndComparison, CheckDefaults, Accept, ScanTree
<1>2. \A files, profile : Scanned(files, profile)' = Scanned(files, profile)
  BY <1>1 DEF Scanned, PickRoute, Active
<1>3. CASE ScanTree
  <2>1. stage' = "scan" /\ \E files \in RouteTrees, profile \in Profiles : scan' = Scanned(files, profile)
    BY <1>3 DEF ScanTree, Scanned
  <2> QED
    BY <1>2, <2>1 DEF ScanInv
<1>4. CASE ParseRoutes \/ BeginComparison \/ SearchStep \/ EndComparison \/ CheckDefaults \/ Accept \/ UNCHANGED routeVars
  <2>1. scan' = scan /\ (stage = "scan" => stage' = "scan")
    BY <1>4 DEF ParseRoutes, BeginComparison, SearchStep, EndComparison, CheckDefaults, Accept, routeVars
  <2> QED
    BY <1>2, <2>1 DEF RouteInv, ScanInv
<1> QED
  BY <1>3, <1>4 DEF RouteNext

\* The directories and the names of the files of the properties.
LEMMA SourceFile ==
  ASSUME NEW d \in SourceDirs, NEW n \in SourceNames
  PROVE  d \in Seq(Range(SegmentOrder)) /\ n \in Seq(NameChars) /\ Len(d) \in Nat /\ Len(n) \in Nat
<1>1. d \in Seq(Range(SegmentOrder))
  BY DEF SourceDirs, BoundedSeq, SeqOf
<1>2. n \in Seq(NameChars)
  BY DEF SourceNames, BoundedSeq, SeqOf
<1> QED
  BY <1>1, <1>2

\* A file that a route matches fits its pattern.
LEMMA RouteFits ==
  ASSUME NEW r, GoodRoute(r), NEW d \in SourceDirs, NEW n \in SourceNames, NEW inScene \in ScenePaths(d),
         GlobMatches("*", r.file, n), PlaceMatches(r, d, inScene)
  PROVE  Fits(RoutePattern(r), d, n)
<1>1. PICK X : d \in Seq(X) /\ Len(n) \in Nat
  BY SourceFile
<1>2. \E c : Cuts("**", RoutePattern(r).dirs, d, c)
  BY <1>1, RoutePatternMatches
<1>3. Len(r.file) \in Nat /\ RoutePattern(r).file = r.file
  BY SequenceHas, RoutePatternGood DEF GoodRoute, GoodPattern
<1>4. \E c : Cuts("*", r.file, n, c)
  BY <1>1, <1>3, GlobHasCuts
<1> QED
  BY <1>2, <1>3, <1>4 DEF Fits

\* Two routes of one rank match no common file.
LEMMA NoTieHolds == RouteInv => NoTie
<1> SUFFICES ASSUME RouteInv, verdict = "accepted", NEW i \in DOMAIN Active, NEW j \in DOMAIN Active,
                    i < j, SameRank(Active[i], Active[j]), CommonFile(Active[i], Active[j])
             PROVE  FALSE
  BY DEF NoTie, SameRank
<1>1. stage = "scan" /\ todo = {} /\ config \in DOMAIN RouteConfigs
  BY DEF RouteInv, RouteShape
<1>2. <<i, j>> \in RoutePairs(Active)
  <2>1. <<i, j>>[1] = i /\ <<i, j>>[2] = j
    OBVIOUS
  <2> QED
    BY <2>1 DEF RoutePairs
<1>3. PICK t : t = <<i, j>> /\ t[1] = i /\ t[2] = j
  <2>1. <<i, j>>[1] = i /\ <<i, j>>[2] = j
    OBVIOUS
  <2> QED
    BY <2>1, Zenon
<1>4. ApartRoutes(t)
  BY <1>1, <1>2, <1>3 DEF RouteInv, ClearedInv
<1>5. GoodRoute(Active[i]) /\ GoodRoute(Active[j])
  BY <1>1, ActiveGood, AtIndex
<1>6. PICK n \in SourceNames : GlobMatches("*", Active[i].file, n) /\ GlobMatches("*", Active[j].file, n)
  BY DEF CommonFile
<1>7. PICK d \in SourceDirs : \E inScene \in ScenePaths(d) : PlaceMatches(Active[i], d, inScene) /\ PlaceMatches(Active[j], d, inScene)
  BY DEF CommonFile
<1>8. PICK inScene \in ScenePaths(d) : PlaceMatches(Active[i], d, inScene) /\ PlaceMatches(Active[j], d, inScene)
  BY <1>7
<1>9. Fits(RoutePattern(Active[i]), d, n) /\ Fits(RoutePattern(Active[j]), d, n)
  BY <1>5, <1>6, <1>8, RouteFits
<1>10. Len(d) \in Nat /\ Len(n) \in Nat
  BY SourceFile
<1> QED
  BY <1>3, <1>4, <1>9, <1>10 DEF ApartRoutes, Disjoint

\* A set without two different elements has at most one.
LEMMA AtMostOne == ASSUME NEW Q, \A x, y \in Q : x = y PROVE Cardinality(Q) <= 1
<1>1. CASE Q = {}
  BY <1>1, FS_EmptySet
<1>2. CASE Q # {}
  <2>1. PICK x \in Q : TRUE
    BY <1>2
  <2>2. Q = {x}
    BY <2>1
  <2>3. Cardinality({x}) = 1
    BY FS_Singleton
  <2> QED
    BY <2>2, <2>3
<1> QED
  BY <1>1, <1>2

\* A member that an include matches fits its pattern.
LEMMA MemberFits ==
  ASSUME NEW p, GoodPattern(p), p.file # DoubleStar, NEW d \in SourceDirs, NEW n \in SourceNames,
         MemberMatches(p, [dirs |-> d, name |-> n])
  PROVE  Fits(p, d, n)
<1>1. GlobMatches("**", p.dirs, d) /\ GlobMatches("*", p.file, n)
  BY DEF MemberMatches
<1>2. Len(p.dirs) \in Nat /\ Len(p.file) \in Nat /\ Len(d) \in Nat /\ Len(n) \in Nat
  BY SequenceHas, SourceFile DEF GoodPattern
<1> QED
  BY <1>1, <1>2, GlobHasCuts DEF Fits

Selecting(r, d, n) ==
  {x \in Range(r.include) : /\ x.service # "" /\ x.pattern.file # DoubleStar
                            /\ MemberMatches(x.pattern, [dirs |-> d, name |-> n])}

\* The includes of different services match no common member.
LEMMA SelectionHolds == RouteInv => SelectionDecides
<1> SUFFICES ASSUME RouteInv, verdict = "accepted", NEW r \in Range(Active), NEW d \in SourceDirs, NEW n \in SourceNames
             PROVE  Cardinality({i.service : i \in Selecting(r, d, n)}) <= 1
  BY DEF SelectionDecides, Selecting
<1>1. stage = "scan" /\ config \in DOMAIN RouteConfigs
  BY DEF RouteInv, RouteShape
<1>2. \A t \in SelectionPairs(Active) : ApartIncludes(t)
  BY <1>1 DEF RouteInv, ClearedInv
<1>3. PICK k \in DOMAIN Active : Active[k] = r
  BY DEF Range
<1>4. GoodRoute(r)
  BY <1>1, ActiveGood
<1>5. Len(d) \in Nat /\ Len(n) \in Nat
  BY SourceFile
<1>6. DOMAIN r.include \subseteq Nat
  BY <1>4, SequenceHas DEF GoodRoute
<1>7. ASSUME NEW i \in DOMAIN r.include, NEW j \in DOMAIN r.include, i < j,
             r.include[i] \in Selecting(r, d, n), r.include[j] \in Selecting(r, d, n),
             r.include[i].service # r.include[j].service
      PROVE  FALSE
  <2>1. Differing(Active, k, i, j)
    BY <1>3, <1>7 DEF Differing, Selecting
  <2>2. ApartIncludes(<<k, i, j>>)
    BY <1>2, <2>1, SelectionPairIn
  <2>3. <<k, i, j>>[1] = k /\ <<k, i, j>>[2] = i /\ <<k, i, j>>[3] = j
    OBVIOUS
  <2>4. Disjoint(r.include[i].pattern, r.include[j].pattern)
    BY <1>3, <2>2, <2>3 DEF ApartIncludes
  <2>5. GoodPattern(r.include[i].pattern) /\ GoodPattern(r.include[j].pattern)
    BY <1>4, AtIndex DEF GoodRoute
  <2>6. Fits(r.include[i].pattern, d, n) /\ Fits(r.include[j].pattern, d, n)
    BY <1>7, <2>5, MemberFits DEF Selecting
  <2> QED
    BY <1>5, <2>4, <2>6 DEF Disjoint
<1>8. ASSUME NEW x \in Selecting(r, d, n), NEW y \in Selecting(r, d, n) PROVE x.service = y.service
  <2>1. PICK i \in DOMAIN r.include : r.include[i] = x
    BY DEF Selecting, Range
  <2>2. PICK j \in DOMAIN r.include : r.include[j] = y
    BY DEF Selecting, Range
  <2>3. i < j \/ j < i \/ i = j
    BY <1>6
  <2> QED
    BY <1>7, <2>1, <2>2, <2>3
<1> DEFINE Q == {i.service : i \in Selecting(r, d, n)}
<1>9. \A x, y \in Q : x = y
  BY <1>8
<1> HIDE DEF Q
<1>10. Cardinality(Q) <= 1
  BY <1>9, AtMostOne
<1> QED
  BY <1>10 DEF Q

-----------------------------------------------------------------------------
(* Finite sets have a best element                                          *)

\* A finite set has an element below no other.
LEMMA MaximalExists ==
  ASSUME NEW S, IsFiniteSet(S), S # {}, NEW R, \A x \in S : <<x, x>> \notin R,
         \A x, y, z \in S : <<x, y>> \in R /\ <<y, z>> \in R => <<x, z>> \in R
  PROVE  \E x \in S : \A y \in S : <<x, y>> \notin R
<1>1. PICK n \in Nat : \E f : f \in Surjection(1 .. n, S)
  BY FS_NatSurjection DEF ExistsSurjection
<1>2. PICK f : f \in [1 .. n -> S] /\ \A y \in S : \E i \in 1 .. n : f[i] = y
  BY <1>1 DEF Surjection
<1>3. n >= 1
  BY <1>2
<1> DEFINE Top(k) == \E x \in S : \A i \in 1 .. k : <<x, f[i]>> \notin R
<1> DEFINE T == {k \in 0 .. n : Top(k)}
<1>4. 0 \in T
  <2>1. 1 .. 0 = {} /\ 0 \in 0 .. n
    OBVIOUS
  <2> QED
    BY <2>1
<1>5. ASSUME NEW k \in 0 .. n, k < n, k \in T PROVE k + 1 \in T
  <2>1. PICK x \in S : \A i \in 1 .. k : <<x, f[i]>> \notin R
    BY <1>5
  <2>2. PICK y \in S : y = f[k + 1]
    BY <1>2, <1>5
  <2>3. \A i \in 1 .. k + 1 : i \in 1 .. k \/ i = k + 1
    OBVIOUS
  <2>4. k + 1 \in 0 .. n
    BY <1>5
  <2>5. CASE <<x, y>> \notin R
    <3>1. \A i \in 1 .. k + 1 : <<x, f[i]>> \notin R
      BY <2>1, <2>2, <2>3, <2>5
    <3> QED
      BY <2>4, <3>1
  <2>6. CASE <<x, y>> \in R
    <3>1. ASSUME NEW i \in 1 .. k PROVE <<y, f[i]>> \notin R
      <4>1. f[i] \in S
        <5>1. i \in 1 .. n
          BY <1>5
        <5> QED
          BY <1>2, <5>1
      <4> QED
        BY <2>1, <2>6, <4>1
    <3>2. \A i \in 1 .. k + 1 : <<y, f[i]>> \notin R
      BY <2>2, <2>3, <3>1
    <3> QED
      BY <2>4, <3>2
  <2> QED
    BY <2>5, <2>6
<1>6. n \in T
  <2> HIDE DEF T
  <2>1. 0 .. n \subseteq T
    BY <1>4, <1>5, UpToN
  <2> QED
    BY <2>1
<1> QED
  BY <1>2, <1>6

\* The values of a function on a finite set are finitely many.
LEMMA FiniteImage ==
  ASSUME NEW S, IsFiniteSet(S), NEW f, DOMAIN f = S
  PROVE  IsFiniteSet({f[x] : x \in S})
<1> DEFINE T == {f[x] : x \in S}
           g == [x \in S |-> f[x]]
<1>1. g \in Surjection(S, T)
  BY DEF Surjection
<1> QED
  BY <1>1, FS_Surjection

\* Lower is a strict order of the sequences of numbers.
Ahead(u, v, k) ==
  /\ k \in 0 .. Len(u) /\ k < Len(v) /\ \A i \in 1 .. k : u[i] = v[i]
  /\ k = Len(u) \/ u[k + 1] < v[k + 1]

\* The beginning of a sequence.
LEMMA Beginning ==
  ASSUME NEW X, NEW s \in Seq(X), NEW k \in 0 .. Len(s)
  PROVE  SubSeq(s, 1, k) \in Seq(X) /\ Len(SubSeq(s, 1, k)) = k /\ \A i \in 1 .. k : SubSeq(s, 1, k)[i] = s[i]
<1>1. \A i \in 1 .. k : s[i] \in X
  OBVIOUS
<1>2. SubSeq(s, 1, k) = [i \in 1 .. k |-> s[i]]
  OBVIOUS
<1> QED
  BY <1>1, <1>2

\* Lower compares at the first difference.
LEMMA LowerIs ==
  ASSUME NEW u \in Seq(Nat), NEW v \in Seq(Nat)
  PROVE  Lower(u, v) <=> \E k \in Nat : Ahead(u, v, k)
<1>1. ASSUME NEW k \in 0 .. Len(u), k < Len(v)
      PROVE  SubSeq(u, 1, k) = SubSeq(v, 1, k) <=> \A i \in 1 .. k : u[i] = v[i]
  <2>0. k \in 0 .. Len(v)
    BY <1>1
  <2>1. PICK a \in Seq(Nat) : a = SubSeq(u, 1, k) /\ Len(a) = k /\ \A i \in 1 .. k : a[i] = u[i]
    BY <1>1, Beginning
  <2>2. PICK b \in Seq(Nat) : b = SubSeq(v, 1, k) /\ Len(b) = k /\ \A i \in 1 .. k : b[i] = v[i]
    BY <2>0, Beginning
  <2>3. a = b <=> \A i \in 1 .. k : a[i] = b[i]
    BY <2>1, <2>2
  <2> QED
    BY <2>1, <2>2, <2>3
<1>2. Lower(u, v) => \E k \in Nat : Ahead(u, v, k)
  BY <1>1 DEF Lower, Ahead
<1>3. (\E k \in Nat : Ahead(u, v, k)) => Lower(u, v)
  BY <1>1 DEF Lower, Ahead
<1> QED
  BY <1>2, <1>3

\* No sequence is lower than itself.
LEMMA LowerIrreflexive == ASSUME NEW u \in Seq(Nat) PROVE ~Lower(u, u)
<1> SUFFICES ASSUME NEW k \in Nat, Ahead(u, u, k) PROVE FALSE
  BY LowerIs
<1>1. k + 1 \in 1 .. Len(u) /\ k # Len(u)
  BY DEF Ahead
<1>2. u[k + 1] \in Nat
  BY <1>1
<1> QED
  BY <1>1, <1>2 DEF Ahead

\* Of three sequences in order the first is lower than the last.
LEMMA LowerTransitive ==
  ASSUME NEW u \in Seq(Nat), NEW v \in Seq(Nat), NEW w \in Seq(Nat), Lower(u, v), Lower(v, w)
  PROVE  Lower(u, w)
<1>1. PICK j \in Nat : Ahead(u, v, j)
  BY LowerIs
<1>2. PICK k \in Nat : Ahead(v, w, k)
  BY LowerIs
<1>3. PICK A \in Nat, B \in Nat, C \in Nat : A = Len(u) /\ B = Len(v) /\ C = Len(w)
  OBVIOUS
<1>4. j <= A /\ j < B /\ (\A i \in 1 .. j : u[i] = v[i]) /\ (j = A \/ u[j + 1] < v[j + 1])
  BY <1>1, <1>3 DEF Ahead
<1>5. k <= B /\ k < C /\ (\A i \in 1 .. k : v[i] = w[i]) /\ (k = B \/ v[k + 1] < w[k + 1])
  BY <1>2, <1>3 DEF Ahead
<1>6. /\ \A i \in 1 .. A : u[i] \in Nat
      /\ \A i \in 1 .. B : v[i] \in Nat
      /\ \A i \in 1 .. C : w[i] \in Nat
  BY <1>3
<1>7. \E m \in Nat : m <= A /\ m < C /\ (\A i \in 1 .. m : u[i] = w[i]) /\ (m = A \/ u[m + 1] < w[m + 1])
  <2>1. CASE j < k
    <3>1. \A i \in 1 .. j : u[i] = w[i]
      BY <1>4, <1>5, <2>1
    <3>2. v[j + 1] = w[j + 1]
      BY <1>4, <1>5, <2>1
    <3> QED
      BY <1>4, <1>5, <2>1, <3>1, <3>2
  <2>2. CASE j = k
    <3>1. \A i \in 1 .. j : u[i] = w[i]
      BY <1>4, <1>5, <2>2
    <3>2. j = A \/ u[j + 1] < w[j + 1]
      <4> SUFFICES ASSUME j # A PROVE u[j + 1] < w[j + 1]
        OBVIOUS
      <4>1. j + 1 \in 1 .. A /\ j + 1 \in 1 .. B /\ j + 1 \in 1 .. C
        BY <1>4, <1>5, <2>2
      <4>2. u[j + 1] < v[j + 1] /\ v[j + 1] < w[j + 1]
        BY <1>4, <1>5, <2>2
      <4>3. u[j + 1] \in Nat /\ v[j + 1] \in Nat /\ w[j + 1] \in Nat
        BY <1>6, <4>1
      <4> QED
        BY <4>2, <4>3
    <3> QED
      BY <1>4, <1>5, <2>2, <3>1, <3>2
  <2>3. CASE k < j
    <3>1. \A i \in 1 .. k : u[i] = w[i]
      BY <1>4, <1>5, <2>3
    <3>2. u[k + 1] = v[k + 1] /\ k # B
      BY <1>4, <2>3
    <3> QED
      BY <1>4, <1>5, <2>3, <3>1, <3>2
  <2> QED
    BY <2>1, <2>2, <2>3
<1>8. PICK m \in Nat : m <= A /\ m < C /\ (\A i \in 1 .. m : u[i] = w[i]) /\ (m = A \/ u[m + 1] < w[m + 1])
  BY <1>7
<1>9. Ahead(u, w, m)
  BY <1>3, <1>8 DEF Ahead
<1> QED
  BY <1>9, LowerIs

-----------------------------------------------------------------------------
(* The scene of a package                                                   *)

\* The candidates of infer_scene_root and what they are compared by.
AnchorsFound(files, anchors) ==
  {o \in {<<f, i>> : f \in files, i \in 1 .. MaxSourceDirs} :
     o[2] <= Len(o[1].dirs) /\ o[1].dirs[o[2]] \in anchors}
AboveAnchor(o)   == SubSeq(o[1].dirs, 1, o[2] - 1)
AnchorsOf(F, c)  == {o \in F : AboveAnchor(o) = c}
OrderOf(c)       == [k \in DOMAIN c |-> CHOOSE n \in DOMAIN SegmentOrder : SegmentOrder[n] = c[k]]
SceneScore(F, c) ==
  <<Cardinality({o[1].dirs[o[2]] : o \in AnchorsOf(F, c)}), Cardinality(AnchorsOf(F, c)), Len(c)>> \o OrderOf(c)
Candidates(F)    == {AboveAnchor(o) : o \in F}
Best(F)          == CHOOSE c \in Candidates(F) : \A d \in Candidates(F) : ~Lower(SceneScore(F, c), SceneScore(F, d))

\* infer_scene_root takes the best candidate.
LEMMA SceneChosen ==
  ASSUME NEW files, NEW anchors
  PROVE  InferSceneRoot(files, anchors) =
           IF AnchorsFound(files, anchors) = {} THEN <<>> ELSE Best(AnchorsFound(files, anchors))
  BY DEF InferSceneRoot, AnchorsFound, AboveAnchor, AnchorsOf, OrderOf, SceneScore, Candidates, Best

\* A package has finitely many anchors, each within the directories of a file.
LEMMA FoundAre ==
  ASSUME NEW files \in RouteTrees, NEW anchors
  PROVE  /\ IsFiniteSet(AnchorsFound(files, anchors))
         /\ \A o \in AnchorsFound(files, anchors) :
              /\ o[1].dirs \in Seq(Range(SegmentOrder)) /\ o[2] \in 1 .. Len(o[1].dirs)
<1> DEFINE all == files \X (1 .. MaxSourceDirs)
<1>1. IsFiniteSet(all)
  <2>1. IsFiniteSet(files) /\ MaxSourceDirs \in Nat
    BY RouteAssumption
  <2>2. IsFiniteSet(1 .. MaxSourceDirs)
    BY <2>1, FS_Interval
  <2> QED
    BY <2>1, <2>2, FS_Product
<1>2. AnchorsFound(files, anchors) \subseteq all
  BY DEF AnchorsFound
<1>3. IsFiniteSet(AnchorsFound(files, anchors))
  <2> HIDE DEF all
  <2> QED
    BY <1>1, <1>2, FS_Subset
<1>4. ASSUME NEW o \in AnchorsFound(files, anchors)
      PROVE  o[1].dirs \in Seq(Range(SegmentOrder)) /\ o[2] \in 1 .. Len(o[1].dirs)
  <2>1. o \in all /\ o[2] <= Len(o[1].dirs)
    BY <1>2 DEF AnchorsFound
  <2>2. o[1] \in files /\ o[2] \in 1 .. MaxSourceDirs
    BY <2>1
  <2>3. o[1].dirs \in Seq(Range(SegmentOrder))
    BY <2>2, RouteAssumption DEF GoodFile
  <2>4. Len(o[1].dirs) \in Nat /\ MaxSourceDirs \in Nat
    BY <2>3, RouteAssumption
  <2> QED
    BY <2>1, <2>2, <2>3, <2>4
<1> QED
  BY <1>3, <1>4

\* A candidate is a sequence of directories.
LEMMA CandidateIs ==
  ASSUME NEW files \in RouteTrees, NEW anchors, NEW c \in Candidates(AnchorsFound(files, anchors))
  PROVE  c \in Seq(Range(SegmentOrder))
<1>1. PICK o \in AnchorsFound(files, anchors) : c = AboveAnchor(o)
  BY DEF Candidates
<1>2. PICK s \in Seq(Range(SegmentOrder)), k \in Nat : s = o[1].dirs /\ k = o[2] - 1 /\ k \in 0 .. Len(s)
  <2>1. o[1].dirs \in Seq(Range(SegmentOrder)) /\ o[2] \in 1 .. Len(o[1].dirs)
    BY FoundAre
  <2> QED
    BY <2>1
<1>3. SubSeq(s, 1, k) \in Seq(Range(SegmentOrder))
  BY <1>2, Beginning
<1> QED
  BY <1>1, <1>2, <1>3 DEF AboveAnchor

\* Its score is a sequence of numbers.
LEMMA ScoreTyped ==
  ASSUME NEW files \in RouteTrees, NEW anchors, NEW c \in Candidates(AnchorsFound(files, anchors))
  PROVE  SceneScore(AnchorsFound(files, anchors), c) \in Seq(Nat)
<1> DEFINE F == AnchorsFound(files, anchors)
<1>1. IsFiniteSet(F)
  BY FoundAre
<1> HIDE DEF F
<1> DEFINE H == AnchorsOf(F, c)
<1>2. IsFiniteSet(H)
  BY <1>1, FS_Subset DEF AnchorsOf
<1> HIDE DEF H
<1> DEFINE g == [o \in H |-> o[1].dirs[o[2]]]
<1>3. IsFiniteSet({g[o] : o \in H})
  <2>1. DOMAIN g = H
    OBVIOUS
  <2> HIDE DEF g
  <2> QED
    BY <1>2, <2>1, FiniteImage
<1>4. {g[o] : o \in H} = {o[1].dirs[o[2]] : o \in H}
  OBVIOUS
<1> DEFINE K == {o[1].dirs[o[2]] : o \in H}
<1>5. IsFiniteSet(K)
  BY <1>3, <1>4
<1> HIDE DEF K
<1>6. Cardinality(K) \in Nat /\ Cardinality(H) \in Nat
  BY <1>2, <1>5, FS_CardinalityType
<1>7. c \in Seq(Range(SegmentOrder))
  BY CandidateIs
<1>8. PICK L \in Nat : L = Len(c) /\ DOMAIN c = 1 .. L
  BY <1>7
<1>9. ASSUME NEW k \in 1 .. L
      PROVE  (CHOOSE n \in DOMAIN SegmentOrder : SegmentOrder[n] = c[k]) \in Nat
  <2>1. c[k] \in Range(SegmentOrder)
    BY <1>7, <1>8
  <2>2. \E n \in DOMAIN SegmentOrder : SegmentOrder[n] = c[k]
    BY <2>1 DEF Range
  <2>3. DOMAIN SegmentOrder \subseteq Nat
    BY RouteAssumption, SequenceHas
  <2> QED
    BY <2>2, <2>3
<1>10. OrderOf(c) \in Seq(Nat)
  <2>1. OrderOf(c) = [k \in 1 .. L |-> CHOOSE n \in DOMAIN SegmentOrder : SegmentOrder[n] = c[k]]
    BY <1>8 DEF OrderOf
  <2>2. OrderOf(c) \in [1 .. L -> Nat]
    BY <1>9, <2>1
  <2> QED
    BY <2>2
<1>11. PICK a \in Nat, b \in Nat, o \in Seq(Nat) : a = Cardinality(K) /\ b = Cardinality(H) /\ o = OrderOf(c)
  BY <1>6, <1>10
<1>12. <<a, b, L>> \o o \in Seq(Nat)
  <2>1. <<a, b, L>> \in Seq(Nat)
    OBVIOUS
  <2> QED
    BY <2>1
<1>13. SceneScore(F, c) = <<a, b, L>> \o o
  BY <1>8, <1>11, Zenon DEF SceneScore, H, K
<1> QED
  BY <1>12, <1>13 DEF F

\* The scene of a package is a sequence of directories.
LEMMA SceneTyped ==
  ASSUME NEW files \in RouteTrees, NEW anchors
  PROVE  Len(InferSceneRoot(files, anchors)) \in Nat
<1> DEFINE F == AnchorsFound(files, anchors)
<1>1. CASE F = {}
  <2>1. InferSceneRoot(files, anchors) = <<>>
    BY <1>1, SceneChosen, Zenon
  <2>2. Len(<<>>) = 0
    OBVIOUS
  <2> QED
    BY <2>1, <2>2
<1>2. CASE F # {}
  <2>1. IsFiniteSet(F) /\ \A c \in Candidates(F) : SceneScore(F, c) \in Seq(Nat) /\ c \in Seq(Range(SegmentOrder))
    BY FoundAre, CandidateIs, ScoreTyped
  <2>2. InferSceneRoot(files, anchors) = Best(F)
    BY <1>2, SceneChosen, Zenon
  <2> HIDE DEF F
  <2> DEFINE S == Candidates(F)
             g == [o \in F |-> AboveAnchor(o)]
  <2>3. IsFiniteSet(S) /\ S # {}
    <3>1. DOMAIN g = F /\ {g[o] : o \in F} = S
      BY DEF Candidates
    <3>2. S # {}
      BY <1>2 DEF Candidates
    <3> HIDE DEF g, S
    <3>3. IsFiniteSet({g[o] : o \in F})
      BY <2>1, <3>1, FiniteImage
    <3> QED
      BY <3>1, <3>2, <3>3
  <2> DEFINE Under(x, y) == Lower(SceneScore(F, x), SceneScore(F, y))
             R == {t \in S \X S : Under(t[1], t[2])}
  <2>4. \A x \in S : ~Under(x, x)
    BY <2>1, LowerIrreflexive
  <2>5. \A x, y, z \in S : Under(x, y) /\ Under(y, z) => Under(x, z)
    BY <2>1, LowerTransitive
  <2> HIDE DEF S, Under
  <2>6. \A x, y \in S : <<x, y>> \in R <=> Under(x, y)
    OBVIOUS
  <2> HIDE DEF R
  <2>7. PICK x \in S : \A y \in S : <<x, y>> \notin R
    <3>1. \A x \in S : <<x, x>> \notin R
      BY <2>4, <2>6
    <3>2. \A x, y, z \in S : <<x, y>> \in R /\ <<y, z>> \in R => <<x, z>> \in R
      BY <2>5, <2>6
    <3> QED
      BY <2>3, <3>1, <3>2, MaximalExists
  <2>8. \A y \in S : ~Under(x, y)
    BY <2>6, <2>7
  <2>9. Best(F) \in S
    BY <2>8, Zenon DEF Best, S, Under
  <2>10. Best(F) \in Seq(Range(SegmentOrder))
    BY <2>1, <2>9 DEF S
  <2> QED
    BY <2>2, <2>10
<1> QED
  BY <1>1, <1>2

-----------------------------------------------------------------------------
(* Patterns that match everything                                           *)

\* What is in a sequence has an index.
LEMMA InRange == ASSUME NEW s, NEW x \in Range(s) PROVE \E i \in DOMAIN s : s[i] = x
  BY DEF Range

\* A pattern of "**" alone matches any directories.
LEMMA AllStarsMatch ==
  ASSUME NEW p, IsSequence(p), Range(p) = {"**"}, NEW d, Len(d) \in Nat
  PROVE  GlobMatches("**", p, d)
<1>1. PICK N \in Nat, L \in Nat : N = Len(p) /\ L = Len(d)
  BY SequenceHas
<1>2. \A i \in 1 .. N : p[i] = "**"
  BY <1>1, SequenceHas
<1>3. N # 0
  <2>1. "**" \in Range(p)
    OBVIOUS
  <2>2. \E i \in DOMAIN p : p[i] = "**"
    BY <2>1, InRange
  <2>3. DOMAIN p = 1 .. N
    BY <1>1, SequenceHas
  <2> QED
    BY <2>2, <2>3
<1> DEFINE c == [i \in 0 .. N |-> IF i = 0 THEN 0 ELSE L]
<1>4. c \in [0 .. N -> 0 .. L] /\ c[0] = 0 /\ c[N] = L
  BY <1>3
<1>5. ASSUME NEW i \in 1 .. N PROVE CutBy("**", p, d, i, c[i - 1], c[i])
  <2>1. c[i - 1] <= c[i]
    OBVIOUS
  <2> QED
    BY <1>2, <2>1 DEF CutBy
<1> HIDE DEF c
<1>6. Cuts("**", p, d, c)
  BY <1>1, <1>4, <1>5 DEF Cuts
<1> QED
  BY <1>1, <1>6, CutsMatch

\* A set of at most one element has no two.
LEMMA OneOf ==
  ASSUME NEW Q, IsFiniteSet(Q), Cardinality(Q) <= 1, NEW x \in Q, NEW y \in Q
  PROVE  x = y
<1> SUFFICES ASSUME x # y PROVE FALSE
  OBVIOUS
<1>1. IsFiniteSet({x}) /\ Cardinality({x}) = 1
  BY FS_Singleton
<1>2. IsFiniteSet({x} \cup {y}) /\ Cardinality({x} \cup {y}) = 2
  <2>1. y \notin {x}
    OBVIOUS
  <2> QED
    BY <1>1, <2>1, FS_AddElement
<1>3. {x} \cup {y} \subseteq Q
  OBVIOUS
<1>4. Cardinality({x} \cup {y}) <= Cardinality(Q) /\ Cardinality(Q) \in Nat
  BY <1>3, FS_Subset, FS_CardinalityType
<1> QED
  BY <1>2, <1>4

\* Cuts that give one character to the "?" at q, if it has one, and the rest to
\* the star at p.
Covers(N, L, p, q, c) ==
  /\ c \in [0 .. N -> 0 .. L] /\ c[0] = 0 /\ c[N] = L
  /\ \A i \in 1 .. N : c[i - 1] <= c[i] /\ (i = q => c[i] = c[i - 1] + 1)

\* Such cuts exist when there is at least one character.
LEMMA CoversExists ==
  ASSUME NEW N \in Nat, NEW L \in Nat, L >= 1, NEW p \in 1 .. N, NEW q \in 0 .. N, p # q
  PROVE  \E c : Covers(N, L, p, q, c)
<1> DEFINE first == IF 1 <= q /\ q < p THEN 1 ELSE 0
           upto  == IF p < q THEN L - 1 ELSE L
           At(i) == IF i < p THEN (IF 1 <= q /\ q <= i THEN 1 ELSE 0)
                    ELSE (IF i < q THEN L - 1 ELSE L)
           c == [i \in 0 .. N |-> At(i)]
<1>1. \A i \in 0 .. N : At(i) \in 0 .. L
  OBVIOUS
<1>2. At(0) = 0 /\ At(N) = L
  OBVIOUS
<1>3. \A i \in 1 .. N : At(i - 1) <= At(i) /\ (i = q => At(i) = At(i - 1) + 1)
  OBVIOUS
<1>4. \A i \in 0 .. N : c[i] = At(i)
  OBVIOUS
<1>5. c \in [0 .. N -> 0 .. L]
  BY <1>1
<1>6. 0 \in 0 .. N /\ N \in 0 .. N /\ \A i \in 1 .. N : i - 1 \in 0 .. N /\ i \in 0 .. N
  OBVIOUS
<1> HIDE DEF c, At
<1> QED
  BY <1>2, <1>3, <1>4, <1>5, <1>6 DEF Covers

\* A file pattern of a star and at most one "?" matches any name.
LEMMA CatchAllMatches ==
  ASSUME NEW p, IsSequence(p), CatchAllFile(p), NEW n, Len(n) \in Nat, Len(n) >= 1
  PROVE  GlobMatches("*", p, n)
<1>1. PICK N \in Nat, L \in Nat : N = Len(p) /\ L = Len(n)
  BY SequenceHas
<1>2. DOMAIN p = 1 .. N
  BY <1>1, SequenceHas
<1>3. \A i \in 1 .. N : p[i] \in {"*", "?"}
  BY <1>1, SequenceHas DEF CatchAllFile
<1>4. PICK s \in 1 .. N : p[s] = "*"
  BY <1>2, InRange DEF CatchAllFile
<1> DEFINE Q == {i \in DOMAIN p : p[i] = "?"}
<1>5. IsFiniteSet(Q) /\ Cardinality(Q) <= 1
  <2>1. IsFiniteSet(1 .. N) /\ Q \subseteq 1 .. N
    BY <1>2, FS_Interval
  <2>2. IsFiniteSet(Q)
    <3> HIDE DEF Q
    <3> QED
      BY <2>1, FS_Subset
  <2> QED
    BY <2>2 DEF CatchAllFile
<1>6. \E q \in 0 .. N : s # q /\ \A i \in 1 .. N : p[i] = "?" => i = q
  <2>1. CASE Q = {}
    <3>1. 0 \in 0 .. N /\ s # 0 /\ \A i \in 1 .. N : p[i] # "?"
      BY <1>2, <2>1
    <3> QED
      BY <3>1
  <2>2. CASE Q # {}
    <3>1. PICK q : q \in Q
      BY <2>2
    <3>2. q \in 1 .. N /\ p[q] = "?" /\ s # q
      BY <1>2, <1>4, <3>1
    <3>3. \A i \in Q : i = q
      <4> HIDE DEF Q
      <4> QED
        BY <1>5, <3>1, OneOf
    <3>4. \A i \in 1 .. N : p[i] = "?" => i \in Q
      BY <1>2
    <3>5. \A i \in 1 .. N : p[i] = "?" => i = q
      <4> HIDE DEF Q
      <4> QED
        BY <3>3, <3>4
    <3>6. q \in 0 .. N /\ s # q
      BY <3>2
    <3> QED
      BY <3>5, <3>6
  <2> QED
    BY <2>1, <2>2
<1>7. PICK q \in 0 .. N : s # q /\ \A i \in 1 .. N : p[i] = "?" => i = q
  BY <1>6
<1>8. PICK c : Covers(N, L, s, q, c)
  BY <1>1, <1>7, CoversExists
<1>9. ASSUME NEW i \in 1 .. N PROVE CutBy("*", p, n, i, c[i - 1], c[i])
  <2>1. CASE p[i] = "*"
    BY <1>8, <2>1 DEF CutBy, Covers
  <2>2. CASE p[i] # "*"
    <3>1. p[i] = "?" /\ i = q
      BY <1>3, <1>7, <2>2
    <3> QED
      BY <1>8, <2>2, <3>1 DEF CutBy, Covers
  <2> QED
    BY <2>1, <2>2
<1>10. Cuts("*", p, n, c)
  BY <1>1, <1>8, <1>9 DEF Cuts, Covers
<1> QED
  BY <1>1, <1>10, CutsMatch

-----------------------------------------------------------------------------
(* The route of a file                                                      *)

\* How _select_route compares the routes that match a file.
PhaseOf(i)      == CHOOSE n \in DOMAIN PhaseOrder : PhaseOrder[n] = Active[i].phase
ChosenBefore(i, j) ==
  \/ PhaseOf(i) < PhaseOf(j)
  \/ PhaseOf(i) = PhaseOf(j) /\ Active[i].priority > Active[j].priority
  \/ PhaseOf(i) = PhaseOf(j) /\ Active[i].priority = Active[j].priority /\ i <= j
Fitting(profile, file, inScene) ==
  {i \in DOMAIN Active : profile \in Active[i].profiles /\ RouteMatches(Active[i], file, inScene)}
FirstOf(Q) == CHOOSE i \in Q : \A j \in Q : ChosenBefore(i, j)

\* _select_route takes the first of the routes that match.
LEMMA PickedIs ==
  ASSUME NEW profile, NEW file, NEW inScene
  PROVE  PickRoute(profile, file, inScene) =
           IF Fitting(profile, file, inScene) = {} THEN 0 ELSE FirstOf(Fitting(profile, file, inScene))
  BY DEF PickRoute, Fitting, FirstOf, ChosenBefore, PhaseOf

\* A lexicographic order of three numbers.
Precedes(a, b, x, y) == a[x] < a[y] \/ (a[x] = a[y] /\ (b[x] > b[y] \/ (b[x] = b[y] /\ x <= y)))

\* It puts any two in order.
LEMMA PrecedesTotal ==
  ASSUME NEW Q, Q \subseteq Nat, NEW a \in [Q -> Int], NEW b \in [Q -> Int]
  PROVE  /\ \A x \in Q : Precedes(a, b, x, x)
         /\ \A x, y, z \in Q : ~Precedes(a, b, x, y) /\ ~Precedes(a, b, y, z) => ~Precedes(a, b, x, z)
<1>1. \A x \in Q : Precedes(a, b, x, x)
  BY DEF Precedes
<1>2. ASSUME NEW x \in Q, NEW y \in Q, NEW z \in Q, ~Precedes(a, b, x, y), ~Precedes(a, b, y, z)
      PROVE  ~Precedes(a, b, x, z)
  <2>1. PICK i \in Nat, j \in Nat, k \in Nat : i = x /\ j = y /\ k = z
    OBVIOUS
  <2>2. PICK p \in Int, q \in Int, r \in Int : p = a[x] /\ q = a[y] /\ r = a[z]
    OBVIOUS
  <2>3. PICK u \in Int, v \in Int, w \in Int : u = b[x] /\ v = b[y] /\ w = b[z]
    OBVIOUS
  <2>4. ~(p < q \/ (p = q /\ (u > v \/ (u = v /\ i <= j))))
    BY <1>2, <2>1, <2>2, <2>3 DEF Precedes
  <2>5. ~(q < r \/ (q = r /\ (v > w \/ (v = w /\ j <= k))))
    BY <1>2, <2>1, <2>2, <2>3 DEF Precedes
  <2>6. ~(p < r \/ (p = r /\ (u > w \/ (u = w /\ i <= k))))
    BY <2>4, <2>5
  <2> QED
    BY <2>1, <2>2, <2>3, <2>6 DEF Precedes
<1> QED
  BY <1>1, <1>2

\* Of the routes that match a file one is chosen.
LEMMA FirstExists ==
  ASSUME config \in DOMAIN RouteConfigs, NEW Q, Q \subseteq DOMAIN Active, Q # {}
  PROVE  FirstOf(Q) \in Q
<1>1. PICK N \in Nat : DOMAIN Active = 1 .. N
  BY ActiveGood, SequenceHas
<1>2. IsFiniteSet(Q) /\ Q \subseteq Nat
  <2>1. IsFiniteSet(1 .. N) /\ Q \subseteq 1 .. N
    BY <1>1, FS_Interval
  <2>2. IsFiniteSet(Q)
    BY <2>1, FS_Subset
  <2> QED
    BY <2>1, <2>2
<1> DEFINE a == [i \in Q |-> PhaseOf(i)]
           b == [i \in Q |-> Active[i].priority]
<1>3. ASSUME NEW i \in Q PROVE PhaseOf(i) \in Int /\ Active[i].priority \in Int
  <2>1. GoodRoute(Active[i])
    BY ActiveGood, AtIndex
  <2>2. \E n \in DOMAIN PhaseOrder : PhaseOrder[n] = Active[i].phase
    BY <2>1, InRange DEF GoodRoute
  <2>3. DOMAIN PhaseOrder \subseteq Int
    BY DEF PhaseOrder
  <2> QED
    BY <2>1, <2>2, <2>3 DEF PhaseOf, GoodRoute
<1>4. a \in [Q -> Int] /\ b \in [Q -> Int]
  BY <1>3
<1>5. \A i, j \in Q : Precedes(a, b, i, j) <=> ChosenBefore(i, j)
  BY DEF Precedes, ChosenBefore
<1> HIDE DEF a, b
<1>6. /\ \A x \in Q : Precedes(a, b, x, x)
      /\ \A x, y, z \in Q : ~Precedes(a, b, x, y) /\ ~Precedes(a, b, y, z) => ~Precedes(a, b, x, z)
  BY <1>2, <1>4, PrecedesTotal
<1> DEFINE R == {t \in Q \X Q : ~Precedes(a, b, t[1], t[2])}
<1>7. \A x, y \in Q : <<x, y>> \in R <=> ~Precedes(a, b, x, y)
  OBVIOUS
<1> HIDE DEF R
<1>8. PICK x \in Q : \A y \in Q : <<x, y>> \notin R
  <2>1. \A x \in Q : <<x, x>> \notin R
    BY <1>6, <1>7
  <2>2. \A x, y, z \in Q : <<x, y>> \in R /\ <<y, z>> \in R => <<x, z>> \in R
    BY <1>6, <1>7
  <2> QED
    BY <1>2, <2>1, <2>2, MaximalExists
<1>9. \A y \in Q : ChosenBefore(x, y)
  BY <1>5, <1>7, <1>8
<1> QED
  BY <1>9, Zenon DEF FirstOf

\* A default takes every file of the scene.
LEMMA DefaultMatches ==
  ASSUME NEW r, GoodRoute(r), Default(r), NEW f, GoodFile(f), NEW scene, Len(scene) \in Nat,
         WithinScene(f.dirs, scene) # {}
  PROVE  RouteMatches(r, f, WithinScene(f.dirs, scene))
<1>1. CatchAllFile(r.file) /\ Range(r.dirs) = {"**"} /\ r.capture = ""
  BY DEF Default, CatchAll
<1>2. IsSequence(r.dirs) /\ IsSequence(r.file) /\ r.scope \in {"scene", "evidence"}
  BY DEF GoodRoute, GoodPattern
<1>3. f.dirs \in Seq(Range(SegmentOrder)) /\ f.name \in Seq(NameChars) /\ f.name # <<>>
  BY DEF GoodFile
<1>4. Len(f.dirs) \in Nat /\ Len(f.name) \in Nat /\ Len(f.name) >= 1
  BY <1>3
<1>5. GlobMatches("*", r.file, f.name)
  BY <1>1, <1>2, <1>4, CatchAllMatches
<1>6. IsPrefix(scene, f.dirs) /\ WithinScene(f.dirs, scene) = {SubSeq(f.dirs, Len(scene) + 1, Len(f.dirs))}
  BY DEF WithinScene
<1>7. Len(SubSeq(f.dirs, Len(scene) + 1, Len(f.dirs))) \in Nat
  <2>1. PICK m \in Nat, n \in Nat : m = Len(scene) /\ n = Len(f.dirs)
    BY <1>4
  <2>2. m <= n
    BY <1>6, <2>1 DEF IsPrefix
  <2>3. PICK d \in Seq(Range(SegmentOrder)) : d = f.dirs
    BY <1>3
  <2>4. Len(SubSeq(d, m + 1, n)) = n - m
    BY <2>1, <2>2, <2>3
  <2> QED
    BY <2>1, <2>2, <2>3, <2>4
<1>8. \E d \in IF r.scope = "evidence" THEN {f.dirs} ELSE WithinScene(f.dirs, scene) :
         GlobMatches("**", r.dirs, d) /\ (r.capture = "" \/ r.capture \in Range(d))
  <2>1. CASE r.scope = "evidence"
    BY <1>1, <1>2, <1>4, <2>1, AllStarsMatch
  <2>2. CASE r.scope # "evidence"
    BY <1>1, <1>2, <1>6, <1>7, <2>2, AllStarsMatch
  <2> QED
    BY <2>1, <2>2
<1> QED
  BY <1>5, <1>8 DEF RouteMatches, PlaceMatches

\* Every file of the scene falls to a route.
LEMMA DefaultHolds == RouteInv => DefaultReaches
<1> SUFFICES ASSUME RouteInv, NEW f \in DOMAIN scan.placed, WithinScene(f.dirs, scan.scene) # {}
             PROVE  scan.placed[f] # 0
  BY DEF DefaultReaches
<1>1. scan # NoScan
  <2>1. DOMAIN <<>> = {}
    OBVIOUS
  <2> QED
    BY <2>1 DEF NoScan
<1>2. stage = "scan" /\ \E files \in RouteTrees, profile \in Profiles : scan = Scanned(files, profile)
  BY <1>1 DEF RouteInv, ScanInv
<1>3. PICK files \in RouteTrees, profile \in Profiles : scan = Scanned(files, profile)
  BY <1>2
<1>4. PICK scene : scene = InferSceneRoot(files, SceneAnchors[profile])
  OBVIOUS
<1>5. /\ scan.scene = scene /\ f \in files
      /\ scan.placed[f] = PickRoute(profile, f, WithinScene(f.dirs, scene))
  BY <1>3, <1>4 DEF Scanned
<1>6. Len(scene) \in Nat
  BY <1>4, SceneTyped
<1>7. GoodFile(f)
  BY <1>5, RouteAssumption
<1>8. config \in DOMAIN RouteConfigs /\ DefaultsReachable(Active)
  BY <1>2 DEF RouteInv, RouteShape, ClearedInv
<1>9. PICK r \in Range(Active) : Default(r) /\ profile \in r.profiles
  <2>1. profile \in UNION {r.profiles : r \in {x \in Range(Active) : Default(x)}}
    BY <1>8 DEF DefaultsReachable
  <2> QED
    BY <2>1
<1>10. PICK i \in DOMAIN Active : Active[i] = r
  BY InRange
<1> DEFINE Q == Fitting(profile, f, WithinScene(f.dirs, scene))
<1>11. i \in Q
  <2>1. GoodRoute(r)
    BY <1>8, ActiveGood
  <2>2. RouteMatches(r, f, WithinScene(f.dirs, scene))
    BY <1>5, <1>6, <1>7, <1>9, <2>1, DefaultMatches
  <2> QED
    BY <1>9, <1>10, <2>2 DEF Fitting
<1>12. Q \subseteq DOMAIN Active
  BY DEF Fitting
<1>13. scan.placed[f] = FirstOf(Q)
  BY <1>5, <1>11, PickedIs
<1> HIDE DEF Q
<1>14. FirstOf(Q) \in DOMAIN Active
  BY <1>8, <1>11, <1>12, FirstExists
<1>15. 0 \notin DOMAIN Active
  BY <1>8, ActiveGood, SequenceHas
<1> QED
  BY <1>13, <1>14, <1>15

\* RoutingIsSound: what the validation of a configuration promises the scans
\* made with it: two routes never tie for a file, nor two services for a member,
\* and every file of the scene falls to a route.  For every configuration and
\* package, and for files of any of the depths and lengths asked about.
THEOREM RoutingIsSound == RouteSpec => []RoutingSound
<1>1. RouteInit => RouteInv
  BY RouteInitSound
<1>2. RouteInv /\ [RouteNext]_routeVars => RouteInv'
  BY ShapeStep, SearchInvStep, ClearedStep, ScanStep DEF RouteInv
<1>3. RouteInv => RoutingSound
  BY NoTieHolds, SelectionHolds, DefaultHolds DEF RoutingSound
<1> QED
  BY <1>1, <1>2, <1>3, PTL DEF RouteSpec
-----------------------------------------------------------------------------
(* The states a search meets                                                  *)

\* The edges and moves of an automaton stay among its states.
Closed(nfa) == Rising(nfa) /\ \A m \in nfa.moves : m[3] \in 0 .. nfa.accept

\* A pair of the search holds states of both automata.
Reached(p) == \A n \in 1 .. 2 : p[n] # {} /\ p[n] \subseteq 0 .. automata[n].accept

\* Between two comparisons nothing is left of the last.
WalkInv ==
  /\ now = <<>> => automata = <<>> /\ toVisit = {} /\ visited = {}
  /\ now # <<>> => /\ Len(automata) = 2 /\ Closed(automata[1]) /\ Closed(automata[2])
                   /\ \A p \in toVisit \cup visited : Reached(p)

\* What a symbol leads to are states.
LEMMA Moved ==
  ASSUME NEW nfa, Closed(nfa), NEW S, NEW s PROVE MovesOn(nfa, S, s) \subseteq 0 .. nfa.accept
<1> DEFINE T == {m[3] : m \in {x \in nfa.moves : x[1] \in S /\ x[2] = s}}
<1>1. T \in SUBSET (0 .. nfa.accept)
  BY DEF Closed
<1>2. EpsilonClosure(nfa, T) \subseteq 0 .. nfa.accept
  <2> HIDE DEF T
  <2> QED
    BY <1>1, ClosureLarger DEF Closed
<1> QED
  BY <1>2 DEF MovesOn

\* The states an automaton starts in.
LEMMA StartStates ==
  ASSUME NEW nfa, Closed(nfa) PROVE EpsilonClosure(nfa, {0}) # {} /\ EpsilonClosure(nfa, {0}) \subseteq 0 .. nfa.accept
<1>1. {0} \in SUBSET (0 .. nfa.accept)
  BY DEF Closed, Rising
<1> QED
  BY <1>1, ClosureLarger DEF Closed

\* An automaton that validation compiles.
LEMMA CompiledClosed == ASSUME NEW p, GoodPattern(p), NEW S PROVE Closed(Compile(p, S))
  BY CompileIs DEF Closed

\* The pairs after a pair.
LEMMA SuccessorsReached ==
  ASSUME Closed(automata[1]), Closed(automata[2]), NEW pair, NEW q \in Successors(pair) PROVE Reached(q)
<1>1. q[1] # {} /\ q[2] # {}
  BY DEF Successors
<1>2. \E s : q = <<MovesOn(automata[1], pair[1], s), MovesOn(automata[2], pair[2], s)>>
  BY DEF Successors
<1>3. PICK s : q = <<MovesOn(automata[1], pair[1], s), MovesOn(automata[2], pair[2], s)>>
  BY <1>2
<1>4. q[1] = MovesOn(automata[1], pair[1], s) /\ q[2] = MovesOn(automata[2], pair[2], s)
  BY <1>3
<1>5. q[1] \subseteq 0 .. automata[1].accept /\ q[2] \subseteq 0 .. automata[2].accept
  BY <1>4, Moved
<1> QED
  BY <1>1, <1>5 DEF Reached

\* What is left to compare are tuples of two patterns.
LEMMA ComparedGood ==
  ASSUME RouteShape, NEW t \in todo
  PROVE  t # <<>> /\ \E a, b : Compared(t) = <<a, b>> /\ GoodPattern(a) /\ GoodPattern(b)
<1>1. config \in DOMAIN RouteConfigs /\ stage \in {"selections", "routes"}
  BY DEF RouteShape
<1>2. CASE stage = "selections"
  <2>1. t \in SelectionPairs(Active)
    BY <1>2 DEF RouteShape
  <2>2. t # <<>>
    <3> DEFINE Q(r) == {r} \X (DOMAIN Active[r].include) \X (DOMAIN Active[r].include)
    <3>1. t \in UNION {Q(r) : r \in DOMAIN Active}
      BY <2>1 DEF SelectionPairs
    <3>2. PICK r \in DOMAIN Active : t \in Q(r)
      <4> HIDE DEF Q
      <4> QED
        BY <3>1
    <3> QED
      BY <3>2
  <2> QED
    BY <1>1, <1>2, <2>1, <2>2, ComparedIncludes
<1>3. CASE stage = "routes"
  <2>1. t \in RoutePairs(Active)
    BY <1>3 DEF RouteShape
  <2>2. t # <<>>
    BY <2>1 DEF RoutePairs
  <2> QED
    BY <1>1, <1>3, <2>1, <2>2, ComparedRoutes
<1> QED
  BY <1>1, <1>2, <1>3

\* Every step keeps the search among the states of its automata.
LEMMA WalkStep == RouteShape /\ WalkInv /\ [RouteNext]_routeVars => WalkInv'
<1> SUFFICES ASSUME RouteShape, WalkInv, [RouteNext]_routeVars PROVE WalkInv'
  OBVIOUS
<1>1. CASE UNCHANGED <<now, automata, toVisit, visited>>
  BY <1>1 DEF WalkInv, Reached
<1>2. CASE BeginComparison
  <2>1. now' \in todo /\ visited' = {}
    BY <1>2 DEF BeginComparison
  <2>2. PICK a, b : now' # <<>> /\ Compared(now') = <<a, b>> /\ GoodPattern(a) /\ GoodPattern(b)
    BY <2>1, ComparedGood
  <2> DEFINE S == Symbols(Range(<<a, b>>))
             A == Compile(a, S)
             B == Compile(b, S)
  <2>3. automata' = <<A, B>> /\ toVisit' = {<<EpsilonClosure(A, {0}), EpsilonClosure(B, {0})>>}
    BY <1>2, <2>2 DEF BeginComparison
  <2>4. Closed(A) /\ Closed(B)
    BY <2>2, CompiledClosed
  <2> HIDE DEF S, A, B
  <2>5. Len(automata') = 2 /\ automata'[1] = A /\ automata'[2] = B
    BY <2>3
  <2>6. /\ EpsilonClosure(A, {0}) # {} /\ EpsilonClosure(A, {0}) \subseteq 0 .. A.accept
        /\ EpsilonClosure(B, {0}) # {} /\ EpsilonClosure(B, {0}) \subseteq 0 .. B.accept
    BY <2>4, StartStates
  <2>7. ASSUME NEW p \in (toVisit \cup visited)' PROVE Reached(p)'
    <3>1. p[1] = EpsilonClosure(A, {0}) /\ p[2] = EpsilonClosure(B, {0})
      BY <2>1, <2>3
    <3> QED
      BY <2>5, <2>6, <3>1 DEF Reached
  <2>8. Closed(automata[1])' /\ Closed(automata[2])'
    BY <2>4, <2>5
  <2> QED
    BY <2>2, <2>5, <2>7, <2>8 DEF WalkInv
<1>3. CASE SearchStep
  <2>1. PICK pair \in toVisit :
          /\ visited' \subseteq visited \cup {pair} /\ toVisit' \subseteq toVisit \cup Successors(pair)
    BY <1>3 DEF SearchStep
  <2>2. now' = now /\ automata' = automata
    BY <1>3 DEF SearchStep
  <2>3. now # <<>> /\ Len(automata) = 2 /\ Closed(automata[1]) /\ Closed(automata[2])
    BY <2>1 DEF WalkInv
  <2>4. ASSUME NEW p \in (toVisit \cup visited)' PROVE Reached(p)
    <3>1. CASE p \in toVisit \cup visited
      BY <2>3, <3>1 DEF WalkInv
    <3>2. CASE p \in Successors(pair)
      BY <2>3, <3>2, SuccessorsReached
    <3> QED
      BY <2>1, <3>1, <3>2
  <2>5. ASSUME NEW p \in (toVisit \cup visited)' PROVE Reached(p)'
    BY <2>2, <2>4 DEF Reached
  <2> QED
    BY <2>2, <2>3, <2>5 DEF WalkInv
<1>4. CASE EndComparison
  BY <1>4 DEF EndComparison, WalkInv
<1> QED
  BY <1>1, <1>2, <1>3, <1>4 DEF RouteNext, ParseRoutes, CheckDefaults, Accept, ScanTree, routeVars

\* A file is placed by a route of the configuration, or by none.
LEMMA PlacedAmong ==
  ASSUME RouteShape, ScanInv, NEW i \in Range(scan.placed) PROVE i \in 0 .. Len(Active)
<1>1. config \in DOMAIN RouteConfigs
  BY DEF RouteShape
<1>2. PICK N \in Nat : DOMAIN Active = 1 .. N /\ Len(Active) = N
  BY <1>1, ActiveGood, SequenceHas
<1>3. CASE scan = NoScan
  <2>1. DOMAIN <<>> = {}
    OBVIOUS
  <2> QED
    BY <1>3, <2>1 DEF NoScan, Range
<1>4. CASE scan # NoScan
  <2>1. PICK files \in RouteTrees, profile \in Profiles : scan = Scanned(files, profile)
    BY <1>4 DEF ScanInv
  <2>2. \E f, w : i = PickRoute(profile, f, w)
    BY <2>1 DEF Scanned, Range
  <2>3. PICK f, w : i = PickRoute(profile, f, w)
    BY <2>2
  <2> DEFINE Q == Fitting(profile, f, w)
  <2>4. i = IF Q = {} THEN 0 ELSE FirstOf(Q)
    BY <2>3, PickedIs
  <2>5. Q \subseteq DOMAIN Active
    BY DEF Fitting
  <2> HIDE DEF Q
  <2>6. i = 0 \/ i \in DOMAIN Active
    BY <1>1, <2>4, <2>5, FirstExists
  <2> QED
    BY <1>2, <2>6
<1> QED
  BY <1>3, <1>4

\* RouteTypeOK: a search only meets states of the two automata of its comparison,
\* of which nothing is left when it is over (_product_nfa_overlap), and a file
\* is placed by a route of the configuration or by none (_select_route).
THEOREM RouteTypes == RouteSpec => []RouteTypeOK
<1>1. RouteInit => RouteInv /\ WalkInv
  BY RouteInitSound DEF RouteInit, WalkInv
<1>2. RouteInv /\ WalkInv /\ [RouteNext]_routeVars => (RouteInv /\ WalkInv)'
  BY ShapeStep, SearchInvStep, ClearedStep, ScanStep, WalkStep DEF RouteInv
<1>3. ASSUME RouteInv, WalkInv PROVE RouteTypeOK
  <2>1. RouteShape /\ ScanInv
    BY <1>3 DEF RouteInv
  <2>2. \A i \in Range(scan.placed) : i \in 0 .. Len(Active)
    BY <2>1, PlacedAmong
  <2>3. \A p \in toVisit \cup visited : Reached(p)
    BY <1>3 DEF WalkInv
  <2>4. IF now = <<>> THEN automata = <<>> ELSE now \in todo /\ Len(automata) = 2
    BY <1>3, <2>1 DEF WalkInv, RouteShape
  <2> QED
    BY <2>1, <2>2, <2>3, <2>4 DEF RouteShape, Reached, RouteTypeOK
<1> QED
  BY <1>1, <1>2, <1>3, PTL DEF RouteSpec
-----------------------------------------------------------------------------
(* What is landed, and under which target                                    *)

Plain(b) == [base |-> b, slot |-> 0, by |-> [source |-> 0, member |-> Whole]]

LandTypes ==
  /\ sources \in Packages /\ at \in 1 .. Len(sources) + 1
  /\ copyFaults \in 0 .. LandFaults
  /\ classStep \in {"route", "land", "publish", "published", "refused", "raised"}
  /\ classStep \in {"route", "land"} => at <= Len(sources)
  /\ landing # <<>> <=> classStep = "land"
  /\ IsSequence(landing) /\ IsSequence(landed) /\ IsSequence(ignored)
  /\ IsSequence(conflicts) /\ IsSequence(failures)
  /\ \A i \in 1 .. Len(landing) : landing[i].source = at
  /\ \A i, j \in 1 .. Len(landing) : i # j => landing[i].member # landing[j].member
  /\ \A r \in Range(landed) \cup Range(ignored) \cup Range(failures) : r.source \in 1 .. Len(sources)

\* What is named here is neither at hand nor to come.
SetApart(e) ==
  /\ e.source \in 1 .. Len(sources) /\ e.source <= at
  /\ e.source = at => \A j \in 1 .. Len(landing) : landing[j].member # e.member
  /\ classStep = "route" => e.source < at

\* A used name is that of a file or of a directory; the file of a name with a
\* digest is of something that is not to come again.
SlotInv ==
  /\ IsFiniteSet(used) /\ IsFiniteSet(DOMAIN disk)
  /\ used \subseteq DOMAIN disk \cup {Plain(d) : d \in folders}
  /\ \A t \in DOMAIN disk : IF t.slot = 0 THEN t = Plain(t.base) ELSE SetApart(t.by)

\* The catalog: every entry has a target and an identity of its own, which what
\* is still to land does not ask for.
CatalogInv ==
  /\ \A i \in 1 .. Len(landed) : landed[i].target \in DOMAIN disk
  /\ \A i, j \in 1 .. Len(landed) : i # j => /\ landed[i].target # landed[j].target
                                             /\ landed[i].source # landed[j].source \/ landed[i].member # landed[j].member
  /\ \A i \in 1 .. Len(landed) :
       /\ landed[i].source <= at
       /\ landed[i].source = at => \A j \in 1 .. Len(landing) : landing[j].member # landed[i].member
  /\ classStep = "route" => \A i \in 1 .. Len(landed) : landed[i].source < at
  /\ \A c \in Range(conflicts) : \E e \in Range(landed) :
       c.source = e.source /\ c.member = e.member /\ c.target = e.target /\ c.target.slot # 0
         /\ c.target.slot \notin RefusedSlots
  /\ copyFaults = LandFaults /\ classStep # "raised" => \A t \in DOMAIN disk : \E i \in 1 .. Len(landed) : landed[i].target = t

ClassInv == LandTypes /\ SlotInv /\ CatalogInv /\ LocalFailuresPublish

\* Appending to a sequence.
LEMMA Appending ==
  ASSUME NEW s, IsSequence(s), NEW x
  PROVE  /\ IsSequence(Append(s, x)) /\ Range(Append(s, x)) = Range(s) \cup {x}
         /\ Len(Append(s, x)) = Len(s) + 1
         /\ Append(s, x)[Len(s) + 1] = x /\ \A i \in 1 .. Len(s) : Append(s, x)[i] = s[i]
<1> DEFINE Y == Range(s) \cup {x}
<1>1. s \in Seq(Y)
  BY SequenceHas DEF IsSequence
<1>2. x \in Y
  OBVIOUS
<1> HIDE DEF Y
<1>3. PICK v \in Seq(Y), y \in Y : v = s /\ y = x
  BY <1>1, <1>2
<1>4. /\ Append(v, y) \in Seq(Y) /\ Len(Append(v, y)) = Len(v) + 1
      /\ Append(v, y)[Len(v) + 1] = y /\ \A i \in 1 .. Len(v) : Append(v, y)[i] = v[i]
  OBVIOUS
<1>5. PICK a \in Seq(Y) : a = Append(v, y) /\ Len(a) = Len(v) + 1 /\ a[Len(v) + 1] = y /\ \A i \in 1 .. Len(v) : a[i] = v[i]
  BY <1>4
<1>6. DOMAIN v = 1 .. Len(v) /\ DOMAIN a = 1 .. Len(v) + 1 /\ Len(v) \in Nat
  BY <1>5
<1>7. Range(a) = Range(v) \cup {y}
  <2>1. \A i \in 1 .. Len(v) + 1 : i \in 1 .. Len(v) \/ i = Len(v) + 1
    BY <1>6
  <2>2. Len(v) + 1 \in 1 .. Len(v) + 1 /\ \A i \in 1 .. Len(v) : i \in 1 .. Len(v) + 1
    BY <1>6
  <2> QED
    BY <1>5, <1>6, <2>1, <2>2 DEF Range
<1>8. IsSequence(a)
  BY SequencesAre
<1> QED
  BY <1>3, <1>5, <1>7, <1>8

\* A sequence followed by one of as many elements as another.
LEMMA Extending ==
  ASSUME NEW s, IsSequence(s), NEW t, IsSequence(t)
  PROVE  IsSequence(s \o t) /\ Range(s \o t) = Range(s) \cup Range(t)
<1> DEFINE Y == Range(s) \cup Range(t)
<1>1. s \in Seq(Y) /\ t \in Seq(Y)
  BY SequenceHas DEF IsSequence
<1> HIDE DEF Y
<1>2. PICK v \in Seq(Y), w \in Seq(Y) : v = s /\ w = t
  BY <1>1
<1>3. PICK a \in Seq(Y) : a = v \o w /\ Len(a) = Len(v) + Len(w)
  <2>1. v \o w \in Seq(Y) /\ Len(v \o w) = Len(v) + Len(w)
    OBVIOUS
  <2> QED
    BY <2>1
<1>4. (\A i \in 1 .. Len(v) : a[i] = v[i]) /\ \A i \in 1 .. Len(w) : a[Len(v) + i] = w[i]
  <2>1. /\ \A i \in 1 .. Len(v) : (v \o w)[i] = v[i]
        /\ \A i \in 1 .. Len(w) : (v \o w)[Len(v) + i] = w[i]
    BY Concatenated
  <2> QED
    BY <1>3, <2>1
<1>5. PICK m \in Nat, n \in Nat : m = Len(v) /\ n = Len(w) /\ DOMAIN v = 1 .. m /\ DOMAIN w = 1 .. n /\ DOMAIN a = 1 .. m + n
  BY <1>3
<1>6. Range(a) \subseteq Range(v) \cup Range(w)
  <2> SUFFICES ASSUME NEW i \in 1 .. m + n PROVE a[i] \in Range(v) \cup Range(w)
    BY <1>5 DEF Range
  <2>1. CASE i <= m
    BY <1>4, <1>5, <2>1 DEF Range
  <2>2. CASE i > m
    <3>1. i - m \in 1 .. n /\ m + (i - m) = i
      BY <2>2
    <3>2. a[i] = w[i - m]
      BY <1>4, <1>5, <3>1
    <3> QED
      BY <1>5, <3>1, <3>2 DEF Range
  <2> QED
    BY <2>1, <2>2
<1>7. Range(v) \subseteq Range(a)
  <2> SUFFICES ASSUME NEW i \in 1 .. m PROVE v[i] \in Range(a)
    BY <1>5 DEF Range
  <2>1. i \in 1 .. m + n /\ a[i] = v[i]
    BY <1>4, <1>5
  <2> QED
    BY <1>5, <2>1 DEF Range
<1>8. Range(w) \subseteq Range(a)
  <2> SUFFICES ASSUME NEW i \in 1 .. n PROVE w[i] \in Range(a)
    BY <1>5 DEF Range
  <2>1. m + i \in 1 .. m + n /\ a[m + i] = w[i]
    BY <1>4, <1>5
  <2> QED
    BY <1>5, <2>1 DEF Range
<1>9. IsSequence(a)
  BY SequencesAre
<1> QED
  BY <1>2, <1>3, <1>6, <1>7, <1>8, <1>9

\* The file at hand is the first of those still to land.
LEMMA FirstItem ==
  ASSUME LandTypes, classStep = "land"
  PROVE  Head(landing) = landing[1] /\ landing[1].source = at /\ Len(landing) \in Nat /\ 1 \in 1 .. Len(landing)
<1>1. PICK s \in Seq(Range(landing)) : s = landing /\ s # <<>>
  BY DEF LandTypes, IsSequence
<1>2. Len(s) \in Nat /\ Len(s) >= 1 /\ Head(s) = s[1]
  BY <1>1
<1> QED
  BY <1>1, <1>2 DEF LandTypes

\* The names of a file to land.
LEMMA NamesAre ==
  ASSUME NEW item, NEW n \in Nat
  PROVE  /\ Name(item, n).base = item.base /\ Name(item, n).slot = n
         /\ n = 0 => Name(item, n) = Plain(item.base)
         /\ n # 0 => Name(item, n).by = [source |-> item.source, member |-> item.member]
  BY DEF Name, Plain

\* The names a target has are finitely many, and the next number is theirs.
LEMMA Numbered ==
  ASSUME SlotInv, NEW item
  PROVE  \E n \in Nat : /\ n = Cardinality(SlotsOf(item)) /\ IsFiniteSet(SlotsOf(item))
                        /\ ResolveTarget(item) = Name(item, n) /\ ResolveTarget(item).slot = n
                        /\ n = 0 => SlotsOf(item) = {}
<1>1. SlotsOf(item) \subseteq (used \cup DOMAIN disk) \cup {Name(item, 0)}
  BY DEF SlotsOf
<1>2. IsFiniteSet((used \cup DOMAIN disk) \cup {Name(item, 0)})
  BY FS_Union, FS_Singleton DEF SlotInv
<1>3. IsFiniteSet(SlotsOf(item))
  BY <1>1, <1>2, FS_Subset
<1>4. PICK n \in Nat : n = Cardinality(SlotsOf(item))
  BY <1>3, FS_CardinalityType
<1>5. n = 0 => SlotsOf(item) = {}
  BY <1>3, <1>4, FS_EmptySet
<1>6. ResolveTarget(item) = Name(item, n)
  BY <1>4 DEF ResolveTarget
<1>7. ResolveTarget(item).slot = n
  <2>1. Name(item, n).slot = n
    BY <1>4, NamesAre
  <2> QED
    BY <1>6, <2>1
<1> QED
  BY <1>3, <1>4, <1>5, <1>6, <1>7

\* The target a file gets is one that no file has, and of none that is used.
LEMMA Resolved ==
  ASSUME LandTypes, SlotInv, classStep = "land", NEW item, item = landing[1]
  PROVE  ResolveTarget(item) \notin DOMAIN disk
<1>1. PICK n \in Nat :
        /\ ResolveTarget(item) = Name(item, n)
        /\ n = 0 => SlotsOf(item) = {}
  BY Numbered
<1>2. CASE n = 0
  <2>1. ResolveTarget(item) = Name(item, 0) /\ SlotsOf(item) = {}
    BY <1>1, <1>2
  <2> QED
    BY <2>1 DEF SlotsOf
<1>3. CASE n # 0
  <2> SUFFICES ASSUME Name(item, n) \in DOMAIN disk PROVE FALSE
    BY <1>1
  <2>1. Name(item, n).slot = n /\ Name(item, n).by = [source |-> item.source, member |-> item.member]
    BY <1>1, <1>3, NamesAre
  <2>2. PICK e : e = [source |-> item.source, member |-> item.member]
    OBVIOUS
  <2>3. SetApart(e)
    BY <1>3, <2>1, <2>2 DEF SlotInv
  <2>4. e.source = at /\ e.member = landing[1].member
    BY <2>2, FirstItem
  <2>5. 1 \in 1 .. Len(landing)
    BY FirstItem
  <2> QED
    BY <2>3, <2>4, <2>5 DEF SetApart
<1> QED
  BY <1>2, <1>3

\* The source of which an action speaks is one of the package.
LEMMA PackageIs == ASSUME LandTypes PROVE IsSequence(sources) /\ Len(sources) \in Nat /\ at \in Nat
<1>1. IsSequence(sources)
  BY HandlingAssumption DEF LandTypes, IsSequence
<1> QED
  BY <1>1, SequenceHas DEF LandTypes

\* After a file has been landed, or failed, the ones behind it are left.
Behind == /\ IsSequence(landing') /\ Len(landing') = Len(landing) - 1
          /\ \A i \in 1 .. Len(landing') : landing'[i] = landing[i + 1]
LEMMA NextLeaves ==
  ASSUME LandTypes, classStep = "land", NextItem
  PROVE  /\ Len(landing) \in Nat /\ Len(landing) >= 1 /\ Head(landing) = landing[1] /\ Behind
         /\ \/ landing' = <<>> /\ at' = at + 1 /\ classStep' = IF at = Len(sources) THEN "publish" ELSE "route"
            \/ landing' # <<>> /\ at' = at /\ classStep' = "land"
<1>1. PICK s \in Seq(Range(landing)) : s = landing /\ s # <<>>
  BY DEF LandTypes, IsSequence
<1>2. Len(s) \in Nat /\ Len(s) >= 1 /\ Head(s) = s[1]
  BY <1>1
<1>3. Tail(s) \in Seq(Range(landing)) /\ Len(Tail(s)) = Len(s) - 1 /\ \A i \in 1 .. Len(Tail(s)) : Tail(s)[i] = s[i + 1]
  BY <1>1
<1>4. landing' = Tail(s)
  BY <1>1 DEF NextItem
<1>5. IsSequence(landing')
  BY <1>3, <1>4, SequencesAre
<1>6. \/ landing' = <<>> /\ at' = at + 1 /\ classStep' = IF at = Len(sources) THEN "publish" ELSE "route"
      \/ landing' # <<>> /\ at' = at /\ classStep' = "land"
  BY DEF NextItem, Advance, LandTypes
<1> QED
  BY <1>1, <1>2, <1>3, <1>4, <1>5, <1>6 DEF Behind

\* What is behind the first item of a source keeps its shape.
LEMMA BehindKept ==
  ASSUME LandTypes, classStep = "land", NextItem, sources' = sources
  PROVE  /\ at' \in 1 .. Len(sources) + 1 /\ classStep' \in {"route", "land", "publish"}
         /\ classStep' \in {"route", "land"} => at' <= Len(sources)
         /\ landing' # <<>> <=> classStep' = "land"
         /\ IsSequence(landing')
         /\ \A i \in 1 .. Len(landing') : landing'[i].source = at'
         /\ \A i, j \in 1 .. Len(landing') : i # j => landing'[i].member # landing'[j].member
         /\ \A j \in 1 .. Len(landing') : landing'[j].member # landing[1].member
<1>1. PICK n \in Nat : n = Len(landing) /\ n >= 1 /\ Behind
  BY NextLeaves
<1>2. Len(landing') = n - 1 /\ \A i \in 1 .. n - 1 : landing'[i] = landing[i + 1]
  BY <1>1 DEF Behind
<1>3. Len(sources) \in Nat /\ at \in 1 .. Len(sources)
  BY PackageIs DEF LandTypes
<1>4. ASSUME NEW i \in 1 .. n - 1
      PROVE  landing'[i].source = at /\ landing'[i] = landing[i + 1] /\ i + 1 \in 1 .. n /\ i + 1 # 1 /\ 1 \in 1 .. n
  BY <1>1, <1>2 DEF LandTypes
<1>5. \A i, j \in 1 .. n - 1 : i # j => landing'[i].member # landing'[j].member
  <2> TAKE i, j \in 1 .. n - 1
  <2> HAVE i # j
  <2>1. i + 1 # j + 1 /\ i + 1 \in 1 .. n /\ j + 1 \in 1 .. n
    OBVIOUS
  <2> QED
    BY <1>1, <1>4, <2>1 DEF LandTypes
<1>6. \A j \in 1 .. n - 1 : landing'[j].member # landing[1].member
  BY <1>1, <1>4 DEF LandTypes
<1>7. CASE landing' # <<>> /\ at' = at /\ classStep' = "land"
  BY <1>1, <1>2, <1>3, <1>4, <1>5, <1>6, <1>7 DEF Behind
<1>8. CASE landing' = <<>> /\ at' = at + 1 /\ classStep' = IF at = Len(sources) THEN "publish" ELSE "route"
  <2>1. Len(landing') = 0
    BY <1>8
  <2>2. IsSequence(landing')
    BY <1>1 DEF Behind
  <2>3. \A i \in 1 .. Len(landing') : FALSE
    BY <2>1
  <2>4. at' = at + 1 /\ classStep' = IF at = Len(sources) THEN "publish" ELSE "route"
    BY <1>8
  <2>5. at' \in 1 .. Len(sources) + 1 /\ classStep' \in {"route", "publish"} /\ (classStep' = "route" => at' <= Len(sources))
    BY <1>3, <2>4
  <2>6. landing' # <<>> <=> classStep' = "land"
    BY <1>8, <2>5
  <2> QED
    BY <2>2, <2>3, <2>5, <2>6
<1> QED
  BY <1>7, <1>8, NextLeaves

\* The records after one was added.
LEMMA RecordAdded ==
  ASSUME NEW list, IsSequence(list), NEW N, \A r \in Range(list) : r.source \in N, NEW x, x.source \in N
  PROVE  IsSequence(Append(list, x)) /\ \A r \in Range(Append(list, x)) : r.source \in N
  BY Appending

\* The records after several were added.
LEMMA RecordsAdded ==
  ASSUME NEW list, IsSequence(list), NEW N, \A r \in Range(list) : r.source \in N,
         NEW n \in Nat, NEW add, add = [i \in 1 .. n |-> add[i]], \A i \in 1 .. n : add[i].source \in N
  PROVE  IsSequence(list \o add) /\ \A r \in Range(list \o add) : r.source \in N
<1>1. IsSequence(add) /\ \A r \in Range(add) : r.source \in N
  <2> DEFINE X == {add[i] : i \in 1 .. n}
  <2>1. DOMAIN add = 1 .. n
    OBVIOUS
  <2>2. add \in [1 .. n -> X]
    OBVIOUS
  <2>3. \A x \in X : x.source \in N
    OBVIOUS
  <2>4. add \in Seq(X)
    <3> HIDE DEF X
    <3> QED
      BY <2>2
  <2> HIDE DEF X
  <2>5. IsSequence(add) /\ Range(add) \subseteq X
    BY <2>4, SequencesAre
  <2> QED
    BY <2>3, <2>5
<1> QED
  BY <1>1, Extending

\* The two outcomes of landing a file, and of naming it.
Refusal == /\ \E x : failures' = Append(failures, x) /\ x.source = at
           /\ UNCHANGED <<landed, conflicts>>
Item1   == landing[1]
Entry == [source |-> Item1.source, member |-> Item1.member, target |-> ResolveTarget(Item1), content |-> Item1.content]
Conflict == [source |-> Item1.source, member |-> Item1.member, target |-> ResolveTarget(Item1)]
NamedCopy ==
  /\ folders' = folders \cup Above(Item1.base)
  /\ disk' = Written(ResolveTarget(Item1), Item1.content)
  /\ used' = used \cup {ResolveTarget(Item1)} \cup SlotsOf(Item1)
Success ==
  /\ NamedCopy /\ ResolveTarget(Item1).slot \notin RefusedSlots
  /\ landed' = Append(landed, Entry)
  /\ conflicts' = IF ResolveTarget(Item1).slot = 0 THEN conflicts ELSE Append(conflicts, Conflict)
  /\ failures' = failures

\* A refused file is recorded under the source at hand.
LEMMA FailedIs == ASSUME LandTypes, classStep = "land", Failed(Head(landing)) PROVE \E x : failures' = Append(failures, x) /\ x.source = at
<1> DEFINE x == [source |-> Head(landing).source, member |-> Head(landing).member, code |-> "unsafe_path"]
<1>1. x.source = at
  BY FirstItem
<1>2. failures' = Append(failures, x)
  BY DEF Failed
<1> QED
  BY <1>1, <1>2

\* A file is landed.
LEMMA LandOneIs ==
  ASSUME LandTypes, LandOne
  PROVE  /\ classStep = "land" /\ NextItem /\ sources' = sources /\ ignored' = ignored /\ copyFaults' = copyFaults
         /\ Success
<1>1. classStep = "land" /\ NextItem /\ sources' = sources /\ ignored' = ignored /\ copyFaults' = copyFaults
  BY DEF LandOne, Lands
<1>2. Head(landing) = Item1
  BY <1>1, FirstItem DEF Item1
<1>3. Success
  BY <1>2 DEF LandOne, Success, NamedCopy, Made, Entry, Conflict
<1> QED
  BY <1>1, <1>3

\* What a file that is not landed leaves behind: at most a name that counts as used.
NotLanded ==
  /\ classStep = "land" /\ NextItem /\ sources' = sources /\ ignored' = ignored /\ Refusal
  /\ folders \subseteq folders' /\ used' = used \cup SlotsOf(Item1)

\* A file that cannot be landed is refused.
LEMMA LandRefusedIs ==
  ASSUME LandTypes, LandRefused
  PROVE  NotLanded /\ disk' = disk /\ copyFaults' = copyFaults
<1>1. /\ classStep = "land" /\ NextItem /\ sources' = sources /\ ignored' = ignored /\ copyFaults' = copyFaults
      /\ disk' = disk /\ UNCHANGED <<landed, conflicts>> /\ Failed(Head(landing)) /\ folders \subseteq folders'
      /\ used' = used \cup SlotsOf(Head(landing))
  BY DEF LandRefused, Made
<1>2. Head(landing) = Item1
  BY <1>1, FirstItem DEF Item1
<1>3. Refusal
  BY <1>1, FailedIs DEF Refusal
<1> QED
  BY <1>1, <1>2, <1>3 DEF NotLanded

\* A copy that fails leaves the catalog as it was, and at most part of a file.
LEMMA LandFailsIs ==
  ASSUME LandTypes, LandFails
  PROVE  /\ NotLanded /\ copyFaults > 0 /\ copyFaults' = copyFaults - 1
         /\ disk' = disk \/ \E c : disk' = Written(ResolveTarget(Item1), c)
<1>1. /\ classStep = "land" /\ NextItem /\ sources' = sources /\ ignored' = ignored
      /\ copyFaults > 0 /\ copyFaults' = copyFaults - 1 /\ UNCHANGED <<landed, conflicts>> /\ Failed(Head(landing))
      /\ used' = used \cup SlotsOf(Head(landing))
  BY DEF LandFails, Lands
<1>2. Head(landing) = Item1
  BY <1>1, FirstItem DEF Item1
<1>3. folders \subseteq folders'
  BY DEF LandFails, Made
<1>4. disk' = disk \/ \E c : disk' = Written(ResolveTarget(Item1), c)
  BY <1>2 DEF LandFails
<1>5. Refusal
  BY <1>1, FailedIs DEF Refusal
<1> QED
  BY <1>1, <1>2, <1>3, <1>4, <1>5 DEF NotLanded

\* A refused record leaves its file and ends the run.
LEMMA ConflictRefusedIs ==
  ASSUME LandTypes, ConflictRefused
  PROVE  /\ classStep = "land" /\ NamedCopy /\ ResolveTarget(Item1).slot \in RefusedSlots
         /\ landing' = <<>> /\ classStep' = "raised"
         /\ UNCHANGED <<sources, at, landed, ignored, conflicts, failures, copyFaults>>
<1>1. classStep = "land"
  BY DEF ConflictRefused, Lands
<1>2. Head(landing) = Item1
  BY <1>1, FirstItem DEF Item1
<1> QED
  BY <1>1, <1>2 DEF ConflictRefused, NamedCopy, Made

\* The invariant holds before the first source.
LEMMA ClassInitSound == ClassInit => ClassInv
<1> SUFFICES ASSUME ClassInit PROVE ClassInv
  OBVIOUS
<1>1. sources \in Packages /\ IsSequence(sources)
  BY HandlingAssumption DEF ClassInit, IsSequence
<1>2. Len(sources) \in Nat /\ (sources # <<>> => Len(sources) >= 1)
  <2>1. PICK s \in Seq(Range(sources)) : s = sources
    BY <1>1 DEF IsSequence
  <2>2. Len(s) \in Nat /\ (s # <<>> => Len(s) >= 1)
    OBVIOUS
  <2> QED
    BY <2>1, <2>2
<1>3. IsSequence(<<>>) /\ Range(<<>>) = {} /\ Len(<<>>) = 0 /\ DOMAIN <<>> = {}
  <2>1. <<>> \in Seq({})
    OBVIOUS
  <2>2. DOMAIN <<>> = {} /\ Len(<<>>) = 0
    OBVIOUS
  <2> QED
    BY <2>1, <2>2, SequencesAre DEF Range
<1>4. /\ at = 1 /\ landing = <<>> /\ disk = <<>> /\ used = {} /\ landed = <<>> /\ ignored = <<>> /\ conflicts = <<>>
      /\ failures = <<>> /\ copyFaults = LandFaults /\ classStep = IF sources = <<>> THEN "publish" ELSE "route"
  BY DEF ClassInit
<1>5. LandTypes
  BY <1>1, <1>2, <1>3, <1>4, HandlingAssumption DEF LandTypes
<1>6. SlotInv
  <2>1. DOMAIN disk = {} /\ IsFiniteSet({})
    BY <1>3, <1>4, FS_EmptySet
  <2> QED
    BY <1>4, <2>1 DEF SlotInv
<1>7. CatalogInv
  BY <1>3, <1>4 DEF CatalogInv
<1>8. LocalFailuresPublish
  BY <1>4 DEF LocalFailuresPublish
<1> QED
  BY <1>5, <1>6, <1>7, <1>8 DEF ClassInv

\* What an expansion hands over.
LEMMA HandedOver ==
  ASSUME LandTypes, classStep = "route", ExpandSource
  PROVE  LET h == Handling[sources[at]]
         IN /\ Len(h.landing) \in Nat /\ Len(h.errors) \in Nat /\ Len(h.skipped) \in Nat
            /\ landing' = [i \in 1 .. Len(h.landing) |-> Item(at, h.landing[i])]
            /\ \A i, j \in 1 .. Len(h.landing) : i # j => h.landing[i].member # h.landing[j].member
            /\ h.landing = <<>> <=> Len(h.landing) = 0
<1> DEFINE h == Handling[sources[at]]
<1>1. IsHandled(sources[at]) /\ landing' = [i \in 1 .. Len(h.landing) |-> Item(at, h.landing[i])]
  BY DEF ExpandSource
<1>2. sources[at] \in Range(sources) /\ sources \in Packages
  BY PackageIs, SequenceHas DEF LandTypes
<1>3. /\ IsSequence(h.landing) /\ IsSequence(h.errors) /\ IsSequence(h.skipped)
      /\ \A i, j \in DOMAIN h.landing : i # j => h.landing[i].member # h.landing[j].member
  BY <1>1, <1>2, HandlingAssumption DEF IsSequence
<1> HIDE DEF h
<1>4. Len(h.landing) \in Nat /\ Len(h.errors) \in Nat /\ Len(h.skipped) \in Nat /\ DOMAIN h.landing = 1 .. Len(h.landing)
  BY <1>3, SequenceHas
<1>5. h.landing = <<>> <=> Len(h.landing) = 0
  <2>1. PICK s \in Seq(Range(h.landing)) : s = h.landing
    BY <1>3 DEF IsSequence
  <2>2. s = <<>> <=> Len(s) = 0
    OBVIOUS
  <2> QED
    BY <2>1, <2>2
<1>6. landing' = [i \in 1 .. Len(h.landing) |-> Item(at, h.landing[i])]
  BY <1>1 DEF h
<1> QED
  BY <1>3, <1>4, <1>5, <1>6 DEF h

\* The source at hand is one of the package.
LEMMA AtHand == ASSUME LandTypes, classStep \in {"route", "land"} PROVE at \in 1 .. Len(sources) /\ Len(sources) \in Nat
  BY PackageIs DEF LandTypes

\* After a source comes the next, or the publication.
LEMMA AdvanceIs ==
  ASSUME LandTypes, classStep \in {"route", "land"}, Advance, sources' = sources
  PROVE  /\ at' = at + 1 /\ at' \in 1 .. Len(sources) + 1 /\ classStep' \in {"route", "publish"}
         /\ classStep' = "route" => at' <= Len(sources)
  BY AtHand DEF Advance

\* Every step keeps the types, and the files still to land apart.
LEMMA LandTypesStep == ClassInv /\ [ClassNext]_classVars => LandTypes'
<1> SUFFICES ASSUME ClassInv, [ClassNext]_classVars PROVE LandTypes'
  OBVIOUS
<1>0. LandTypes
  BY DEF ClassInv
<1> DEFINE N == 1 .. Len(sources)
<1>1. CASE IgnoreSource
  <2>1. /\ classStep = "route" /\ Advance /\ ignored' = Append(ignored, [source |-> at, member |-> Whole])
        /\ UNCHANGED <<sources, landing, landed, conflicts, failures, copyFaults>>
    BY <1>1 DEF IgnoreSource
  <2>2. IsSequence(ignored') /\ \A r \in Range(ignored') : r.source \in N
    <3>1. IsSequence(ignored) /\ \A r \in Range(ignored) : r.source \in N
      BY <1>0 DEF LandTypes
    <3>2. at \in N
      BY <1>0, <2>1, AtHand
    <3>3. PICK x : x = [source |-> at, member |-> Whole]
      OBVIOUS
    <3>4. x.source = at
      BY <3>3
    <3>5. x.source \in N
      BY <3>2, <3>4
    <3>6. ignored' = Append(ignored, x)
      BY <2>1, <3>3
    <3> HIDE DEF N
    <3> QED
      BY <3>1, <3>5, <3>6, RecordAdded
  <2>3. landing = <<>> /\ Len(landing) = 0
    BY <1>0, <2>1 DEF LandTypes
  <2>4. at' \in 1 .. Len(sources) + 1 /\ classStep' \in {"route", "publish"} /\ (classStep' = "route" => at' <= Len(sources))
    BY <1>0, <2>1, AdvanceIs
  <2> QED
    BY <1>0, <2>1, <2>2, <2>3, <2>4 DEF LandTypes
<1>2. CASE ExpandSource
  <2> DEFINE h == Handling[sources[at]]
  <2>1. classStep = "route"
    BY <1>2 DEF ExpandSource
  <2>2. /\ Len(h.landing) \in Nat /\ Len(h.errors) \in Nat /\ Len(h.skipped) \in Nat
        /\ landing' = [i \in 1 .. Len(h.landing) |-> Item(at, h.landing[i])]
        /\ \A i, j \in 1 .. Len(h.landing) : i # j => h.landing[i].member # h.landing[j].member
        /\ h.landing = <<>> <=> Len(h.landing) = 0
    BY <1>0, <1>2, <2>1, HandedOver
  <2>3. /\ failures' = failures \o [i \in 1 .. Len(h.errors) |->
                                      [source |-> at, member |-> h.errors[i].member, code |-> h.errors[i].code]]
        /\ ignored' = ignored \o [i \in 1 .. Len(h.skipped) |-> [source |-> at, member |-> h.skipped[i]]]
        /\ IF h.landing = <<>> THEN Advance ELSE classStep' = "land" /\ at' = at
        /\ UNCHANGED <<sources, disk, used, landed, conflicts, copyFaults>>
    BY <1>2 DEF ExpandSource
  <2> HIDE DEF h
  <2>4. at \in N
    BY <1>0, <2>1, AtHand
  <2>5. IsSequence(failures') /\ \A r \in Range(failures') : r.source \in N
    <3>1. IsSequence(failures) /\ \A r \in Range(failures) : r.source \in N
      BY <1>0 DEF LandTypes
    <3>2. PICK n \in Nat : n = Len(h.errors)
      BY <2>2
    <3>3. PICK a : a = [i \in 1 .. n |-> [source |-> at, member |-> h.errors[i].member, code |-> h.errors[i].code]]
      OBVIOUS
    <3>4. a = [i \in 1 .. n |-> a[i]] /\ \A i \in 1 .. n : a[i].source \in N
      BY <2>4, <3>3
    <3> HIDE DEF N
    <3>5. failures' = failures \o a
      BY <2>3, <3>2, <3>3
    <3> QED
      BY <3>1, <3>4, <3>5, RecordsAdded
  <2>6. IsSequence(ignored') /\ \A r \in Range(ignored') : r.source \in N
    <3>1. IsSequence(ignored) /\ \A r \in Range(ignored) : r.source \in N
      BY <1>0 DEF LandTypes
    <3>2. PICK n \in Nat : n = Len(h.skipped)
      BY <2>2
    <3>3. PICK a : a = [i \in 1 .. n |-> [source |-> at, member |-> h.skipped[i]]]
      OBVIOUS
    <3>4. a = [i \in 1 .. n |-> a[i]] /\ \A i \in 1 .. n : a[i].source \in N
      BY <2>4, <3>3
    <3> HIDE DEF N
    <3>5. ignored' = ignored \o a
      BY <2>3, <3>2, <3>3
    <3> QED
      BY <3>1, <3>4, <3>5, RecordsAdded
  <2>7. PICK n \in Nat : n = Len(h.landing)
    BY <2>2
  <2>8. landing' = [i \in 1 .. n |-> Item(at, h.landing[i])]
    BY <2>2, <2>7
  <2>9. \A i \in 1 .. n : landing'[i].source = at /\ landing'[i].member = h.landing[i].member
    BY <2>8 DEF Item
  <2>10. IsSequence(landing') /\ Len(landing') = n /\ (landing' # <<>> <=> n # 0)
    <3> DEFINE X == {Item(at, h.landing[i]) : i \in 1 .. n}
    <3>1. landing' \in [1 .. n -> X]
      BY <2>8
    <3> HIDE DEF X
    <3>2. landing' \in Seq(X) /\ Len(landing') = n
      BY <3>1
    <3>3. PICK s \in Seq(X) : s = landing' /\ Len(s) = n
      BY <3>2
    <3>4. s # <<>> <=> Len(s) # 0
      OBVIOUS
    <3> QED
      BY <3>3, <3>4, SequencesAre
  <2>11. \A i, j \in 1 .. n : i # j => landing'[i].member # landing'[j].member
    <3>1. \A i, j \in 1 .. n : i # j => h.landing[i].member # h.landing[j].member
      BY <2>2, <2>7
    <3>2. PICK m : \A i \in 1 .. n : landing'[i].member = m[i] /\ h.landing[i].member = m[i]
      <4> DEFINE g == [i \in 1 .. n |-> h.landing[i].member]
      <4>1. \A i \in 1 .. n : landing'[i].member = g[i] /\ h.landing[i].member = g[i]
        BY <2>9
      <4> QED
        BY <4>1
    <3> QED
      BY <3>1, <3>2
  <2>12. CASE n = 0
    <3>1. Advance
      BY <2>2, <2>3, <2>7, <2>12
    <3>2. at' \in 1 .. Len(sources) + 1 /\ classStep' \in {"route", "publish"} /\ (classStep' = "route" => at' <= Len(sources))
      BY <1>0, <2>1, <2>3, <3>1, AdvanceIs
    <3>3. \A i \in 1 .. Len(landing') : FALSE
      BY <2>10, <2>12
    <3> QED
      BY <1>0, <2>3, <2>5, <2>6, <2>10, <2>12, <3>2, <3>3 DEF LandTypes
  <2>13. CASE n # 0
    <3>1. classStep' = "land" /\ at' = at
      BY <2>2, <2>3, <2>7, <2>13
    <3>2. at \in 1 .. Len(sources) + 1 /\ at <= Len(sources)
      BY <1>0, <2>1 DEF LandTypes
    <3> QED
      BY <1>0, <2>3, <2>5, <2>6, <2>9, <2>10, <2>11, <2>13, <3>1, <3>2 DEF LandTypes
  <2> QED
    BY <2>12, <2>13
<1>3. ASSUME classStep = "land", NextItem, sources' = sources, ignored' = ignored, copyFaults' \in 0 .. LandFaults, Refusal
      PROVE  LandTypes'
  <2>1. PICK x : failures' = Append(failures, x) /\ x.source = at
    BY <1>3 DEF Refusal
  <2>2. IsSequence(failures') /\ \A r \in Range(failures') : r.source \in N
    <3>1. IsSequence(failures) /\ \A r \in Range(failures) : r.source \in N
      BY <1>0 DEF LandTypes
    <3>2. x.source \in N
      BY <1>0, <1>3, <2>1, AtHand
    <3> HIDE DEF N
    <3> QED
      BY <2>1, <3>1, <3>2, RecordAdded
  <2>3. landed' = landed /\ conflicts' = conflicts
    BY <1>3 DEF Refusal
  <2> QED
    BY <1>0, <1>3, <2>2, <2>3, BehindKept DEF LandTypes
<1>4. ASSUME classStep = "land", NextItem, sources' = sources, ignored' = ignored, copyFaults' = copyFaults, Success
      PROVE  LandTypes'
  <2>1. IsSequence(landed') /\ \A r \in Range(landed') : r.source \in N
    <3>1. IsSequence(landed) /\ \A r \in Range(landed) : r.source \in N
      BY <1>0 DEF LandTypes
    <3>2. Entry.source \in N
      BY <1>0, <1>4, FirstItem, AtHand DEF Entry, Item1
    <3>3. landed' = Append(landed, Entry)
      BY <1>4 DEF Success
    <3> HIDE DEF N
    <3> QED
      BY <3>1, <3>2, <3>3, RecordAdded
  <2>2. IsSequence(conflicts')
    BY <1>0, <1>4, Appending DEF Success, LandTypes
  <2>3. failures' = failures
    BY <1>4 DEF Success
  <2> QED
    BY <1>0, <1>4, <2>1, <2>2, <2>3, BehindKept DEF LandTypes
<1>5. CASE LandOne
  BY <1>0, <1>4, <1>5, LandOneIs
<1>9. CASE LandRefused
  BY <1>0, <1>3, <1>9, LandRefusedIs DEF NotLanded, LandTypes
<1>6. CASE LandFails
  <2>1. copyFaults' \in 0 .. LandFaults
    BY <1>0, <1>6, LandFailsIs, HandlingAssumption DEF LandTypes
  <2> QED
    BY <1>0, <1>3, <1>6, <2>1, LandFailsIs DEF NotLanded
<1>10. CASE ConflictRefused
  <2>1. /\ landing' = <<>> /\ classStep' = "raised"
        /\ UNCHANGED <<sources, at, landed, ignored, conflicts, failures, copyFaults>>
    BY <1>0, <1>10, ConflictRefusedIs
  <2>2. IsSequence(<<>>) /\ \A i \in 1 .. Len(<<>>) : FALSE
    <3>1. <<>> \in Seq({}) /\ Len(<<>>) = 0
      OBVIOUS
    <3>2. IsSequence(<<>>)
      BY <3>1, SequencesAre
    <3> QED
      BY <3>1, <3>2
  <2> QED
    BY <1>0, <2>1, <2>2 DEF LandTypes
<1>7. CASE Publish
  <2>1. classStep = "publish" /\ classStep' \in {"published", "refused"}
        /\ UNCHANGED <<sources, at, landing, landed, ignored, conflicts, failures, copyFaults>>
    BY <1>7 DEF Publish
  <2> QED
    BY <1>0, <2>1 DEF LandTypes
<1>8. CASE UNCHANGED classVars
  BY <1>0, <1>8 DEF LandTypes, classVars
<1> QED
  BY <1>1, <1>2, <1>5, <1>6, <1>7, <1>8, <1>9, <1>10 DEF ClassNext

\* What the catalog says of an entry that was there before the step.
Apart(i) == /\ landed[i].source <= at
            /\ landed[i].source = at => \A j \in 1 .. Len(landing) : landing[j].member # landed[i].member
            /\ classStep = "route" => landed[i].source < at

\* An entry set apart from what is behind the file at hand stays so.
LEMMA ApartKept ==
  ASSUME ClassInv, classStep = "land", NextItem, sources' = sources, NEW e,
         e.source \in 1 .. Len(sources), e.source <= at,
         e.source = at => \A j \in 1 .. Len(landing') : landing'[j].member # e.member
  PROVE  /\ e.source <= at'
         /\ e.source = at' => \A j \in 1 .. Len(landing') : landing'[j].member # e.member
         /\ classStep' = "route" => e.source < at'
<1>1. LandTypes
  BY DEF ClassInv
<1>2. at \in Nat /\ Len(sources) \in Nat /\ e.source \in Nat
  BY <1>1, PackageIs
<1>3. \/ at' = at + 1
      \/ at' = at /\ classStep' = "land"
  BY DEF NextItem, Advance
<1> QED
  BY <1>2, <1>3

\* Every entry is kept apart from what is behind the file at hand.
LEMMA BehindApart ==
  ASSUME ClassInv, classStep = "land", NextItem, sources' = sources, NEW i \in 1 .. Len(landed)
  PROVE  /\ landed[i].source <= at'
         /\ landed[i].source = at' => \A j \in 1 .. Len(landing') : landing'[j].member # landed[i].member
         /\ classStep' = "route" => landed[i].source < at'
<1>1. LandTypes /\ CatalogInv
  BY DEF ClassInv
<1>2. landed[i] \in Range(landed)
  BY <1>1, SequenceHas DEF LandTypes
<1>3. landed[i].source \in 1 .. Len(sources) /\ landed[i].source <= at
  BY <1>1, <1>2 DEF LandTypes, CatalogInv
<1>4. ASSUME landed[i].source = at, NEW j \in 1 .. Len(landing') PROVE landing'[j].member # landed[i].member
  <2>1. PICK n \in Nat : n = Len(landing) /\ n >= 1 /\ Behind
    BY <1>1, NextLeaves
  <2>2. j \in 1 .. n - 1 /\ landing'[j] = landing[j + 1]
    BY <1>4, <2>1 DEF Behind
  <2>3. j + 1 \in 1 .. Len(landing)
    BY <2>1, <2>2
  <2> QED
    BY <1>1, <1>4, <2>2, <2>3 DEF CatalogInv
<1>5. PICK e : e = landed[i]
  OBVIOUS
<1>6. e.source = at => \A j \in 1 .. Len(landing') : landing'[j].member # e.member
  BY <1>4, <1>5
<1>7. /\ e.source <= at'
      /\ e.source = at' => \A j \in 1 .. Len(landing') : landing'[j].member # e.member
      /\ classStep' = "route" => e.source < at'
  BY <1>3, <1>5, <1>6, ApartKept
<1> QED
  BY <1>5, <1>7

\* What was set apart stays so while the files of a source are landed.
LEMMA ApartStays ==
  ASSUME ClassInv, classStep = "land", NextItem, sources' = sources, NEW e, SetApart(e)
  PROVE  SetApart(e)'
<1>1. LandTypes
  BY DEF ClassInv
<1>2. e.source \in 1 .. Len(sources) /\ e.source <= at
  BY DEF SetApart
<1>3. ASSUME e.source = at, NEW j \in 1 .. Len(landing') PROVE landing'[j].member # e.member
  <2>1. PICK n \in Nat : n = Len(landing) /\ n >= 1 /\ Behind
    BY <1>1, NextLeaves
  <2>2. j \in 1 .. n - 1 /\ landing'[j] = landing[j + 1]
    BY <1>3, <2>1 DEF Behind
  <2>3. j + 1 \in 1 .. Len(landing)
    BY <2>1, <2>2
  <2> QED
    BY <1>3, <2>2, <2>3 DEF SetApart
<1>4. /\ e.source <= at'
      /\ e.source = at' => \A j \in 1 .. Len(landing') : landing'[j].member # e.member
      /\ classStep' = "route" => e.source < at'
  BY <1>2, <1>3, ApartKept
<1> QED
  BY <1>2, <1>4 DEF SetApart

\* The file at hand is set apart once the next one is.
LEMMA HeadApart ==
  ASSUME ClassInv, classStep = "land", NextItem, sources' = sources,
         NEW e, e.source = at, e.member = landing[1].member
  PROVE  SetApart(e)'
<1>1. LandTypes
  BY DEF ClassInv
<1>2. e.source \in 1 .. Len(sources) /\ e.source <= at
  BY <1>1, AtHand
<1>3. \A j \in 1 .. Len(landing') : landing'[j].member # e.member
  BY <1>1, BehindKept
<1>4. /\ e.source <= at'
      /\ e.source = at' => \A j \in 1 .. Len(landing') : landing'[j].member # e.member
      /\ classStep' = "route" => e.source < at'
  BY <1>2, <1>3, ApartKept
<1> QED
  BY <1>2, <1>4 DEF SetApart

\* A name that counts as used is that of a file or of a directory.
LEMMA SlotsAre ==
  ASSUME SlotInv, NEW item
  PROVE  /\ SlotsOf(item) \subseteq DOMAIN disk \cup {Plain(d) : d \in folders}
         /\ IsFiniteSet(SlotsOf(item))
<1>1. Name(item, 0) = Plain(item.base)
  BY NamesAre
<1>2. IsFiniteSet(SlotsOf(item))
  BY Numbered
<1> QED
  BY <1>1, <1>2 DEF SlotsOf, SlotInv

\* A whole or partial copy under the target it was given, once what is at hand
\* is set apart.
LEMMA NameTaken ==
  ASSUME ClassInv, classStep = "land", NEW U, used' = used \cup U \cup SlotsOf(Item1),
         U \subseteq {ResolveTarget(Item1)},
         \/ disk' = disk /\ U = {}
         \/ \E c : disk' = Written(ResolveTarget(Item1), c),
         folders \subseteq folders',
         \A e : SetApart(e) => SetApart(e)',
         \A e : e.source = at /\ e.member = landing[1].member => SetApart(e)'
  PROVE  SlotInv'
<1>1. LandTypes /\ SlotInv
  BY DEF ClassInv
<1>2. PICK t : t = ResolveTarget(Item1)
  OBVIOUS
<1>3. /\ DOMAIN disk \subseteq DOMAIN disk' /\ DOMAIN disk' \subseteq DOMAIN disk \cup {t}
      /\ U \subseteq DOMAIN disk' /\ U \subseteq {t}
  <2>1. ASSUME NEW c, disk' = Written(t, c) PROVE DOMAIN disk' = DOMAIN disk \cup {t}
    BY <2>1 DEF Written
  <2> QED
    BY <1>2, <2>1
<1>4. IsFiniteSet(used') /\ IsFiniteSet(DOMAIN disk')
  <2>1. IsFiniteSet(U) /\ IsFiniteSet({t}) /\ IsFiniteSet(SlotsOf(Item1))
    BY <1>1, <1>3, FS_Singleton, FS_Subset, SlotsAre
  <2>2. IsFiniteSet(used \cup U)
    BY <1>1, <2>1, FS_Union DEF SlotInv
  <2>3. IsFiniteSet((used \cup U) \cup SlotsOf(Item1))
    BY <2>1, <2>2, FS_Union
  <2>4. IsFiniteSet(DOMAIN disk \cup {t})
    BY <1>1, <2>1, FS_Union DEF SlotInv
  <2>5. IsFiniteSet(DOMAIN disk')
    BY <1>3, <2>4, FS_Subset
  <2> QED
    BY <2>3, <2>5
<1>5. used' \subseteq DOMAIN disk' \cup {Plain(d) : d \in folders'}
  <2>1. SlotsOf(Item1) \subseteq DOMAIN disk \cup {Plain(d) : d \in folders}
    BY <1>1, SlotsAre
  <2>2. used \subseteq DOMAIN disk \cup {Plain(d) : d \in folders}
    BY <1>1 DEF SlotInv
  <2>3. {Plain(d) : d \in folders} \subseteq {Plain(d) : d \in folders'}
    OBVIOUS
  <2> QED
    BY <1>3, <2>1, <2>2, <2>3
<1>6. ASSUME NEW u \in DOMAIN disk' PROVE IF u.slot = 0 THEN u = Plain(u.base) ELSE SetApart(u.by)'
  <2>1. CASE u \in DOMAIN disk
    BY <1>1, <2>1 DEF SlotInv
  <2>2. CASE u = t
    <3>1. PICK n \in Nat : t = Name(Item1, n)
      BY <1>1, <1>2, Numbered
    <3>6. n \in Nat
      BY <3>1
    <3>2. /\ t.base = Item1.base /\ t.slot = n
          /\ n = 0 => t = Plain(Item1.base)
          /\ n # 0 => t.by = [source |-> Item1.source, member |-> Item1.member]
      BY <3>1, <3>6, NamesAre
    <3>3. PICK e : e = [source |-> Item1.source, member |-> Item1.member]
      OBVIOUS
    <3>4. e.source = at /\ e.member = landing[1].member
      BY <1>1, <3>3, FirstItem DEF Item1
    <3>5. SetApart(e)'
      BY <3>4
    <3>7. n = 0 => u.slot = 0 /\ u = Plain(u.base)
      BY <2>2, <3>2
    <3>8. n # 0 => u.slot # 0 /\ u.by = e
      BY <2>2, <3>2, <3>3
    <3> QED
      BY <3>5, <3>7, <3>8 DEF SetApart
  <2> QED
    BY <1>3, <2>1, <2>2
<1> QED
  BY <1>4, <1>5, <1>6 DEF SlotInv

\* Every step keeps the names of the files apart.
LEMMA SlotStep == ClassInv /\ [ClassNext]_classVars => SlotInv'
<1> SUFFICES ASSUME ClassInv, [ClassNext]_classVars PROVE SlotInv'
  OBVIOUS
<1>0. LandTypes /\ SlotInv
  BY DEF ClassInv
<1>1. ASSUME UNCHANGED <<disk, folders, used>>, \A e : SetApart(e) => SetApart(e)' PROVE SlotInv'
  BY <1>0, <1>1 DEF SlotInv
<1>2. ASSUME classStep = "route", sources' = sources, at' = at \/ at' = at + 1, classStep' = "route" => at' = at + 1
      PROVE  \A e : SetApart(e) => SetApart(e)'
  <2> SUFFICES ASSUME NEW e, SetApart(e) PROVE SetApart(e)'
    OBVIOUS
  <2>1. e.source \in 1 .. Len(sources) /\ e.source < at
    BY <1>2 DEF SetApart
  <2>2. at \in Nat /\ Len(sources) \in Nat
    BY <1>0, PackageIs
  <2>3. e.source <= at' /\ e.source # at' /\ e.source < at'
    BY <1>2, <2>1, <2>2
  <2> QED
    BY <1>2, <2>1, <2>3 DEF SetApart
<1>3. CASE IgnoreSource
  BY <1>1, <1>2, <1>3 DEF IgnoreSource, Advance
<1>4. CASE ExpandSource
  <2>1. classStep = "route" /\ UNCHANGED <<sources, disk, folders, used>>
    BY <1>4 DEF ExpandSource
  <2>2. \/ at' = at + 1
        \/ at' = at /\ classStep' = "land"
    BY <1>4 DEF ExpandSource, Advance
  <2> QED
    BY <1>1, <1>2, <2>1, <2>2
<1>5. ASSUME classStep = "land", NextItem, sources' = sources
      PROVE  /\ \A e : SetApart(e) => SetApart(e)'
             /\ \A e : e.source = at /\ e.member = landing[1].member => SetApart(e)'
  BY <1>5, ApartStays, HeadApart
<1>6. CASE LandOne
  <2>1. classStep = "land" /\ NextItem /\ sources' = sources /\ NamedCopy
    BY <1>0, <1>6, LandOneIs DEF Success
  <2>2. folders \subseteq folders' /\ disk' = Written(ResolveTarget(Item1), Item1.content)
        /\ used' = used \cup {ResolveTarget(Item1)} \cup SlotsOf(Item1)
    BY <2>1 DEF NamedCopy
  <2>3. \E c : disk' = Written(ResolveTarget(Item1), c)
    BY <2>2
  <2> QED
    BY <1>5, <2>1, <2>2, <2>3, NameTaken
<1>7. CASE LandRefused
  <2>1. NotLanded /\ disk' = disk
    BY <1>0, <1>7, LandRefusedIs
  <2>2. used' = used \cup {} \cup SlotsOf(Item1)
    BY <2>1 DEF NotLanded
  <2>3. /\ \A e : SetApart(e) => SetApart(e)'
        /\ \A e : e.source = at /\ e.member = landing[1].member => SetApart(e)'
    BY <1>5, <2>1 DEF NotLanded
  <2>4. PICK U : U = {}
    OBVIOUS
  <2>5. /\ used' = used \cup U \cup SlotsOf(Item1) /\ U \subseteq {ResolveTarget(Item1)}
        /\ \/ disk' = disk /\ U = {}
           \/ \E c : disk' = Written(ResolveTarget(Item1), c)
    BY <2>1, <2>2, <2>4
  <2>6. classStep = "land" /\ folders \subseteq folders'
    BY <2>1 DEF NotLanded
  <2> QED
    BY <2>3, <2>5, <2>6, NameTaken
<1>8. CASE LandFails
  <2>1. NotLanded /\ (disk' = disk \/ \E c : disk' = Written(ResolveTarget(Item1), c))
    BY <1>0, <1>8, LandFailsIs
  <2>2. used' = used \cup {} \cup SlotsOf(Item1)
    BY <2>1 DEF NotLanded
  <2>3. /\ \A e : SetApart(e) => SetApart(e)'
        /\ \A e : e.source = at /\ e.member = landing[1].member => SetApart(e)'
    BY <1>5, <2>1 DEF NotLanded
  <2>4. PICK U : U = {}
    OBVIOUS
  <2>5. /\ used' = used \cup U \cup SlotsOf(Item1) /\ U \subseteq {ResolveTarget(Item1)}
        /\ \/ disk' = disk /\ U = {}
           \/ \E c : disk' = Written(ResolveTarget(Item1), c)
    BY <2>1, <2>2, <2>4
  <2>6. classStep = "land" /\ folders \subseteq folders'
    BY <2>1 DEF NotLanded
  <2> QED
    BY <2>3, <2>5, <2>6, NameTaken
<1>9. CASE ConflictRefused
  <2>1. /\ classStep = "land" /\ NamedCopy /\ landing' = <<>> /\ classStep' = "raised"
        /\ sources' = sources /\ at' = at
    BY <1>0, <1>9, ConflictRefusedIs
  <2>2. \A j \in 1 .. Len(landing') : FALSE
    <3>1. Len(<<>>) = 0
      OBVIOUS
    <3> QED
      BY <2>1, <3>1
  <2>3. \A e : SetApart(e) => SetApart(e)'
    BY <2>1, <2>2 DEF SetApart
  <2>4. ASSUME NEW e, e.source = at, e.member = landing[1].member PROVE SetApart(e)'
    <3>1. e.source \in 1 .. Len(sources) /\ e.source <= at
      BY <1>0, <2>1, <2>4, AtHand
    <3> QED
      BY <2>1, <2>2, <3>1 DEF SetApart
  <2>5. folders \subseteq folders' /\ disk' = Written(ResolveTarget(Item1), Item1.content)
        /\ used' = used \cup {ResolveTarget(Item1)} \cup SlotsOf(Item1)
    BY <2>1 DEF NamedCopy
  <2>6. \E c : disk' = Written(ResolveTarget(Item1), c)
    BY <2>5
  <2> QED
    BY <2>1, <2>3, <2>4, <2>5, <2>6, NameTaken
<1>10. ASSUME UNCHANGED <<sources, at, landing>>, classStep' = "route" => classStep = "route"
       PROVE  \A e : SetApart(e) => SetApart(e)'
  BY <1>10 DEF SetApart
<1>11. CASE Publish
  BY <1>1, <1>10, <1>11 DEF Publish
<1>12. CASE UNCHANGED classVars
  BY <1>1, <1>10, <1>12 DEF classVars
<1> QED
  BY <1>3, <1>4, <1>6, <1>7, <1>8, <1>9, <1>11, <1>12 DEF ClassNext

\* Every step keeps the entries of the catalog apart.
LEMMA CatalogStep == ClassInv /\ [ClassNext]_classVars => CatalogInv'
<1> SUFFICES ASSUME ClassInv, [ClassNext]_classVars PROVE CatalogInv'
  OBVIOUS
<1>0. LandTypes /\ SlotInv /\ CatalogInv
  BY DEF ClassInv
<1>1. Len(landed) \in Nat /\ \A i \in 1 .. Len(landed) : landed[i] \in Range(landed)
  BY <1>0, SequenceHas DEF LandTypes
<1>2. ASSUME classStep = "route", UNCHANGED <<landed, conflicts, disk, copyFaults>>, at' = at \/ at' = at + 1,
             classStep' = "route" => at' = at + 1
      PROVE  CatalogInv'
  <2>1. \A i \in 1 .. Len(landed) : landed[i].source < at /\ landed[i].source \in Nat
    BY <1>0, <1>1, <1>2, PackageIs DEF CatalogInv, LandTypes
  <2>2. at \in Nat
    BY <1>0, PackageIs
  <2>3. \A i \in 1 .. Len(landed) : landed[i].source < at'
    BY <1>2, <2>1, <2>2
  <2>4. \A i \in 1 .. Len(landed) : landed[i].source <= at' /\ landed[i].source # at'
    <3>1. at' \in Nat
      BY <1>2, <2>2
    <3> QED
      BY <2>1, <2>3, <3>1
  <2> QED
    BY <1>0, <1>2, <2>3, <2>4 DEF CatalogInv
<1>3. CASE IgnoreSource
  BY <1>2, <1>3 DEF IgnoreSource, Advance
<1>4. CASE ExpandSource
  <2>1. UNCHANGED <<landed, conflicts, disk, copyFaults>> /\ classStep = "route"
    BY <1>4 DEF ExpandSource
  <2>2. \/ at' = at + 1
        \/ at' = at /\ classStep' = "land"
    BY <1>4 DEF ExpandSource, Advance
  <2> QED
    BY <1>2, <2>1, <2>2
<1>5. ASSUME classStep = "land", NextItem, sources' = sources, Refusal, DOMAIN disk \subseteq DOMAIN disk',
             copyFaults' = LandFaults => copyFaults = LandFaults /\ disk' = disk
      PROVE  CatalogInv'
  <2>1. \A i \in 1 .. Len(landed) :
          /\ landed[i].source <= at'
          /\ landed[i].source = at' => \A j \in 1 .. Len(landing') : landing'[j].member # landed[i].member
          /\ classStep' = "route" => landed[i].source < at'
    BY <1>5, BehindApart
  <2>2. landed' = landed /\ conflicts' = conflicts
    BY <1>5 DEF Refusal
  <2> QED
    BY <1>0, <1>5, <2>1, <2>2 DEF CatalogInv
<1>6. ASSUME classStep = "land", NextItem, sources' = sources, copyFaults' = copyFaults, Success
      PROVE  CatalogInv'
  <2> DEFINE n == Len(landed)
  <2>1. ResolveTarget(Item1) \notin DOMAIN disk
    BY <1>0, <1>6, Resolved DEF Item1
  <2>2. DOMAIN disk' = DOMAIN disk \cup {ResolveTarget(Item1)}
    BY <1>6 DEF Success, NamedCopy, Written
  <2>3. Entry.target = ResolveTarget(Item1) /\ Entry.source = at /\ Entry.member = landing[1].member
    BY <1>0, <1>6, FirstItem DEF Entry, Item1
  <2>4. /\ Len(landed') = n + 1 /\ landed'[n + 1] = Entry /\ \A i \in 1 .. n : landed'[i] = landed[i]
        /\ Range(landed') = Range(landed) \cup {Entry}
    <3>1. landed' = Append(landed, Entry) /\ IsSequence(landed)
      BY <1>0, <1>6 DEF Success, LandTypes
    <3>2. PICK e : e = Entry
      OBVIOUS
    <3> QED
      BY <3>1, <3>2, Appending
  <2>5. \A i \in 1 .. n + 1 : i \in 1 .. n \/ i = n + 1
    BY <1>1
  <2>6. /\ at \in Nat /\ at \in 1 .. Len(sources) /\ at <= at
    BY <1>0, <1>6, PackageIs, AtHand
  <2>7. \A i \in 1 .. n : landed[i].target \in DOMAIN disk /\ landed[i].target # Entry.target
    BY <1>0, <2>1, <2>3 DEF CatalogInv
  <2>8. \A i \in 1 .. n : landed[i].source # Entry.source \/ landed[i].member # Entry.member
    <3>1. 1 \in 1 .. Len(landing)
      BY <1>0, <1>6, FirstItem
    <3> QED
      BY <1>0, <2>3, <3>1 DEF CatalogInv
  <2>9. \A i \in 1 .. Len(landed') : landed'[i].target \in DOMAIN disk'
    BY <2>2, <2>3, <2>4, <2>5, <2>7
  <2>10. \A i, j \in 1 .. Len(landed') : i # j =>
           /\ landed'[i].target # landed'[j].target
           /\ landed'[i].source # landed'[j].source \/ landed'[i].member # landed'[j].member
    <3> SUFFICES ASSUME NEW i \in 1 .. n + 1, NEW j \in 1 .. n + 1, i # j
                 PROVE  /\ landed'[i].target # landed'[j].target
                        /\ landed'[i].source # landed'[j].source \/ landed'[i].member # landed'[j].member
      BY <2>4
    <3>1. CASE i \in 1 .. n /\ j \in 1 .. n
      <4>1. /\ landed[i].target # landed[j].target
            /\ landed[i].source # landed[j].source \/ landed[i].member # landed[j].member
        BY <1>0, <3>1 DEF CatalogInv
      <4>2. landed'[i] = landed[i] /\ landed'[j] = landed[j]
        BY <2>4, <3>1
      <4> QED
        BY <4>1, <4>2
    <3>2. CASE i = n + 1 /\ j \in 1 .. n
      BY <2>4, <2>7, <2>8, <3>2
    <3>3. CASE i \in 1 .. n /\ j = n + 1
      BY <2>4, <2>7, <2>8, <3>3
    <3> QED
      BY <2>5, <3>1, <3>2, <3>3
  <2>11. \A i \in 1 .. n :
          /\ landed[i].source <= at'
          /\ landed[i].source = at' => \A j \in 1 .. Len(landing') : landing'[j].member # landed[i].member
          /\ classStep' = "route" => landed[i].source < at'
    BY <1>6, BehindApart
  <2>12. /\ Entry.source <= at'
         /\ Entry.source = at' => \A j \in 1 .. Len(landing') : landing'[j].member # Entry.member
         /\ classStep' = "route" => Entry.source < at'
    <3>1. \A j \in 1 .. Len(landing') : landing'[j].member # Entry.member
      BY <1>0, <1>6, <2>3, BehindKept
    <3>2. PICK e : e = Entry
      OBVIOUS
    <3>3. e.source \in 1 .. Len(sources) /\ e.source <= at
      BY <2>3, <2>6, <3>2
    <3>4. e.source = at => \A j \in 1 .. Len(landing') : landing'[j].member # e.member
      BY <3>1, <3>2
    <3>5. /\ e.source <= at'
          /\ e.source = at' => \A j \in 1 .. Len(landing') : landing'[j].member # e.member
          /\ classStep' = "route" => e.source < at'
      BY <1>6, <3>3, <3>4, ApartKept
    <3> QED
      BY <3>2, <3>5
  <2>13. \A i \in 1 .. Len(landed') :
           /\ landed'[i].source <= at'
           /\ landed'[i].source = at' => \A j \in 1 .. Len(landing') : landing'[j].member # landed'[i].member
           /\ classStep' = "route" => landed'[i].source < at'
    <3> SUFFICES ASSUME NEW i \in 1 .. n + 1
                 PROVE  /\ landed'[i].source <= at'
                        /\ landed'[i].source = at' => \A j \in 1 .. Len(landing') : landing'[j].member # landed'[i].member
                        /\ classStep' = "route" => landed'[i].source < at'
      BY <2>4
    <3>1. CASE i \in 1 .. n
      <4>1. landed'[i] = landed[i]
        BY <2>4, <3>1
      <4> QED
        BY <2>11, <3>1, <4>1
    <3>2. CASE i = n + 1
      <4>1. landed'[i] = Entry
        BY <2>4, <3>2
      <4> QED
        BY <2>12, <4>1
    <3> QED
      BY <2>5, <3>1, <3>2
  <2>14. ASSUME NEW c \in Range(conflicts')
         PROVE  \E e \in Range(landed') : c.source = e.source /\ c.member = e.member /\ c.target = e.target /\ c.target.slot # 0
                                         /\ c.target.slot \notin RefusedSlots
    <3>1. CASE c \in Range(conflicts)
      BY <1>0, <2>4, <3>1 DEF CatalogInv
    <3>2. CASE c \notin Range(conflicts)
      <4>1. /\ ResolveTarget(Item1).slot # 0 /\ ResolveTarget(Item1).slot \notin RefusedSlots
            /\ conflicts' = Append(conflicts, Conflict)
        BY <1>6, <3>2 DEF Success
      <4>2. c = Conflict
        <5>1. IsSequence(conflicts)
          BY <1>0 DEF LandTypes
        <5>2. PICK e : e = Conflict
          OBVIOUS
        <5>3. Range(Append(conflicts, e)) = Range(conflicts) \cup {e}
          BY <5>1, Appending
        <5> QED
          BY <3>2, <4>1, <5>2, <5>3
      <4>3. c.source = Entry.source /\ c.member = Entry.member /\ c.target = Entry.target /\ c.target = ResolveTarget(Item1)
        BY <4>2 DEF Conflict, Entry
      <4> QED
        BY <2>4, <4>1, <4>3
    <3> QED
      BY <3>1, <3>2
  <2>15. ASSUME copyFaults' = LandFaults, NEW t \in DOMAIN disk'
         PROVE  \E i \in 1 .. Len(landed') : landed'[i].target = t
    <3>1. CASE t \in DOMAIN disk
      <4>1. PICK i \in 1 .. n : landed[i].target = t
        BY <1>0, <1>6, <2>15, <3>1 DEF CatalogInv
      <4>2. i \in 1 .. n + 1 /\ landed'[i].target = t
        BY <1>1, <2>4, <4>1
      <4> QED
        BY <2>4, <4>2
    <3>2. CASE t = ResolveTarget(Item1)
      <4>1. n + 1 \in 1 .. n + 1
        BY <1>1
      <4> QED
        BY <2>3, <2>4, <3>2, <4>1
    <3> QED
      BY <2>2, <3>1, <3>2
  <2> HIDE DEF n
  <2> QED
    BY <2>9, <2>10, <2>13, <2>14, <2>15 DEF CatalogInv
<1>7. CASE LandOne
  BY <1>0, <1>6, <1>7, LandOneIs
<1>12. CASE LandRefused
  BY <1>0, <1>5, <1>12, LandRefusedIs DEF NotLanded
<1>8. CASE LandFails
  <2>1. copyFaults' # LandFaults
    BY <1>0, <1>8, LandFailsIs, HandlingAssumption DEF LandTypes
  <2>2. DOMAIN disk \subseteq DOMAIN disk'
    <3>1. ASSUME NEW c, disk' = Written(ResolveTarget(Item1), c) PROVE DOMAIN disk \subseteq DOMAIN disk'
      BY <3>1 DEF Written
    <3> QED
      BY <1>0, <1>8, <3>1, LandFailsIs
  <2> QED
    BY <1>0, <1>5, <1>8, <2>1, <2>2, LandFailsIs DEF NotLanded
<1>13. CASE ConflictRefused
  <2>1. /\ NamedCopy /\ landing' = <<>> /\ classStep' = "raised"
        /\ UNCHANGED <<at, landed, conflicts>>
    BY <1>0, <1>13, ConflictRefusedIs
  <2>2. DOMAIN disk \subseteq DOMAIN disk'
    BY <2>1 DEF NamedCopy, Written
  <2>3. \A j \in 1 .. Len(landing') : FALSE
    <3>1. Len(<<>>) = 0
      OBVIOUS
    <3> QED
      BY <2>1, <3>1
  <2> QED
    BY <1>0, <2>1, <2>2, <2>3 DEF CatalogInv
<1>9. ASSUME UNCHANGED <<at, landing, disk, landed, conflicts, copyFaults>>, classStep' = "route" => classStep = "route",
             classStep = "raised" => classStep' = "raised"
      PROVE  CatalogInv'
  BY <1>0, <1>9 DEF CatalogInv
<1>10. CASE Publish
  BY <1>9, <1>10 DEF Publish
<1>11. CASE UNCHANGED classVars
  BY <1>9, <1>11 DEF classVars
<1> QED
  BY <1>3, <1>4, <1>7, <1>8, <1>10, <1>11, <1>12, <1>13 DEF ClassNext

\* When no copy failed, the manifest of what was landed is accepted.
LEMMA Accepted == ASSUME LandTypes, CatalogInv, copyFaults = LandFaults, classStep = "publish" PROVE ManifestAccepts
<1> DEFINE n       == Len(landed)
           ids     == [i \in 1 .. n |-> <<landed[i].source, landed[i].member>>]
           targets == [i \in 1 .. n |-> landed[i].target]
<1>1. \A i \in 1 .. n : landed[i] \in Range(landed)
  BY SequenceHas DEF LandTypes
<1>2. DOMAIN ids = 1 .. n /\ DOMAIN targets = 1 .. n
  OBVIOUS
<1>3. \A i, j \in 1 .. n : ids[i] = ids[j] => i = j
  BY DEF CatalogInv
<1>4. \A i, j \in 1 .. n : targets[i] = targets[j] => i = j
  BY DEF CatalogInv
<1>5. IsInjective(ids)
  <2> HIDE DEF ids
  <2> QED
    BY <1>2, <1>3 DEF IsInjective
<1>6. IsInjective(targets)
  <2> HIDE DEF targets
  <2> QED
    BY <1>2, <1>4 DEF IsInjective
<1>7. \A c \in Range(conflicts) : \E e \in Range(landed) :
        /\ <<c.source, c.member, c.target>> = <<e.source, e.member, e.target>>
        /\ c.target.slot # 0 /\ c.target.slot \notin RefusedSlots
  BY DEF CatalogInv
<1>8. DOMAIN disk = Range(targets)
  <2>1. Range(targets) = {landed[i].target : i \in 1 .. n}
    BY DEF Range
  <2>2. \A i \in 1 .. n : landed[i].target \in DOMAIN disk
    BY DEF CatalogInv
  <2>3. \A t \in DOMAIN disk : \E i \in 1 .. n : landed[i].target = t
    BY DEF CatalogInv
  <2> HIDE DEF n, targets
  <2>4. Range(targets) \subseteq DOMAIN disk
    BY <2>1, <2>2
  <2>5. DOMAIN disk \subseteq Range(targets)
    BY <2>1, <2>3
  <2> QED
    BY <2>4, <2>5
<1> QED
  BY <1>5, <1>6, <1>7, <1>8 DEF ManifestAccepts

\* After one more name there are more names of a target than its slot says.
LEMMA NameOverflows ==
  ASSUME ClassInv, classStep = "land", NamedCopy, ResolveTarget(Item1).slot \in RefusedSlots
  PROVE  (\E t \in used : t.slot \in RefusedSlots /\ Cardinality({u \in used : u.base = t.base}) > t.slot)'
<1>1. LandTypes /\ SlotInv
  BY DEF ClassInv
<1>2. PICK n \in Nat : /\ n = Cardinality(SlotsOf(Item1)) /\ IsFiniteSet(SlotsOf(Item1))
                      /\ ResolveTarget(Item1) = Name(Item1, n) /\ ResolveTarget(Item1).slot = n
  BY <1>1, Numbered
<1>3. PICK t : t = ResolveTarget(Item1)
  OBVIOUS
<1>4. t.base = Item1.base /\ t.slot = n /\ n \in RefusedSlots /\ n # 0
  <2>1. n \in Nat /\ n \in RefusedSlots
    BY <1>2
  <2>2. n # 0
    BY <2>1, HandlingAssumption
  <2>3. Name(Item1, n).base = Item1.base /\ Name(Item1, n).slot = n
    BY <2>1, NamesAre
  <2> QED
    BY <1>2, <1>3, <2>1, <2>2, <2>3
<1>5. used' = used \cup {t} \cup SlotsOf(Item1)
  BY <1>3 DEF NamedCopy
<1>6. t \notin SlotsOf(Item1)
  <2>1. t \notin DOMAIN disk
    BY <1>1, <1>3, Resolved DEF Item1
  <2>2. \A d : Plain(d).slot = 0
    BY DEF Plain
  <2>3. SlotsOf(Item1) \subseteq DOMAIN disk \cup {Plain(d) : d \in folders}
    BY <1>1, SlotsAre
  <2> QED
    BY <1>4, <2>1, <2>2, <2>3
<1> DEFINE S == SlotsOf(Item1) \cup {t}
           U == {u \in used' : u.base = t.base}
<1>7. Cardinality(S) = n + 1
  BY <1>2, <1>6, FS_AddElement
<1>8. S \subseteq U
  <2>1. \A u \in SlotsOf(Item1) : u.base = Item1.base
    <3>1. Name(Item1, 0).base = Item1.base
      BY NamesAre
    <3> QED
      BY <3>1 DEF SlotsOf
  <2> QED
    BY <1>4, <1>5, <2>1
<1>9. IsFiniteSet(U)
  <2>1. IsFiniteSet(used \cup {t})
    BY <1>1, FS_AddElement DEF SlotInv
  <2>2. IsFiniteSet(used')
    BY <1>2, <1>5, <2>1, FS_Union
  <2> QED
    BY <2>2, FS_Subset
<1>10. Cardinality(S) <= Cardinality(U) /\ Cardinality(U) \in Nat
  <2> HIDE DEF S, U
  <2> QED
    BY <1>8, <1>9, FS_Subset, FS_CardinalityType
<1>11. t \in used' /\ Cardinality(U) > t.slot
  <2> HIDE DEF S, U
  <2>1. t \in used'
    BY <1>5
  <2> QED
    BY <1>4, <1>7, <1>10, <2>1
<1> QED
  BY <1>4, <1>11

\* A run is only refused after a copy has failed, and raises only when a target
\* has run out of numbers.
LEMMA RefusedStep == ClassInv /\ [ClassNext]_classVars => LocalFailuresPublish'
<1> SUFFICES ASSUME ClassInv, [ClassNext]_classVars PROVE LocalFailuresPublish'
  OBVIOUS
<1>0. LandTypes /\ CatalogInv /\ LocalFailuresPublish
  BY DEF ClassInv
<1>1. ASSUME classStep' \in {"route", "land", "publish", "published"} PROVE LocalFailuresPublish'
  BY <1>1 DEF LocalFailuresPublish
<1>2. CASE IgnoreSource
  BY <1>1, <1>2 DEF IgnoreSource, Advance
<1>3. CASE ExpandSource
  BY <1>1, <1>3 DEF ExpandSource, Advance
<1>4. CASE LandOne
  BY <1>0, <1>1, <1>4, LandOneIs, BehindKept
<1>5. CASE LandRefused
  BY <1>0, <1>1, <1>5, LandRefusedIs, BehindKept DEF NotLanded
<1>6. CASE LandFails
  BY <1>0, <1>1, <1>6, LandFailsIs, BehindKept DEF NotLanded
<1>7. CASE ConflictRefused
  <2>1. /\ classStep = "land" /\ NamedCopy /\ ResolveTarget(Item1).slot \in RefusedSlots /\ classStep' = "raised"
    BY <1>0, <1>7, ConflictRefusedIs
  <2>2. (\E t \in used : t.slot \in RefusedSlots /\ Cardinality({u \in used : u.base = t.base}) > t.slot)'
    BY <2>1, NameOverflows
  <2> QED
    BY <2>1, <2>2 DEF LocalFailuresPublish
<1>8. CASE Publish
  <2>1. classStep = "publish" /\ classStep' = (IF ManifestAccepts THEN "published" ELSE "refused") /\ copyFaults' = copyFaults
    BY <1>8 DEF Publish
  <2>2. CASE ManifestAccepts
    BY <1>1, <2>1, <2>2
  <2>3. CASE ~ManifestAccepts
    <3>1. copyFaults # LandFaults
      BY <1>0, <2>1, <2>3, Accepted
    <3>2. copyFaults' < LandFaults
      BY <1>0, <2>1, <3>1, HandlingAssumption DEF LandTypes
    <3> QED
      BY <2>1, <2>3, <3>2 DEF LocalFailuresPublish
  <2> QED
    BY <2>2, <2>3
<1>9. CASE UNCHANGED classVars
  BY <1>0, <1>9 DEF classVars, LocalFailuresPublish
<1> QED
  BY <1>2, <1>3, <1>4, <1>5, <1>6, <1>7, <1>8, <1>9 DEF ClassNext

\* ClassInv holds in every reachable state.
THEOREM ClassificationInvariant == ClassSpec => []ClassInv
<1>1. ClassInit => ClassInv
  BY ClassInitSound
<1>2. ClassInv /\ [ClassNext]_classVars => ClassInv'
  BY LandTypesStep, SlotStep, CatalogStep, RefusedStep DEF ClassInv
<1> QED
  BY <1>1, <1>2, PTL DEF ClassSpec

\* LocalFailuresPublish: a run that lost no copy is not refused, and ends early
\* only at a target that has as many names as a number the conflict record
\* refuses, whatever the packages, the routes and their expansions are.
THEOREM FailuresStayLocal == ClassSpec => []LocalFailuresPublish
<1>1. ClassInv => LocalFailuresPublish
  BY DEF ClassInv
<1> QED
  BY <1>1, ClassificationInvariant, PTL

\* A step leaves every file that was there as it was.
DiskKept == \A t \in DOMAIN disk : t \in DOMAIN disk' /\ disk'[t] = disk[t]
\* A copy to the target it was given leaves what is there.
LEMMA WrittenKeeps ==
  ASSUME ClassInv, classStep = "land", NEW c, disk' = Written(ResolveTarget(Item1), c) PROVE DiskKept
<1>1. ResolveTarget(Item1) \notin DOMAIN disk
  BY Resolved DEF ClassInv, Item1
<1> QED
  BY <1>1 DEF Written, DiskKept

\* NeverOverwrites: whatever is landed, or was left of a failed copy, no later copy
\* writes over it, for any packages, routes and expansions.
THEOREM NothingOverwritten == ClassSpec => NeverOverwrites
<1>1. ASSUME ClassInv, [ClassNext]_classVars PROVE [DiskKept]_classVars
  <2>0. LandTypes
    BY <1>1 DEF ClassInv
  <2>1. ASSUME disk' = disk PROVE DiskKept
    BY <2>1 DEF DiskKept
  <2>2. CASE IgnoreSource
    BY <2>1, <2>2 DEF IgnoreSource
  <2>3. CASE ExpandSource
    BY <2>1, <2>3 DEF ExpandSource
  <2>4. CASE LandOne
    BY <1>1, <2>0, <2>4, LandOneIs, WrittenKeeps DEF Success, NamedCopy
  <2>5. CASE LandRefused
    BY <2>0, <2>1, <2>5, LandRefusedIs
  <2>8. CASE LandFails
    BY <1>1, <2>0, <2>1, <2>8, LandFailsIs, WrittenKeeps DEF NotLanded
  <2>9. CASE ConflictRefused
    BY <1>1, <2>0, <2>9, ConflictRefusedIs, WrittenKeeps DEF NamedCopy
  <2>6. CASE Publish
    BY <2>1, <2>6 DEF Publish
  <2>7. CASE UNCHANGED classVars
    BY <2>7
  <2> QED
    BY <1>1, <2>2, <2>3, <2>4, <2>5, <2>6, <2>7, <2>8, <2>9 DEF ClassNext
<1>2. [DiskKept]_classVars <=> [\A t \in DOMAIN disk : t \in DOMAIN disk' /\ disk'[t] = disk[t]]_classVars
  BY DEF DiskKept
<1> QED
  BY <1>1, <1>2, ClassificationInvariant, PTL DEF ClassSpec, NeverOverwrites

\* ClassTypeOK: every reachable state of a classification has the types of the
\* code's values.
THEOREM ClassTypes == ClassSpec => []ClassTypeOK
<1>1. ASSUME ClassInv PROVE ClassTypeOK
  <2>1. LandTypes
    BY <1>1 DEF ClassInv
  <2>3. \A t \in used : t \in DOMAIN disk \/ t.base \in folders
    <3>1. used \subseteq DOMAIN disk \cup {Plain(d) : d \in folders}
      BY <1>1 DEF ClassInv, SlotInv
    <3>2. \A d : Plain(d).base = d
      BY DEF Plain
    <3> QED
      BY <3>1, <3>2
  <2>2. \A r \in Range(landing) : r.source \in 1 .. Len(sources)
    <3> SUFFICES ASSUME NEW r \in Range(landing) PROVE r.source \in 1 .. Len(sources)
      OBVIOUS
    <3>1. DOMAIN landing = 1 .. Len(landing)
      BY <2>1, SequenceHas DEF LandTypes
    <3>2. r.source = at /\ landing # <<>>
      <4>1. PICK i \in 1 .. Len(landing) : landing[i] = r
        BY <3>1 DEF Range
      <4>2. landing # <<>>
        <5>1. DOMAIN <<>> = {}
          OBVIOUS
        <5> QED
          BY <3>1, <4>1, <5>1
      <4> QED
        BY <2>1, <4>1, <4>2 DEF LandTypes
    <3>3. classStep = "land"
      BY <2>1, <3>2 DEF LandTypes
    <3> QED
      BY <2>1, <3>2, <3>3, AtHand
  <2> QED
    BY <2>1, <2>2, <2>3 DEF ClassTypeOK, LandTypes
<1> QED
  BY <1>1, ClassificationInvariant, PTL
=============================================================================
