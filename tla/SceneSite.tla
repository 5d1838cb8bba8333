------------------------------ MODULE SceneSite ------------------------------
(* The extraction site of one task on disk: the evidence directory .main that *)
(* the main-package unit builds, and the target roots with their manifest     *)
(* that the classification unit publishes (src/app/inspectors/pkg.py,         *)
(* src/app/services/extraction/site.py and manifest.py).  One action per      *)
(* rename or write that another run can find half done: every step may fail   *)
(* with an OSError, and the process may die between any two steps.  A tree is *)
(* one value: what it was built from.                                         *)
EXTENDS Naturals, FiniteSets, FiniteSetsExt

CONSTANTS
    SiteRoots,      \* the target roots, numbered in the order of their names
    RootsOf,        \* classification config -> the roots its routes land in
    Expected,       \* the content whose checksum the task was created with
    Foreign,        \* any other content of the package file
    SiteRuns,       \* bound: runs of the two units
    SiteFaults,     \* bound: steps that fail with an OSError
    SiteCrashes,    \* bound: times the process dies
    SiteEdits       \* bound: changes from outside (package, config, files)

Absent == "absent"
Damaged == "damaged"

ASSUME SiteAssumption ==
    /\ SiteRoots \subseteq Nat /\ IsFiniteSet(SiteRoots)
    /\ \A c \in DOMAIN RootsOf : RootsOf[c] \subseteq SiteRoots
    /\ Expected # Foreign /\ {Expected, Foreign} \cap {Absent, Damaged} = {}
    /\ {SiteRuns, SiteFaults, SiteCrashes, SiteEdits} \subseteq Nat

VARIABLES
    package,        \* what the package file holds now
    layout,         \* the classification config in force
    putBack,        \* history: it was replaced while it was unpacked, and put back
    evidence, evidencePrev, evidenceStaging,    \* .main, .main.previous, .main.staging
    manifest, manifestPrev, manifestStaging,    \* manifest.json and its two control files
    target, staged, backup,                     \* the roots, the classification staging, the backup
    siteStep,       \* the step the run is at
    swapTodo,       \* roots still to exchange
    swapRecords,    \* the exchange records the rollback can use
    hidden,         \* previous_hidden: the old manifest was moved away
    reused,         \* the last finished run reused the scene
    budget,         \* what is left of the bounds
    before          \* history: the scene when the publication began

siteVars == <<package, layout, putBack, evidence, evidencePrev, evidenceStaging, manifest,
              manifestPrev, manifestStaging, target, staged, backup, siteStep,
              swapTodo, swapRecords, hidden, reused, budget, before>>

mainFiles  == <<evidence, evidencePrev, evidenceStaging>>
controls   == <<manifest, manifestPrev, manifestStaging>>
trees      == <<target, staged, backup>>
runMemory  == <<swapTodo, swapRecords, hidden>>
outside    == <<package, layout, putBack>>

-----------------------------------------------------------------------------
Empty == <<>>                \* no such root
Broken == <<"damaged">>      \* a root with a file that was damaged
NoTree == [r \in SiteRoots |-> Empty]
NoManifest == [config |-> Absent, evidence |-> Absent, catalog |-> NoTree]

Resting == {"idle", "done", "failed", "rolled_back"}

(* What classifying evidence e under config c puts into the staging roots.    *)
Classified(c, e) == [r \in SiteRoots |-> IF r \in RootsOf[c] THEN <<c, e, r>> ELSE Empty]

(* A manifest names the config, the fingerprint of .main and the catalog.     *)
ManifestFor(c, e) == [config |-> c, evidence |-> e, catalog |-> Classified(c, e)]

(* reusable_evidence_manifest: the manifest can be read and names the         *)
(* fingerprint of the evidence that is there (its checksum is the task's).    *)
ReusableEvidence == manifest # NoManifest /\ evidence # Absent /\ manifest.evidence = evidence

(* _verify_catalog_files: every file of the catalog is there, unchanged.      *)
CatalogVerified ==
    \A r \in SiteRoots : manifest.catalog[r] # Empty => target[r] = manifest.catalog[r]

(* reusable_manifest: the evidence, the context and the catalog all agree.    *)
ReusableScene == ReusableEvidence /\ manifest.config = layout /\ CatalogVerified

(* Mutant. *)
SwapRootsNewOnly == RootsOf[layout]

(* Every root that is new, was published before or lies there is exchanged.   *)
SwapRoots ==
    LET old == {r \in SiteRoots : manifest.catalog[r] # Empty}
        there == {r \in SiteRoots : target[r] # Empty}
    IN RootsOf[layout] \cup old \cup there

(* _remove_control_path on what an earlier, interrupted run left behind.      *)
Cleared(leftover) == NoTree

Spend(kind) == budget[kind] > 0 /\ budget' = [budget EXCEPT ![kind] = @ - 1]
Fault == Spend("faults")
NoFault == UNCHANGED budget

-----------------------------------------------------------------------------
SiteInit ==
    /\ package = Expected /\ layout \in DOMAIN RootsOf /\ putBack = FALSE
    /\ evidence = Absent /\ evidencePrev = Absent /\ evidenceStaging = Absent
    /\ manifest = NoManifest /\ manifestPrev = NoManifest /\ manifestStaging = NoManifest
    /\ target = NoTree /\ staged = NoTree /\ backup = NoTree
    /\ siteStep = "idle" /\ swapTodo = {} /\ swapRecords = {}
    /\ hidden = FALSE /\ reused = FALSE
    /\ budget = [runs |-> SiteRuns, faults |-> SiteFaults, crashes |-> SiteCrashes, edits |-> SiteEdits]
    /\ before = <<NoTree, NoManifest>>

StartRun ==
    /\ siteStep \in Resting /\ Spend("runs")
    /\ siteStep' = "main"
    /\ UNCHANGED <<outside, mainFiles, controls, trees, runMemory, reused, before>>

(* _ensure_main_evidence: verify the package, then reuse .main or rebuild it. *)
CheckEvidence ==
    /\ siteStep = "main" /\ NoFault
    /\ siteStep' = IF package # Expected THEN "failed"
                   ELSE IF ReusableEvidence THEN "classify" ELSE "unpack"
    /\ evidenceStaging' = IF siteStep' = "unpack" THEN Absent ELSE evidenceStaging
    /\ UNCHANGED <<outside, evidence, evidencePrev, controls, trees, runMemory, reused, before>>

(* unpack into .main.staging; an error of the archive removes the staging.    *)
Unpack ==
    /\ siteStep = "unpack"
    /\ \/ NoFault /\ evidenceStaging' = package /\ siteStep' = "verify"
       \/ Fault /\ evidenceStaging' = Absent /\ siteStep' = "failed"
    /\ UNCHANGED <<outside, evidence, evidencePrev, controls, trees, runMemory, reused, before>>

(* The package is read once more after the extraction: it may have changed    *)
(* while it was being read.                                                   *)
VerifyUnpacked ==
    /\ siteStep = "verify" /\ NoFault
    /\ IF package = Expected
       THEN siteStep' = "move_out" /\ UNCHANGED evidenceStaging
       ELSE siteStep' = "failed" /\ evidenceStaging' = Absent
    /\ UNCHANGED <<outside, evidence, evidencePrev, controls, trees, runMemory, reused, before>>

(* _replace_main_evidence, first half: the old evidence is moved away.        *)
MoveOut ==
    /\ siteStep = "move_out"
    /\ \/ /\ NoFault /\ siteStep' = "move_in"
          /\ evidencePrev' = evidence /\ evidence' = Absent
          /\ UNCHANGED evidenceStaging
       \/ /\ Fault /\ siteStep' = "failed"
          /\ evidencePrev' = Absent /\ evidenceStaging' = Absent
          /\ UNCHANGED evidence
    /\ UNCHANGED <<outside, controls, trees, runMemory, reused, before>>

(* Second half: the staging takes its place, or the old one comes back.       *)
MoveIn ==
    /\ siteStep = "move_in"
    /\ evidenceStaging' = Absent /\ evidencePrev' = Absent
    /\ \/ NoFault /\ siteStep' = "classify" /\ evidence' = evidenceStaging
       \/ Fault /\ siteStep' = "failed" /\ evidence' = evidencePrev
    /\ UNCHANGED <<outside, controls, trees, runMemory, reused, before>>

-----------------------------------------------------------------------------
(* _run_classification: reuse the published scene, or clear the staging.      *)
CheckScene ==
    /\ siteStep = "classify" /\ NoFault
    /\ siteStep' = IF package # Expected THEN "failed"
                   ELSE IF ReusableScene THEN "done" ELSE "land"
    /\ reused' = IF siteStep' = "done" THEN TRUE ELSE reused
    /\ staged' = IF siteStep' = "land" THEN NoTree ELSE staged
    /\ UNCHANGED <<outside, mainFiles, controls, target, backup, runMemory, before>>

(* classify_main_evidence lands into the staging roots.                       *)
Land ==
    /\ siteStep = "land"
    /\ \/ NoFault /\ staged' = Classified(layout, evidence) /\ siteStep' = "prepare"
       \/ Fault /\ staged' = NoTree /\ siteStep' = "failed"
    /\ UNCHANGED <<outside, mainFiles, controls, target, backup, runMemory, reused, before>>

(* publish_classification_run up to its first rename: the control paths of an *)
(* earlier run go, the manifest is written beside, the backup is created.     *)
Prepare ==
    /\ siteStep = "prepare"
    /\ before' = <<target, manifest>>
    /\ manifestPrev' = NoManifest
    /\ \/ /\ NoFault /\ Cleared(backup) = NoTree
          /\ backup' = NoTree
          /\ manifestStaging' = ManifestFor(layout, evidence)
          /\ siteStep' = "hide" /\ UNCHANGED staged
       \/ /\ IF Cleared(backup) = NoTree THEN Fault ELSE NoFault
          /\ backup' = NoTree /\ manifestStaging' = NoManifest
          /\ staged' = NoTree /\ siteStep' = "failed"
    /\ hidden' = FALSE /\ swapRecords' = {} /\ swapTodo' = SwapRoots
    /\ UNCHANGED <<outside, mainFiles, manifest, target, reused>>

(* The visible manifest goes first: from here on nothing can be reused.       *)
HideManifest ==
    /\ siteStep = "hide"
    /\ \/ /\ NoFault
          /\ manifestPrev' = manifest /\ manifest' = NoManifest
          /\ hidden' = (manifest # NoManifest)
          /\ siteStep' = IF swapTodo = {} THEN "place" ELSE "swap_out"
       \/ Fault /\ manifest # NoManifest /\ siteStep' = "undo"
          /\ UNCHANGED <<manifest, manifestPrev, hidden>>
    /\ UNCHANGED <<outside, mainFiles, manifestStaging, trees, swapTodo, swapRecords, reused, before>>

(* _swap_target_roots, one root: the published root into the backup ...       *)
SwapOut ==
    /\ siteStep = "swap_out"
    /\ LET r == Min(swapTodo) IN
       \/ /\ NoFault /\ siteStep' = "swap_in"
          /\ backup' = [backup EXCEPT ![r] = target[r]]
          /\ target' = [target EXCEPT ![r] = Empty]
       \/ /\ Fault /\ target[r] # Empty
          /\ siteStep' = "undo" /\ UNCHANGED <<backup, target>>
    /\ UNCHANGED <<outside, mainFiles, controls, staged, runMemory, reused, before>>

(* ... and the staged root into its place.  The records reach the caller only *)
(* when the whole exchange returns.                                           *)
SwapIn ==
    /\ siteStep = "swap_in"
    /\ LET r == Min(swapTodo) IN
       \/ /\ NoFault
          /\ target' = [target EXCEPT ![r] = staged[r]]
          /\ staged' = [staged EXCEPT ![r] = Empty]
          /\ swapTodo' = swapTodo \ {r}
          /\ siteStep' = IF swapTodo' = {} THEN "place" ELSE "swap_out"
       \/ /\ Fault /\ staged[r] # Empty /\ siteStep' = "undo"
          /\ UNCHANGED <<target, staged, swapTodo>>
    /\ UNCHANGED <<outside, mainFiles, controls, backup, swapRecords, hidden, reused, before>>

(* The new manifest appears; the rename, or the fsync after it, may fail.     *)
PlaceManifest ==
    /\ siteStep = "place"
    /\ swapRecords' = {r \in SiteRoots : backup[r] # Empty \/ target[r] # Empty}
    /\ \/ /\ NoFault /\ siteStep' = "tidy"
          /\ manifest' = manifestStaging /\ manifestStaging' = NoManifest
       \/ /\ Fault /\ siteStep' = "undo"
          /\ \/ UNCHANGED <<manifest, manifestStaging>>
             \/ manifest' = manifestStaging /\ manifestStaging' = NoManifest
    /\ UNCHANGED <<outside, mainFiles, manifestPrev, trees, swapTodo, hidden, reused, before>>

(* The control paths go; the published manifest is read back.  An OSError     *)
(* here fails a run whose scene is published.                                 *)
Tidy ==
    /\ siteStep = "tidy"
    /\ \/ NoFault /\ siteStep' = "done" /\ reused' = FALSE
          /\ backup' = NoTree /\ manifestPrev' = NoManifest
       \/ Fault /\ siteStep' = "failed" /\ UNCHANGED <<reused, backup, manifestPrev>>
    /\ staged' = NoTree
    /\ UNCHANGED <<outside, mainFiles, manifest, manifestStaging, target, runMemory, before>>

-----------------------------------------------------------------------------
(* _rollback_target_roots, one record, in reverse order: the new root back to *)
(* the staging, the old one back from the backup.  An OSError is noted and    *)
(* the next record is tried.                                                  *)
UndoRoot ==
    /\ siteStep = "undo" /\ swapRecords # {}
    /\ LET r == Max(swapRecords)
           published == RootsOf[layout]
           takenBack == IF r \in published /\ target[r] # Empty
                        THEN [target EXCEPT ![r] = Empty] ELSE target
           putAside == IF r \in published /\ target[r] # Empty
                       THEN [staged EXCEPT ![r] = target[r]] ELSE staged
       IN \/ /\ NoFault
             /\ staged' = putAside
             /\ target' = IF backup[r] # Empty THEN [takenBack EXCEPT ![r] = backup[r]] ELSE takenBack
             /\ backup' = [backup EXCEPT ![r] = Empty]
          \/ Fault /\ UNCHANGED trees
          \/ Fault /\ staged' = putAside /\ target' = takenBack /\ UNCHANGED backup
    /\ swapRecords' = swapRecords \ {Max(swapRecords)}
    /\ UNCHANGED <<outside, mainFiles, controls, siteStep, swapTodo, hidden, reused, before>>

(* _restore_previous_manifest, then every control path is removed.            *)
RestoreManifest ==
    /\ siteStep = "undo" /\ swapRecords = {}
    /\ \/ NoFault /\ manifest' = IF hidden THEN manifestPrev ELSE NoManifest
       \/ Fault /\ (hidden \/ manifest # NoManifest) /\ UNCHANGED manifest
    /\ manifestStaging' = NoManifest /\ manifestPrev' = NoManifest
    /\ backup' = NoTree /\ staged' = NoTree
    /\ siteStep' = "rolled_back"
    /\ UNCHANGED <<outside, mainFiles, target, runMemory, reused, before>>

-----------------------------------------------------------------------------
(* The process dies: what is in memory goes, the disk stays as it is.         *)
SiteCrash ==
    /\ siteStep \notin Resting /\ Spend("crashes")
    /\ siteStep' = "idle" /\ swapTodo' = {} /\ swapRecords' = {} /\ hidden' = FALSE
    /\ UNCHANGED <<outside, mainFiles, controls, trees, reused, before>>

(* From outside: the package file is overwritten at any moment and may be put *)
(* back, which is not counted as another edit; the configuration is edited    *)
(* between runs, files of the scene are damaged.                              *)
ReplacePackage ==
    /\ package = Expected /\ package' = Foreign /\ Spend("edits")
    /\ UNCHANGED <<layout, putBack, mainFiles, controls, trees, siteStep, runMemory, reused, before>>

PutBackPackage ==
    /\ package = Foreign /\ package' = Expected
    /\ putBack' = (putBack \/ (siteStep = "verify" /\ evidenceStaging = Foreign))
    /\ UNCHANGED <<layout, budget, mainFiles, controls, trees, siteStep, runMemory, reused, before>>

EditBetweenRuns ==
    /\ siteStep \in Resting /\ Spend("edits") /\ siteStep' = "idle"
    /\ \/ layout' \in DOMAIN RootsOf \ {layout} /\ UNCHANGED <<evidence, target>>
       \/ evidence # Absent /\ evidence' = Damaged /\ UNCHANGED <<layout, target>>
       \/ \E r \in SiteRoots : /\ target[r] # Empty /\ target' = [target EXCEPT ![r] = Broken]
                               /\ UNCHANGED <<layout, evidence>>
    /\ UNCHANGED <<package, putBack, evidencePrev, evidenceStaging, controls, staged, backup,
                   runMemory, reused, before>>

RunStep ==
    \/ CheckEvidence \/ Unpack \/ VerifyUnpacked \/ MoveOut \/ MoveIn
    \/ CheckScene \/ Land \/ Prepare \/ HideManifest \/ SwapOut \/ SwapIn \/ PlaceManifest
    \/ Tidy \/ UndoRoot \/ RestoreManifest

SiteNext == StartRun \/ RunStep \/ SiteCrash \/ ReplacePackage \/ PutBackPackage
            \/ EditBetweenRuns

SiteSpec == SiteInit /\ [][SiteNext]_siteVars /\ WF_siteVars(RunStep)

-----------------------------------------------------------------------------
Values == {Absent, Damaged, Expected, Foreign}
Trees == [SiteRoots -> {Empty, Broken}
                       \cup {<<c, e, r>> : c \in DOMAIN RootsOf, e \in Values, r \in SiteRoots}]
Manifests == {NoManifest} \cup {ManifestFor(c, e) : c \in DOMAIN RootsOf, e \in Values}

SiteTypeOK ==
    /\ package \in {Expected, Foreign} /\ layout \in DOMAIN RootsOf
    /\ {evidence, evidencePrev, evidenceStaging} \subseteq Values
    /\ {manifest, manifestPrev, manifestStaging} \subseteq Manifests
    /\ {target, staged, backup} \subseteq Trees
    /\ siteStep \in Resting \cup {"main", "unpack", "verify", "move_out", "move_in", "classify",
                                  "land", "prepare", "hide", "swap_out", "swap_in", "place",
                                  "tidy", "undo"}
    /\ swapTodo \cup swapRecords \subseteq SiteRoots
    /\ {hidden, reused, putBack} \subseteq BOOLEAN
    /\ \A k \in DOMAIN budget : budget[k] \in Nat

(* A classification that passes leaves a scene a rule can trust, whatever     *)
(* earlier runs, crashes and damage left on the disk: .main is the package of *)
(* the task and every root of the catalog is the one classified from it under *)
(* the current configuration; a run that published also leaves no root of an  *)
(* older configuration and no control file behind.                            *)
DoneIsWhole ==
    siteStep = "done" /\ ~putBack =>
        /\ evidence = Expected
        /\ manifest = ManifestFor(layout, Expected)
        /\ \A r \in RootsOf[layout] : target[r] = manifest.catalog[r]
        /\ ~reused => /\ target = manifest.catalog
                      /\ staged = NoTree /\ backup = NoTree
                      /\ manifestPrev = NoManifest /\ manifestStaging = NoManifest

(* Crashes alone, at any step of any number of runs, never leave a visible    *)
(* manifest over roots that are not exactly its catalog: the old manifest     *)
(* goes before the first root moves and the new one comes after the last.     *)
CrashNeverMixes ==
    /\ budget.faults = SiteFaults
    /\ manifest # NoManifest
    /\ \A r \in SiteRoots : target[r] # Broken
    => target = manifest.catalog

(* The evidence is never built from a package other than the one the task was *)
(* created with, also when the file changes while it is being unpacked: the   *)
(* checksum is read before and after.  A file that is replaced and put back   *)
(* between the two readings is not noticed (putBack).                         *)
EvidenceIsPackage == putBack \/ evidence \in {Absent, Damaged, Expected}

(* What the rules may trust of a scene, at every step of every run.           *)
SceneTrusted == DoneIsWhole /\ CrashNeverMixes /\ EvidenceIsPackage

(* No state that faults, crashes and damage can leave on the disk wedges the  *)
(* task: once they stop and the package is the right one, the next run ends   *)
(* with a whole scene.                                                        *)
NextRunRecovers ==
    (/\ siteStep = "main" /\ package = Expected
     /\ budget.faults = 0 /\ budget.crashes = 0 /\ budget.edits = 0) ~> siteStep = "done"

(* What publish_classification_run promises of a failure, "publish atomically *)
(* ... on failure roll back in reverse order": a publication one step of      *)
(* which failed leaves the roots and the manifest as they were.               *)
FailedPublishRollsBack ==
    siteStep = "rolled_back" /\ budget.faults + 1 = SiteFaults => <<target, manifest>> = before

=============================================================================
