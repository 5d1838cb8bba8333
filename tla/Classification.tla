---------------------------- MODULE Classification ----------------------------
(* How the classification unit turns the evidence of a package into the files *)
(* a rule reads: each source file is matched to a route, expanded as the      *)
(* route says, and every resulting file is landed under a target of its own;  *)
(* what is not landed is recorded (classification.py and audit.py of          *)
(* src/app/services/extraction).  What a source hands over to be landed is    *)
(* computed in Expansion.  A path is a sequence of segments, a segment a      *)
(* number in the order of the names.                                          *)
EXTENDS Naturals, Sequences, FiniteSets, SequencesExt

CONSTANTS
    Packages,       \* the evidence trees to classify: sequences of sources
    Routes,         \* route id -> [phase, priority, action, root, gunzip, include, exclude]
    Handling,       \* source -> what its expansion gives: [landing, errors, skipped]
    RefusedSlots,   \* conflicts whose number ConflictRecord does not accept
    LandFaults      \* bound: copies that fail with an OSError

VARIABLES
    sources,        \* the evidence of this run, in path order
    at,             \* the source being processed
    landing,        \* what the source still has to land
    disk,           \* target -> content, in the classification staging
    folders,        \* the directories of the staging
    used,           \* used_targets
    landed, ignored, conflicts, failures,   \* the audit lists
    copyFaults,     \* what is left of the bound
    classStep       \* "route", "land", "publish", "published", "refused", "raised"

classVars == <<sources, at, landing, disk, folders, used, landed, ignored, conflicts, failures,
               copyFaults, classStep>>

-----------------------------------------------------------------------------
(* _select_route: by phase, then by falling priority, then by id.             *)
Better(r, s) ==
    LET a == Routes[r]
        b == Routes[s]
    IN \/ a.phase < b.phase
       \/ a.phase = b.phase /\ a.priority > b.priority
       \/ a.phase = b.phase /\ a.priority = b.priority /\ r < s
SelectRoute(fits) == CHOOSE r \in fits : \A s \in fits \ {r} : Better(r, s)

(* A source without a route, or with an ignore route, is not opened.          *)
IsHandled(src) == src.fits # {} /\ Routes[SelectRoute(src.fits)].action # "ignore"

(* The files of a directory are handed over once each (_recursive_files), and *)
(* no two members of an archive differ in case only (_member_key), so that at *)
(* most one of them is opened to a given name.                                *)
ASSUME HandlingAssumption ==
    /\ LandFaults \in Nat /\ RefusedSlots \subseteq Nat \ {0}
    /\ \A p \in Packages : p \in Seq(Range(p))
    /\ \A p \in Packages : \A src \in {x \in Range(p) : IsHandled(x)} :
          LET h == Handling[src]
          IN /\ h.landing \in Seq(Range(h.landing)) /\ h.errors \in Seq(Range(h.errors))
             /\ h.skipped \in Seq(Range(h.skipped))
             /\ \A i, j \in DOMAIN h.landing : i # j => h.landing[i].member # h.landing[j].member

Above(p) == {SubSeq(p, 1, k) : k \in 1 .. Len(p) - 1}

Whole == <<>>               \* the member of a record about the whole source
Gone  == [gone |-> TRUE]    \* the file was unlinked after it had been chosen

(* A name of a target: the wanted path (slot 0), or the path with the digest  *)
(* of the source and member it is for, without a number (slot 1) or with the  *)
(* number of the slot.                                                        *)
Name(item, slot) ==
    [base |-> item.base, slot |-> slot,
     by |-> IF slot = 0 THEN [source |-> 0, member |-> Whole]
            ELSE [source |-> item.source, member |-> item.member]]

(* The names of a target that count as used: those handed out, and the wanted *)
(* path itself when a file or a directory is there (_available_destination).  *)
SlotsOf(item) ==
    {t \in used : t.base = item.base}
        \cup {t \in DOMAIN disk : t = Name(item, 0)}
        \cup (IF item.base \in folders THEN {Name(item, 0)} ELSE {})

(* Mutant. *)
ResolveTargetUsedOnly(item) == Name(item, Cardinality({t \in used : t.base = item.base}))

(* resolve_target: the wanted path, or the next number with the digest.       *)
ResolveTarget(item) == Name(item, Cardinality(SlotsOf(item)))

Written(t, content) == [d \in DOMAIN disk \cup {t} |-> IF d = t THEN content ELSE disk[d]]

(* A file to land, with the path its target is rendered from and the member   *)
(* it is recorded as.                                                         *)
Item(s, file) ==
    [source |-> s, member |-> file.member, content |-> file.content,
     base |-> <<Routes[SelectRoute(sources[s].fits)].root>> \o file.path]

-----------------------------------------------------------------------------
ClassInit ==
    /\ sources \in Packages /\ at = 1 /\ landing = <<>>
    /\ disk = <<>> /\ folders = {} /\ used = {}
    /\ landed = <<>> /\ ignored = <<>> /\ conflicts = <<>> /\ failures = <<>>
    /\ copyFaults = LandFaults /\ classStep = IF sources = <<>> THEN "publish" ELSE "route"

Advance == /\ at' = at + 1
           /\ classStep' = IF at = Len(sources) THEN "publish" ELSE "route"

(* No route, or an ignore route: the source is recorded as ignored.           *)
IgnoreSource ==
    /\ classStep = "route" /\ ~IsHandled(sources[at])
    /\ ignored' = Append(ignored, [source |-> at, member |-> Whole])
    /\ Advance
    /\ UNCHANGED <<sources, landing, disk, folders, used, landed, conflicts, failures, copyFaults>>

(* The source is expanded as its route says; member errors and unselected     *)
(* members are recorded before the first file is landed.                      *)
ExpandSource ==
    /\ classStep = "route" /\ IsHandled(sources[at])
    /\ LET h == Handling[sources[at]]
           named(e) == [source |-> at, member |-> e.member, code |-> e.code]
       IN /\ landing' = [i \in 1 .. Len(h.landing) |-> Item(at, h.landing[i])]
          /\ failures' = failures \o [i \in 1 .. Len(h.errors) |-> named(h.errors[i])]
          /\ ignored' = ignored \o [i \in 1 .. Len(h.skipped) |->
                                       [source |-> at, member |-> h.skipped[i]]]
          /\ IF h.landing = <<>> THEN Advance ELSE classStep' = "land" /\ UNCHANGED at
    /\ UNCHANGED <<sources, disk, folders, used, landed, conflicts, copyFaults>>

(* Mutant. *)
NextItemStays == landing' = Tail(landing) /\ UNCHANGED <<at, classStep>>

NextItem == /\ landing' = Tail(landing)
            /\ IF Tail(landing) = <<>> THEN Advance ELSE UNCHANGED <<at, classStep>>

Failed(item) == failures' = Append(failures, [source |-> item.source, member |-> item.member,
                                              code |-> "unsafe_path"])

(* _land_copy, _land_member and _land_recursive_plain_file: a target is       *)
(* chosen, its directory is made, the file is copied.                         *)
Blocked(item) == \E d \in DOMAIN disk : d.slot = 0 /\ d.base \in Above(item.base)
Lands(item)   == classStep = "land" /\ item.content # Gone /\ ~Blocked(item)
Made(item)    == folders' = folders \cup Above(item.base)

LandOne ==
    LET item == Head(landing)
        t == ResolveTarget(item)
    IN /\ Lands(item) /\ t.slot \notin RefusedSlots
       /\ Made(item)
       /\ disk' = Written(t, item.content)
       /\ used' = used \cup {t} \cup SlotsOf(item)
       /\ landed' = Append(landed, [source |-> item.source, member |-> item.member,
                                    target |-> t, content |-> item.content])
       /\ conflicts' = IF t.slot = 0 THEN conflicts
                       ELSE Append(conflicts, [source |-> item.source, member |-> item.member, target |-> t])
       /\ NextItem
       /\ UNCHANGED <<sources, ignored, failures, copyFaults>>

(* The file is gone, or a file lies where a directory is needed: an OSError,  *)
(* recorded as the failure of this file.                                      *)
LandRefused ==
    LET item == Head(landing)
    IN /\ classStep = "land" /\ ~Lands(item)
       /\ IF Blocked(item) THEN UNCHANGED folders ELSE Made(item)
       /\ used' = used \cup SlotsOf(item)
       /\ Failed(item) /\ NextItem
       /\ UNCHANGED <<sources, disk, landed, ignored, conflicts, copyFaults>>

(* The copy fails: before its directory or the destination exists, or part    *)
(* way through it.                                                            *)
LandFails ==
    LET item == Head(landing)
    IN /\ Lands(item) /\ copyFaults > 0 /\ copyFaults' = copyFaults - 1
       /\ \/ UNCHANGED <<disk, folders>>
          \/ Made(item) /\ UNCHANGED disk
          \/ Made(item) /\ disk' = Written(ResolveTarget(item), [partial |-> TRUE])
       /\ used' = used \cup SlotsOf(item)
       /\ Failed(item) /\ NextItem
       /\ UNCHANGED <<sources, landed, ignored, conflicts>>

(* ConflictRecord.__post_init__: the file is there and its name is taken, but *)
(* the number is not one the record accepts (a number of several digits must  *)
(* not begin with 1).  The ValueError leaves the classification, and the unit *)
(* fails without publishing (_run_classification in pkg.py).                  *)
ConflictRefused ==
    LET item == Head(landing)
        t == ResolveTarget(item)
    IN /\ Lands(item) /\ t.slot \in RefusedSlots
       /\ Made(item)
       /\ disk' = Written(t, item.content)
       /\ used' = used \cup {t} \cup SlotsOf(item)
       /\ landing' = <<>> /\ classStep' = "raised"
       /\ UNCHANGED <<sources, at, landed, ignored, conflicts, failures, copyFaults>>

(* validate_manifest and _validate_staging_tree: identities and targets occur *)
(* once, every conflict is that of an entry, and the staging holds exactly    *)
(* the files of the catalog.                                                  *)
ManifestAccepts ==
    LET ids == [i \in 1 .. Len(landed) |-> <<landed[i].source, landed[i].member>>]
        targets == [i \in 1 .. Len(landed) |-> landed[i].target]
    IN /\ IsInjective(ids) /\ IsInjective(targets)
       /\ \A c \in Range(conflicts) : \E e \in Range(landed) :
              /\ <<c.source, c.member, c.target>> = <<e.source, e.member, e.target>>
              /\ c.target.slot # 0 /\ c.target.slot \notin RefusedSlots
       /\ DOMAIN disk = Range(targets)

Publish ==
    /\ classStep = "publish"
    /\ classStep' = IF ManifestAccepts THEN "published" ELSE "refused"
    /\ UNCHANGED <<sources, at, landing, disk, folders, used, landed, ignored, conflicts, failures, copyFaults>>

ClassNext == \/ IgnoreSource \/ ExpandSource
             \/ LandOne \/ LandRefused \/ LandFails \/ ConflictRefused \/ Publish
ClassSpec == ClassInit /\ [][ClassNext]_classVars

-----------------------------------------------------------------------------
Ended == classStep \in {"published", "refused"}

ClassTypeOK ==
    /\ at \in 1 .. Len(sources) + 1 /\ copyFaults \in 0 .. LandFaults
    /\ classStep \in {"route", "land", "publish", "published", "refused", "raised"}
    /\ \A t \in used : t \in DOMAIN disk \/ t.base \in folders
    /\ (landing # <<>>) <=> classStep = "land"
    /\ \A r \in Range(landed) \cup Range(ignored) \cup Range(failures) \cup Range(landing) :
           r.source \in 1 .. Len(sources)

(* A file that has been landed is never overwritten or removed by a later     *)
(* one, also when two sources ask for the same target or an earlier copy left *)
(* part of a file behind.                                                     *)
NeverOverwrites == [][\A t \in DOMAIN disk : t \in DOMAIN disk' /\ disk'[t] = disk[t]]_classVars

(* A run in which no copy failed is publishable: archives that are torn,      *)
(* doubled, too deep or too large are local failures and never make the       *)
(* manifest invalid or the staging tree differ from the catalog.  Only        *)
(* another conflict on a target that has had as many names as a number which  *)
(* ConflictRecord refuses ends a run that lost no copy.                       *)
LocalFailuresPublish ==
    /\ classStep = "refused" => copyFaults < LandFaults
    /\ classStep = "raised" =>
           \E t \in used : t.slot \in RefusedSlots /\ Cardinality({u \in used : u.base = t.base}) > t.slot
=============================================================================
