---------------------------- MODULE RoutePatterns ----------------------------
(* Which file belongs to which route (src/app/services/extraction/config.py   *)
(* and the matching half of classification.py and nested.py).  A              *)
(* configuration is accepted only when no two of its routes of one phase,     *)
(* priority and profile can match one file, which the code decides by a       *)
(* search through the product of two automata; a scan then matches the files  *)
(* of a package by backtracking.  The two know nothing of each other: what    *)
(* the search clears, the matcher must keep apart.                            *)
(* A directory pattern is a sequence of segments, "**" among them; a file     *)
(* pattern a sequence of characters, "*" and "?" among them; case is folded   *)
(* already, and the routes of a configuration are in the order of their ids.  *)
EXTENDS Integers, Sequences, FiniteSets, SequencesExt

CONSTANTS
    RouteConfigs,   \* the configurations: sequences of routes, in a sequence
    SceneAnchors,   \* profile -> the names of its scene_anchors
    RouteTrees,     \* packages: sets of files [dirs, name]
    SegmentOrder,   \* the directory names of files, in the order of strings
    NameChars,      \* the characters of the names of files
    MaxSourceDirs, MaxSourceName    \* bounds: the files the properties ask about

PhaseOrder == <<"alarm", "precise", "ignore", "fallback">>

(* What the form of a pattern allows (validate_directory_pattern,             *)
(* validate_member_pattern): the only wildcard among directories is "**".     *)
IsSequence(s) == s \in Seq(Range(s))
GoodPattern(p) ==
    IsSequence(p.dirs) /\ IsSequence(p.file) /\ "?" \notin Range(p.dirs)
GoodRoute(r) ==
    /\ GoodPattern(r) /\ IsSequence(r.include) /\ \A i \in Range(r.include) : GoodPattern(i.pattern)
    /\ r.scope \in {"scene", "evidence"} /\ r.priority \in Int /\ r.phase \in Range(PhaseOrder)
GoodFile(f) == f.dirs \in Seq(Range(SegmentOrder)) /\ f.name \in Seq(NameChars) \ {<<>>}
ASSUME RouteAssumption ==
    /\ \A c \in Range(RouteConfigs) : IsSequence(c) /\ \A r \in Range(c) : GoodRoute(r)
    /\ \A files \in RouteTrees : IsFiniteSet(files) /\ \A f \in files : GoodFile(f)
    /\ IsSequence(SegmentOrder) /\ MaxSourceDirs \in Nat

VARIABLES
    config,         \* the number of the configuration being validated
    stage,          \* "parse", "selections", "routes" or "scan"
    verdict,        \* "open", "rejected" or "accepted"
    todo,           \* the comparisons that are left, the running one among them
    now,            \* the running comparison, or <<>>
    automata,       \* the two _PatternNFA of the running comparison, or <<>>
    toVisit, visited,   \* pending and visited of the search of _product_nfa_overlap
    scan            \* what classify_main_evidence decided: profile, scene, placed

routeVars == <<config, stage, verdict, todo, now, automata, toVisit, visited, scan>>

Active == RouteConfigs[config]
NoScan == [profile |-> "none", scene |-> <<>>, placed |-> <<>>]
Profiles == {"UMF", "CSP", "GENERIC"}
DoubleStar == <<"*", "*">>      \* the file pattern of a member pattern that ends in **
-----------------------------------------------------------------------------
(* The automata.  A symbol is a directory name or a character, OTHER stands   *)
(* for all that no pattern names.  State 2i is reached with the first i       *)
(* elements of a pattern, 2i - 1 is the loop of a star; 0 is the start.       *)
\* Mutant: no symbol for what the patterns do not name.
SymbolsNamed(patterns) ==
    {<<"directory", s>> : s \in (UNION {Range(p.dirs) : p \in patterns}) \ {"**"}}
      \cup {<<"file", c>> : c \in (UNION {Range(p.file) : p \in patterns}) \ {"*", "?"}}

Symbols(patterns) ==
    {<<"directory", s>> : s \in {"OTHER"} \cup ((UNION {Range(p.dirs) : p \in patterns}) \ {"**"})}
      \cup {<<"file", c>> : c \in {"OTHER"} \cup ((UNION {Range(p.file) : p \in patterns}) \ {"*", "?"})}

Elements(p) == [i \in 1 .. Len(p.dirs) |-> <<"directory", p.dirs[i]>>] \o [i \in 1 .. Len(p.file) |-> <<"file", p.file[i]>>]
IsStar(e)   == e \in {<<"directory", "**">>, <<"file", "*">>}
Taken(e, symbols) == IF IsStar(e) \/ e = <<"file", "?">> THEN {s \in symbols : s[1] = e[1]} ELSE {e}

\* A star is skipped, or entered, passed any number of times and left.
Compile(pattern, symbols) ==
    LET e == Elements(pattern)
        stars == {i \in 1 .. Len(e) : IsStar(e[i])}
        From(i) == IF i \in stars THEN 2 * i - 1 ELSE 2 * i - 2
        To(i)   == IF i \in stars THEN 2 * i - 1 ELSE 2 * i
    IN [accept  |-> 2 * Len(e),
        epsilon |-> UNION {{<<2 * i - 2, 2 * i>>, <<2 * i - 2, 2 * i - 1>>, <<2 * i - 1, 2 * i>>} : i \in stars},
        moves   |-> UNION {{<<From(i), s, To(i)>> : s \in Taken(e[i], symbols)} : i \in 1 .. Len(e)}]

(* A route within the scene may lie at any depth of the evidence.             *)
RoutePattern(r) == [dirs |-> IF r.scope = "scene" THEN <<"**">> \o r.dirs ELSE r.dirs, file |-> r.file]

EpsilonClosure(nfa, states) ==
    LET found[k \in 0 .. nfa.accept] ==
          IF k = 0 THEN states
          ELSE UNION {{s} \cup {e[2] : e \in {x \in nfa.epsilon : x[1] = s}} : s \in found[k - 1]}
    IN found[nfa.accept]

MovesOn(nfa, states, symbol) ==
    EpsilonClosure(nfa, {m[3] : m \in {x \in nfa.moves : x[1] \in states /\ x[2] = symbol}})

Successors(pair) ==
    LET symbols == {m[2] : m \in {x \in automata[1].moves : x[1] \in pair[1]}}
                     \cup {m[2] : m \in {x \in automata[2].moves : x[1] \in pair[2]}}
    IN {p \in {<<MovesOn(automata[1], pair[1], s), MovesOn(automata[2], pair[2], s)>> : s \in symbols} :
          p[1] # {} /\ p[2] # {}}
-----------------------------------------------------------------------------
(* The comparisons a configuration asks for.                                  *)
Lower(u, v) ==      \* the order of sequences of numbers
    \E k \in 0 .. Len(u) : /\ k < Len(v) /\ SubSeq(u, 1, k) = SubSeq(v, 1, k)
                           /\ k = Len(u) \/ u[k + 1] < v[k + 1]

\* _validate_selection_services: includes of different services, of one route.
SelectionPairs(c) ==
    {t \in UNION {{r} \X (DOMAIN c[r].include) \X (DOMAIN c[r].include) : r \in DOMAIN c} :
        LET left  == c[t[1]].include[t[2]]
            right == c[t[1]].include[t[3]]
        IN t[2] < t[3] /\ "" \notin {left.service, right.service} /\ left.service # right.service}

SameRank(r, s) ==
    r.phase = s.phase /\ r.priority = s.priority /\ r.profiles \cap s.profiles # {}

\* _validate_route_overlaps.
RoutePairs(c) ==
    {t \in (DOMAIN c) \X (DOMAIN c) :
        t[1] < t[2] /\ SameRank(c[t[1]], c[t[2]])}

Compared(t) ==
    IF stage = "selections"
    THEN <<Active[t[1]].include[t[2]].pattern, Active[t[1]].include[t[3]].pattern>>
    ELSE <<RoutePattern(Active[t[1]]), RoutePattern(Active[t[2]])>>

(* Defaults: _is_catch_all_source and _validate_reachable_defaults.           *)
CatchAllFile(file) ==
    /\ Range(file) \subseteq {"*", "?"} /\ "*" \in Range(file)
    /\ Cardinality({i \in DOMAIN file : file[i] = "?"}) <= 1
CatchAll(r) == r.capture = "" /\ Range(r.dirs) = {"**"} /\ CatchAllFile(r.file)

Default(r) ==
    /\ r.phase \in {"ignore", "fallback"} /\ CatchAll(r)
    /\ r.action = "ignore" \/ (r.phase = "fallback" /\ r.action \in {"fallback", "copy"})
DefaultsReachable(c) ==
    Profiles \subseteq UNION {r.profiles : r \in {x \in Range(c) : Default(x)}}
-----------------------------------------------------------------------------
(* Matching a file.  GlobMatches is _directory_matches with the star "**" and *)
(* the names of directories, and fnmatchcase with "*" and characters: how     *)
(* much of actual the first i elements of the pattern can take, over all      *)
(* choices that the backtracking tries.                                       *)
GlobMatches(star, pattern, actual) ==
    LET taken[i \in 0 .. Len(pattern)] ==
          IF i = 0 THEN {0}
          ELSE IF pattern[i] = star THEN UNION {k .. Len(actual) : k \in taken[i - 1]}
          ELSE {k + 1 : k \in {x \in taken[i - 1] : x < Len(actual) /\ pattern[i] \in {actual[x + 1], "?"}}}
    IN Len(actual) \in taken[Len(pattern)]

(* _member_pattern_matches: a last segment ** takes the rest of the path, of  *)
(* any depth.                                                                 *)
MemberMatches(pattern, member) ==
    IF pattern.file = DoubleStar
    THEN \E k \in 0 .. Len(member.dirs) : GlobMatches("**", pattern.dirs, SubSeq(member.dirs, 1, k))
    ELSE GlobMatches("**", pattern.dirs, member.dirs) /\ GlobMatches("*", pattern.file, member.name)

(* _relative_to_scene, as a set: a file outside the scene has no such path.   *)
WithinScene(dirs, scene) ==
    IF IsPrefix(scene, dirs) THEN {SubSeq(dirs, Len(scene) + 1, Len(dirs))} ELSE {}

\* _route_match and _source_suffix, of the directories of a file.
PlaceMatches(r, dirs, inScene) ==
    \E d \in IF r.scope = "evidence" THEN {dirs} ELSE inScene :
        GlobMatches("**", r.dirs, d) /\ (r.capture = "" \/ r.capture \in Range(d))
RouteMatches(r, file, inScene) ==
    GlobMatches("*", r.file, file.name) /\ PlaceMatches(r, file.dirs, inScene)

(* infer_scene_root: the directory above most kinds of anchors, then above    *)
(* most of them, then the deepest, then the last by name.                     *)
InferSceneRoot(files, anchors) ==
    LET found == {o \in {<<f, i>> : f \in files, i \in 1 .. MaxSourceDirs} :
                    o[2] <= Len(o[1].dirs) /\ o[1].dirs[o[2]] \in anchors}
        above(o) == SubSeq(o[1].dirs, 1, o[2] - 1)
        score(c) == LET hits == {o \in found : above(o) = c}
                    IN <<Cardinality({o[1].dirs[o[2]] : o \in hits}), Cardinality(hits), Len(c)>>
                         \o [k \in DOMAIN c |-> CHOOSE n \in DOMAIN SegmentOrder : SegmentOrder[n] = c[k]]
        candidates == {above(o) : o \in found}
    IN IF found = {} THEN <<>>
       ELSE CHOOSE c \in candidates : \A d \in candidates : ~Lower(score(c), score(d))

\* _select_route: by phase, falling priority and id; 0 when none matches.
PickRoute(profile, file, inScene) ==
    LET route(i) == Active[i]
        phase(i) == CHOOSE n \in DOMAIN PhaseOrder : PhaseOrder[n] = route(i).phase
        fits == {i \in DOMAIN Active :
                   profile \in route(i).profiles /\ RouteMatches(route(i), file, inScene)}
        before(i, j) == \/ phase(i) < phase(j)
                        \/ phase(i) = phase(j) /\ route(i).priority > route(j).priority
                        \/ phase(i) = phase(j) /\ route(i).priority = route(j).priority /\ i <= j
    IN IF fits = {} THEN 0 ELSE CHOOSE i \in fits : \A j \in fits : before(i, j)
-----------------------------------------------------------------------------
RouteInit ==
    /\ config \in DOMAIN RouteConfigs
    /\ stage = "parse" /\ verdict = "open" /\ todo = {} /\ now = <<>> /\ automata = <<>>
    /\ toVisit = {} /\ visited = {} /\ scan = NoScan

Reject == verdict' = "rejected"

(* _parse_route, what it asks beyond the form of a field: GENERIC stands      *)
(* alone, a fallback covers everything, a target names a service only when    *)
(* every include has one, and an alarm is expanded from a directory it names. *)
RouteAllowed(r) ==
    /\ "GENERIC" \in r.profiles => r.profiles = {"GENERIC"}
    /\ r.action = "fallback" => CatchAll(r)
    /\ r.named => \A i \in Range(r.include) : i.service # ""
    /\ r.phase = "alarm" =>
         r.profiles = {"UMF", "CSP"} /\ r.action = "expand_recursive" /\ r.capture \in Range(r.dirs)

ParseRoutes ==
    /\ stage = "parse" /\ verdict = "open"
    /\ IF \E r \in Range(Active) : ~RouteAllowed(r)
       THEN Reject /\ UNCHANGED <<stage, todo>>
       ELSE stage' = "selections" /\ todo' = SelectionPairs(Active) /\ UNCHANGED verdict
    /\ UNCHANGED <<config, now, automata, toVisit, visited, scan>>

(* The next comparison in the order of the loops.                             *)
BeginComparison ==
    /\ verdict = "open" /\ now = <<>>
    /\ now' \in {t \in todo : \A u \in todo : ~Lower(u, t)}
    /\ LET both == Compared(now')
           nfa(p) == Compile(p, Symbols(Range(both)))
       IN /\ automata' = <<nfa(both[1]), nfa(both[2])>>
          /\ toVisit' = {<<EpsilonClosure(nfa(both[1]), {0}), EpsilonClosure(nfa(both[2]), {0})>>}
    /\ visited' = {}
    /\ UNCHANGED <<config, stage, verdict, todo, scan>>

(* One turn of the loop: a pair from a set, whichever pop yields.             *)
SearchStep ==
    /\ verdict = "open"
    /\ \E pair \in toVisit :
         IF automata[1].accept \in pair[1] /\ automata[2].accept \in pair[2]
         THEN Reject /\ toVisit' = toVisit \ {pair} /\ UNCHANGED visited
         ELSE /\ visited' = visited \cup {pair}
              /\ toVisit' = (toVisit \ {pair}) \cup (Successors(pair) \ visited')
              /\ UNCHANGED verdict
    /\ UNCHANGED <<config, stage, todo, now, automata, scan>>

EndComparison ==
    /\ verdict = "open" /\ now # <<>> /\ toVisit = {}
    /\ todo' = todo \ {now} /\ now' = <<>> /\ automata' = <<>> /\ visited' = {}
    /\ UNCHANGED <<config, stage, verdict, toVisit, scan>>

CheckDefaults ==
    /\ stage = "selections" /\ verdict = "open" /\ todo = {}
    /\ IF DefaultsReachable(Active)
       THEN stage' = "routes" /\ todo' = RoutePairs(Active) /\ UNCHANGED verdict
       ELSE Reject /\ UNCHANGED <<stage, todo>>
    /\ UNCHANGED <<config, now, automata, toVisit, visited, scan>>

Accept ==
    /\ stage = "routes" /\ verdict = "open" /\ todo = {}
    /\ verdict' = "accepted" /\ stage' = "scan"
    /\ UNCHANGED <<config, todo, now, automata, toVisit, visited, scan>>

ScanTree ==
    /\ stage = "scan" /\ scan = NoScan
    /\ \E files \in RouteTrees, profile \in Profiles :
         LET scene == InferSceneRoot(files, SceneAnchors[profile])
         IN scan' = [profile |-> profile, scene |-> scene,
                     placed |-> [f \in files |-> PickRoute(profile, f, WithinScene(f.dirs, scene))]]
    /\ UNCHANGED <<config, stage, verdict, todo, now, automata, toVisit, visited>>

RouteNext ==
    ParseRoutes \/ BeginComparison \/ SearchStep \/ EndComparison \/ CheckDefaults \/ Accept \/ ScanTree

RouteSpec == RouteInit /\ [][RouteNext]_routeVars
-----------------------------------------------------------------------------
(* The types; a search only meets states of the two automata.                 *)
RouteTypeOK ==
    /\ config \in DOMAIN RouteConfigs
    /\ stage \in {"parse", "selections", "routes", "scan"}
    /\ verdict \in {"open", "rejected", "accepted"} /\ (verdict = "accepted" <=> stage = "scan")
    /\ IF now = <<>> THEN automata = <<>> ELSE now \in todo /\ Len(automata) = 2
    /\ \A p \in toVisit \cup visited, n \in 1 .. 2 : p[n] # {} /\ p[n] \subseteq 0 .. automata[n].accept
    /\ \A i \in Range(scan.placed) : i \in 0 .. Len(Active)

(* The files the properties ask about.                                        *)
SourceDirs  == BoundedSeq(Range(SegmentOrder), MaxSourceDirs)
SourceNames == BoundedSeq(NameChars, MaxSourceName) \ {<<>>}
ScenePaths(dirs) == {{}} \cup {{SubSeq(dirs, k + 1, Len(dirs))} : k \in 0 .. Len(dirs)}

CommonFile(r, s) ==
    /\ \E n \in SourceNames : GlobMatches("*", r.file, n) /\ GlobMatches("*", s.file, n)
    /\ \E d \in SourceDirs : \E inScene \in ScenePaths(d) : PlaceMatches(r, d, inScene) /\ PlaceMatches(s, d, inScene)

(* _validate_route_overlaps for _select_route: when a configuration is        *)
(* accepted, no file, wherever its scene, is matched by two routes between    *)
(* which only the order of their ids would decide.                            *)
NoTie ==
    verdict = "accepted" =>
        \A i, j \in DOMAIN Active :
            LET r == Active[i]
                s == Active[j]
            IN i < j /\ r.phase = s.phase /\ r.priority = s.priority /\ r.profiles \cap s.profiles # {}
                 => ~CommonFile(r, s)

(* _product_nfa_overlap: it refuses no configuration without a reason.  Two   *)
(* routes it finds in conflict do match one file, as far as they are about    *)
(* the evidence (the scene of a package is not known to it, nor is            *)
(* capture_root); two includes do match one member.                           *)
ConflictReal ==
    verdict = "rejected" /\ now # <<>> =>
        IF stage = "routes"
        THEN LET r == Active[now[1]]
                 s == Active[now[2]]
             IN {r.scope, s.scope} = {"evidence"} /\ {r.capture, s.capture} = {""} => CommonFile(r, s)
        ELSE \E d \in SourceDirs, n \in SourceNames : \A p \in Range(Compared(now)) :
                 MemberMatches(p, [dirs |-> d, name |-> n])

(* _selected_include of an accepted configuration: no member falls to two     *)
(* services, unless an include ends in ** (its automaton knows one level).    *)
SelectionDecides ==
    verdict = "accepted" =>
        \A r \in Range(Active), d \in SourceDirs, n \in SourceNames :
            Cardinality({i.service : i \in {x \in Range(r.include) :
                /\ x.service # "" /\ x.pattern.file # DoubleStar
                /\ MemberMatches(x.pattern, [dirs |-> d, name |-> n])}}) <= 1

(* _validate_reachable_defaults for classify_main_evidence: every file of the *)
(* scene of an accepted configuration falls to a route.                       *)
DefaultReaches ==
    \A f \in DOMAIN scan.placed : WithinScene(f.dirs, scan.scene) # {} => scan.placed[f] # 0

(* What the validation of a configuration promises the scans made with it.    *)
RoutingSound == NoTie /\ SelectionDecides /\ DefaultReaches

(* The docstring of _selected_include, "includes of different services that   *)
(* overlap are an error of the configuration", for every include: no member   *)
(* of an accepted configuration falls to two.  Does not hold: the automaton   *)
(* of ** at the end knows one level, and an include without a service is not  *)
(* compared.                                                                  *)
SelectionAlwaysDecides ==
    verdict = "accepted" =>
        \A r \in Range(Active), d \in SourceDirs, n \in SourceNames :
            Cardinality({i.service : i \in {x \in Range(r.include) :
                MemberMatches(x.pattern, [dirs |-> d, name |-> n])}}) <= 1
=============================================================================
