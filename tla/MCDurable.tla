----------------------------- MODULE MCDurable -----------------------------
(***************************************************************************)
(* The composition of Durable with the expansion of archives, on packages, *)
(* configurations, scans and requests that meet every case.                *)
(***************************************************************************)
EXTENDS Durable, Expansion

CONSTANTS pa, oa, ob, typ, other, va, vb, mu, me, conf
-----------------------------------------------------------------------------
(* Site: three roots, of which two configurations use two each.            *)

MCRootsOf == ("c1" :> {1, 3}) @@ ("c2" :> {1, 2})
-----------------------------------------------------------------------------
(* Expansion and Classification: an archive and one more source, or three  *)
(* that ask for one target.  The segments of a path are 1 a, 2 a.gz, 3 b,  *)
(* 4 n.zip, 5 x.rar, 6 n.zip.gz, 7 p.                                      *)

MCSuffixOf == <<"plain", "gz", "plain", "zip", "odd", "gz", "plain">>
MCBare     == <<0, 1, 0, 0, 0, 4, 0>>
Route(ph, pr, a) ==
  [phase |-> ph, priority |-> pr, action |-> a, root |-> 9,
   gunzip |-> {2}, include |-> {<<1, "s">>, <<2, "s">>, <<3, "s">>, <<3, "t">>}, exclude |-> {4}]
MCRoutes ==
  <<Route(1, 5, "copy"), Route(1, 3, "expand"), Route(1, 3, "select"),
    Route(2, 1, "expand_recursive"), Route(3, 0, "ignore")>>
Leaf(t)     == [tok |-> t, size |-> 1, torn |-> FALSE, items |-> <<>>]
Torn        == [tok |-> 0, size |-> 1, torn |-> TRUE, items |-> <<>>]
Archive(ms) == [tok |-> 0, size |-> 1, torn |-> FALSE, items |-> ms]
Gz(b)       == Archive(<<[path |-> <<>>, body |-> b]>>)
Member(p, b) == [path |-> p, body |-> b]
Large(b, n) == [b EXCEPT !.size = n]
Contents ==
  {<<Member(<<1>>, Leaf(1)), Member(<<2>>, Gz(Leaf(2)))>>,
   <<Member(<<1>>, Leaf(1)), Member(<<2>>, Torn)>>,
   <<Member(<<3>>, Leaf(1)), Member(<<2>>, Torn)>>,
   <<Member(<<1>>, Leaf(1)), Member(<<1>>, Leaf(2)), Member(<<3, 1>>, Leaf(3))>>,
   <<Member(<<3, 1>>, Leaf(1)), Member(<<3>>, Leaf(2))>>,
   <<Member(<<3>>, Leaf(1)), Member(<<3, 1>>, Leaf(2)), Member(<<>>, Leaf(3))>>,
   <<Member(<<1>>, Leaf(1)), Member(<<4>>, Archive(<<Member(<<1>>, Leaf(2)), Member(<<3>>, Leaf(3))>>)),
     Member(<<5>>, Leaf(4))>>,
   <<Member(<<3, 4>>, Archive(<<Member(<<4>>, Archive(<<Member(<<1>>, Leaf(1))>>))>>)),
     Member(<<6>>, Gz(Archive(<<Member(<<1>>, Leaf(2))>>)))>>,
   <<Member(<<4>>, Archive(<<Member(<<4>>, Archive(<<Member(<<4>>, Archive(<<Member(<<1>>, Leaf(1))>>))>>))>>))>>,
   <<Member(<<4>>, Archive(<<Member(<<4>>, Archive(<<Member(<<1>>, Leaf(1))>>))>>))>>,
   <<Member(<<1>>, Large(Leaf(1), 3)), Member(<<3>>, Leaf(2)),
     Member(<<4>>, Large(Archive(<<Member(<<1>>, Leaf(3))>>), 2))>>,
   <<Member(<<1>>, Large(Leaf(1), 4)), Member(<<3>>, Leaf(2)), Member(<<2>>, Gz(Large(Leaf(3), 4)))>>,
   <<Member(<<1, 3>>, Leaf(1)), Member(<<2>>, Gz(Leaf(2)))>>,
   <<Member(<<1, 3, 1, 3>>, Leaf(1)), Member(<<2>>, Gz(Leaf(2)))>>,
   <<Member(<<1>>, Leaf(1)), Member(<<3>>, Leaf(2)), Member(<<4>>, Torn), Member(<<1, 1>>, Leaf(4)),
     Member(<<3, 3>>, Leaf(5))>>}
Source(p, s, f, b) == [path |-> p, suffix |-> s, fits |-> f, body |-> b]
Archives == {Source(<<4>>, <<4>>, f, Archive(ms)) : f \in {{2}, {3}, {4}}, ms \in Contents}
Others ==
  {Source(<<7, 1>>, <<1>>, f, Leaf(7)) : f \in {{1, 2, 5}, {4, 5}, {5}, {}}}
  \cup {Source(<<7, 1, 2>>, <<1, 2>>, {4}, b) : b \in {Gz(Leaf(8)), Torn}}
  \cup {Source(<<7, 5>>, <<5>>, {2, 3}, Leaf(9)), Source(<<7, 3>>, <<3>>, {1}, Leaf(6)),
        Source(<<7, 4>>, <<4>>, {4}, Archive(<<Member(<<3, 1>>, Leaf(1)), Member(<<3>>, Leaf(2))>>)),
        Source(<<7, 4>>, <<4>>, {4}, Archive(<<Member(<<1>>, Leaf(1)), Member(<<2>>, Torn)>>))}
Copies == [i \in 1 .. 3 |-> Source(<<<<1>>, <<7, 1>>, <<7, 7, 1>>>>[i], <<1>>, {1}, Leaf(i))]
MCPackages == {<<a, b>> : a \in Archives, b \in Others} \cup {Copies}
MCHandling == [src \in {x \in Archives \cup Others \cup Range(Copies) : IsHandled(x)} |-> Handled(src)]
-----------------------------------------------------------------------------
(* Inventory: two tasks of different operators, one without a site, a log  *)
(* supplement, two devices, files with and without times, heads, versions. *)

MCSiteOf == [t \in InvTasks |-> IF t = 3 THEN NoValue ELSE [province |-> pa, operator |-> IF t = 1 THEN oa ELSE ob]]
Line(k, v)   == [kind |-> k, value |-> v]
Row(n, t, v) == [kind |-> "row", name |-> n, type |-> t, version |-> v]
Text(lines)  == [decodes |-> TRUE, lines |-> lines]
OneDevice(n, v) == <<Line("name", n), Line("types", typ)>> \o (IF v = NoValue THEN <<>> ELSE <<Line("versions", v)>>)
MCScans ==
  {<<>>, <<[decodes |-> FALSE, lines |-> <<>>]>>,
   <<Text(OneDevice(1, va))>>,
   <<Text(<<Line("time", 2)>> \o OneDevice(1, vb))>>,
   <<Text(<<Line("time", NoValue), Line("time", 1), Line("head", NoValue), Row(1, typ, vb),
            Line("blank", NoValue), Line("head", NoValue), Row(2, typ, NoValue),
            Row(NoValue, typ, va), Row(1, typ, va)>>)>>,
   <<Text(<<Line("time", 9), Line("head", NoValue), Row(1, other, va), Row(2, typ, va)>>)>>,
   <<Text(OneDevice(1, va)), Text(<<Line("versions", va)>> \o OneDevice(1, vb))>>}
-----------------------------------------------------------------------------
(* Attribution: a unit, a metric, a binding, a derivation and a config;    *)
(* two maintainers with one idempotency key.                               *)

MCResources == {mu, me}
MCUnitRef   == [r \in Records \ MCResources |-> mu]
MCMetricRef == [r \in Records \ MCResources |-> me]
MCParts     == [r \in DerivedRecs |-> {me}]
MCAsks      == {[kind |-> "retry", recs |-> {me, bind}]}
                 \cup [kind: {"resolve"}, rec: {bind, conf} \cup DerivedRecs, type: {OneType}]
-----------------------------------------------------------------------------
(* Routes: two precise routes with every pair of directory patterns and every *)
(* pair of file patterns, other ranks and profiles, selections of two         *)
(* includes, and defaults that do and do not cover.                           *)

\* F of every pair, in order.
Each(F(_, _), s, t) ==
  [n \in 1 .. Len(s) * Len(t) |-> F(s[((n - 1) \div Len(t)) + 1], t[((n - 1) % Len(t)) + 1])]
Crossed(s, t) == Each(LAMBDA x, y : <<x, y>>, s, t)

ScopeList    == <<"scene", "evidence">>
DirPatterns  == <<<<"a">>, <<"b">>, <<"**">>, <<"a", "**">>, <<"**", "b">>, <<"a", "b">>, <<"**", "a", "**">>>>
FilePatterns == <<<<"x">>, <<"*">>, <<"x", "*">>, <<"*", "y">>, <<"?">>, <<"?", "x">>, <<"x", "?", "*">>>>
CpRoute(s, d, f) ==
  [phase |-> "precise", priority |-> 5, profiles |-> {"CSP", "UMF"}, scope |-> s, dirs |-> d, file |-> f,
   capture |-> "", action |-> "copy", include |-> <<>>, named |-> FALSE]
Fallback(ps, d, f) ==
  [CpRoute("evidence", d, f) EXCEPT !.phase = "fallback", !.profiles = ps, !.action = "fallback", !.priority = 0]
Everything == Fallback({"UMF", "CSP"}, <<"**">>, <<"*">>)
AnyGeneric == Fallback({"GENERIC"}, <<"**">>, <<"*">>)
WithDefault(r, s) == <<r, s, Everything, AnyGeneric>>

ByDirs ==
  Each(WithDefault, Each(LAMBDA s, d : CpRoute(s, d, <<"*">>), ScopeList, DirPatterns),
       Each(LAMBDA s, d : CpRoute(s, d, <<"x", "*">>), ScopeList, DirPatterns))
ByFiles ==
  Each(WithDefault, Each(LAMBDA d, f : CpRoute("evidence", d, f), <<<<"a", "**">>>>, FilePatterns),
       Each(LAMBDA s, f : CpRoute(s, <<"**", "b">>, f), ScopeList, FilePatterns))
Ranked ==
  Each(WithDefault, <<CpRoute("scene", <<"a", "**">>, <<"*">>)>>,
       Each(LAMBDA p, q : [CpRoute("scene", <<"**">>, <<"x">>) EXCEPT !.priority = p[1], !.profiles = p[2],
                                                                      !.phase = q[1], !.capture = q[2]],
            Crossed(<<4, 5>>, <<{"UMF"}, {"GENERIC"}>>), Crossed(<<"precise", "ignore">>, <<"", "b">>)))
Included(p, q) ==
  [CpRoute("evidence", <<"b">>, <<"*">>) EXCEPT !.action = "select_and_decompress", !.named = q[2],
     !.include = <<[pattern |-> p[1], service |-> "s"], [pattern |-> p[2], service |-> q[1]]>>]
MemberPatterns(ds) == Each(LAMBDA d, f : [dirs |-> d, file |-> f], ds, <<<<"x">>, <<"*", "y">>, DoubleStar>>)
Selections ==
  Each(LAMBDA r, d : <<r, d, AnyGeneric>>,
       Each(Included, Crossed(MemberPatterns(<<<<"a">>, <<"a", "**">>>>), MemberPatterns(<<<<>>, <<"**">>, <<"a", "b">>>>)),
            Crossed(<<"s", "t", "">>, <<TRUE, FALSE>>)), <<Everything>>)
GenericDefault == [Fallback({"GENERIC"}, <<"**">>, <<"*", "*">>) EXCEPT !.priority = 1]
Defaults ==
  Each(LAMBDA r, s : <<CpRoute("scene", <<"a">>, <<"x">>), r, s>>,
       Each(LAMBDA ps, p : Fallback(ps, p[1], p[2]), <<{"UMF", "CSP"}, Profiles>>,
            Crossed(<<<<"**">>, <<"**", "**">>, <<"**", "a">>>>, <<<<"*">>, <<"?", "*">>, <<"*", "?", "?">>, <<"?">>>>)),
       <<GenericDefault, [GenericDefault EXCEPT !.phase = "ignore", !.action = "ignore", !.scope = "scene"]>>)
Missing ==
  Each(LAMBDA p, q : <<Everything,
                       [GenericDefault EXCEPT !.dirs = p[1], !.action = p[2], !.capture = q[1], !.phase = q[2]]>>,
       Crossed(<<<<"**">>, <<"**", "b">>>>, <<"copy", "ignore">>), Crossed(<<"", "b">>, <<"precise", "fallback">>))
MCRouteConfigs == ByDirs \o ByFiles \o Ranked \o Selections \o Defaults \o Missing
MCAnchors      == ("UMF" :> {"a", "b"}) @@ ("CSP" :> {"b"}) @@ ("GENERIC" :> {})
File(d, n) == [dirs |-> d, name |-> n]
MCRouteTrees ==
  {{File(<<"a">>, <<"x">>), File(<<"b", "a">>, <<"y">>), File(<<"b", "a", "b">>, <<"x", "y">>)},
   {File(<<"b", "b">>, <<"x">>), File(<<"b">>, <<"y">>), File(<<>>, <<"x">>)},
   {File(<<"c", "a">>, <<"x">>), File(<<"c", "b">>, <<"y">>), File(<<"a", "c">>, <<"y">>), File(<<"b">>, <<"x">>)}}
MCSegmentOrder == <<"a", "b", "c">>
-----------------------------------------------------------------------------
(* A damaged archive costs its own members and nothing else (Classification), *)
(* and two patterns reported in conflict do match one file (RoutePatterns).   *)
ScansAndConflicts == ScanSound /\ ConflictReal

(* After whatever went wrong, the next undisturbed start or run ends with a   *)
(* whole scene and its outcome (SceneSite and TaskRecords).                   *)
RunsRecover == NextRunRecovers /\ RestartRecovers
=============================================================================
