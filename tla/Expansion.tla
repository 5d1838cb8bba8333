------------------------------- MODULE Expansion -------------------------------
(* What a source hands over to be landed: archives are unpacked, selected     *)
(* from or expanded recursively (src/app/core/archive.py and nested.py of     *)
(* src/app/services/extraction).  A body is a leaf, a gzip around one body,   *)
(* or an archive with members.  TLC only: the expansion is recursive.         *)
EXTENDS Classification, TLC

CONSTANTS
    SuffixOf,       \* segment -> "plain", "gz", "zip" or "odd" (unsupported)
    Bare,           \* gzip segment -> the segment without its last .gz
    MaxMembers, MaxSingle, MaxTotal, MaxSegments, MaxDepth     \* UnpackLimit

-----------------------------------------------------------------------------
(* Names and trees.                                                           *)
Without(f, ds) == [x \in DOMAIN f \ ds |-> f[x]]
Suffix(p) == SuffixOf[Last(p)]
BarePath(p) == Front(p) \o <<Bare[Last(p)]>>

Precedes(p, q) ==
    \E k \in 0 .. Len(p) : /\ IsPrefix(SubSeq(p, 1, k), q) /\ k < Len(q)
                           /\ k = Len(p) \/ p[k + 1] < q[k + 1]
(* rglob and sort: the files of a directory in the order of their paths.      *)
SortedFiles(fs) == SetToSortSeq(DOMAIN fs, Precedes)

Error(p, code) == [member |-> p, code |-> code]

(* unpack_zip and unpack_tar treat their members alike: one member that       *)
(* cannot be written is an error of its own, and only a member whose name is  *)
(* already a directory raises out of the loop.                                *)
UnpackMember(acc, m) ==
    LET p == m.path
        refuse(code) == [acc EXCEPT !.errors = Append(@, Error(p, code)), !.seen = @ \cup {p}]
        made == [acc EXCEPT !.dirs = @ \cup Above(p), !.seen = @ \cup {p}]
    IN CASE acc.fatal -> acc
         [] p = <<>> -> refuse("unsafe_path")
         [] Len(p) > MaxSegments -> refuse("member_path_depth_exceeded")
         [] p \in acc.seen -> refuse("duplicate_member")
         [] m.body.size > MaxSingle -> refuse("file_too_large")
         [] p \in acc.dirs -> [acc EXCEPT !.fatal = TRUE]
         [] Above(p) \cap DOMAIN acc.fs # {} -> refuse("unsafe_path")
         [] m.body.torn -> [made EXCEPT !.errors = Append(@, Error(p, "archive_corrupt"))]
         [] acc.total + m.body.size > MaxTotal ->
               [made EXCEPT !.errors = Append(@, Error(p, "total_bytes_exceeded"))]
         [] OTHER -> [made EXCEPT !.fs = (p :> m.body) @@ @, !.total = @ + m.body.size]

Unpacked(items) ==
    LET start == [fs |-> <<>>, dirs |-> {}, seen |-> {}, total |-> 0, errors |-> <<>>,
                  fatal |-> Len(items) > MaxMembers]
    IN FoldLeft(UnpackMember, start, items)

(* An archive file that cannot be read, or is no archive, fails as a whole.   *)
OpenArchive(p, body) ==
    IF Suffix(p) # "zip" \/ body.torn
    THEN [fs |-> <<>>, dirs |-> {}, seen |-> {}, total |-> 0, errors |-> <<>>, fatal |-> TRUE]
    ELSE Unpacked(body.items)

(* unpack_gzip and _decompress_member_gzip: the output is created             *)
(* exclusively; on any error the output path is unlinked, also when the error *)
(* is that a file is already there.  A directory there cannot be unlinked.    *)
GzipError(body) == IF body.torn THEN "archive_corrupt"
                   ELSE IF body.items[1].body.size > MaxSingle THEN "file_too_large" ELSE "none"

Gunzip(acc, p) ==
    LET out == BarePath(p)
        code == CASE out \in DOMAIN acc.fs -> "target_conflict"
                  [] out \in acc.dirs -> "unsafe_path"
                  [] OTHER -> GzipError(acc.fs[p])
    IN IF code = "none"
       THEN [acc EXCEPT !.fs = (out :> acc.fs[p].items[1].body) @@ Without(@, {p}), !.out = Append(@, out)]
       ELSE [acc EXCEPT !.errors = Append(@, Error(p, code)), !.fs = Without(@, {out})]

-----------------------------------------------------------------------------
(* What is known of a source before its members are gone through.             *)
Opened(u) == [fs |-> u.fs, dirs |-> u.dirs, errors |-> u.errors, out |-> <<>>, skipped |-> <<>>,
              fatal |-> u.fatal]

(* expand_archive_members and decompress_matching_members: one level, then    *)
(* the gzip members the route names.                                          *)
Expanded(route, p, body) ==
    LET u == OpenArchive(p, body)
        start == Opened(u)
        one(acc, q) == IF Suffix(q) = "gz" /\ Last(q) \in route.gunzip THEN Gunzip(acc, q)
                       ELSE [acc EXCEPT !.out = Append(@, q)]
    IN IF u.fatal THEN start ELSE FoldLeft(one, start, SortedFiles(u.fs))

(* select_and_decompress: exclude first, then include; an include that names  *)
(* two services is an error of the whole source.                              *)
Selected(route, p, body) ==
    LET u == OpenArchive(p, body)
        start == Opened(u)
        services(q) == {i[2] : i \in {j \in route.include : j[1] = Last(q)}}
        one(acc, q) ==
            CASE acc.fatal -> acc
              [] Last(q) \in route.exclude \/ services(q) = {} -> [acc EXCEPT !.skipped = Append(@, q)]
              [] Cardinality(services(q)) > 1 -> [acc EXCEPT !.fatal = TRUE]
              [] Suffix(q) = "gz" -> Gunzip(acc, q)
              [] OTHER -> [acc EXCEPT !.out = Append(@, q)]
    IN IF u.fatal THEN start ELSE FoldLeft(one, start, SortedFiles(u.fs))

(* _expand_nested_archives: each archive below an output root is expanded in  *)
(* a directory of its own, its files are moved beside it unless the name is   *)
(* taken, and the archive is removed.                                         *)
RECURSIVE Tree(_, _, _), Nested(_, _, _)

MoveBeside(acc, child, inner) ==
    LET move(a, q) ==
            LET d == Front(child) \o q
                taken == d \in DOMAIN a.fs \cup a.dirs
            IN IF taken \/ Above(d) \cap DOMAIN a.fs # {}
               THEN [a EXCEPT !.errors = Append(@, Error(d, IF taken THEN "target_conflict" ELSE "unsafe_path"))]
               ELSE [a EXCEPT !.fs = (d :> inner.fs[q]) @@ @, !.dirs = @ \cup Above(d)]
    IN FoldLeft(move, acc, SortedFiles(inner.fs))

(* Mutant. *)
NestedChildSilent(acc, child, depth) ==
    IF depth + 1 > MaxDepth /\ Suffix(child) # "plain" THEN [acc EXCEPT !.fs = Without(@, {child})]
    ELSE LET inner == Tree(<<Last(child)>>, acc.fs[child], depth + 1)
         IN IF Suffix(child) \in {"plain", "odd"} THEN acc
            ELSE MoveBeside([acc EXCEPT !.fs = Without(@, {child})], child, inner)

NestedChild(acc, child, depth) ==
    LET drop(a) == [a EXCEPT !.fs = Without(@, {child})]
        fail(code) == drop([acc EXCEPT !.errors = Append(@, Error(child, code))])
        inner == Tree(<<Last(child)>>, acc.fs[child], depth + 1)
        prefixed == [i \in 1 .. Len(inner.errors) |->
                        [inner.errors[i] EXCEPT !.member = Front(child) \o @]]
    IN CASE Suffix(child) = "plain" -> acc
         [] Suffix(child) = "odd" -> fail("archive_corrupt")
         [] depth + 1 > MaxDepth -> fail("archive_depth_exceeded")
         [] OTHER -> drop(MoveBeside([acc EXCEPT !.errors = @ \o prefixed], child, inner))

Nested(fs, dirs, depth) ==
    FoldLeft(LAMBDA acc, child : NestedChild(acc, child, depth),
             [fs |-> fs, dirs |-> dirs, errors |-> <<>>], SortedFiles(fs))

(* _expand_recursive_tree: a gzip is opened and what comes out is expanded;   *)
(* an archive is unpacked and expanded, and when its unpacking raises, what   *)
(* was written before stays, unexpanded.                                      *)
Tree(p, body, depth) ==
    LET u == OpenArchive(p, body)
        named == IF Suffix(p) # "gz" /\ depth = 0 THEN Whole ELSE p
        lost(code) == [fs |-> <<>>, errors |-> <<Error(named, code)>>]
        below(fs, dirs, errors) ==
            LET n == Nested(fs, dirs, depth) IN [fs |-> n.fs, errors |-> errors \o n.errors]
    IN CASE Suffix(p) = "gz" /\ GzipError(body) # "none" -> lost(GzipError(body))
         [] Suffix(p) = "gz" -> below(BarePath(p) :> body.items[1].body, Above(p), <<>>)
         [] Suffix(p) = "odd" -> lost("archive_corrupt")
         [] u.fatal -> [fs |-> u.fs, errors |-> Append(u.errors, Error(named, "archive_corrupt"))]
         [] OTHER -> below(u.fs, u.dirs, u.errors)

ExpandedFully(source) ==
    LET t == Tree(source.suffix, source.body, 0)
    IN [fs |-> t.fs, errors |-> t.errors, out |-> SortedFiles(t.fs), skipped |-> <<>>, fatal |-> FALSE]

-----------------------------------------------------------------------------
(* The files to land, the errors and what was not selected.                   *)
FromRoute(route, src) ==
    CASE route.action = "expand" -> Expanded(route, src.path, src.body)
      [] route.action = "select" -> Selected(route, src.path, src.body)
      [] OTHER -> ExpandedFully(src)

Handed(member, path, content) == [member |-> member, path |-> path, content |-> content]

Handled(src) ==
    LET route == Routes[SelectRoute(src.fits)]
        plain == \/ route.action = "copy"
                 \/ route.action = "expand_recursive" /\ Suffix(src.path) = "plain"
        code == IF route.action = "select" /\ ~OpenArchive(src.path, src.body).fatal
                THEN "invalid_classification_config" ELSE "archive_corrupt"
        content(q, fs) == IF q \in DOMAIN fs THEN fs[q] ELSE Gone
        files(result) ==
            IF result.fatal
            THEN [landing |-> <<>>, errors |-> <<Error(Whole, code)>>, skipped |-> <<>>]
            ELSE [landing |-> [i \in 1 .. Len(result.out) |->
                                 Handed(result.out[i], result.out[i], content(result.out[i], result.fs))],
                  errors |-> result.errors, skipped |-> result.skipped]
    IN IF plain
       THEN [landing |-> <<Handed(Whole, src.suffix, src.body)>>, errors |-> <<>>, skipped |-> <<>>]
       ELSE files(FromRoute(route, src))

-----------------------------------------------------------------------------
(* What a plain extraction of a body would give: the path of every leaf.      *)
RECURSIVE Leaves(_, _)
Leaves(p, body) ==
    CASE Suffix(p) = "gz" -> Leaves(BarePath(p), body.items[1].body)
      [] Suffix(p) = "zip" ->
            FlattenSeq([i \in 1 .. Len(body.items) |->
                Leaves((IF p = <<>> THEN <<>> ELSE Front(p)) \o body.items[i].path, body.items[i].body)])
      [] OTHER -> <<<<p, body>>>>

RECURSIVE Sound(_)
Sound(body) ==
    ~body.torn /\ \A i \in DOMAIN body.items : Sound(body.items[i].body)
RECURSIVE Height(_)
Height(body) ==
    IF body.items = <<>> THEN 0
    ELSE 1 + FoldLeft(LAMBDA n, m : LET h == Height(m.body) IN IF h > n THEN h ELSE n, 0, body.items)
RECURSIVE Fits(_)
Fits(body) == /\ Len(body.items) <= MaxMembers
              /\ FoldLeft(LAMBDA n, m : n + m.body.size, 0, body.items) <= MaxTotal
              /\ \A i \in DOMAIN body.items :
                     /\ Len(body.items[i].path) <= MaxSegments /\ body.items[i].body.size <= MaxSingle
                     /\ Fits(body.items[i].body)

(* A clean source: nothing in it is torn or unsupported, everything is within *)
(* the limits, and no two of its members ask for the same path.               *)
Clean(src) ==
    LET leaves == Leaves(src.path, src.body)
        paths == [i \in 1 .. Len(leaves) |-> leaves[i][1]]
        named == \A i \in DOMAIN src.body.items : Suffix(src.path) = "gz" \/ src.body.items[i].path # <<>>
    IN /\ named /\ Sound(src.body) /\ Fits(src.body) /\ Height(src.body) <= MaxDepth + 1
       /\ IsInjective(paths)
       /\ \A i, j \in DOMAIN paths : paths[i] \notin Above(paths[j])
       /\ \A i \in DOMAIN paths : Suffix(paths[i]) # "odd"
       /\ \A i, j \in DOMAIN src.body.items : src.body.items[i].path \notin Above(src.body.items[j].path)

(* What must become of a source: for every leaf the member it is landed as,   *)
(* its content, and the paths a record about it may speak of (its own, those  *)
(* of the archives around it, or the source as a whole).  A recursive route   *)
(* goes to the leaves, expand and select one level and through the gzip       *)
(* members the route opens, the other routes take the source as it is.        *)
Due(names, member, body) == [names |-> names \cup {member, Whole}, member |-> member, body |-> body]

RECURSIVE DueBelow(_, _, _)
DueBelow(names, p, body) ==
    LET below(q, b) == DueBelow(names \cup {p}, q, b)
    IN CASE p = <<>> \/ body.torn \/ body.items = <<>> -> {Due(names, p, body)}
         [] Suffix(p) = "gz" -> below(BarePath(p), body.items[1].body)
         [] Suffix(p) = "zip" ->
               UNION {below(IF names = {} THEN m.path ELSE Front(p) \o m.path, m.body) : m \in Range(body.items)}
         [] OTHER -> {Due(names, p, body)}

DueOneLevel(route, m) ==
    LET opened == /\ m.path # <<>> /\ Suffix(m.path) = "gz" /\ ~m.body.torn
                  /\ route.action = "select" \/ Last(m.path) \in route.gunzip
    IN IF opened THEN Due({m.path}, BarePath(m.path), m.body.items[1].body)
       ELSE Due({m.path}, m.path, m.body)

DueOf(src) ==
    LET route == Routes[SelectRoute(src.fits)]
        asItIs == \/ ~IsHandled(src) \/ route.action = "copy"
                  \/ src.body.torn \/ Suffix(src.path) \notin {"gz", "zip"}
    IN CASE asItIs -> {Due({src.suffix}, Whole, src.body)}
         [] route.action = "expand_recursive" -> DueBelow({}, src.suffix, src.body)
         [] OTHER -> {DueOneLevel(route, m) : m \in Range(src.body.items)}

(* Nothing is dropped without a trace (SC-010): at the end everything a       *)
(* source is due to give is landed as that member, with its own content,      *)
(* unless a record says that it, an archive it lies in or the whole source    *)
(* was ignored or failed.                                                     *)
NothingUnaccounted ==
    Ended => \A s \in DOMAIN sources : \A due \in DueOf(sources[s]) :
        \/ \E e \in Range(landed) : <<e.source, e.member, e.content>> = <<s, due.member, due.body>>
        \/ \E r \in Range(ignored) \cup Range(failures) : r.source = s /\ r.member \in due.names

(* One damaged source costs the others nothing (SC-011): while no copy has    *)
(* failed, a source that is clean has no failure on record, whatever the      *)
(* sources around it hold; only a route that names a member for two services, *)
(* or a file landed earlier that lies where it needs a directory, stops it.   *)
CleanNeverFails ==
    copyFaults = LandFaults => \A f \in Range(failures) :
        LET src == sources[f.source]
            path == IF f.member = Whole THEN src.suffix ELSE f.member
            wanted == <<Routes[SelectRoute(src.fits)].root>> \o path
        IN Clean(src) => \/ f.code = "invalid_classification_config"
                         \/ \E t \in DOMAIN disk : t.base \in Above(wanted)

(* One damaged archive costs its own members and nothing else, on the record. *)
ScanSound == NothingUnaccounted /\ CleanNeverFails /\ LocalFailuresPublish

(* SC-011 and spec.md:101 of specs/038 say that a broken gzip costs no other  *)
(* file: the plain neighbour of a gzip lands whatever the gzip holds.         *)
NeighbourLands ==
    Ended /\ copyFaults = LandFaults => \A s \in DOMAIN sources :
        LET items == sources[s].body.items IN
        sources[s].fits # {} /\ Routes[SelectRoute(sources[s].fits)].action = "expand"
          /\ Suffix(sources[s].path) = "zip" /\ ~sources[s].body.torn
        => \A i \in DOMAIN items :
               (items[i].path # <<>> /\ Suffix(items[i].path) = "plain" /\ ~items[i].body.torn
                /\ \A j \in DOMAIN items : j # i => items[j].path # items[i].path)
               => \E e \in Range(landed) : e.source = s /\ e.content = items[i].body

=============================================================================
