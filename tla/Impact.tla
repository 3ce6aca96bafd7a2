------------------------------- MODULE Impact -------------------------------
(***************************************************************************)
(* rr-core/src/impact.rs: what a change reaches.  An endpoint (a snapshot, *)
(* published or overlaid) is a record                                      *)
(*   defs:     the definitions, in symbol order, each                      *)
(*             [id, path, qual, kind, first, last, at, len, words]: the    *)
(*             lines and bytes it spans and the terms of its name;         *)
(*   refs:     its references, then its imports, each                      *)
(*             [owner, to, kind, line]: owner is a node, and to is a node  *)
(*             or what resolution said instead of one;                     *)
(*   tests, degraded: the paths of its test files and of those it could    *)
(*             not parse.                                                  *)
(* A node is <<path, qualified name>>, and a file's own node is            *)
(* <<path, FileScope>>.                                                    *)
(***************************************************************************)
EXTENDS Integers, FiniteSetsExt, SequencesExt, TLC

CONSTANTS
  DepthLimit,            \* MAX_DEPTH
  FileScope,             \* the qualified name of no definition
  Unresolved, Ambiguous  \* resolutions that are not edges

ASSUME ImpactAssumption == DepthLimit \in Nat

EdgeKinds == <<"call", "reference", "import">>
KindRank(kind) == CHOOSE i \in 1..3 : EdgeKinds[i] = kind

----------------------------------------------------------------------------
(* Graph: <<source, target, kind>> |-> [line, endpoint].                   *)

\* Mutation: one line for each call site, so that a call that moved is two.
InsertOnce(graph, edge) ==
  IF edge.endpoint = "base" THEN graph
  ELSE (<<edge.owner, edge.to, edge.kind>> :> [line |-> edge.line, endpoint |-> edge.endpoint]) @@ graph
\* Graph::insert.
Insert(graph, edge) ==
  LET key == <<edge.owner, edge.to, edge.kind>>
      site == [line |-> edge.line, endpoint |-> edge.endpoint]
      merged == [line |-> IF edge.endpoint = "target" THEN edge.line ELSE graph[key].line,
                 endpoint |-> IF edge.endpoint = graph[key].endpoint THEN edge.endpoint ELSE "both"]
  IN  [k \in DOMAIN graph \cup {key} |->
         CASE k # key -> graph[k]
           [] k = key /\ key \notin DOMAIN graph -> site
           [] OTHER -> merged]

\* What one side has to say, in the order it is read.
Sided(overlay, side) ==
  [i \in DOMAIN overlay.refs |->
     LET r == overlay.refs[i]
     IN  [owner |-> r.owner, to |-> r.to, kind |-> r.kind, line |-> r.line, endpoint |-> side]]

\* absorb, one turn of its loops: only what resolved is an edge.
Absorb(graph, edge) ==
  IF edge.to \in {Unresolved, Ambiguous} THEN graph ELSE Insert(graph, edge)

GraphOf(request) ==
  FoldLeft(Absorb, << >>, Sided(request.base, "base") \o Sided(request.target, "target"))

\* Graph::neighbours.
Neighbours(graph, node, direction) ==
  IF direction = "incoming"
  THEN {<<k[1], k[3]>> : k \in {e \in DOMAIN graph : e[2] = node}}
  ELSE {<<k[2], k[3]>> : k \in {e \in DOMAIN graph : e[1] = node}}

\* Graph::traverse, the queue taken one distance at a time.  `via` keeps the kind
\* of the first arrival at a node, a seed included; the distance that is reported
\* is the one of the distance map.
KindMet(met, node) == EdgeKinds[Min({KindRank(m[2]) : m \in {x \in met : x[1] = node}})]
Started(seeds) == [distance |-> [s \in seeds |-> 0], via |-> << >>, queue |-> seeds]
Further(graph, last, direction, walked) ==
  LET met == UNION {Neighbours(graph, n, direction) : n \in last.queue}
      nodes == {m[1] : m \in met}
      new == nodes \ DOMAIN last.distance
  IN  [distance |-> [n \in new \cup DOMAIN last.distance |->
                       IF n \in new THEN walked ELSE last.distance[n]],
       via |-> [n \in nodes \cup DOMAIN last.via |->
                  IF n \in DOMAIN last.via THEN last.via[n] ELSE KindMet(met, n)],
       queue |-> new]
Traverse(graph, seeds, direction, depth) ==
  LET walk[walked \in 0..depth] ==
        IF walked = 0 THEN Started(seeds) ELSE Further(graph, walk[walked - 1], direction, walked)
      end == walk[depth]
  IN  {[node |-> n, distance |-> end.distance[n], via |-> end.via[n]] : n \in DOMAIN end.via}

\* tarjan, one turn of its loop: the work stack holds <<node, next child>>.
OnStack(s, node) == node \in Range(s.stack)

Marked(numbers, node, n) == [m \in DOMAIN numbers \cup {node} |-> IF m = node THEN n ELSE numbers[m]]
Enter(s, node) ==
  [s EXCEPT !.index = Marked(@, node, s.next), !.low = Marked(@, node, s.next), !.next = @ + 1,
            !.stack = Append(@, node)]
Lower(s, node, seen) ==
  [s EXCEPT !.low[node] = Min({@} \cup {s.index[n] : n \in {m \in seen : OnStack(s, m)}})]
Close(s, node) ==
  LET top == CHOOSE i \in DOMAIN s.stack : s.stack[i] = node
  IN  IF s.low[node] # s.index[node] THEN s
      ELSE [s EXCEPT !.stack = SubSeq(@, 1, top - 1),
                     !.components = @ \cup {Range(SubSeq(s.stack, top, Len(s.stack)))}]
Leave(s, node, below) ==
  IF below = <<>> THEN [s EXCEPT !.work = <<>>]
  ELSE [s EXCEPT !.work = below, !.low[Last(below)[1]] = Min({@, s.low[node]})]

TarjanStep(adjacency, s) ==
  IF s.work = <<>>
  THEN LET roots == (DOMAIN adjacency) \ (DOMAIN s.index)
       IN  IF roots = {} THEN s ELSE [s EXCEPT !.work = << <<Min(roots), 0>> >>]
  ELSE
    LET node == Last(s.work)[1]
        child == Last(s.work)[2]
        list == adjacency[node]
        entered == IF child > 0 THEN s ELSE Enter(s, node)
        fresh == {i \in (child + 1)..Len(list) : list[i] \notin DOMAIN entered.index}
        upto == IF fresh = {} THEN Len(list) ELSE Min(fresh) - 1
        lowered == Lower(entered, node, {list[i] : i \in (child + 1)..upto})
        below == Front(s.work)
    IN  IF fresh # {}
        THEN [lowered EXCEPT !.work = below \o << <<node, Min(fresh)>>, <<list[Min(fresh)], 0>> >>]
        ELSE Leave(Close(lowered, node), node, below)

\* Every node is entered once, left once and returned to once for each child.
Components(adjacency) ==
  LET turns == 3 * Cardinality(DOMAIN adjacency)
      run[i \in 0..turns] ==
        IF i = 0
        THEN [index |-> << >>, low |-> << >>, next |-> 0, stack |-> <<>>, work |-> <<>>,
              components |-> {}]
        ELSE TarjanStep(adjacency, run[i - 1])
  IN  run[turns].components

\* Graph::cycles: the nodes are numbered, each with the numbers its edges lead to.
Children(graph, members) ==
  [i \in DOMAIN members |->
     LET next == SetToSeq({n \in (DOMAIN members) \X Range(EdgeKinds) :
                             <<members[i], members[n[1]], n[2]>> \in DOMAIN graph})
     IN  [n \in DOMAIN next |-> next[n][1]]]
Cycles(graph, nodes) ==
  LET members == SetToSeq(nodes)
      adjacency == Children(graph, members)
  IN  {{members[i] : i \in c} :
         c \in {d \in Components(adjacency) :
                  Cardinality(d) > 1 \/ \E i \in d : i \in Range(adjacency[i])}}

----------------------------------------------------------------------------
(* The definitions a change touches.                                       *)

\* HunkRange::lines.
HunkLines(hunk, side) ==
  IF side = "base" THEN <<hunk.old, hunk.oldLines>> ELSE <<hunk.new, hunk.newLines>>

Encloses(outer, inner) ==
  /\ outer.id # inner.id /\ outer.len > inner.len
  /\ outer.at <= inner.at /\ inner.at + inner.len <= outer.at + outer.len

Smaller(a, b) ==
  \/ a.len < b.len
  \/ a.len = b.len /\ (a.at < b.at \/ (a.at = b.at /\ a.id < b.id))

\* Mutation: the outermost definition answers for its members.
TouchedOuter(defs, hunk, side) ==
  LET start == HunkLines(hunk, side)[1]
      lines == HunkLines(hunk, side)[2]
      hit == {d \in Range(defs) : d.first < start + lines /\ start <= d.last}
  IN  {d.id : d \in {x \in hit : ~\E y \in hit : Encloses(y, x)}}
\* touched.
Touched(defs, hunk, side) ==
  LET start == HunkLines(hunk, side)[1]
      lines == HunkLines(hunk, side)[2]
      point == Max({1, start})
      at    == {d \in Range(defs) : d.first <= point /\ point <= d.last}
      hit   == {d \in Range(defs) : d.first < start + lines /\ start <= d.last}
  IN  {d.id : d \in IF lines = 0 THEN {x \in at : \A y \in at \ {x} : Smaller(x, y)}
                    ELSE {x \in hit : ~\E y \in hit : Encloses(x, y)}}

\* touched_set: no hunks means the whole file, unless its bytes did not change.
TouchedSet(defs, change, side) ==
  IF change.hunks = {} /\ ~change.identical THEN {d.id : d \in Range(defs)}
  ELSE UNION {Touched(defs, h, side) : h \in change.hunks}

KindAndName(d) == <<d.kind, d.qual>>
\* Which of the definitions of its key a definition is, and which of its file's.
Occurrence(defs, i) ==
  Cardinality({j \in DOMAIN defs : j <= i /\ KindAndName(defs[j]) = KindAndName(defs[i])})
Nth(defs, i) == Cardinality({j \in DOMAIN defs : j <= i})

\* pair: by kind and qualified name, first with first; if a renamed file pairs
\* nothing so, by position.
Pair(base, target, renamed) ==
  LET both  == (DOMAIN base) \X (DOMAIN target)
      named == {p \in both : /\ KindAndName(base[p[1]]) = KindAndName(target[p[2]])
                             /\ Occurrence(base, p[1]) = Occurrence(target, p[2])}
  IN  IF renamed /\ named = {}
      THEN {p \in both : Nth(base, p[1]) = Nth(target, p[2]) /\ base[p[1]].kind = target[p[2]].kind}
      ELSE named

\* file_symbols: the definitions of a file, at their places among all; FileChange::base_path.
FileDefs(overlay, path) == RestrictValues(overlay.defs, LAMBDA d : d.path = path)

\* changed_definitions: [def, change, endpoint].
ChangedDefinitions(request, change) ==
  LET base    == FileDefs(request.base, change.source)
      target  == FileDefs(request.target, change.path)
      matched == Pair(base, target, change.source # change.path)
      Is(p)   == \/ base[p[1]].id \in TouchedSet(base, change, "base")
                 \/ target[p[2]].id \in TouchedSet(target, change, "target")
      Anchor(d) == <<d.path, d.name>>
  IN  {[def |-> target[p[2]], change |-> "modified", endpoint |-> "both"] :
         p \in {x \in matched : Is(x)}}
      \cup {[def |-> target[p[2]], change |-> "moved", endpoint |-> "both"] :
              p \in {x \in matched : ~Is(x) /\ Anchor(base[x[1]]) # Anchor(target[x[2]])}}
      \cup {[def |-> base[i], change |-> "removed", endpoint |-> "base"] :
              i \in (DOMAIN base) \ {p[1] : p \in matched}}
      \cup {[def |-> target[j], change |-> "added", endpoint |-> "target"] :
              j \in (DOMAIN target) \ {p[2] : p \in matched}}

NodeOf(d) == <<d.path, d.qual>>

----------------------------------------------------------------------------
(* The report.                                                             *)

\* map_changes: the changes that were neither raced nor conflicted.
Described(request) ==
  {c \in request.changes : c.path \notin request.raced \cup request.conflicted}

\* Endpoint::of; is_degraded.
ChangedFileOf(request, change) ==
  [path |-> change.path,
   endpoint |-> CASE ~change.inBase -> "target" [] ~change.inTarget -> "base" [] OTHER -> "both",
   state |-> IF change.source \in request.base.degraded \/ change.path \in request.target.degraded
             THEN "degraded" ELSE "described",
   definitions |-> Cardinality(ChangedDefinitions(request, change))]
ConflictedFile(path) ==
  [path |-> path, endpoint |-> "both", state |-> "conflicted", definitions |-> 0]

\* count_observations: one endpoint's records of one changed file, by what
\* resolution said and by kind.
Observed(request, change, resolution, kinds) ==
  LET overlay == IF change.inTarget THEN request.target ELSE request.base
      path    == IF change.inTarget THEN change.path ELSE change.source
  IN  Cardinality({i \in DOMAIN overlay.refs :
                     /\ overlay.refs[i].owner[1] = path
                     /\ overlay.refs[i].to = resolution /\ overlay.refs[i].kind \in kinds})
Counted(request, resolution, kinds) ==
  MapThenSumSet(LAMBDA c : Observed(request, c, resolution, kinds), Described(request))

\* TestReason::confidence.
Confidence(reasons) ==
  IF reasons \cap {"resolved-reference", "affected-test"} # {} THEN "exact" ELSE "probable"

\* test_evidence, lexical_matches, is_test.
TestEvidence(request, changed, chains) ==
  LET words == UNION {c.def.words : c \in changed}
      Reasons(path) ==
        {IF n.distance <= 1 THEN "resolved-reference" ELSE "affected-test" :
           n \in {m \in chains : m.node[1] = path}}
        \cup {"lexical-name" : d \in {x \in Range(request.target.defs) :
                                        x.path = path /\ x.words \cap words # {}}}
        \cup {"co-change" : p \in request.coChanged \cap {path}}
  IN  {[path |-> p, reasons |-> Reasons(p), confidence |-> Confidence(Reasons(p))] :
         p \in {t \in request.target.tests : Reasons(t) # {}}}

\* impact.
ImpactReport(request) ==
  LET depth   == Min({request.depth, DepthLimit})
      graph   == GraphOf(request)
      changed == UNION {ChangedDefinitions(request, c) : c \in Described(request)}
      seeds   == {NodeOf(c.def) : c \in changed}
      direct  == {k \in DOMAIN graph : k[1] \in seeds \/ k[2] \in seeds}
      affected == Traverse(graph, seeds, "incoming", depth)
      dependencies == Traverse(graph, seeds, "outgoing", depth)
      induced == seeds \cup {n.node : n \in affected}
      Distance(node) == IF \E n \in affected : n.node = node
                        THEN (CHOOSE n \in affected : n.node = node).distance ELSE 0
  IN  [status  |-> IF request.raced = {} THEN "complete" ELSE "partial",
       files   |-> {ConflictedFile(p) : p \in request.conflicted}
                     \cup {ChangedFileOf(request, c) : c \in Described(request)},
       definitions |-> changed,
       direct  |-> {[edge |-> k, line |-> graph[k].line, endpoint |-> graph[k].endpoint] : k \in direct},
       affected |-> affected,
       dependencies |-> dependencies,
       cycles  |-> {[members |-> c, distance |-> Min({Distance(n) : n \in c})] :
                      c \in Cycles(graph, induced)},
       tests   |-> TestEvidence(request, changed, affected \cup dependencies),
       resolution |-> [exact |-> Cardinality(direct),
                       unresolvedCalls |-> Counted(request, Unresolved, {"call"}),
                       unresolvedReferences |-> Counted(request, Unresolved, {"reference"}),
                       unfollowed |-> Counted(request, Unresolved, {"import"}),
                       ambiguous |-> Counted(request, Ambiguous, Range(EdgeKinds))],
       diagnostics |-> {<<"error", p>> : p \in request.raced}
                         \cup {<<"warning", p>> : p \in request.conflicted}]

----------------------------------------------------------------------------
\* The edges either endpoint resolved.
Pointers(request) ==
  {<<r.owner, r.to>> : r \in {x \in Range(request.base.refs) \cup Range(request.target.refs) :
                               x.to \notin {Unresolved, Ambiguous}}}

\* Chains(edges, seeds, n): what exactly n edges lead to a seed from.
Before(edges, nodes) == {e[1] : e \in {x \in edges : x[2] \in nodes}}
Chains(edges, seeds, length) ==
  LET from[n \in 0..length] == IF n = 0 THEN seeds ELSE Before(edges, from[n - 1])
  IN  from[length]

\* traverse: "distance means shortest evidence chain", over what either endpoint
\* resolved; every definition within the depth is reported, none beyond it, a
\* seed stays at zero, and a closure is listed at an endpoint that saw its edge.
ReachIsExact(request, report) ==
  LET depth == Min({request.depth, DepthLimit})
      seeds == {NodeOf(c.def) : c \in report.definitions}
      edges == Pointers(request)
      Right(closure, arrows) ==
        LET at == [l \in 1..depth |-> Chains(arrows, seeds, l)] IN
        /\ {n.node : n \in closure} = UNION Range(at)
        /\ \A n \in closure :
             n.distance = IF n.node \in seeds THEN 0 ELSE Min({l \in 1..depth : n.node \in at[l]})
  IN  /\ Right(report.affected, edges)
      /\ Right(report.dependencies, {<<e[2], e[1]>> : e \in edges})
      /\ \A d \in report.direct :
           d.endpoint = (IF \A o \in {request.base, request.target} :
                              \E r \in Range(o.refs) : <<r.owner, r.to, r.kind>> = d.edge THEN "both"
                         ELSE IF \E r \in Range(request.base.refs) : <<r.owner, r.to, r.kind>> = d.edge
                              THEN "base" ELSE "target")

\* cycles: the maximal sets of affected definitions that reach one another
\* through affected definitions.
CyclesAreWhole(request, report) ==
  LET nodes == {NodeOf(c.def) : c \in report.definitions} \cup {n.node : n \in report.affected}
      inside == {e \in Pointers(request) : e[1] \in nodes /\ e[2] \in nodes}
      Reaches(m, n) == \E l \in 1..Cardinality(nodes) : m \in Chains(inside, {n}, l)
  IN  {c.members : c \in report.cycles}
        = {{n \in nodes : Reaches(m, n) /\ Reaches(n, m)} : m \in {x \in nodes : Reaches(x, x)}}

\* touched, pair, changed_definitions: of the definitions a hunk meets, each is
\* reported or encloses one that is; none is reported as modified that only meets
\* hunks through definitions it encloses; a definition one side alone declares is
\* reported as added or removed, unless a rename left no name to compare; and no
\* raced or conflicted file says anything of a definition.
ChangesAreFound(request, report) ==
  /\ \A c \in report.definitions :
       \E x \in Described(request) : c.def.path \in {x.path, x.source}
  /\ \A c \in Described(request) :
       LET Defs(side) == Range(IF side = "base" THEN FileDefs(request.base, c.source)
                               ELSE FileDefs(request.target, c.path))
           Reported(changes) == {x.def : x \in {y \in report.definitions :
                                                y.change \in changes /\ y.def.path = c.path}}
           Meets(d, h, side) == LET start == HunkLines(h, side)[1]
                                    lines == HunkLines(h, side)[2]
                                IN  IF lines = 0 THEN d.first <= Max({1, start}) /\ Max({1, start}) <= d.last
                                    ELSE \E l \in start..(start + lines - 1) : d.first <= l /\ l <= d.last
           unnamed == c.source # c.path
                      /\ {KindAndName(d) : d \in Defs("base")} \cap {KindAndName(d) : d \in Defs("target")} = {}
       IN  /\ \A h \in c.hunks : \A d \in {x \in Defs("target") : h.newLines > 0 /\ Meets(x, h, "target")} :
                \/ d \in Reported({"modified", "added"})
                \/ \E e \in Reported({"modified", "added"}) : Encloses(d, e) /\ Meets(e, h, "target")
           /\ c.hunks # {} => \A d \in Reported({"modified"}) :
                \E side \in {"base", "target"}, h \in c.hunks : \E e \in Defs(side) :
                  /\ (IF side = "target" THEN e = d ELSE unnamed \/ KindAndName(e) = KindAndName(d))
                  /\ Meets(e, h, side)
                  /\ ~\E f \in Defs(side) : Encloses(e, f) /\ Meets(f, h, side)
           /\ ~unnamed =>
                /\ \A d \in Defs("base") : KindAndName(d) \notin {KindAndName(t) : t \in Defs("target")} =>
                     [def |-> d, change |-> "removed", endpoint |-> "base"] \in report.definitions
                /\ \A d \in Defs("target") : KindAndName(d) \notin {KindAndName(b) : b \in Defs("base")} =>
                     d \in Reported({"added"})
=============================================================================
