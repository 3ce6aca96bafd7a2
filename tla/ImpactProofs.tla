---------------------------- MODULE ImpactProofs ----------------------------
(***************************************************************************)
(* Proofs about the report of a change (Impact), for overlays and changes  *)
(* of any size: what the change reaches and at which distance, which       *)
(* definitions it changed, and which cycles it is in.                      *)
(*                                                                         *)
(* The cycles come from Tarjan's algorithm.  Its run is reasoned about in  *)
(* two layers: on the sets its stacks stand for, an invariant says that    *)
(* what was left is a union of whole rings and that the low number of a    *)
(* node is the number of one it leads to; then each turn of the loop is    *)
(* shown to keep that invariant, and to leave one turn less to go.         *)
(***************************************************************************)
EXTENDS AlgorithmProofs

----------------------------------------------------------------------------
(* The graph of both endpoints.                                            *)

KeyOf(edge) == <<edge.owner, edge.to, edge.kind>>
IsEdge(edge) == edge.to \notin {Unresolved, Ambiguous}
Endpoints == {"base", "target", "both"}
Keys(edges) == {KeyOf(edges[i]) : i \in DOMAIN edges}
Sites(edges) == [line : {edges[i].line : i \in DOMAIN edges}, endpoint : Endpoints]
Merged(edges) == UNION {[A -> Sites(edges)] : A \in SUBSET Keys(edges)}
IsSided(edges) == \A i \in DOMAIN edges : edges[i].endpoint \in {"base", "target"}

\* Inserting an edge keeps a graph a graph.
LEMMA InsertTyped ==
  ASSUME NEW edges, IsSided(edges), NEW graph \in Merged(edges), NEW i \in DOMAIN edges
  PROVE  Absorb(graph, edges[i]) \in Merged(edges)
<1> DEFINE edge == edges[i]
           key == KeyOf(edge)
           after == Insert(graph, edge)
<1>1. PICK A \in SUBSET Keys(edges) : graph \in [A -> Sites(edges)]
  BY DEF Merged
<1>2. key \in Keys(edges) /\ edge.endpoint \in {"base", "target"}
  BY DEF Keys, IsSided
<1>3. after \in [A \cup {key} -> Sites(edges)]
  <2>1. DOMAIN graph = A /\ after = Insert(graph, edge)
    BY <1>1
  <2>2. \A k \in A : /\ graph[k] \in Sites(edges) /\ graph[k].endpoint \in Endpoints
                     /\ graph[k].line \in {edges[j].line : j \in DOMAIN edges}
    BY <1>1 DEF Sites
  <2>3. edge.line \in {edges[j].line : j \in DOMAIN edges}
    OBVIOUS
  <2> QED
    BY <1>1, <1>2, <2>1, <2>2, <2>3 DEF Insert, KeyOf, Sites, Endpoints
<1>4. after \in Merged(edges)
  BY <1>2, <1>3 DEF Merged
<1> QED
  BY <1>4 DEF Absorb

\* The fold over the edges is what absorbing them one by one gives.
LEMMA GraphUnfolds ==
  ASSUME NEW Listed, NEW edges \in Seq(Listed), IsSided(edges)
  PROVE  \E d \in [0..Len(edges) -> Merged(edges)] :
           /\ d[0] = << >> /\ d[Len(edges)] = FoldLeft(Absorb, << >>, edges)
           /\ \A k \in 1..Len(edges) : d[k] = Absorb(d[k - 1], edges[k])
<1> DEFINE D == DOMAIN edges
           n == Len(edges)
           G == Merged(edges)
           pick == [s \in (SUBSET D) \ {{}} |-> Max(s)]
           step == [p \in D \X G |-> Absorb(p[2], edges[p[1]])]
           Folds(f) == f = [s \in SUBSET D |-> IF s = {} THEN << >>
                                               ELSE Absorb(f[s \ {Max(s)}], edges[Max(s)])]
           f0 == CHOOSE f : Folds(f)
<1>0. D = 1..n /\ n \in Nat /\ IsFiniteSet(D)
  BY FS_Interval
<1>1. \A s \in (SUBSET D) \ {{}} : Max(s) \in s /\ \A m \in s : m <= Max(s)
  <2> TAKE s \in (SUBSET D) \ {{}}
  <2>1. s \in SUBSET Nat /\ IsFiniteSet(s) /\ s # {}
    BY <1>0, FS_Subset
  <2> QED
    BY <2>1, MaxIsGreatest
<1>2. Picks(pick, D)
  BY <1>1 DEF Picks
<1>3. step \in [D \X G -> G]
  BY InsertTyped
<1>4. << >> \in G
  <2>1. << >> \in [{} -> Sites(edges)]
    OBVIOUS
  <2> QED
    BY <2>1 DEF Merged
<1>5. PICK g \in [SUBSET D -> G] : Recursion(g, D, << >>, step, pick)
  <2> HIDE DEF step, pick, D, G
  <2> QED
    BY <1>0, <1>2, <1>3, <1>4, RecursionExists
<1> HIDE DEF G
<1>6. Folds(g)
  <2>1. \A s \in SUBSET D : s # {} => g[s] = Absorb(g[s \ {Max(s)}], edges[Max(s)])
    <3> TAKE s \in SUBSET D
    <3> SUFFICES ASSUME s # {} PROVE g[s] = Absorb(g[s \ {Max(s)}], edges[Max(s)])
      OBVIOUS
    <3>1. pick[s] = Max(s) /\ Max(s) \in D /\ g[s \ {Max(s)}] \in G
      BY <1>1
    <3>2. g[s] = step[<<pick[s], g[s \ {pick[s]}]>>]
      BY <1>5 DEF Recursion
    <3> QED
      BY <3>1, <3>2
  <2>2. g[{}] = << >>
    BY <1>5 DEF Recursion
  <2> HIDE DEF D
  <2> QED
    BY <2>1, <2>2
<1>7. Folds(f0)
  <2> HIDE DEF Folds
  <2> QED
    BY <1>6
<1>8. FoldLeft(Absorb, << >>, edges) = f0[D]
  BY DEF FoldLeft, MapThenFoldSet
<1> HIDE DEF f0
<1>9. f0[{}] = << >> /\ \A s \in SUBSET D : s # {} => f0[s] = Absorb(f0[s \ {Max(s)}], edges[Max(s)])
  BY <1>7
<1> DEFINE d == [k \in 0..n |-> f0[1..k]]
<1>10. d[0] = << >>
  <2>1. 1..0 = {} /\ 0 \in 0..n
    BY <1>0
  <2> QED
    BY <1>9, <2>1
<1>11. ASSUME NEW k \in 1..n PROVE d[k] = Absorb(d[k - 1], edges[k])
  <2>1. 1..k \in SUBSET D /\ 1..k # {} /\ k \in 1..k
    BY <1>0
  <2>2. Max(1..k) = k
    <3>1. Max(1..k) \in 1..k /\ k <= Max(1..k)
      BY <1>1, <2>1
    <3> QED
      BY <1>0, <3>1
  <2>3. (1..k) \ {k} = 1..(k - 1) /\ k \in 0..n /\ k - 1 \in 0..n
    BY <1>0
  <2>4. f0[1..k] = Absorb(f0[(1..k) \ {Max(1..k)}], edges[Max(1..k)])
    BY <1>9, <2>1
  <2> QED
    BY <2>2, <2>3, <2>4
<1>12. d[n] = FoldLeft(Absorb, << >>, edges)
  BY <1>0, <1>8
<1>13. \A k \in 0..n : d[k] \in G
  <2> DEFINE Good == {k \in 0..n : d[k] \in G}
  <2>1. 0 \in Good
    BY <1>0, <1>4, <1>10
  <2>2. ASSUME NEW k \in 0..(n - 1), k \in Good PROVE k + 1 \in Good
    <3>1. k + 1 \in 1..n /\ (k + 1) - 1 = k /\ k + 1 \in 0..n
      BY <1>0
    <3>2. d[k + 1] = Absorb(d[k], edges[k + 1])
      BY <1>11, <3>1
    <3>3. Absorb(d[k], edges[k + 1]) \in G
      BY <1>0, <2>2, <3>1, InsertTyped DEF G
    <3> QED
      BY <3>1, <3>2, <3>3
  <2> HIDE DEF d, Good
  <2>3. \A k \in 0..n : k \in Good
    BY <1>0, <2>1, <2>2, InductionUpTo
  <2> QED
    BY <2>3 DEF Good
<1>14. d \in [0..n -> G]
  BY <1>13
<1> HIDE DEF d
<1> QED
  BY <1>10, <1>11, <1>12, <1>14 DEF G

\* The edges seen so far are the keys of the graph, each at the endpoints that saw it.
Saw(edges, k, key, side) ==
  \E i \in 1..k : IsEdge(edges[i]) /\ KeyOf(edges[i]) = key /\ edges[i].endpoint = side
SeenBy(base, target) == IF base /\ target THEN "both" ELSE IF base THEN "base" ELSE "target"
Gathers(graph, edges, k) ==
  /\ \A key : key \in DOMAIN graph <=> Saw(edges, k, key, "base") \/ Saw(edges, k, key, "target")
  /\ \A key \in DOMAIN graph :
       graph[key].endpoint = SeenBy(Saw(edges, k, key, "base"), Saw(edges, k, key, "target"))

\* What one more edge adds to what was seen.
LEMMA SawOneMore ==
  ASSUME NEW edges, NEW k \in Nat, NEW key, NEW side
  PROVE  Saw(edges, k + 1, key, side) <=>
           \/ Saw(edges, k, key, side)
           \/ IsEdge(edges[k + 1]) /\ KeyOf(edges[k + 1]) = key /\ edges[k + 1].endpoint = side
<1>1. 1..(k + 1) = (1..k) \cup {k + 1}
  OBVIOUS
<1> QED
  BY <1>1 DEF Saw

\* Absorbing one more edge gathers it.
LEMMA AbsorbGathers ==
  ASSUME NEW edges, IsSided(edges), NEW k \in Nat, k + 1 \in DOMAIN edges,
         NEW graph \in Merged(edges), Gathers(graph, edges, k)
  PROVE  Gathers(Absorb(graph, edges[k + 1]), edges, k + 1)
<1> DEFINE edge == edges[k + 1]
           new == KeyOf(edge)
           after == Absorb(graph, edge)
<1>1. CASE ~IsEdge(edge)
  <2>1. after = graph
    BY <1>1 DEF Absorb, IsEdge
  <2>2. \A key, side : Saw(edges, k + 1, key, side) <=> Saw(edges, k, key, side)
    BY <1>1, SawOneMore
  <2> QED
    BY <2>1, <2>2 DEF Gathers, SeenBy
<1>2. CASE IsEdge(edge)
  <2>1. edge.endpoint \in {"base", "target"}
    BY DEF IsSided
  <2>2. after = Insert(graph, edge)
    BY <1>2 DEF Absorb, IsEdge
  <2>3. DOMAIN after = DOMAIN graph \cup {new}
    BY <2>2 DEF Insert, KeyOf
  <2>4. \A key \in DOMAIN graph : key # new => after[key] = graph[key]
    BY <2>2 DEF Insert, KeyOf
  <2>5. after[new].endpoint =
          IF new \notin DOMAIN graph \/ graph[new].endpoint = edge.endpoint THEN edge.endpoint ELSE "both"
    BY <2>2 DEF Insert, KeyOf
  <2>6. \A key, side : Saw(edges, k + 1, key, side) <=>
                         Saw(edges, k, key, side) \/ (key = new /\ side = edge.endpoint)
    BY <1>2, SawOneMore
  <2> HIDE DEF after, new, edge
  <2>7. \A key : key \in DOMAIN after <=> Saw(edges, k + 1, key, "base") \/ Saw(edges, k + 1, key, "target")
    BY <2>1, <2>3, <2>6 DEF Gathers
  <2>8. \A key \in DOMAIN after : key # new =>
          after[key].endpoint = SeenBy(Saw(edges, k + 1, key, "base"), Saw(edges, k + 1, key, "target"))
    BY <2>3, <2>4, <2>6 DEF Gathers, SeenBy
  <2>9. after[new].endpoint = SeenBy(Saw(edges, k + 1, new, "base"), Saw(edges, k + 1, new, "target"))
    <3>1. new \in DOMAIN graph <=> Saw(edges, k, new, "base") \/ Saw(edges, k, new, "target")
      BY DEF Gathers
    <3>2. new \in DOMAIN graph =>
            graph[new].endpoint = SeenBy(Saw(edges, k, new, "base"), Saw(edges, k, new, "target"))
      BY DEF Gathers
    <3>3. \A side : Saw(edges, k + 1, new, side) <=> Saw(edges, k, new, side) \/ side = edge.endpoint
      BY <2>6
    <3> QED
      BY <2>1, <2>5, <3>1, <3>2, <3>3 DEF SeenBy
  <2> QED
    BY <2>7, <2>8, <2>9 DEF Gathers, after, edge
<1> QED
  BY <1>1, <1>2

\* What a side has to say is its records, each marked with the side.
As(side, r) == [owner |-> r.owner, to |-> r.to, kind |-> r.kind, line |-> r.line, endpoint |-> side]
LEMMA SidedIs ==
  ASSUME NEW overlay, overlay.refs \in Seq(Range(overlay.refs)), NEW side,
         NEW E, \A r \in Range(overlay.refs) : As(side, r) \in E
  PROVE  /\ Sided(overlay, side) \in Seq(E) /\ Len(Sided(overlay, side)) = Len(overlay.refs)
         /\ DOMAIN overlay.refs = 1..Len(overlay.refs) /\ Len(overlay.refs) \in Nat
         /\ \A i \in 1..Len(overlay.refs) : Sided(overlay, side)[i] = As(side, overlay.refs[i])
<1> DEFINE refs == overlay.refs
           n == Len(refs)
<1>1. DOMAIN refs = 1..n /\ n \in Nat
  OBVIOUS
<1>2. Sided(overlay, side) = [i \in 1..n |-> As(side, refs[i])]
  BY <1>1 DEF Sided, As
<1>3. \A i \in 1..n : As(side, refs[i]) \in E
  BY <1>1 DEF Range
<1> HIDE DEF n, refs, As
<1>4. [i \in 1..n |-> As(side, refs[i])] \in Seq(E) /\ Len([i \in 1..n |-> As(side, refs[i])]) = n
  BY <1>1, <1>3
<1> QED
  BY <1>1, <1>2, <1>4 DEF n, refs

\* Two lists, one behind the other.
LEMMA Concatenated ==
  ASSUME NEW E, NEW s \in Seq(E), NEW t \in Seq(E)
  PROVE  /\ s \o t \in Seq(E) /\ Len(s \o t) = Len(s) + Len(t) /\ Len(s) \in Nat /\ Len(t) \in Nat
         /\ DOMAIN (s \o t) = 1..(Len(s) + Len(t))
         /\ \A i \in 1..Len(s) : (s \o t)[i] = s[i] /\ i \in 1..(Len(s) + Len(t))
         /\ \A i \in 1..Len(t) : (s \o t)[Len(s) + i] = t[i] /\ Len(s) + i \in 1..(Len(s) + Len(t))
         /\ \A i \in 1..(Len(s) + Len(t)) : i \in 1..Len(s) \/ \E j \in 1..Len(t) : i = Len(s) + j
<1>1. /\ s \o t \in Seq(E) /\ Len(s \o t) = Len(s) + Len(t) /\ Len(s) \in Nat /\ Len(t) \in Nat
      /\ DOMAIN (s \o t) = 1..(Len(s) + Len(t))
  OBVIOUS
<1>2. \A i \in 1..Len(s) : (s \o t)[i] = s[i] /\ i \in 1..(Len(s) + Len(t))
  OBVIOUS
<1>3. \A i \in 1..Len(t) : (s \o t)[Len(s) + i] = t[i] /\ Len(s) + i \in 1..(Len(s) + Len(t))
  OBVIOUS
<1>4. ASSUME NEW i \in 1..(Len(s) + Len(t)), i \notin 1..Len(s) PROVE \E j \in 1..Len(t) : i = Len(s) + j
  <2>1. i - Len(s) \in 1..Len(t) /\ i = Len(s) + (i - Len(s))
    BY <1>1, <1>4
  <2> QED
    BY <2>1
<1> QED
  BY <1>1, <1>2, <1>3, <1>4

\* The merged graph holds what either overlay resolved, marked with who saw it.
Resolved(overlay, key) == \E r \in Range(overlay.refs) : IsEdge(r) /\ KeyOf(r) = key
LEMMA GraphIsMerged ==
  ASSUME NEW input, input.base.refs \in Seq(Range(input.base.refs)),
         input.target.refs \in Seq(Range(input.target.refs))
  PROVE  /\ \A key : key \in DOMAIN GraphOf(input) <=> Resolved(input.base, key) \/ Resolved(input.target, key)
         /\ \A key \in DOMAIN GraphOf(input) :
              GraphOf(input)[key].endpoint = SeenBy(Resolved(input.base, key), Resolved(input.target, key))
<1> DEFINE b == Sided(input.base, "base")
           t == Sided(input.target, "target")
           edges == b \o t
           n == Len(edges)
           E == {As("base", r) : r \in Range(input.base.refs)}
                  \cup {As("target", r) : r \in Range(input.target.refs)}
<1>e. /\ \A r \in Range(input.base.refs) : As("base", r) \in E
      /\ \A r \in Range(input.target.refs) : As("target", r) \in E
  <2> HIDE DEF As
  <2> QED
    OBVIOUS
<1>a. \A r, side : As(side, r).endpoint = side /\ As(side, r).to = r.to /\ KeyOf(As(side, r)) = KeyOf(r)
  BY DEF As, KeyOf
<1> HIDE DEF As, E
<1>1. /\ b \in Seq(E) /\ Len(b) = Len(input.base.refs) /\ DOMAIN input.base.refs = 1..Len(b)
      /\ \A i \in 1..Len(b) : b[i] = As("base", input.base.refs[i])
  BY <1>e, SidedIs
<1>2. /\ t \in Seq(E) /\ Len(t) = Len(input.target.refs) /\ DOMAIN input.target.refs = 1..Len(t)
      /\ \A i \in 1..Len(t) : t[i] = As("target", input.target.refs[i])
  BY <1>e, SidedIs
<1>3. /\ edges \in Seq(E) /\ n = Len(b) + Len(t) /\ n \in Nat /\ DOMAIN edges = 1..n
      /\ \A i \in 1..Len(b) : edges[i] = b[i] /\ i \in 1..n
      /\ \A i \in 1..Len(t) : edges[Len(b) + i] = t[i] /\ Len(b) + i \in 1..n
      /\ \A i \in 1..n : i \in 1..Len(b) \/ \E j \in 1..Len(t) : i = Len(b) + j
  <2> HIDE DEF b, t
  <2>1. b \in Seq(E) /\ t \in Seq(E)
    BY <1>1, <1>2
  <2>2. /\ edges \in Seq(E) /\ n = Len(b) + Len(t) /\ Len(b) \in Nat /\ Len(t) \in Nat
    BY <2>1, Concatenated
  <2>3. /\ DOMAIN (b \o t) = 1..(Len(b) + Len(t))
        /\ \A i \in 1..Len(b) : (b \o t)[i] = b[i] /\ i \in 1..(Len(b) + Len(t))
        /\ \A i \in 1..Len(t) : (b \o t)[Len(b) + i] = t[i] /\ Len(b) + i \in 1..(Len(b) + Len(t))
        /\ \A i \in 1..(Len(b) + Len(t)) : i \in 1..Len(b) \/ \E j \in 1..Len(t) : i = Len(b) + j
    BY ONLY <2>1, Concatenated, Zenon
  <2>4. n \in Nat
    <3> HIDE DEF n
    <3> QED
      BY <2>2
  <2> HIDE DEF n
  <2> QED
    BY ONLY <2>2, <2>3, <2>4
<1>0. GraphOf(input) = FoldLeft(Absorb, << >>, edges)
  BY DEF GraphOf, b, t
<1> HIDE DEF b, t, E, edges, n
<1>b. \A i \in 1..Len(b) : /\ edges[i].endpoint = "base" /\ edges[i].to = input.base.refs[i].to
                            /\ KeyOf(edges[i]) = KeyOf(input.base.refs[i])
  BY <1>1, <1>3, <1>a
<1>t. \A i \in 1..Len(t) :
        /\ edges[Len(b) + i].endpoint = "target" /\ edges[Len(b) + i].to = input.target.refs[i].to
        /\ KeyOf(edges[Len(b) + i]) = KeyOf(input.target.refs[i])
  BY <1>2, <1>3, <1>a
<1>4. IsSided(edges)
  <2>1. ASSUME NEW i \in DOMAIN edges PROVE edges[i].endpoint \in {"base", "target"}
    <3>1. CASE i \in 1..Len(b)
      BY <1>b, <3>1
    <3>2. CASE i \notin 1..Len(b)
      <4>1. PICK j \in 1..Len(t) : i = Len(b) + j
        BY <1>3, <3>2
      <4> QED
        BY <1>t, <4>1
    <3> QED
      BY <3>1, <3>2
  <2> QED
    BY <2>1 DEF IsSided
<1>5. \A key : Saw(edges, n, key, "base") <=> Resolved(input.base, key)
  <2> TAKE key
  <2>1. ASSUME Saw(edges, n, key, "base") PROVE Resolved(input.base, key)
    <3>1. PICK i \in 1..n : IsEdge(edges[i]) /\ KeyOf(edges[i]) = key /\ edges[i].endpoint = "base"
      BY <2>1 DEF Saw
    <3>2. i \in 1..Len(b)
      BY <1>3, <1>t, <3>1
    <3> QED
      BY <1>1, <1>b, <3>1, <3>2 DEF Resolved, Range, IsEdge
  <2>2. ASSUME Resolved(input.base, key) PROVE Saw(edges, n, key, "base")
    <3>1. PICK i \in DOMAIN input.base.refs : IsEdge(input.base.refs[i]) /\ KeyOf(input.base.refs[i]) = key
      BY <2>2 DEF Resolved, Range
    <3>2. i \in 1..Len(b) /\ i \in 1..n
      BY <1>1, <1>3, <3>1
    <3> QED
      BY <1>b, <3>1, <3>2 DEF Saw, IsEdge
  <2> QED
    BY <2>1, <2>2
<1>6. \A key : Saw(edges, n, key, "target") <=> Resolved(input.target, key)
  <2> TAKE key
  <2>1. ASSUME Saw(edges, n, key, "target") PROVE Resolved(input.target, key)
    <3>1. PICK i \in 1..n : IsEdge(edges[i]) /\ KeyOf(edges[i]) = key /\ edges[i].endpoint = "target"
      BY <2>1 DEF Saw
    <3>2. PICK j \in 1..Len(t) : i = Len(b) + j
      BY <1>3, <1>b, <3>1
    <3> QED
      BY <1>2, <1>t, <3>1, <3>2 DEF Resolved, Range, IsEdge
  <2>2. ASSUME Resolved(input.target, key) PROVE Saw(edges, n, key, "target")
    <3>1. PICK j \in DOMAIN input.target.refs :
            IsEdge(input.target.refs[j]) /\ KeyOf(input.target.refs[j]) = key
      BY <2>2 DEF Resolved, Range
    <3>2. j \in 1..Len(t) /\ Len(b) + j \in 1..n
      BY <1>2, <1>3, <3>1
    <3> QED
      BY <1>t, <3>1, <3>2 DEF Saw, IsEdge
  <2> QED
    BY <2>1, <2>2
<1>8. PICK d \in [0..n -> Merged(edges)] :
        /\ d[0] = << >> /\ d[n] = FoldLeft(Absorb, << >>, edges)
        /\ \A k \in 1..n : d[k] = Absorb(d[k - 1], edges[k])
  BY <1>3, <1>4, GraphUnfolds DEF n
<1>9. \A k \in 0..n : Gathers(d[k], edges, k)
  <2> DEFINE Good == {k \in 0..n : Gathers(d[k], edges, k)}
  <2>1. 0 \in Good
    <3>1. DOMAIN d[0] = {} /\ \A key, side : ~Saw(edges, 0, key, side)
      BY <1>8 DEF Saw
    <3> QED
      BY <1>3, <3>1 DEF Gathers
  <2>2. ASSUME NEW k \in 0..(n - 1), k \in Good PROVE k + 1 \in Good
    <3>1. k \in Nat /\ k + 1 \in DOMAIN edges /\ k + 1 \in 1..n /\ (k + 1) - 1 = k /\ k \in 0..n /\ k + 1 \in 0..n
      BY <1>3
    <3>2. d[k + 1] = Absorb(d[k], edges[k + 1])
      BY <1>8, <3>1
    <3>3. d[k] \in Merged(edges) /\ Gathers(d[k], edges, k)
      BY <2>2, <3>1
    <3>4. Gathers(Absorb(d[k], edges[k + 1]), edges, k + 1)
      BY <1>4, <3>1, <3>3, AbsorbGathers
    <3> QED
      BY <3>1, <3>2, <3>4
  <2> HIDE DEF Good, n
  <2>3. \A k \in 0..n : k \in Good
    BY <1>3, <2>1, <2>2, InductionUpTo
  <2> QED
    BY <2>3 DEF Good
<1>10. Gathers(GraphOf(input), edges, n)
  BY <1>0, <1>3, <1>8, <1>9
<1> QED
  BY <1>5, <1>6, <1>10 DEF Gathers, SeenBy

----------------------------------------------------------------------------
(* The traversal, one distance after another.                              *)

\* A closure is walked along arrows, each from a node to one it is reached from.
Arrows(graph, direction) ==
  IF direction = "incoming" THEN {<<k[1], k[2]>> : k \in DOMAIN graph}
                            ELSE {<<k[2], k[1]>> : k \in DOMAIN graph}

\* The neighbours of the queue are what leads to it.
LEMMA MetIsBefore ==
  ASSUME NEW graph, NEW direction, NEW queue
  PROVE  {m[1] : m \in UNION {Neighbours(graph, n, direction) : n \in queue}}
           = Before(Arrows(graph, direction), queue)
<1>1. ASSUME NEW x, NEW n
      PROVE  (\E m \in Neighbours(graph, n, direction) : m[1] = x) <=> <<x, n>> \in Arrows(graph, direction)
  <2>1. CASE direction = "incoming"
    <3>1. Neighbours(graph, n, direction) = {<<k[1], k[3]>> : k \in {e \in DOMAIN graph : e[2] = n}}
      BY <2>1 DEF Neighbours
    <3>2. Arrows(graph, direction) = {<<k[1], k[2]>> : k \in DOMAIN graph}
      BY <2>1 DEF Arrows
    <3>3. (\E m \in Neighbours(graph, n, direction) : m[1] = x) <=> \E k \in DOMAIN graph : k[2] = n /\ k[1] = x
      <4>1. ASSUME NEW k \in DOMAIN graph, k[2] = n, k[1] = x
            PROVE  \E m \in Neighbours(graph, n, direction) : m[1] = x
        <5>1. <<k[1], k[3]>> \in Neighbours(graph, n, direction) /\ <<k[1], k[3]>>[1] = x
          BY <3>1, <4>1
        <5> QED
          BY <5>1
      <4>2. ASSUME NEW m \in Neighbours(graph, n, direction), m[1] = x
            PROVE  \E k \in DOMAIN graph : k[2] = n /\ k[1] = x
        BY <3>1, <4>2
      <4> QED
        BY <4>1, <4>2
    <3>4. <<x, n>> \in Arrows(graph, direction) <=> \E k \in DOMAIN graph : k[2] = n /\ k[1] = x
      BY <3>2
    <3> QED
      BY <3>3, <3>4
  <2>2. CASE direction # "incoming"
    <3>1. Neighbours(graph, n, direction) = {<<k[2], k[3]>> : k \in {e \in DOMAIN graph : e[1] = n}}
      BY <2>2 DEF Neighbours
    <3>2. Arrows(graph, direction) = {<<k[2], k[1]>> : k \in DOMAIN graph}
      BY <2>2 DEF Arrows
    <3>3. (\E m \in Neighbours(graph, n, direction) : m[1] = x) <=> \E k \in DOMAIN graph : k[1] = n /\ k[2] = x
      <4>1. ASSUME NEW k \in DOMAIN graph, k[1] = n, k[2] = x
            PROVE  \E m \in Neighbours(graph, n, direction) : m[1] = x
        <5>1. <<k[2], k[3]>> \in Neighbours(graph, n, direction) /\ <<k[2], k[3]>>[1] = x
          BY <3>1, <4>1
        <5> QED
          BY <5>1
      <4>2. ASSUME NEW m \in Neighbours(graph, n, direction), m[1] = x
            PROVE  \E k \in DOMAIN graph : k[1] = n /\ k[2] = x
        BY <3>1, <4>2
      <4> QED
        BY <4>1, <4>2
    <3>4. <<x, n>> \in Arrows(graph, direction) <=> \E k \in DOMAIN graph : k[1] = n /\ k[2] = x
      BY <3>2
    <3> QED
      BY <3>3, <3>4
  <2> QED
    BY <2>1, <2>2
<1>2. \A e \in Arrows(graph, direction) : e = <<e[1], e[2]>>
  BY DEF Arrows
<1>3. \A x : x \in {m[1] : m \in UNION {Neighbours(graph, n, direction) : n \in queue}}
               <=> \E n \in queue : <<x, n>> \in Arrows(graph, direction)
  <2> TAKE x
  <2>1. x \in {m[1] : m \in UNION {Neighbours(graph, n, direction) : n \in queue}}
          <=> \E n \in queue : \E m \in Neighbours(graph, n, direction) : m[1] = x
    OBVIOUS
  <2> QED
    BY <1>1, <2>1
<1>4. \A x : x \in Before(Arrows(graph, direction), queue)
               <=> \E n \in queue : <<x, n>> \in Arrows(graph, direction)
  BY <1>2 DEF Before
<1> QED
  BY <1>3, <1>4

\* Chains of one length are what leads to the chains one shorter.
LEMMA ChainsUnfold ==
  ASSUME NEW edges, NEW seeds, NEW length \in Nat
  PROVE  Chains(edges, seeds, 0) = seeds
         /\ Chains(edges, seeds, length + 1) = Before(edges, Chains(edges, seeds, length))
<1> DEFINE V == SUBSET (seeds \cup {e[1] : e \in edges})
           From(n) == CHOOSE f : f = [k \in 0..n |-> IF k = 0 THEN seeds ELSE Before(edges, f[k - 1])]
<1>1. ASSUME NEW n \in Nat
      PROVE  /\ From(n)[0] = seeds
             /\ \A k \in 1..n : From(n)[k] = Before(edges, From(n)[k - 1])
             /\ Chains(edges, seeds, n) = From(n)[n]
  <2> DEFINE step == [p \in (1..n) \X V |-> Before(edges, p[2])]
  <2>1. step \in [(1..n) \X V -> V] /\ seeds \in V
    BY DEF Before
  <2>2. PICK d \in [0..n -> V] : Unrolls(d, n, seeds, step)
    <3> HIDE DEF step, V
    <3> QED
      BY <2>1, UnrollsExist
  <2>3. d[0] = seeds /\ \A k \in 1..n : d[k] = Before(edges, d[k - 1])
    <3> HIDE DEF V
    <3>1. ASSUME NEW k \in 1..n PROVE d[k] = Before(edges, d[k - 1])
      <4>1. k - 1 \in 0..n /\ k \in 0..n
        OBVIOUS
      <4> QED
        BY <2>2, <4>1 DEF Unrolls
    <3> QED
      BY <2>2, <3>1 DEF Unrolls
  <2>4. d = [k \in 0..n |-> IF k = 0 THEN seeds ELSE Before(edges, d[k - 1])]
    <3> HIDE DEF V
    <3> QED
      BY <2>3
  <2>5. From(n) = [k \in 0..n |-> IF k = 0 THEN seeds ELSE Before(edges, From(n)[k - 1])]
    BY <2>4
  <2>6. Chains(edges, seeds, n) = From(n)[n]
    BY DEF Chains
  <2> HIDE DEF From
  <2>7. From(n)[0] = seeds /\ \A k \in 1..n : From(n)[k] = Before(edges, From(n)[k - 1])
    BY <2>5
  <2> QED
    BY <2>6, <2>7
<1> HIDE DEF From
<1>2. \A k \in 0..length : From(length + 1)[k] = From(length)[k]
  <2> DEFINE Good == {k \in 0..length : From(length + 1)[k] = From(length)[k]}
  <2>1. 0 \in Good
    BY <1>1
  <2>2. ASSUME NEW k \in 0..(length - 1), k \in Good PROVE k + 1 \in Good
    <3>1. k + 1 \in 1..length /\ k + 1 \in 1..(length + 1) /\ (k + 1) - 1 = k /\ length + 1 \in Nat
          /\ k + 1 \in 0..length
      OBVIOUS
    <3>2. From(length + 1)[k + 1] = Before(edges, From(length + 1)[k])
          /\ From(length)[k + 1] = Before(edges, From(length)[k])
      BY <1>1, <3>1
    <3> QED
      BY <2>2, <3>1, <3>2
  <2> HIDE DEF Good
  <2>3. \A k \in 0..length : k \in Good
    BY <2>1, <2>2, InductionUpTo
  <2> QED
    BY <2>3 DEF Good
<1>3. Chains(edges, seeds, 0) = seeds
  BY <1>1
<1>4. Chains(edges, seeds, length + 1) = Before(edges, From(length + 1)[length])
  <2>1. length + 1 \in Nat /\ length + 1 \in 1..(length + 1) /\ (length + 1) - 1 = length
    OBVIOUS
  <2> QED
    BY <1>1, <2>1
<1>5. From(length + 1)[length] = Chains(edges, seeds, length)
  BY <1>1, <1>2
<1> QED
  BY <1>3, <1>4, <1>5

\* What one distance further finds.
LEMMA FurtherDoes ==
  ASSUME NEW graph, NEW last, NEW direction, NEW walked
  PROVE  LET nodes == Before(Arrows(graph, direction), last.queue)
             next == Further(graph, last, direction, walked)
         IN  /\ next.queue = nodes \ DOMAIN last.distance
             /\ DOMAIN next.distance = next.queue \cup DOMAIN last.distance
             /\ \A n \in next.queue : next.distance[n] = walked
             /\ \A n \in DOMAIN last.distance : next.distance[n] = last.distance[n]
             /\ DOMAIN next.via = nodes \cup DOMAIN last.via
<1> DEFINE met == UNION {Neighbours(graph, n, direction) : n \in last.queue}
           nodes == {m[1] : m \in met}
<1>1. nodes = Before(Arrows(graph, direction), last.queue)
  BY MetIsBefore
<1> HIDE DEF nodes
<1>2. Further(graph, last, direction, walked) =
        [distance |-> [n \in (nodes \ DOMAIN last.distance) \cup DOMAIN last.distance |->
                         IF n \in nodes \ DOMAIN last.distance THEN walked ELSE last.distance[n]],
         via |-> [n \in nodes \cup DOMAIN last.via |->
                    IF n \in DOMAIN last.via THEN last.via[n] ELSE KindMet(met, n)],
         queue |-> nodes \ DOMAIN last.distance]
  BY DEF Further, nodes
<1> HIDE DEF met
<1> QED
  BY <1>1, <1>2 DEF met

\* The walk is the start and then one distance further each time.
IsWalk(w, graph, seeds, direction, depth) ==
  /\ w[0] = Started(seeds)
  /\ \A k \in 1..depth : w[k] = Further(graph, w[k - 1], direction, k)
LEMMA WalkUnfolds ==
  ASSUME NEW graph, NEW seeds, NEW direction, NEW depth \in Nat
  PROVE  \E w : /\ IsWalk(w, graph, seeds, direction, depth)
                /\ Traverse(graph, seeds, direction, depth) =
                     {[node |-> n, distance |-> w[depth].distance[n], via |-> w[depth].via[n]] :
                        n \in DOMAIN w[depth].via}
<1> DEFINE N == seeds \cup {a[1] : a \in Arrows(graph, direction)}
           M == UNION {Neighbours(graph, n, direction) : n \in N}
           X == {KindMet(met, n) : met \in SUBSET M, n \in N}
           D == UNION {[A -> Nat] : A \in SUBSET N}
           K == UNION {[A -> X] : A \in SUBSET N}
           V == [distance : D, via : K, queue : SUBSET N]
           step == [p \in (1..depth) \X V |-> Further(graph, p[2], direction, p[1])]
           Walks(f) == f = [k \in 0..depth |-> IF k = 0 THEN Started(seeds)
                                               ELSE Further(graph, f[k - 1], direction, k)]
           w == CHOOSE f : Walks(f)
<1>1. Started(seeds) \in V
  <2>1. [s \in seeds |-> 0] \in [seeds -> Nat] /\ seeds \in SUBSET N
    OBVIOUS
  <2>2. [s \in seeds |-> 0] \in D
    <3> HIDE DEF N
    <3> QED
      BY <2>1
  <2>3. << >> \in [{} -> X] /\ {} \in SUBSET N
    OBVIOUS
  <2>4. << >> \in K
    <3> HIDE DEF N, X
    <3> QED
      BY <2>3
  <2> HIDE DEF N, D, K
  <2> QED
    BY <2>1, <2>2, <2>4 DEF Started
<1>2. ASSUME NEW k \in 1..depth, NEW last \in V PROVE Further(graph, last, direction, k) \in V
  <2> DEFINE met == UNION {Neighbours(graph, m, direction) : m \in last.queue}
             nodes == {m[1] : m \in met}
             new == nodes \ DOMAIN last.distance
             distance == [n \in new \cup DOMAIN last.distance |->
                            IF n \in new THEN k ELSE last.distance[n]]
             via == [n \in nodes \cup DOMAIN last.via |->
                       IF n \in DOMAIN last.via THEN last.via[n] ELSE KindMet(met, n)]
  <2>1. Further(graph, last, direction, k) = [distance |-> distance, via |-> via, queue |-> new]
    BY DEF Further
  <2>2. nodes \in SUBSET N
    <3>1. nodes = Before(Arrows(graph, direction), last.queue)
      BY MetIsBefore
    <3> HIDE DEF nodes
    <3> QED
      BY <3>1 DEF Before
  <2> HIDE DEF nodes, N, met
  <2>3. last.distance \in D /\ last.via \in K /\ last.queue \in SUBSET N
    <3> HIDE DEF D, K
    <3> QED
      OBVIOUS
  <2>4. new \in SUBSET N
    BY <2>2
  <2>5. distance \in D
    <3>1. PICK A \in SUBSET N : last.distance \in [A -> Nat]
      BY <2>3
    <3>2. distance \in [new \cup A -> Nat]
      <4>1. DOMAIN last.distance = A /\ \A n \in A : last.distance[n] \in Nat
        BY <3>1
      <4>2. k \in Nat
        OBVIOUS
      <4> QED
        BY <4>1, <4>2
    <3> HIDE DEF distance, new
    <3> QED
      BY <2>4, <3>2
  <2>6. met \in SUBSET M
    BY <2>3 DEF met
  <2>7. via \in K
    <3> HIDE DEF M
    <3>1. PICK A \in SUBSET N : last.via \in [A -> X]
      BY <2>3
    <3>2. \A n \in nodes : KindMet(met, n) \in X
      BY <2>2, <2>6
    <3> HIDE DEF X
    <3>3. via \in [nodes \cup A -> X]
      <4>1. DOMAIN last.via = A /\ \A n \in A : last.via[n] \in X
        BY <3>1
      <4> QED
        BY <3>2, <4>1
    <3> QED
      BY <2>2, <3>3
  <2> HIDE DEF D, K, distance, via, new
  <2> QED
    BY <2>1, <2>4, <2>5, <2>7
<1> HIDE DEF V
<1>3. step \in [(1..depth) \X V -> V]
  BY <1>2
<1>4. PICK g \in [0..depth -> V] : Unrolls(g, depth, Started(seeds), step)
  <2> HIDE DEF step
  <2> QED
    BY <1>1, <1>3, UnrollsExist
<1>5. g[0] = Started(seeds) /\ \A k \in 1..depth : g[k] = Further(graph, g[k - 1], direction, k)
  <2>1. ASSUME NEW k \in 1..depth PROVE g[k] = Further(graph, g[k - 1], direction, k)
    <3>1. k - 1 \in 0..depth /\ k \in 0..depth
      OBVIOUS
    <3> QED
      BY <1>4, <3>1 DEF Unrolls
  <2> QED
    BY <1>4, <2>1 DEF Unrolls
<1>6. Walks(g)
  BY <1>5
<1>7. Walks(w)
  <2> HIDE DEF Walks
  <2> QED
    BY <1>6
<1>8. Traverse(graph, seeds, direction, depth) =
        {[node |-> n, distance |-> w[depth].distance[n], via |-> w[depth].via[n]] : n \in DOMAIN w[depth].via}
  BY DEF Traverse
<1> HIDE DEF w
<1>9. IsWalk(w, graph, seeds, direction, depth)
  BY <1>7 DEF IsWalk
<1> QED
  BY <1>8, <1>9

\* After k distances the walk has met what at most k arrows lead to a seed from,
\* each at the length of its shortest chain.
Shortest(arrows, seeds, n, distance) ==
  n \in Chains(arrows, seeds, distance) /\ \A j \in 0..(distance - 1) : n \notin Chains(arrows, seeds, j)
Walked(at, arrows, seeds, k) ==
  /\ \A n : n \in DOMAIN at.distance <=> \E j \in 0..k : n \in Chains(arrows, seeds, j)
  /\ \A n : n \in DOMAIN at.via <=> \E j \in 1..k : n \in Chains(arrows, seeds, j)
  /\ \A n \in DOMAIN at.distance : at.distance[n] \in 0..k /\ Shortest(arrows, seeds, n, at.distance[n])
  /\ at.queue = {n \in DOMAIN at.distance : at.distance[n] = k}

\* Every walk does.
LEMMA WalkIsExact ==
  ASSUME NEW graph, NEW seeds, NEW direction, NEW depth \in Nat, NEW w,
         IsWalk(w, graph, seeds, direction, depth)
  PROVE  \A k \in 0..depth : Walked(w[k], Arrows(graph, direction), seeds, k)
<1> DEFINE arrows == Arrows(graph, direction)
           C(k) == Chains(arrows, seeds, k)
           Good == {k \in 0..depth : Walked(w[k], arrows, seeds, k)}
<1>1. 0 \in Good
  <2>1. w[0] = Started(seeds) /\ C(0) = seeds
    BY ChainsUnfold DEF IsWalk
  <2>2. /\ DOMAIN w[0].distance = seeds /\ \A n \in seeds : w[0].distance[n] = 0
        /\ DOMAIN w[0].via = {} /\ w[0].queue = seeds
    BY <2>1 DEF Started
  <2> HIDE DEF C
  <2>3. \A n : (\E j \in 0..0 : n \in C(j)) <=> n \in seeds
    BY <2>1
  <2>4. Walked(w[0], arrows, seeds, 0)
    BY <2>1, <2>2, <2>3 DEF Walked, Shortest, C
  <2> QED
    BY <2>4
<1>2. ASSUME NEW k \in 0..(depth - 1), k \in Good PROVE k + 1 \in Good
  <2> DEFINE last == w[k]
             next == w[k + 1]
             nodes == Before(arrows, last.queue)
  <2>1. k \in Nat /\ k + 1 \in 1..depth /\ (k + 1) - 1 = k /\ k + 1 \in 0..depth
    OBVIOUS
  <2>2. next = Further(graph, last, direction, k + 1)
    BY <2>1 DEF IsWalk
  <2>3. /\ next.queue = nodes \ DOMAIN last.distance
        /\ DOMAIN next.distance = next.queue \cup DOMAIN last.distance
        /\ \A n \in next.queue : next.distance[n] = k + 1
        /\ \A n \in DOMAIN last.distance : next.distance[n] = last.distance[n]
        /\ DOMAIN next.via = nodes \cup DOMAIN last.via
    BY <2>2, FurtherDoes
  <2>4. \A j \in Nat : C(j + 1) = Before(arrows, C(j))
    BY ChainsUnfold
  <2> HIDE DEF C, next, arrows
  <2>5. /\ \A n : n \in DOMAIN last.distance <=> \E j \in 0..k : n \in C(j)
        /\ \A n : n \in DOMAIN last.via <=> \E j \in 1..k : n \in C(j)
        /\ \A n \in DOMAIN last.distance :
             /\ last.distance[n] \in 0..k /\ n \in C(last.distance[n])
             /\ \A j \in 0..(last.distance[n] - 1) : n \notin C(j)
        /\ last.queue = {n \in DOMAIN last.distance : last.distance[n] = k}
    BY <1>2 DEF Walked, Shortest, C
  <2> HIDE DEF last, nodes
  <2>6. nodes \subseteq C(k + 1)
    <3>1. last.queue \subseteq C(k)
      BY <2>1, <2>5
    <3> QED
      BY <2>1, <2>4, <3>1 DEF nodes, Before
  <2>7. \A x \in C(k + 1) : x \in nodes \/ \E j \in 1..k : x \in C(j)
    <3> TAKE x \in C(k + 1)
    <3>1. PICK e \in arrows : e[1] = x /\ e[2] \in C(k)
      BY <2>1, <2>4 DEF Before
    <3>2. e[2] \in DOMAIN last.distance /\ last.distance[e[2]] \in 0..k
      BY <2>1, <2>5, <3>1
    <3>3. CASE last.distance[e[2]] = k
      BY <2>5, <3>1, <3>2, <3>3 DEF nodes, Before
    <3>4. CASE last.distance[e[2]] # k
      <4> DEFINE j == last.distance[e[2]]
      <4>1. j \in Nat /\ j + 1 \in 1..k
        BY <2>1, <3>2, <3>4
      <4>2. e[2] \in C(j)
        BY <2>5, <3>2
      <4>3. x \in C(j + 1)
        BY <2>4, <3>1, <4>1, <4>2 DEF Before
      <4> QED
        BY <4>1, <4>3
    <3> QED
      BY <3>3, <3>4
  <2>8. \A n : n \in DOMAIN next.distance <=> \E j \in 0..(k + 1) : n \in C(j)
    <3>1. 0..(k + 1) = (0..k) \cup {k + 1} /\ 1..k \subseteq 0..k
      BY <2>1
    <3> QED
      BY <2>3, <2>5, <2>6, <2>7, <3>1
  <2>9. \A n : n \in DOMAIN next.via <=> \E j \in 1..(k + 1) : n \in C(j)
    <3>1. 1..(k + 1) = (1..k) \cup {k + 1}
      BY <2>1
    <3> QED
      BY <2>3, <2>5, <2>6, <2>7, <3>1
  <2>10. ASSUME NEW n \in DOMAIN next.distance
         PROVE  /\ next.distance[n] \in 0..(k + 1) /\ n \in C(next.distance[n])
                /\ \A j \in 0..(next.distance[n] - 1) : n \notin C(j)
    <3>1. CASE n \in DOMAIN last.distance
      <4>1. next.distance[n] = last.distance[n] /\ last.distance[n] \in 0..k
        BY <2>3, <2>5, <3>1
      <4>2. next.distance[n] \in 0..(k + 1)
        BY <2>1, <4>1
      <4> QED
        BY <2>5, <3>1, <4>1, <4>2
    <3>2. CASE n \in next.queue
      <4>1. next.distance[n] = k + 1 /\ n \in C(k + 1) /\ n \notin DOMAIN last.distance
        BY <2>3, <2>6, <3>2
      <4>2. \A j \in 0..k : n \notin C(j)
        BY <2>5, <4>1
      <4>3. (k + 1) - 1 = k /\ k + 1 \in 0..(k + 1)
        BY <2>1
      <4> QED
        BY <4>1, <4>2, <4>3
    <3> QED
      BY <2>3, <3>1, <3>2
  <2>11. next.queue = {n \in DOMAIN next.distance : next.distance[n] = k + 1}
    <3>1. \A n \in DOMAIN last.distance : next.distance[n] # k + 1
      BY <2>1, <2>3, <2>5
    <3> QED
      BY <2>3, <3>1
  <2>12. Walked(next, arrows, seeds, k + 1)
    BY <2>8, <2>9, <2>10, <2>11 DEF Walked, Shortest, C
  <2> QED
    BY <2>1, <2>12 DEF next, arrows
<1> HIDE DEF Good
<1>3. \A k \in 0..depth : k \in Good
  BY <1>1, <1>2, InductionUpTo
<1> QED
  BY <1>3 DEF Good

\* A closure holds what a chain of its arrows leads to a seed from, at the length of
\* the shortest, and a seed at zero.
IsClosure(closure, arrows, seeds, depth) ==
  LET at == [l \in 1..depth |-> Chains(arrows, seeds, l)] IN
  /\ {n.node : n \in closure} = UNION Range(at)
  /\ \A n \in closure :
       n.distance = IF n.node \in seeds THEN 0 ELSE Min({l \in 1..depth : n.node \in at[l]})
LEMMA TraverseIsExact ==
  ASSUME NEW graph, NEW seeds, NEW direction, NEW depth \in Nat
  PROVE  IsClosure(Traverse(graph, seeds, direction, depth), Arrows(graph, direction), seeds, depth)
<1> DEFINE arrows == Arrows(graph, direction)
           C(k) == Chains(arrows, seeds, k)
           at == [l \in 1..depth |-> C(l)]
           closure == Traverse(graph, seeds, direction, depth)
<1>1. PICK w : /\ IsWalk(w, graph, seeds, direction, depth)
               /\ closure = {[node |-> n, distance |-> w[depth].distance[n], via |-> w[depth].via[n]] :
                               n \in DOMAIN w[depth].via}
  BY WalkUnfolds
<1> DEFINE end == w[depth]
<1>2. Walked(end, arrows, seeds, depth)
  <2>1. depth \in 0..depth
    OBVIOUS
  <2> QED
    BY <1>1, <2>1, WalkIsExact
<1>3. C(0) = seeds
  BY ChainsUnfold
<1> HIDE DEF C, closure, arrows
<1>4. /\ \A n : n \in DOMAIN end.distance <=> \E j \in 0..depth : n \in C(j)
      /\ \A n : n \in DOMAIN end.via <=> \E j \in 1..depth : n \in C(j)
      /\ \A n \in DOMAIN end.distance :
           /\ end.distance[n] \in 0..depth /\ n \in C(end.distance[n])
           /\ \A j \in 0..(end.distance[n] - 1) : n \notin C(j)
  BY <1>2 DEF Walked, Shortest, C
<1> HIDE DEF end
<1>5. /\ \A m \in closure : m.node \in DOMAIN end.via /\ m.distance = end.distance[m.node]
      /\ \A n \in DOMAIN end.via : \E m \in closure : m.node = n
  <2> DEFINE Entry(n) == [node |-> n, distance |-> end.distance[n], via |-> end.via[n]]
  <2>1. \A n : Entry(n).node = n /\ Entry(n).distance = end.distance[n]
    OBVIOUS
  <2>2. closure = {Entry(n) : n \in DOMAIN end.via}
    BY <1>1 DEF end
  <2> HIDE DEF Entry
  <2> QED
    BY <2>1, <2>2
<1>6. {m.node : m \in closure} = UNION Range(at)
  <2>1. \A n : n \in UNION Range(at) <=> \E j \in 1..depth : n \in C(j)
    BY DEF Range
  <2> HIDE DEF at
  <2> QED
    BY <1>4, <1>5, <2>1
<1>7. ASSUME NEW m \in closure
      PROVE  m.distance = IF m.node \in seeds THEN 0 ELSE Min({l \in 1..depth : m.node \in at[l]})
  <2> DEFINE n == m.node
             d == end.distance[n]
             S == {l \in 1..depth : n \in at[l]}
  <2>1. n \in DOMAIN end.via /\ m.distance = d
    BY <1>5
  <2>2. PICK i \in 1..depth : n \in C(i)
    BY <1>4, <2>1
  <2>3. d \in 0..depth /\ n \in C(d) /\ \A j \in 0..(d - 1) : n \notin C(j)
    BY <1>4, <2>2
  <2> HIDE DEF n, d
  <2>4. CASE n \in seeds
    <3>1. d = 0
      BY <1>3, <2>3, <2>4
    <3> QED
      BY <2>1, <2>4, <3>1 DEF n
  <2>5. CASE n \notin seeds
    <3>1. d \in 1..depth /\ d \in S
      BY <1>3, <2>3, <2>5
    <3>2. \A l \in S : d <= l
      BY <2>3
    <3>3. S \in SUBSET Nat /\ S # {}
      BY <3>1
    <3>4. Min(S) \in S /\ Min(S) <= d
      BY <3>1, <3>3, MinIsLeast
    <3>5. Min(S) = d
      BY <2>3, <3>2, <3>3, <3>4
    <3> QED
      BY <2>1, <2>5, <3>5 DEF n
  <2> QED
    BY <2>4, <2>5
<1> QED
  BY <1>6, <1>7 DEF IsClosure, C, arrows, closure

\* The arrows of the merged graph are the references either endpoint resolved.
LEMMA ArrowsArePointers ==
  ASSUME NEW input, input.base.refs \in Seq(Range(input.base.refs)),
         input.target.refs \in Seq(Range(input.target.refs))
  PROVE  /\ Arrows(GraphOf(input), "incoming") = Pointers(input)
         /\ Arrows(GraphOf(input), "outgoing") = {<<e[2], e[1]>> : e \in Pointers(input)}
<1> DEFINE G == DOMAIN GraphOf(input)
           R == {x \in Range(input.base.refs) \cup Range(input.target.refs) :
                   x.to \notin {Unresolved, Ambiguous}}
<1>1. \A key : key \in G <=> \E r \in R : <<r.owner, r.to, r.kind>> = key
  <2>1. \A key : key \in G <=> Resolved(input.base, key) \/ Resolved(input.target, key)
    BY GraphIsMerged
  <2> QED
    BY <2>1 DEF Resolved, IsEdge, KeyOf
<1>2. Pointers(input) = {<<r.owner, r.to>> : r \in R}
  BY DEF Pointers
<1> HIDE DEF G, R
<1>3. {<<k[1], k[2]>> : k \in G} = {<<r.owner, r.to>> : r \in R}
  <2>1. ASSUME NEW k \in G PROVE <<k[1], k[2]>> \in {<<r.owner, r.to>> : r \in R}
    BY <1>1
  <2>2. ASSUME NEW r \in R PROVE \E k \in G : <<k[1], k[2]>> = <<r.owner, r.to>>
    <3>1. <<r.owner, r.to, r.kind>> \in G
      BY <1>1
    <3> QED
      BY <3>1
  <2> QED
    BY <2>1, <2>2
<1>4. {<<k[2], k[1]>> : k \in G} = {<<e[2], e[1]>> : e \in {<<r.owner, r.to>> : r \in R}}
  <2>1. ASSUME NEW k \in G
        PROVE  <<k[2], k[1]>> \in {<<e[2], e[1]>> : e \in {<<r.owner, r.to>> : r \in R}}
    <3>1. PICK r \in R : <<r.owner, r.to, r.kind>> = k
      BY <1>1
    <3>2. k[1] = r.owner /\ k[2] = r.to
      BY <3>1
    <3> DEFINE e == <<r.owner, r.to>>
    <3>3. e \in {<<x.owner, x.to>> : x \in R} /\ <<k[2], k[1]>> = <<e[2], e[1]>>
      BY <3>2
    <3> HIDE DEF e
    <3> QED
      BY <3>3
  <2>2. ASSUME NEW r \in R PROVE \E k \in G : <<k[2], k[1]>> = <<r.to, r.owner>>
    <3>1. <<r.owner, r.to, r.kind>> \in G
      BY <1>1
    <3> QED
      BY <3>1
  <2> QED
    BY <2>1, <2>2
<1> QED
  BY <1>2, <1>3, <1>4 DEF Arrows, G

\* The parts of a report that say what a change reaches.
LEMMA ReportParts ==
  ASSUME NEW input
  PROVE  LET report == ImpactReport(input)
             graph == GraphOf(input)
             seeds == {NodeOf(c.def) : c \in report.definitions}
             depth == Min({input.depth, DepthLimit})
         IN  /\ report.affected = Traverse(graph, seeds, "incoming", depth)
             /\ report.dependencies = Traverse(graph, seeds, "outgoing", depth)
             /\ \A d \in report.direct : d.edge \in DOMAIN graph /\ d.endpoint = graph[d.edge].endpoint
BY DEF ImpactReport

\* Whatever either endpoint resolved, every node within the depth of a changed
\* definition is reported and none beyond it, each at the length of the shortest
\* chain that leads to it, and an edge at the endpoints that saw it (Graph::insert,
\* Graph::traverse, impact).
THEOREM ReachesAreExact ==
  ASSUME NEW input, input.depth \in Nat, input.base.refs \in Seq(Range(input.base.refs)),
         input.target.refs \in Seq(Range(input.target.refs))
  PROVE  ReachIsExact(input, ImpactReport(input))
<1> DEFINE report == ImpactReport(input)
           graph == GraphOf(input)
           seeds == {NodeOf(c.def) : c \in report.definitions}
           depth == Min({input.depth, DepthLimit})
           edges == Pointers(input)
<1>1. depth \in Nat
  <2>1. input.depth \in Int /\ DepthLimit \in Int /\ DepthLimit \in Nat
    BY ImpactAssumption
  <2> DEFINE asked == input.depth
  <2> HIDE DEF asked
  <2>2. asked \in Int /\ (asked <= DepthLimit \/ asked >= DepthLimit)
    BY <2>1 DEF asked
  <2>3. Min({asked, DepthLimit}) \in {asked, DepthLimit}
    BY <2>1, <2>2, MaxAndMinOfTwo
  <2> QED
    BY <2>1, <2>3 DEF asked
<1>2. /\ report.affected = Traverse(graph, seeds, "incoming", depth)
      /\ report.dependencies = Traverse(graph, seeds, "outgoing", depth)
      /\ \A d \in report.direct : d.edge \in DOMAIN graph /\ d.endpoint = graph[d.edge].endpoint
  BY ReportParts
<1> HIDE DEF report, graph, seeds, depth, edges
<1>3. Arrows(graph, "incoming") = edges /\ Arrows(graph, "outgoing") = {<<e[2], e[1]>> : e \in edges}
  BY ArrowsArePointers DEF graph, edges
<1>4. /\ IsClosure(report.affected, edges, seeds, depth)
      /\ IsClosure(report.dependencies, {<<e[2], e[1]>> : e \in edges}, seeds, depth)
  <2>1. IsClosure(Traverse(graph, seeds, "incoming", depth), Arrows(graph, "incoming"), seeds, depth)
    BY <1>1, TraverseIsExact
  <2>2. IsClosure(Traverse(graph, seeds, "outgoing", depth), Arrows(graph, "outgoing"), seeds, depth)
    BY <1>1, TraverseIsExact
  <2> QED
    BY <1>2, <1>3, <2>1, <2>2
<1>5. ASSUME NEW d \in report.direct
      PROVE  d.endpoint = (IF \A o \in {input.base, input.target} :
                                \E r \in Range(o.refs) : <<r.owner, r.to, r.kind>> = d.edge THEN "both"
                           ELSE IF \E r \in Range(input.base.refs) : <<r.owner, r.to, r.kind>> = d.edge
                                THEN "base" ELSE "target")
  <2> DEFINE In(o) == \E r \in Range(o.refs) : <<r.owner, r.to, r.kind>> = d.edge
  <2>1. d.edge \in DOMAIN graph /\ d.endpoint = graph[d.edge].endpoint
    BY <1>2
  <2>2. d.endpoint = SeenBy(Resolved(input.base, d.edge), Resolved(input.target, d.edge))
        /\ (Resolved(input.base, d.edge) \/ Resolved(input.target, d.edge))
    BY <2>1, GraphIsMerged DEF graph
  <2>3. PICK r \in Range(input.base.refs) \cup Range(input.target.refs) : IsEdge(r) /\ KeyOf(r) = d.edge
    BY <2>2 DEF Resolved
  <2>4. \A x : KeyOf(x) = d.edge => IsEdge(x)
    BY <2>3 DEF KeyOf, IsEdge
  <2>5. \A o : Resolved(o, d.edge) <=> In(o)
    BY <2>4 DEF Resolved, KeyOf
  <2>6. CASE In(input.base) /\ In(input.target)
    BY <2>2, <2>5, <2>6 DEF SeenBy
  <2>7. CASE In(input.base) /\ ~In(input.target)
    BY <2>2, <2>5, <2>7 DEF SeenBy
  <2>8. CASE ~In(input.base)
    BY <2>2, <2>5, <2>8 DEF SeenBy
  <2> QED
    BY <2>6, <2>7, <2>8
<1> QED
  BY <1>4, <1>5 DEF ReachIsExact, IsClosure, report, seeds, depth, edges

\* Whatever a request asks, what a change reaches is reported at its distance.
THEOREM ReachesAreServed == RequestSpec => []ReachServed
<1>1. RequestInvariant => ReachServed
  BY ReachesAreExact DEF RequestInvariant, Requested, IsOverlay, ReachServed, Answered
<1> QED
  BY <1>1, RequestsAreAnswered, PTL

----------------------------------------------------------------------------
(* The definitions a change touches.                                       *)

\* The definitions of a file are those of the overlay that are in it.
LEMMA FileDefsAre ==
  ASSUME NEW overlay, IsOverlay(overlay), NEW path
  PROVE  LET defs == FileDefs(overlay, path) IN
         /\ DOMAIN defs \in SUBSET Nat
         /\ \A i \in DOMAIN defs : defs[i].path = path
         /\ Range(defs) = {d \in Range(overlay.defs) : d.path = path}
         /\ \A d \in Range(defs) : IsDeclared(d) /\ d.path = path
         /\ \A d, e \in Range(defs) : d.id = e.id => d = e
         /\ \A i, j \in DOMAIN defs : defs[i].id = defs[j].id => i = j
<1> DEFINE all == overlay.defs
           places == {i \in DOMAIN all : all[i].path = path}
<1>1. FileDefs(overlay, path) = [i \in places |-> all[i]]
  BY DEF FileDefs, RestrictValues, Restrict
<1>2. DOMAIN all \in SUBSET Nat
  BY DEF IsOverlay
<1>3. /\ \A d \in Range(all) : IsDeclared(d)
      /\ \A i, j \in DOMAIN all : all[i].id = all[j].id => i = j
  BY DEF IsOverlay
<1> HIDE DEF all
<1> QED
  BY <1>1, <1>2, <1>3 DEF Range, all

\* Whether a hunk meets a definition, as ChangesAreFound has it.
Met(d, h, side) ==
  LET start == HunkLines(h, side)[1]
      lines == HunkLines(h, side)[2]
  IN  IF lines = 0 THEN d.first <= Max({1, start}) /\ Max({1, start}) <= d.last
      ELSE \E l \in start..(start + lines - 1) : d.first <= l /\ l <= d.last

\* A hunk that takes lines meets a definition that starts before it ends and ends after it starts.
LEMMA MetByLines ==
  ASSUME NEW h, IsHunk(h), NEW side, NEW d, IsDeclared(d), HunkLines(h, side)[2] # 0
  PROVE  Met(d, h, side) <=>
           d.first < HunkLines(h, side)[1] + HunkLines(h, side)[2] /\ HunkLines(h, side)[1] <= d.last
<1> DEFINE start == HunkLines(h, side)[1]
           lines == HunkLines(h, side)[2]
           first == d.first
           last == d.last
           common == IF first <= start THEN start ELSE first
<1>1. start \in Nat /\ lines \in Nat /\ lines # 0
  BY DEF HunkLines, IsHunk
<1>2. first \in Nat /\ last \in Nat /\ first <= last
  BY DEF IsDeclared
<1>3. Met(d, h, side) <=> \E l \in start..(start + lines - 1) : first <= l /\ l <= last
  BY <1>1 DEF Met
<1> HIDE DEF start, lines, first, last
<1>4. ASSUME first < start + lines, start <= last
      PROVE  common \in start..(start + lines - 1) /\ first <= common /\ common <= last
  BY <1>1, <1>2, <1>4
<1>5. ASSUME NEW l \in start..(start + lines - 1), first <= l, l <= last
      PROVE  first < start + lines /\ start <= last
  BY <1>1, <1>2, <1>5
<1> HIDE DEF common
<1>6. (\E l \in start..(start + lines - 1) : first <= l /\ l <= last) <=> (first < start + lines /\ start <= last)
  BY <1>4, <1>5
<1> QED
  BY <1>3, <1>6 DEF start, lines, first, last

\* What encloses a definition encloses what it encloses.
LEMMA EnclosesFurther ==
  ASSUME NEW defs, \A d \in Range(defs) : IsDeclared(d), \A d, e \in Range(defs) : d.id = e.id => d = e,
         NEW x \in Range(defs), NEW y \in Range(defs), NEW z \in Range(defs), Encloses(x, y), Encloses(y, z)
  PROVE  Encloses(x, z)
<1>1. /\ x.len \in Nat /\ y.len \in Nat /\ z.len \in Nat
      /\ x.at \in Nat /\ y.at \in Nat /\ z.at \in Nat
  BY DEF IsDeclared
<1>2. /\ x.len > z.len /\ x.at <= z.at /\ z.at + z.len <= x.at + x.len
  BY <1>1 DEF Encloses
<1>3. x # z
  BY <1>1, <1>2
<1> QED
  BY <1>2, <1>3 DEF Encloses

\* Of the definitions with a quality, each has one in it, or is one, that encloses none with it.
LEMMA InnermostInside ==
  ASSUME NEW defs, \A d \in Range(defs) : IsDeclared(d), \A d, e \in Range(defs) : d.id = e.id => d = e,
         NEW Hit \in SUBSET Range(defs), NEW d \in Hit
  PROVE  \E e \in Hit : (e = d \/ Encloses(d, e)) /\ ~\E y \in Hit : Encloses(e, y)
<1> DEFINE In == {y \in Hit : Encloses(d, y)}
           Lens == {y.len : y \in In}
<1> SUFFICES ASSUME In # {}
             PROVE  \E e \in Hit : Encloses(d, e) /\ ~\E y \in Hit : Encloses(e, y)
  OBVIOUS
<1>1. \A y \in Hit : y.len \in Nat /\ y \in Range(defs)
  BY DEF IsDeclared
<1>2. PICK m \in Lens : \A n \in Lens : m <= n
  <2>1. Lens \in SUBSET Nat /\ Lens # {}
    BY <1>1
  <2> HIDE DEF Lens
  <2> QED
    BY <2>1, LeastNatural
<1>3. PICK e \in In : e.len = m
  OBVIOUS
<1>4. ASSUME NEW y \in Hit, Encloses(e, y) PROVE FALSE
  <2>1. Encloses(d, y)
    BY <1>1, <1>4, EnclosesFurther
  <2>2. y \in In /\ m <= y.len
    BY <1>2, <2>1
  <2>3. y.len < e.len
    BY <1>1, <1>4 DEF Encloses
  <2> QED
    BY <1>1, <1>3, <2>2, <2>3
<1> QED
  BY <1>3, <1>4

\* A hunk that takes lines touches, of the definitions it meets, each that encloses none of them.
LEMMA TouchedByLines ==
  ASSUME NEW defs, \A d \in Range(defs) : IsDeclared(d), NEW h, IsHunk(h), NEW side, HunkLines(h, side)[2] # 0
  PROVE  Touched(defs, h, side) =
           {d.id : d \in {x \in Range(defs) : /\ Met(x, h, side)
                                              /\ ~\E y \in Range(defs) : Met(y, h, side) /\ Encloses(x, y)}}
<1> DEFINE hit == {d \in Range(defs) : /\ d.first < HunkLines(h, side)[1] + HunkLines(h, side)[2]
                                       /\ HunkLines(h, side)[1] <= d.last}
<1>1. Touched(defs, h, side) = {d.id : d \in {x \in hit : ~\E y \in hit : Encloses(x, y)}}
  BY DEF Touched
<1>2. hit = {d \in Range(defs) : Met(d, h, side)}
  BY MetByLines
<1> HIDE DEF hit
<1> QED
  BY <1>1, <1>2

\* What a hunk touches it meets, and none of what it meets is inside.
LEMMA TouchedIsMet ==
  ASSUME NEW defs, \A d \in Range(defs) : IsDeclared(d), \A d, e \in Range(defs) : d.id = e.id => d = e,
         NEW h, IsHunk(h), NEW side, NEW d \in Range(defs), d.id \in Touched(defs, h, side)
  PROVE  Met(d, h, side) /\ ~\E f \in Range(defs) : Encloses(d, f) /\ Met(f, h, side)
<1>1. CASE HunkLines(h, side)[2] # 0
  BY <1>1, TouchedByLines
<1>2. CASE HunkLines(h, side)[2] = 0
  <2> DEFINE point == Max({1, HunkLines(h, side)[1]})
             at == {x \in Range(defs) : x.first <= point /\ point <= x.last}
  <2>1. Touched(defs, h, side) = {x.id : x \in {y \in at : \A z \in at \ {y} : Smaller(y, z)}}
    BY <1>2 DEF Touched
  <2>2. \A x \in Range(defs) : x \in at <=> Met(x, h, side)
    BY <1>2 DEF Met
  <2> HIDE DEF at
  <2>3. PICK x \in at : x.id = d.id /\ \A z \in at \ {x} : Smaller(x, z)
    BY <2>1
  <2>4. x = d
    BY <2>3 DEF at
  <2>5. ASSUME NEW f \in Range(defs), Encloses(d, f), Met(f, h, side) PROVE FALSE
    <3>1. f \in at /\ f # d
      BY <2>2, <2>5 DEF Encloses
    <3>2. Smaller(d, f) /\ d.len \in Nat /\ f.len \in Nat
      BY <2>3, <2>4, <3>1 DEF IsDeclared
    <3> QED
      BY <2>5, <3>2 DEF Smaller, Encloses
  <2> QED
    BY <2>2, <2>3, <2>4, <2>5
<1> QED
  BY <1>1, <1>2

\* Keys that both versions of a file declare pair their first definitions, so that only
\* a renamed file without one pairs by place.
LEMMA PairByName ==
  ASSUME NEW base, NEW target, DOMAIN base \in SUBSET Nat, DOMAIN target \in SUBSET Nat, NEW renamed \in BOOLEAN,
         ~(renamed /\ {KindAndName(d) : d \in Range(base)} \cap {KindAndName(d) : d \in Range(target)} = {})
  PROVE  \A p \in Pair(base, target, renamed) : KindAndName(base[p[1]]) = KindAndName(target[p[2]])
<1> DEFINE both == (DOMAIN base) \X (DOMAIN target)
           named == {p \in both : /\ KindAndName(base[p[1]]) = KindAndName(target[p[2]])
                                  /\ Occurrence(base, p[1]) = Occurrence(target, p[2])}
           First(defs, i) == \A j \in DOMAIN defs : KindAndName(defs[j]) = KindAndName(defs[i]) => i <= j
<1>1. ASSUME NEW defs, DOMAIN defs \in SUBSET Nat, NEW d \in Range(defs)
      PROVE  \E i \in DOMAIN defs : KindAndName(defs[i]) = KindAndName(d) /\ First(defs, i)
  <2> DEFINE Same == {i \in DOMAIN defs : KindAndName(defs[i]) = KindAndName(d)}
  <2>1. Same \in SUBSET Nat /\ Same # {}
    BY <1>1 DEF Range
  <2>2. PICK i \in Same : \A j \in Same : i <= j
    <3> HIDE DEF Same
    <3> QED
      BY <2>1, LeastNatural
  <2> QED
    BY <2>2
<1>2. ASSUME NEW defs, DOMAIN defs \in SUBSET Nat, NEW i \in DOMAIN defs, First(defs, i)
      PROVE  Occurrence(defs, i) = 1
  <2>1. {j \in DOMAIN defs : j <= i /\ KindAndName(defs[j]) = KindAndName(defs[i])} = {i}
    <3>1. \A j \in DOMAIN defs : j \in Nat
      BY <1>2
    <3>2. \A j \in DOMAIN defs : j <= i /\ i <= j => j = i
      BY <3>1
    <3> QED
      BY <1>2, <3>1, <3>2
  <2> QED
    BY <2>1, FS_Singleton DEF Occurrence
<1>3. CASE renamed
  <2>1. PICK b \in Range(base), t \in Range(target) : KindAndName(b) = KindAndName(t)
    BY <1>3
  <2>2. PICK i \in DOMAIN base : KindAndName(base[i]) = KindAndName(b) /\ First(base, i)
    BY <1>1
  <2>3. PICK j \in DOMAIN target : KindAndName(target[j]) = KindAndName(t) /\ First(target, j)
    BY <1>1
  <2> HIDE DEF First
  <2>4. Occurrence(base, i) = 1 /\ Occurrence(target, j) = 1
    BY <1>2, <2>2, <2>3
  <2>5. <<i, j>> \in named
    BY <2>1, <2>2, <2>3, <2>4
  <2>6. Pair(base, target, renamed) = named
    BY <2>5 DEF Pair
  <2> QED
    BY <2>6
<1>4. CASE ~renamed
  <2>1. Pair(base, target, renamed) = named
    BY <1>4 DEF Pair
  <2> QED
    BY <2>1
<1> QED
  BY <1>3, <1>4

\* What changed in a file, of the definitions of either side.
LEMMA ChangedAre ==
  ASSUME NEW input, NEW c
  PROVE  LET base == FileDefs(input.base, c.source)
             target == FileDefs(input.target, c.path)
             matched == Pair(base, target, c.source # c.path)
             changed == ChangedDefinitions(input, c)
         IN  /\ matched \in SUBSET ((DOMAIN base) \X (DOMAIN target))
             /\ \A x \in changed : \/ \E p \in matched : x.def = target[p[2]]
                                   \/ \E i \in DOMAIN base : x.def = base[i]
                                   \/ \E j \in DOMAIN target : x.def = target[j]
             /\ \A x \in changed : x.change = "modified" =>
                  \E p \in matched : /\ x.def = target[p[2]]
                                     /\ \/ base[p[1]].id \in TouchedSet(base, c, "base")
                                        \/ target[p[2]].id \in TouchedSet(target, c, "target")
             /\ \A p \in matched : target[p[2]].id \in TouchedSet(target, c, "target") =>
                  [def |-> target[p[2]], change |-> "modified", endpoint |-> "both"] \in changed
             /\ \A i \in DOMAIN base : (~\E p \in matched : p[1] = i) =>
                  [def |-> base[i], change |-> "removed", endpoint |-> "base"] \in changed
             /\ \A j \in DOMAIN target : (~\E p \in matched : p[2] = j) =>
                  [def |-> target[j], change |-> "added", endpoint |-> "target"] \in changed
<1> DEFINE base == FileDefs(input.base, c.source)
           target == FileDefs(input.target, c.path)
           matched == Pair(base, target, c.source # c.path)
           Is(p) == \/ base[p[1]].id \in TouchedSet(base, c, "base")
                    \/ target[p[2]].id \in TouchedSet(target, c, "target")
           Shifted == {x \in matched : ~Is(x) /\ <<base[x[1]].path, base[x[1]].name>> # <<target[x[2]].path, target[x[2]].name>>}
<1>1. matched \in SUBSET ((DOMAIN base) \X (DOMAIN target))
  BY DEF Pair
<1>2. ChangedDefinitions(input, c) =
        {[def |-> target[p[2]], change |-> "modified", endpoint |-> "both"] : p \in {x \in matched : Is(x)}}
        \cup {[def |-> target[p[2]], change |-> "moved", endpoint |-> "both"] : p \in Shifted}
        \cup {[def |-> base[i], change |-> "removed", endpoint |-> "base"] :
                i \in (DOMAIN base) \ {p[1] : p \in matched}}
        \cup {[def |-> target[j], change |-> "added", endpoint |-> "target"] :
                j \in (DOMAIN target) \ {p[2] : p \in matched}}
  BY DEF ChangedDefinitions
<1> HIDE DEF base, target, matched
<1> DEFINE changed == ChangedDefinitions(input, c)
<1> HIDE DEF changed
<1>3. \A x \in changed : \/ \E p \in matched : x.def = target[p[2]]
                         \/ \E i \in DOMAIN base : x.def = base[i]
                         \/ \E j \in DOMAIN target : x.def = target[j]
  BY <1>2 DEF changed
<1>4. \A x \in changed : x.change = "modified" => \E p \in matched : x.def = target[p[2]] /\ Is(p)
  BY <1>2 DEF changed
<1>5. \A p \in matched : target[p[2]].id \in TouchedSet(target, c, "target") =>
        [def |-> target[p[2]], change |-> "modified", endpoint |-> "both"] \in changed
  BY <1>2 DEF changed
<1>6. \A i \in DOMAIN base : (~\E p \in matched : p[1] = i) =>
        [def |-> base[i], change |-> "removed", endpoint |-> "base"] \in changed
  BY <1>2 DEF changed
<1>7. \A j \in DOMAIN target : (~\E p \in matched : p[2] = j) =>
        [def |-> target[j], change |-> "added", endpoint |-> "target"] \in changed
  BY <1>2 DEF changed
<1> QED
  BY <1>1, <1>3, <1>4, <1>5, <1>6, <1>7 DEF base, target, matched, changed

\* Every definition a hunk gives lines to is reported, or one inside it that the hunk
\* meets too; none is reported as modified for what it encloses alone; and what one
\* side alone declares is reported as added or removed (touched, pair,
\* changed_definitions, map_changes).
THEOREM ChangesAreAllFound ==
  ASSUME NEW input, IsOverlay(input.base), IsOverlay(input.target), IsChangeset(input.changes)
  PROVE  ChangesAreFound(input, ImpactReport(input))
<1> DEFINE report == ImpactReport(input)
           Base(c) == FileDefs(input.base, c.source)
           Target(c) == FileDefs(input.target, c.path)
           Defs(c, side) == Range(IF side = "base" THEN Base(c) ELSE Target(c))
           Reported(c, changes) == {x.def : x \in {y \in report.definitions :
                                                     y.change \in changes /\ y.def.path = c.path}}
           KeysOf(defs) == {KindAndName(d) : d \in defs}
           Unnamed(c) == c.source # c.path /\ KeysOf(Range(Base(c))) \cap KeysOf(Range(Target(c))) = {}
           Matched(c) == Pair(Base(c), Target(c), c.source # c.path)
<1>0. /\ \A c, d \in Described(input) : c.path = d.path => c = d
      /\ \A c \in Described(input) : \A h \in c.hunks : IsHunk(h)
  BY DEF Described, IsChangeset
<1>1. report.definitions = UNION {ChangedDefinitions(input, c) : c \in Described(input)}
  BY DEF ImpactReport
<1> HIDE DEF report
<1>2. ASSUME NEW c \in Described(input)
      PROVE  /\ DOMAIN Base(c) \in SUBSET Nat /\ DOMAIN Target(c) \in SUBSET Nat
             /\ \A d \in Range(Base(c)) : IsDeclared(d) /\ d.path = c.source
             /\ \A d \in Range(Target(c)) : IsDeclared(d) /\ d.path = c.path
             /\ \A d, e \in Range(Base(c)) : d.id = e.id => d = e
             /\ \A d, e \in Range(Target(c)) : d.id = e.id => d = e
  BY FileDefsAre
<1>3. ASSUME NEW c \in Described(input)
      PROVE  /\ Matched(c) \in SUBSET ((DOMAIN Base(c)) \X (DOMAIN Target(c)))
             /\ ~Unnamed(c) => \A p \in Matched(c) : KindAndName(Base(c)[p[1]]) = KindAndName(Target(c)[p[2]])
  <2>1. Matched(c) \in SUBSET ((DOMAIN Base(c)) \X (DOMAIN Target(c)))
    BY ChangedAre
  <2>2. (c.source # c.path) \in BOOLEAN
    OBVIOUS
  <2> DEFINE base == Base(c)
             target == Target(c)
             renamed == c.source # c.path
             Declared(defs) == {KindAndName(d) : d \in Range(defs)}
  <2>3. DOMAIN base \in SUBSET Nat /\ DOMAIN target \in SUBSET Nat /\ renamed \in BOOLEAN
    BY <1>2, <2>2
  <2>4. ~Unnamed(c) => ~(renamed /\ Declared(base) \cap Declared(target) = {})
    OBVIOUS
  <2>5. Matched(c) = Pair(base, target, renamed)
    OBVIOUS
  <2> HIDE DEF base, target, renamed
  <2>6. ~(renamed /\ Declared(base) \cap Declared(target) = {}) =>
          \A p \in Pair(base, target, renamed) : KindAndName(base[p[1]]) = KindAndName(target[p[2]])
    BY <2>3, PairByName
  <2> HIDE DEF Declared, Unnamed
  <2>7. ~Unnamed(c) => \A p \in Matched(c) : KindAndName(base[p[1]]) = KindAndName(target[p[2]])
    BY <2>4, <2>5, <2>6
  <2> QED
    BY <2>1, <2>7 DEF base, target
<1> HIDE DEF Base, Target, Matched
<1>4. ASSUME NEW c \in Described(input)
      PROVE  /\ \A x \in ChangedDefinitions(input, c) : x.def \in Range(Base(c)) \cup Range(Target(c))
             /\ \A x \in ChangedDefinitions(input, c) : x.change = "modified" =>
                  \E p \in Matched(c) : /\ x.def = Target(c)[p[2]]
                                        /\ \/ Base(c)[p[1]].id \in TouchedSet(Base(c), c, "base")
                                           \/ Target(c)[p[2]].id \in TouchedSet(Target(c), c, "target")
             /\ \A p \in Matched(c) : Target(c)[p[2]].id \in TouchedSet(Target(c), c, "target") =>
                  [def |-> Target(c)[p[2]], change |-> "modified", endpoint |-> "both"] \in report.definitions
             /\ \A i \in DOMAIN Base(c) : (~\E p \in Matched(c) : p[1] = i) =>
                  [def |-> Base(c)[i], change |-> "removed", endpoint |-> "base"] \in report.definitions
             /\ \A j \in DOMAIN Target(c) : (~\E p \in Matched(c) : p[2] = j) =>
                  [def |-> Target(c)[j], change |-> "added", endpoint |-> "target"] \in report.definitions
  <2>1. ChangedDefinitions(input, c) \subseteq report.definitions
    BY <1>1
  <2>2. \A x \in ChangedDefinitions(input, c) : x.def \in Range(Base(c)) \cup Range(Target(c))
    BY <1>3, ChangedAre DEF Base, Target, Matched, Range
  <2> QED
    BY <2>1, <2>2, ChangedAre DEF Base, Target, Matched
<1>5. \A y \in report.definitions : \E x \in Described(input) : y.def.path \in {x.path, x.source}
  BY <1>1, <1>2, <1>4
<1>6. ASSUME NEW c \in Described(input), NEW h \in c.hunks, h.newLines > 0,
             NEW d \in Defs(c, "target"), Met(d, h, "target")
      PROVE  \/ d \in Reported(c, {"modified", "added"})
             \/ \E e \in Reported(c, {"modified", "added"}) : Encloses(d, e) /\ Met(e, h, "target")
  <2> DEFINE Hit == {x \in Range(Target(c)) : Met(x, h, "target")}
  <2>1. PICK e \in Hit : (e = d \/ Encloses(d, e)) /\ ~\E y \in Hit : Encloses(e, y)
    <3>1. Hit \in SUBSET Range(Target(c)) /\ d \in Hit
      BY <1>6
    <3> HIDE DEF Hit
    <3> QED
      BY <1>2, <3>1, InnermostInside
  <2>2. e.id \in Touched(Target(c), h, "target")
    <3>1. HunkLines(h, "target")[2] # 0
      BY <1>0, <1>6 DEF HunkLines, IsHunk
    <3> QED
      BY <1>0, <1>2, <2>1, <3>1, TouchedByLines
  <2>3. e.id \in TouchedSet(Target(c), c, "target")
    BY <2>2 DEF TouchedSet
  <2>4. PICK j \in DOMAIN Target(c) : e = Target(c)[j]
    BY DEF Range
  <2>5. e \in Reported(c, {"modified", "added"})
    <3>1. CASE \E p \in Matched(c) : p[2] = j
      <4>1. [def |-> e, change |-> "modified", endpoint |-> "both"] \in report.definitions
        BY <1>4, <2>3, <2>4, <3>1
      <4> QED
        BY <1>2, <4>1
    <3>2. CASE ~\E p \in Matched(c) : p[2] = j
      <4>1. [def |-> e, change |-> "added", endpoint |-> "target"] \in report.definitions
        BY <1>4, <2>4, <3>2
      <4> QED
        BY <1>2, <4>1
    <3> QED
      BY <3>1, <3>2
  <2> QED
    BY <2>1, <2>5
<1>7. ASSUME NEW c \in Described(input), c.hunks # {}, NEW d \in Reported(c, {"modified"})
      PROVE  \E side \in {"base", "target"}, h \in c.hunks : \E e \in Defs(c, side) :
               /\ (IF side = "target" THEN e = d ELSE Unnamed(c) \/ KindAndName(e) = KindAndName(d))
               /\ Met(e, h, side)
               /\ ~\E f \in Defs(c, side) : Encloses(e, f) /\ Met(f, h, side)
  <2>1. PICK y \in report.definitions : y.change = "modified" /\ y.def.path = c.path /\ y.def = d
    BY <1>7
  <2>2. PICK x \in Described(input) : y \in ChangedDefinitions(input, x)
    BY <1>1
  <2>3. PICK p \in Matched(x) : /\ d = Target(x)[p[2]]
                                /\ \/ Base(x)[p[1]].id \in TouchedSet(Base(x), x, "base")
                                   \/ Target(x)[p[2]].id \in TouchedSet(Target(x), x, "target")
    BY <1>4, <2>1, <2>2
  <2>4. p[1] \in DOMAIN Base(x) /\ p[2] \in DOMAIN Target(x)
    BY <1>3
  <2>5. d \in Range(Target(x)) /\ Base(x)[p[1]] \in Range(Base(x))
    BY <2>3, <2>4 DEF Range
  <2>6. x = c
    BY <1>0, <1>2, <2>1, <2>5
  <2>7. \A defs, side : TouchedSet(defs, c, side) = UNION {Touched(defs, h, side) : h \in c.hunks}
    BY <1>7 DEF TouchedSet
  <2>8. CASE Base(c)[p[1]].id \in TouchedSet(Base(c), c, "base")
    <3> DEFINE e == Base(c)[p[1]]
    <3>1. PICK h \in c.hunks : e.id \in Touched(Base(c), h, "base")
      BY <2>7, <2>8
    <3>2. e \in Defs(c, "base") /\ (Unnamed(c) \/ KindAndName(e) = KindAndName(d))
      BY <1>3, <2>3, <2>5, <2>6
    <3>3. Met(e, h, "base") /\ ~\E f \in Range(Base(c)) : Encloses(e, f) /\ Met(f, h, "base")
      BY <1>0, <1>2, <2>5, <2>6, <3>1, TouchedIsMet
    <3> HIDE DEF e, Unnamed
    <3> QED
      BY <3>2, <3>3
  <2>9. CASE Target(c)[p[2]].id \in TouchedSet(Target(c), c, "target")
    <3>1. PICK h \in c.hunks : d.id \in Touched(Target(c), h, "target")
      BY <2>3, <2>6, <2>7, <2>9
    <3>2. d \in Defs(c, "target")
      BY <2>5, <2>6
    <3>3. Met(d, h, "target") /\ ~\E f \in Range(Target(c)) : Encloses(d, f) /\ Met(f, h, "target")
      BY <1>0, <1>2, <2>5, <2>6, <3>1, TouchedIsMet
    <3> HIDE DEF Unnamed
    <3> QED
      BY <3>2, <3>3
  <2> QED
    BY <2>3, <2>6, <2>8, <2>9
<1>8. ASSUME NEW c \in Described(input), ~Unnamed(c), NEW d \in Defs(c, "base"),
             KindAndName(d) \notin KeysOf(Defs(c, "target"))
      PROVE  [def |-> d, change |-> "removed", endpoint |-> "base"] \in report.definitions
  <2>1. PICK i \in DOMAIN Base(c) : d = Base(c)[i]
    BY DEF Range
  <2>2. ~\E p \in Matched(c) : p[1] = i
    BY <1>3, <1>8, <2>1 DEF Range
  <2> QED
    BY <1>4, <2>1, <2>2
<1>9. ASSUME NEW c \in Described(input), ~Unnamed(c), NEW d \in Defs(c, "target"),
             KindAndName(d) \notin KeysOf(Defs(c, "base"))
      PROVE  d \in Reported(c, {"added"})
  <2>1. PICK j \in DOMAIN Target(c) : d = Target(c)[j]
    BY DEF Range
  <2>2. ~\E p \in Matched(c) : p[2] = j
    BY <1>3, <1>9, <2>1 DEF Range
  <2>3. [def |-> d, change |-> "added", endpoint |-> "target"] \in report.definitions
    BY <1>4, <2>1, <2>2
  <2> QED
    BY <1>2, <2>3
<1> DEFINE Found(c) ==
             /\ \A h \in c.hunks : \A d \in {x \in Defs(c, "target") : h.newLines > 0 /\ Met(x, h, "target")} :
                  \/ d \in Reported(c, {"modified", "added"})
                  \/ \E e \in Reported(c, {"modified", "added"}) : Encloses(d, e) /\ Met(e, h, "target")
             /\ c.hunks # {} => \A d \in Reported(c, {"modified"}) :
                  \E side \in {"base", "target"}, h \in c.hunks : \E e \in Defs(c, side) :
                    /\ (IF side = "target" THEN e = d ELSE Unnamed(c) \/ KindAndName(e) = KindAndName(d))
                    /\ Met(e, h, side)
                    /\ ~\E f \in Defs(c, side) : Encloses(e, f) /\ Met(f, h, side)
             /\ ~Unnamed(c) =>
                  /\ \A d \in Defs(c, "base") : KindAndName(d) \notin KeysOf(Defs(c, "target")) =>
                       [def |-> d, change |-> "removed", endpoint |-> "base"] \in report.definitions
                  /\ \A d \in Defs(c, "target") : KindAndName(d) \notin KeysOf(Defs(c, "base")) =>
                       d \in Reported(c, {"added"})
<1>10. ASSUME NEW c \in Described(input) PROVE Found(c)
  <2> HIDE DEF Unnamed, Reported, Defs, KeysOf
  <2> QED
    BY <1>6, <1>7, <1>8, <1>9
<1>11. ChangesAreFound(input, report) <=>
         /\ \A y \in report.definitions : \E x \in Described(input) : y.def.path \in {x.path, x.source}
         /\ \A c \in Described(input) : Found(c)
  BY DEF ChangesAreFound, Met, Base, Target
<1> QED
  BY <1>5, <1>10, <1>11 DEF report

----------------------------------------------------------------------------
(* Tarjan's algorithm, on the sets its stacks stand for.  N are the nodes  *)
(* and E the edges; index and low are of what was visited, S is what is on *)
(* the stack, path[1..k] are the nodes of the work stack from the root on, *)
(* and K the edges from S that were looked at.                             *)

\* No edge leads out of A; u leads to v; the ring of u is all that leads to it and back.
Shut(E, A) == \A e \in E : e[1] \in A => e[2] \in A
Leads(N, E, u, v) == \A A \in SUBSET N : u \in A /\ Shut(E, A) => v \in A
Ring(N, E, u) == {v \in N : Leads(N, E, u, v) /\ Leads(N, E, v, u)}

\* An edge leads on, and so does what leads to what leads on.
LEMMA LeadsLaws ==
  ASSUME NEW N, NEW E \in SUBSET (N \X N)
  PROVE  /\ \A u \in N : Leads(N, E, u, u)
         /\ \A u, v \in N : <<u, v>> \in E => Leads(N, E, u, v)
         /\ \A u, v, w \in N : Leads(N, E, u, v) /\ Leads(N, E, v, w) => Leads(N, E, u, w)
<1>1. \A u \in N : Leads(N, E, u, u)
  BY DEF Leads
<1>2. ASSUME NEW u \in N, NEW v \in N, <<u, v>> \in E PROVE Leads(N, E, u, v)
  <2>1. \A A : Shut(E, A) /\ u \in A => v \in A
    BY <1>2 DEF Shut
  <2> QED
    BY <2>1 DEF Leads
<1>3. ASSUME NEW u \in N, NEW v \in N, NEW w \in N, Leads(N, E, u, v), Leads(N, E, v, w)
      PROVE  Leads(N, E, u, w)
  BY <1>3 DEF Leads
<1> QED
  BY <1>1, <1>2, <1>3

\* What was visited has its number, the work stack is on the stack in the order it was
\* entered, and what was looked at was visited.
Shape(N, E, index, low, S, path, k, K) ==
  /\ index \in [DOMAIN index -> Nat] /\ low \in [DOMAIN index -> Nat] /\ DOMAIN index \in SUBSET N
  /\ \A u, v \in DOMAIN index : index[u] = index[v] => u = v
  /\ S \in SUBSET DOMAIN index
  /\ k \in Nat /\ \A i \in 1..k : path[i] \in S
  /\ \A i, j \in 1..k : i < j => index[path[i]] < index[path[j]]
  /\ K \in SUBSET E /\ \A e \in K : e[1] \in S /\ e[2] \in DOMAIN index
\* What is on the stack leads back to the work stack, which leads to all that was
\* entered after.
Back(N, E, index, S, path, k) ==
  \A y \in S : \E i \in 1..k : index[path[i]] <= index[y] /\ Leads(N, E, y, path[i])
Forth(N, E, index, S, path, k) ==
  \A y \in S : \A i \in 1..k : index[path[i]] <= index[y] => Leads(N, E, path[i], y)
\* A low is the number of a node on the stack that can be reached; and none that was
\* looked at from a node, or from what was entered after it, is below every low.
LowIsSeen(N, E, index, low, S, path, k) ==
  \A i \in 1..k : /\ low[path[i]] <= index[path[i]]
                  /\ \E y \in S : index[y] = low[path[i]] /\ Leads(N, E, path[i], y)
LowIsLow(index, low, S, path, k, K) ==
  \A e \in K : e[2] \in S =>
    \A i \in 1..k : index[path[i]] <= index[e[1]] => \E j \in i..k : low[path[j]] <= index[e[2]]
\* A node that was left has all its edges looked at, and no edge leads out of what left the stack.
AllLookedAt(E, S, path, k, K) == \A e \in E : e[1] \in S /\ (\A i \in 1..k : path[i] # e[1]) => e \in K
DoneIsShut(E, index, S) == Shut(E, (DOMAIN index) \ S)
RingsFound(N, E, index, S, rings) == rings = {Ring(N, E, u) : u \in (DOMAIN index) \ S}

\* The invariant, on sets.
Core(N, E, index, low, S, path, k, K, rings) ==
  /\ Shape(N, E, index, low, S, path, k, K)
  /\ Back(N, E, index, S, path, k) /\ Forth(N, E, index, S, path, k)
  /\ LowIsSeen(N, E, index, low, S, path, k) /\ LowIsLow(index, low, S, path, k, K)
  /\ AllLookedAt(E, S, path, k, K) /\ DoneIsShut(E, index, S) /\ RingsFound(N, E, index, S, rings)

\* A node that is entered, from the top of the work stack or as a root.
LEMMA CoreEnters ==
  ASSUME NEW N, NEW E \in SUBSET (N \X N), NEW index, NEW low, NEW S, NEW path, NEW k, NEW K, NEW rings,
         Core(N, E, index, low, S, path, k, K, rings),
         NEW node \in N \ DOMAIN index, NEW number \in Nat, \A u \in DOMAIN index : index[u] < number,
         NEW path2, \A i \in 1..k : path2[i] = path[i], path2[k + 1] = node,
         k # 0 => <<path[k], node>> \in E,
         NEW K2, K2 = IF k = 0 THEN K ELSE K \cup {<<path[k], node>>}
  PROVE  Core(N, E, Marked(index, node, number), Marked(low, node, number), S \cup {node}, path2, k + 1, K2, rings)
<1> DEFINE V == DOMAIN index
           S2 == S \cup {node}
           index2 == Marked(index, node, number)
           low2 == Marked(low, node, number)
<1>1. /\ V \in SUBSET N /\ index \in [V -> Nat] /\ low \in [V -> Nat] /\ S \in SUBSET V /\ k \in Nat
      /\ \A i \in 1..k : path[i] \in S
      /\ \A i, j \in 1..k : i < j => index[path[i]] < index[path[j]]
      /\ \A u, v \in V : index[u] = index[v] => u = v
      /\ K \in SUBSET E /\ \A e \in K : e[1] \in S /\ e[2] \in V
  BY DEF Core, Shape
<1> HIDE DEF V
<1>2. node \in N /\ node \notin V
  BY DEF V
<1>3. /\ DOMAIN index2 = V \cup {node} /\ index2[node] = number /\ low2[node] = number
      /\ \A u \in V : index2[u] = index[u] /\ low2[u] = low[u] /\ index[u] < number
      /\ index2 \in [V \cup {node} -> Nat] /\ low2 \in [V \cup {node} -> Nat]
  BY <1>1, <1>2 DEF V, Marked
<1> HIDE DEF index2, low2
<1>4. \A u \in V : index[u] \in Nat /\ low[u] \in Nat
  BY <1>1
<1>5. \A i \in 1..(k + 1) : (i \in 1..k /\ path2[i] = path[i] /\ path[i] \in S) \/ (i = k + 1 /\ path2[i] = node)
  BY <1>1
<1>6. \A i \in 1..k : path2[i] = path[i] /\ path[i] \in S /\ path[i] \in V /\ i \in 1..(k + 1) /\ i # k + 1
  BY <1>1
<1>7. Shape(N, E, index2, low2, S2, path2, k + 1, K2)
  <2>1. \A u, v \in V \cup {node} : index2[u] = index2[v] => u = v
    BY <1>1, <1>3, <1>4
  <2>2. \A i, j \in 1..(k + 1) : i < j => index2[path2[i]] < index2[path2[j]]
    <3> TAKE i, j \in 1..(k + 1)
    <3> HAVE i < j
    <3>1. i \in 1..k /\ path2[i] = path[i] /\ path[i] \in V
      BY <1>1, <1>5
    <3>2. CASE j = k + 1
      BY <1>3, <1>5, <3>1, <3>2
    <3>3. CASE j # k + 1
      <4>1. j \in 1..k /\ path2[j] = path[j] /\ path[j] \in V
        BY <1>1, <1>5, <3>3
      <4> QED
        BY <1>1, <1>3, <3>1, <4>1
    <3> QED
      BY <3>2, <3>3
  <2>3. K2 \in SUBSET E /\ \A e \in K2 : e[1] \in S2 /\ e[2] \in V \cup {node}
    <3>1. CASE k = 0
      BY <1>1, <3>1
    <3>2. CASE k # 0
      <4>1. k \in 1..k
        BY <1>1, <3>2
      <4> QED
        BY <1>1, <3>2, <4>1
    <3> QED
      BY <3>1, <3>2
  <2>4. \A i \in 1..(k + 1) : path2[i] \in S2
    BY <1>5
  <2>5. V \cup {node} \in SUBSET N /\ S2 \in SUBSET (V \cup {node}) /\ k + 1 \in Nat
    BY <1>1, <1>2
  <2> QED
    BY <1>3, <2>1, <2>2, <2>3, <2>4, <2>5 DEF Shape
<1>8. Back(N, E, index2, S2, path2, k + 1)
  <2>1. ASSUME NEW y \in S PROVE \E i \in 1..(k + 1) : index2[path2[i]] <= index2[y] /\ Leads(N, E, y, path2[i])
    <3>1. PICK i \in 1..k : index[path[i]] <= index[y] /\ Leads(N, E, y, path[i])
      BY DEF Core, Back
    <3> QED
      BY <1>1, <1>3, <1>6, <3>1
  <2>2. k + 1 \in 1..(k + 1) /\ index2[path2[k + 1]] <= index2[node] /\ Leads(N, E, node, path2[k + 1])
    BY <1>1, <1>2, <1>3, LeadsLaws
  <2> QED
    BY <2>1, <2>2 DEF Back
<1>9. Forth(N, E, index2, S2, path2, k + 1)
  <2>1. ASSUME NEW y \in S, NEW i \in 1..(k + 1), index2[path2[i]] <= index2[y]
        PROVE  Leads(N, E, path2[i], y)
    <3>1. i \in 1..k
      <4>1. y \in V /\ index2[y] < number /\ index2[y] \in Nat
        BY <1>1, <1>3, <1>4
      <4> QED
        BY <1>3, <1>5, <2>1, <4>1
    <3>2. index[path[i]] <= index[y]
      BY <1>1, <1>3, <1>6, <2>1, <3>1
    <3> QED
      BY <1>6, <3>1, <3>2 DEF Core, Forth
  <2>2. ASSUME NEW i \in 1..(k + 1) PROVE Leads(N, E, path2[i], node)
    <3>1. CASE i = k + 1
      BY <1>2, <3>1, LeadsLaws
    <3>2. CASE i # k + 1
      <4>1. i \in 1..k /\ k \in 1..k /\ k # 0
        BY <1>1, <3>2
      <4>2. path[i] \in S /\ path[k] \in S /\ index[path[i]] <= index[path[k]]
        <5>1. i = k \/ i < k
          BY <4>1, <1>1
        <5>2. path[i] \in S /\ path[k] \in S /\ index[path[i]] \in Nat
          BY <1>1, <1>4, <4>1
        <5> QED
          BY <1>1, <4>1, <5>1, <5>2
      <4>3. Leads(N, E, path[i], path[k])
        BY <4>1, <4>2 DEF Core, Forth
      <4>4. path[i] \in N /\ path[k] \in N
        BY <1>1, <4>2
      <4> QED
        BY <1>2, <1>6, <4>1, <4>3, <4>4, LeadsLaws
    <3> QED
      BY <3>1, <3>2
  <2> QED
    BY <2>1, <2>2 DEF Forth
<1>10. LowIsSeen(N, E, index2, low2, S2, path2, k + 1)
  <2> SUFFICES ASSUME NEW i \in 1..(k + 1)
               PROVE  /\ low2[path2[i]] <= index2[path2[i]]
                      /\ \E y \in S2 : index2[y] = low2[path2[i]] /\ Leads(N, E, path2[i], y)
    BY DEF LowIsSeen
  <2>1. CASE i = k + 1
    BY <1>1, <1>2, <1>3, <2>1, LeadsLaws
  <2>2. CASE i # k + 1
    <3>1. i \in 1..k
      BY <1>5, <2>2
    <3>2. PICK y \in S : index[y] = low[path[i]] /\ Leads(N, E, path[i], y)
      BY <3>1 DEF Core, LowIsSeen
    <3>3. low[path[i]] <= index[path[i]]
      BY <3>1 DEF Core, LowIsSeen
    <3> QED
      BY <1>1, <1>3, <1>6, <3>1, <3>2, <3>3
  <2> QED
    BY <2>1, <2>2
<1>11. LowIsLow(index2, low2, S2, path2, k + 1, K2)
  <2> SUFFICES ASSUME NEW e \in K2, e[2] \in S2, NEW i \in 1..(k + 1), index2[path2[i]] <= index2[e[1]]
               PROVE  \E j \in i..(k + 1) : low2[path2[j]] <= index2[e[2]]
    BY DEF LowIsLow
  <2>1. e[1] \in S /\ e[1] \in V
    <3>1. CASE e \in K
      BY <1>1, <3>1
    <3>2. CASE e \notin K
      <4>1. k # 0 /\ e = <<path[k], node>> /\ k \in 1..k
        BY <1>1, <3>2
      <4> QED
        BY <1>1, <4>1
    <3> QED
      BY <3>1, <3>2
  <2>2. i \in 1..k
    <3>1. index2[e[1]] < number /\ index2[e[1]] \in Nat
      BY <1>3, <1>4, <2>1
    <3> QED
      BY <1>3, <1>5, <3>1
  <2>3. path2[i] = path[i] /\ path[i] \in V /\ index[path[i]] <= index[e[1]]
    BY <1>3, <1>6, <2>1, <2>2
  <2>4. CASE e \in K
    <3>1. e[2] \in V /\ e[2] \in S
      BY <1>1, <1>2, <2>4
    <3>2. PICK j \in i..k : low[path[j]] <= index[e[2]]
      BY <2>2, <2>3, <2>4, <3>1 DEF Core, LowIsLow
    <3>3. j \in 1..k /\ j \in i..(k + 1)
      BY <1>1, <2>2
    <3>4. low2[path2[j]] = low[path[j]] /\ index2[e[2]] = index[e[2]]
      BY <1>3, <1>6, <3>1, <3>3
    <3> QED
      BY <3>2, <3>3, <3>4
  <2>5. CASE e \notin K
    <3>1. e[2] = node
      BY <2>5
    <3>2. low[path[i]] <= index[path[i]] /\ index[path[i]] < number
      BY <1>3, <2>2, <2>3 DEF Core, LowIsSeen
    <3>3. low2[path2[i]] = low[path[i]] /\ index2[e[2]] = number /\ i \in i..(k + 1)
      BY <1>1, <1>3, <2>2, <2>3, <3>1
    <3>4. low[path[i]] \in Nat /\ index[path[i]] \in Nat
      BY <1>4, <2>3
    <3>5. low2[path2[i]] <= index2[e[2]]
      BY <3>2, <3>3, <3>4
    <3> QED
      BY <3>3, <3>5
  <2> QED
    BY <2>4, <2>5
<1>12. AllLookedAt(E, S2, path2, k + 1, K2)
  <2> SUFFICES ASSUME NEW e \in E, e[1] \in S2, \A i \in 1..(k + 1) : path2[i] # e[1]
               PROVE  e \in K2
    BY DEF AllLookedAt
  <2>1. k + 1 \in 1..(k + 1)
    BY <1>1
  <2>2. e[1] \in S /\ \A i \in 1..k : path[i] # e[1]
    BY <1>6, <2>1
  <2> QED
    BY <2>2 DEF Core, AllLookedAt
<1>13. (DOMAIN index2) \ S2 = V \ S
  BY <1>1, <1>2, <1>3
<1>14. DoneIsShut(E, index2, S2) /\ RingsFound(N, E, index2, S2, rings)
  BY <1>13 DEF Core, DoneIsShut, RingsFound, V
<1> QED
  BY <1>7, <1>8, <1>9, <1>10, <1>11, <1>12, <1>14 DEF Core, index2, low2

\* Nodes of the work stack are different.
LEMMA PathDiffers ==
  ASSUME NEW N, NEW E, NEW index, NEW low, NEW S, NEW path, NEW k, NEW K,
         Shape(N, E, index, low, S, path, k, K)
  PROVE  /\ \A i, j \in 1..k : index[path[i]] <= index[path[j]] <=> i <= j
         /\ \A i, j \in 1..k : path[i] = path[j] => i = j
         /\ \A i \in 1..k : path[i] \in S /\ path[i] \in DOMAIN index /\ path[i] \in N
<1>1. /\ k \in Nat /\ S \in SUBSET DOMAIN index /\ index \in [DOMAIN index -> Nat] /\ DOMAIN index \in SUBSET N
      /\ \A i \in 1..k : path[i] \in S
      /\ \A i, j \in 1..k : i < j => index[path[i]] < index[path[j]]
  BY DEF Shape
<1>2. \A i \in 1..k : index[path[i]] \in Nat
  BY <1>1
<1>3. ASSUME NEW i \in 1..k, NEW j \in 1..k PROVE index[path[i]] <= index[path[j]] <=> i <= j
  <2>1. i < j \/ i = j \/ j < i
    BY <1>1
  <2> QED
    BY <1>1, <1>2, <2>1
<1>4. ASSUME NEW i \in 1..k, NEW j \in 1..k, path[i] = path[j] PROVE i = j
  <2>1. index[path[i]] <= index[path[j]] /\ index[path[j]] <= index[path[i]]
    BY <1>2, <1>4
  <2> QED
    BY <1>1, <1>3, <2>1
<1> QED
  BY <1>1, <1>3, <1>4

\* Children of the top that were visited are looked at, and its low is lowered.
LEMMA CoreLooks ==
  ASSUME NEW N, NEW E \in SUBSET (N \X N), NEW index, NEW low, NEW S, NEW path, NEW k, NEW K, NEW rings,
         Core(N, E, index, low, S, path, k, K, rings), k # 0,
         NEW seen \in SUBSET DOMAIN index, \A n \in seen : <<path[k], n>> \in E,
         NEW l \in Nat, l = low[path[k]] \/ (\E n \in seen : n \in S /\ l = index[n]),
         l <= low[path[k]], \A n \in seen : n \in S => l <= index[n],
         NEW low2, low2 = [low EXCEPT ![path[k]] = l],
         NEW K2, K2 = K \cup {<<path[k], n>> : n \in seen}
  PROVE  Core(N, E, index, low2, S, path, k, K2, rings)
<1> DEFINE V == DOMAIN index
           node == path[k]
<1>1. /\ V \in SUBSET N /\ index \in [V -> Nat] /\ low \in [V -> Nat] /\ S \in SUBSET V /\ k \in Nat
      /\ K \in SUBSET E /\ \A e \in K : e[1] \in S /\ e[2] \in V
  BY DEF Core, Shape
<1>2. k \in 1..k
  BY <1>1
<1>3. /\ \A i \in 1..k : path[i] \in S /\ path[i] \in V /\ path[i] \in N
      /\ \A i, j \in 1..k : index[path[i]] <= index[path[j]] <=> i <= j
      /\ \A i, j \in 1..k : path[i] = path[j] => i = j
  BY PathDiffers DEF Core
<1>4. node \in S /\ node \in V /\ node \in N
  BY <1>2, <1>3
<1>5. \A u \in V : index[u] \in Nat /\ low[u] \in Nat /\ low2[u] \in Nat /\ low2[u] <= low[u]
  BY <1>1, <1>4
<1>6. low2 \in [V -> Nat] /\ low2[node] = l /\ \A u \in V : u # node => low2[u] = low[u]
  BY <1>1, <1>4
<1>7. seen \in SUBSET V
  OBVIOUS
<1> HIDE DEF V, node
<1>8. Shape(N, E, index, low2, S, path, k, K2)
  <2>1. K2 \in SUBSET E /\ \A e \in K2 : e[1] \in S /\ e[2] \in V
    BY <1>1, <1>4, <1>7 DEF node
  <2> QED
    BY <1>6, <2>1 DEF Core, Shape, V
<1>9. LowIsSeen(N, E, index, low2, S, path, k)
  <2> SUFFICES ASSUME NEW i \in 1..k
               PROVE  /\ low2[path[i]] <= index[path[i]]
                      /\ \E y \in S : index[y] = low2[path[i]] /\ Leads(N, E, path[i], y)
    BY DEF LowIsSeen
  <2>1. low[path[i]] <= index[path[i]] /\ \E y \in S : index[y] = low[path[i]] /\ Leads(N, E, path[i], y)
    BY DEF Core, LowIsSeen
  <2>2. low2[path[i]] <= index[path[i]]
    BY <1>3, <1>5, <2>1
  <2>3. CASE low2[path[i]] = low[path[i]]
    BY <2>1, <2>2, <2>3
  <2>4. CASE low2[path[i]] # low[path[i]]
    <3>1. path[i] = node
      BY <1>3, <1>6, <2>4
    <3>2. PICK n \in seen : n \in S /\ l = index[n]
      BY <1>6, <2>4, <3>1 DEF node
    <3>3. Leads(N, E, node, n)
      BY <1>1, <1>4, <1>7, <3>2, LeadsLaws DEF node
    <3> QED
      BY <1>6, <2>2, <3>1, <3>2, <3>3
  <2> QED
    BY <2>3, <2>4
<1>10. LowIsLow(index, low2, S, path, k, K2)
  <2> SUFFICES ASSUME NEW e \in K2, e[2] \in S, NEW i \in 1..k, index[path[i]] <= index[e[1]]
               PROVE  \E j \in i..k : low2[path[j]] <= index[e[2]]
    BY DEF LowIsLow
  <2>1. CASE e \in K
    <3>1. PICK j \in i..k : low[path[j]] <= index[e[2]]
      BY <2>1 DEF Core, LowIsLow
    <3>2. j \in 1..k
      BY <1>1
    <3> QED
      BY <1>1, <1>3, <1>5, <3>1, <3>2
  <2>2. CASE e \notin K
    <3>1. PICK n \in seen : e = <<node, n>>
      BY <2>2 DEF node
    <3>2. l <= index[e[2]] /\ k \in i..k
      BY <1>1, <3>1
    <3> QED
      BY <1>6, <3>2 DEF node
  <2> QED
    BY <2>1, <2>2
<1>11. AllLookedAt(E, S, path, k, K2)
  BY DEF Core, AllLookedAt
<1> QED
  BY <1>8, <1>9, <1>10, <1>11 DEF Core

\* A node that was left below its number is not a root.
LEMMA LeftIsBelow ==
  ASSUME NEW N, NEW E \in SUBSET (N \X N), NEW index, NEW low, NEW S, NEW path, NEW k, NEW K, NEW rings,
         Core(N, E, index, low, S, path, k, K, rings), k # 0, low[path[k]] # index[path[k]]
  PROVE  \E i \in 1..(k - 1) : Leads(N, E, path[k], path[i])
<1>1. /\ DOMAIN index \in SUBSET N /\ index \in [DOMAIN index -> Nat] /\ low \in [DOMAIN index -> Nat]
      /\ S \in SUBSET DOMAIN index /\ k \in Nat
  BY DEF Core, Shape
<1>2. k \in 1..k
  BY <1>1
<1>3. /\ \A i \in 1..k : path[i] \in S /\ path[i] \in DOMAIN index /\ path[i] \in N
      /\ \A i, j \in 1..k : index[path[i]] <= index[path[j]] <=> i <= j
  BY PathDiffers DEF Core
<1>4. PICK y \in S : index[y] = low[path[k]] /\ Leads(N, E, path[k], y)
  BY <1>2 DEF Core, LowIsSeen
<1>5. index[y] < index[path[k]]
  <2>1. low[path[k]] <= index[path[k]]
    BY <1>2 DEF Core, LowIsSeen
  <2>2. low[path[k]] \in Nat /\ index[path[k]] \in Nat
    BY <1>1, <1>2, <1>3
  <2> QED
    BY <1>4, <2>1, <2>2
<1>6. PICK i \in 1..k : index[path[i]] <= index[y] /\ Leads(N, E, y, path[i])
  BY DEF Core, Back
<1>7. ~(index[path[k]] <= index[path[i]])
  <2>1. index[path[k]] \in Nat /\ index[path[i]] \in Nat /\ index[y] \in Nat
    BY <1>1, <1>2, <1>3
  <2> QED
    BY <1>5, <1>6, <2>1
<1>8. i \in 1..(k - 1)
  BY <1>1, <1>2, <1>3, <1>7
<1>9. Leads(N, E, path[k], path[i])
  <2>1. path[k] \in N /\ y \in N /\ path[i] \in N
    BY <1>1, <1>2, <1>3
  <2> QED
    BY <1>4, <1>6, <2>1, LeadsLaws
<1> QED
  BY <1>8, <1>9

\* The top is left, and its low lowers that of the node below.
LEMMA CoreLeaves ==
  ASSUME NEW N, NEW E \in SUBSET (N \X N), NEW index, NEW low, NEW S, NEW path, NEW k, NEW K, NEW rings,
         Core(N, E, index, low, S, path, k, K, rings), k # 0, low[path[k]] # index[path[k]],
         \A e \in E : e[1] = path[k] => e \in K,
         NEW m, m = low[path[k - 1]] \/ m = low[path[k]], m <= low[path[k - 1]], m <= low[path[k]],
         NEW low2, low2 = [low EXCEPT ![path[k - 1]] = m]
  PROVE  Core(N, E, index, low2, S, path, k - 1, K, rings)
<1> DEFINE V == DOMAIN index
           node == path[k]
           parent == path[k - 1]
<1>1. /\ V \in SUBSET N /\ index \in [V -> Nat] /\ low \in [V -> Nat] /\ S \in SUBSET V /\ k \in Nat
      /\ K \in SUBSET E /\ \A e \in K : e[1] \in S /\ e[2] \in V
  BY DEF Core, Shape
<1>2. PICK b \in 1..(k - 1) : Leads(N, E, node, path[b])
  BY LeftIsBelow
<1>3. k \in 1..k /\ k - 1 \in 1..k /\ k - 1 \in Nat /\ k - 1 # 0 /\ k - 1 \in 1..(k - 1)
      /\ \A i \in 1..(k - 1) : i \in 1..k /\ i # k
  BY <1>1, <1>2
<1>4. /\ \A i \in 1..k : path[i] \in S /\ path[i] \in V /\ path[i] \in N
      /\ \A i, j \in 1..k : index[path[i]] <= index[path[j]] <=> i <= j
      /\ \A i, j \in 1..k : path[i] = path[j] => i = j
  BY PathDiffers DEF Core
<1>5. /\ node \in S /\ node \in V /\ node \in N /\ parent \in S /\ parent \in V /\ parent \in N
  BY <1>3, <1>4
<1>6. /\ \A u \in V : index[u] \in Nat /\ low[u] \in Nat
      /\ m \in Nat /\ low2 \in [V -> Nat] /\ low2[parent] = m /\ \A u \in V : u # parent => low2[u] = low[u]
  BY <1>1, <1>5
<1>7. \A u \in V : low2[u] <= low[u]
  BY <1>1, <1>5, <1>6
<1> HIDE DEF V, node, parent
<1>8. Shape(N, E, index, low2, S, path, k - 1, K)
  <2>1. \A i, j \in 1..(k - 1) : i < j => index[path[i]] < index[path[j]]
    BY <1>3 DEF Core, Shape
  <2> QED
    BY <1>1, <1>3, <1>4, <1>6, <2>1 DEF Core, Shape, V
<1>9. Back(N, E, index, S, path, k - 1)
  <2> SUFFICES ASSUME NEW y \in S
               PROVE  \E i \in 1..(k - 1) : index[path[i]] <= index[y] /\ Leads(N, E, y, path[i])
    BY DEF Back
  <2>1. PICK i \in 1..k : index[path[i]] <= index[y] /\ Leads(N, E, y, path[i])
    BY DEF Core, Back
  <2>2. CASE i # k
    BY <1>1, <2>1, <2>2
  <2>3. CASE i = k
    <3>1. index[path[b]] <= index[y]
      <4>1. index[path[b]] <= index[path[k]] /\ path[b] \in V /\ path[k] \in V /\ y \in V
        BY <1>1, <1>3, <1>4
      <4>2. index[path[b]] \in Nat /\ index[path[k]] \in Nat /\ index[y] \in Nat
        BY <1>6, <4>1
      <4> QED
        BY <2>1, <2>3, <4>1, <4>2
    <3>2. Leads(N, E, y, path[b])
      <4>1. y \in N /\ path[k] \in N /\ path[b] \in N
        BY <1>1, <1>3, <1>4
      <4> QED
        BY <1>2, <2>1, <2>3, <4>1, LeadsLaws DEF node
    <3> QED
      BY <3>1, <3>2
  <2> QED
    BY <2>2, <2>3
<1>10. Forth(N, E, index, S, path, k - 1)
  BY <1>3 DEF Core, Forth
<1>11. LowIsSeen(N, E, index, low2, S, path, k - 1)
  <2> SUFFICES ASSUME NEW i \in 1..(k - 1)
               PROVE  /\ low2[path[i]] <= index[path[i]]
                      /\ \E y \in S : index[y] = low2[path[i]] /\ Leads(N, E, path[i], y)
    BY DEF LowIsSeen
  <2>0. i \in 1..k
    BY <1>3
  <2>1. low[path[i]] <= index[path[i]] /\ \E y \in S : index[y] = low[path[i]] /\ Leads(N, E, path[i], y)
    BY <2>0 DEF Core, LowIsSeen
  <2>2. low2[path[i]] <= index[path[i]]
    <3>1. low2[path[i]] <= low[path[i]] /\ low2[path[i]] \in Nat /\ low[path[i]] \in Nat /\ index[path[i]] \in Nat
      BY <1>4, <1>6, <1>7, <2>0
    <3> QED
      BY <2>1, <3>1
  <2>3. CASE low2[path[i]] = low[path[i]]
    BY <2>1, <2>2, <2>3
  <2>4. CASE low2[path[i]] # low[path[i]]
    <3>1. path[i] = parent /\ low2[path[i]] = low[node]
      BY <1>4, <1>6, <2>0, <2>4 DEF parent, node
    <3>2. PICK y \in S : index[y] = low[node] /\ Leads(N, E, node, y)
      BY <1>3 DEF Core, LowIsSeen, node
    <3>3. Leads(N, E, parent, node)
      <4>1. index[parent] <= index[node]
        BY <1>1, <1>3, <1>4 DEF node, parent
      <4> QED
        BY <1>3, <1>5, <4>1 DEF Core, Forth, parent
    <3>4. Leads(N, E, parent, y)
      <4>1. y \in N
        BY <1>1
      <4> QED
        BY <1>5, <3>2, <3>3, <4>1, LeadsLaws
    <3> QED
      BY <2>2, <3>1, <3>2, <3>4
  <2> QED
    BY <2>3, <2>4
<1>12. LowIsLow(index, low2, S, path, k - 1, K)
  <2> SUFFICES ASSUME NEW e \in K, e[2] \in S, NEW i \in 1..(k - 1), index[path[i]] <= index[e[1]]
               PROVE  \E j \in i..(k - 1) : low2[path[j]] <= index[e[2]]
    BY DEF LowIsLow
  <2>1. PICK j \in i..k : low[path[j]] <= index[e[2]]
    BY <1>3 DEF Core, LowIsLow
  <2>2. j \in 1..k /\ path[j] \in V /\ e[2] \in V
    BY <1>1, <1>4
  <2>3. CASE j # k
    <3>1. j \in i..(k - 1) /\ low2[path[j]] <= low[path[j]]
      BY <1>1, <1>7, <2>2, <2>3
    <3>2. low2[path[j]] \in Nat /\ low[path[j]] \in Nat /\ index[e[2]] \in Nat
      BY <1>6, <2>2
    <3> QED
      BY <2>1, <3>1, <3>2
  <2>4. CASE j = k
    <3>1. k - 1 \in i..(k - 1) /\ low2[path[k - 1]] = m
      BY <1>3, <1>6 DEF parent
    <3>2. m <= index[e[2]]
      <4>1. low[node] \in Nat /\ index[e[2]] \in Nat
        BY <1>5, <1>6, <2>2
      <4> QED
        BY <1>6, <2>1, <2>4, <4>1 DEF node
    <3> QED
      BY <3>1, <3>2
  <2> QED
    BY <2>3, <2>4
<1>13. AllLookedAt(E, S, path, k - 1, K)
  <2> SUFFICES ASSUME NEW e \in E, e[1] \in S, \A i \in 1..(k - 1) : path[i] # e[1]
               PROVE  e \in K
    BY DEF AllLookedAt
  <2>1. CASE e[1] = path[k]
    BY <2>1
  <2>2. CASE e[1] # path[k]
    <3>1. \A i \in 1..k : i = k \/ i \in 1..(k - 1)
      BY <1>1
    <3> QED
      BY <2>2, <3>1 DEF Core, AllLookedAt
  <2> QED
    BY <2>1, <2>2
<1> QED
  BY <1>8, <1>9, <1>10, <1>11, <1>12, <1>13 DEF Core

\* What is on the stack from a node on.
Onward(index, S, node) == {y \in S : index[node] <= index[y]}

\* The top that is its own low, with all that was entered after it, is what it
\* reaches and is reached from.
LEMMA TopIsRing ==
  ASSUME NEW N, NEW E \in SUBSET (N \X N), NEW index, NEW low, NEW S, NEW path, NEW k, NEW K, NEW rings,
         Core(N, E, index, low, S, path, k, K, rings), k # 0, low[path[k]] = index[path[k]],
         \A e \in E : e[1] = path[k] => e \in K
  PROVE  /\ \A u \in Onward(index, S, path[k]) : Ring(N, E, u) = Onward(index, S, path[k])
         /\ Shut(E, ((DOMAIN index) \ S) \cup Onward(index, S, path[k]))
<1> DEFINE V == DOMAIN index
           node == path[k]
           top == Onward(index, S, node)
           after == (V \ S) \cup top
<1>0. \A y : y \in top <=> y \in S /\ index[node] <= index[y]
  BY DEF Onward
<1> HIDE DEF top
<1>1. /\ V \in SUBSET N /\ index \in [V -> Nat] /\ S \in SUBSET V /\ k \in Nat
      /\ K \in SUBSET E /\ \A e \in K : e[1] \in S /\ e[2] \in V
  BY DEF Core, Shape
<1>2. k \in 1..k
  BY <1>1
<1>3. /\ \A i \in 1..k : path[i] \in S /\ path[i] \in V /\ path[i] \in N
      /\ \A i, j \in 1..k : index[path[i]] <= index[path[j]] <=> i <= j
  BY PathDiffers DEF Core
<1>4. node \in S /\ node \in V /\ node \in N /\ index[node] \in Nat /\ node \in top
  BY <1>0, <1>1, <1>2, <1>3
<1>5. \A y \in S : y \in V /\ y \in N /\ index[y] \in Nat
  BY <1>1
<1>6. \A y \in top : Leads(N, E, node, y)
  BY <1>0, <1>2 DEF Core, Forth
<1>7. ASSUME NEW y \in top PROVE Leads(N, E, y, node)
  <2>1. PICK i \in 1..k : index[path[i]] <= index[y] /\ Leads(N, E, y, path[i])
    BY <1>0 DEF Core, Back
  <2>2. Leads(N, E, path[i], node)
    <3>1. index[path[i]] <= index[node]
      BY <1>1, <1>2, <1>3
    <3> QED
      BY <1>4, <3>1 DEF Core, Forth
  <2> QED
    BY <1>0, <1>3, <1>4, <1>5, <2>1, <2>2, LeadsLaws
<1>8. ASSUME NEW e \in E, e[1] \in top PROVE e[2] \in after
  <2>1. e \in K
    <3>1. CASE e[1] = node
      BY <3>1
    <3>2. CASE e[1] # node
      <4>1. ASSUME NEW i \in 1..k, path[i] = e[1] PROVE FALSE
        <5>1. index[node] <= index[path[i]]
          BY <1>0, <1>8, <4>1
        <5>2. k <= i
          BY <1>2, <1>3, <5>1
        <5>3. i = k
          BY <1>1, <5>2
        <5> QED
          BY <3>2, <4>1, <5>3
      <4> QED
        BY <1>0, <1>8, <4>1 DEF Core, AllLookedAt
    <3> QED
      BY <3>1, <3>2
  <2>2. CASE e[2] \in S
    <3>1. PICK j \in k..k : low[path[j]] <= index[e[2]]
      BY <1>0, <1>2, <1>8, <2>1, <2>2 DEF Core, LowIsLow
    <3>2. j = k
      BY <1>1
    <3> QED
      BY <1>0, <2>2, <3>1, <3>2
  <2>3. CASE e[2] \notin S
    BY <1>1, <2>1, <2>3
  <2> QED
    BY <2>2, <2>3
<1>9. Shut(E, V \ S)
  BY DEF Core, DoneIsShut
<1>10. Shut(E, after)
  BY <1>8, <1>9 DEF Shut
<1>11. ASSUME NEW u \in top, NEW v \in N, Leads(N, E, u, v), Leads(N, E, v, u) PROVE v \in top
  <2>1. after \in SUBSET N /\ V \ S \in SUBSET N /\ u \in after /\ u \notin V \ S
    BY <1>0, <1>1
  <2>2. v \in after
    BY <1>10, <1>11, <2>1 DEF Leads
  <2>3. v \notin V \ S
    BY <1>9, <1>11, <2>1 DEF Leads
  <2> QED
    BY <2>2, <2>3
<1>12. ASSUME NEW u \in top, NEW v \in top PROVE v \in N /\ Leads(N, E, u, v)
  <2>1. u \in N /\ v \in N
    BY <1>0, <1>5
  <2> QED
    BY <1>4, <1>6, <1>7, <2>1, LeadsLaws
<1>13. \A u \in top : Ring(N, E, u) = top
  BY <1>11, <1>12 DEF Ring
<1> QED
  BY <1>10, <1>13 DEF top

\* The top is left with all that was entered after it, which is a ring.
LEMMA CoreCloses ==
  ASSUME NEW N, NEW E \in SUBSET (N \X N), NEW index, NEW low, NEW S, NEW path, NEW k, NEW K, NEW rings,
         Core(N, E, index, low, S, path, k, K, rings), k # 0, low[path[k]] = index[path[k]],
         \A e \in E : e[1] = path[k] => e \in K,
         NEW top, top = Onward(index, S, path[k])
  PROVE  Core(N, E, index, low, S \ top, path, k - 1, {e \in K : e[1] \in S \ top}, rings \cup {top})
<1> DEFINE V == DOMAIN index
           node == path[k]
           S2 == S \ top
           K2 == {e \in K : e[1] \in S2}
<1>0. \A y : y \in top <=> y \in S /\ index[node] <= index[y]
  BY DEF Onward
<1>1. /\ V \in SUBSET N /\ index \in [V -> Nat] /\ low \in [V -> Nat] /\ S \in SUBSET V /\ k \in Nat
      /\ K \in SUBSET E /\ \A e \in K : e[1] \in S /\ e[2] \in V
  BY DEF Core, Shape
<1>2. k \in 1..k /\ k - 1 \in Nat /\ \A i \in 1..(k - 1) : i \in 1..k /\ i < k
  BY <1>1
<1>3. /\ \A i \in 1..k : path[i] \in S /\ path[i] \in V /\ path[i] \in N
      /\ \A i, j \in 1..k : index[path[i]] <= index[path[j]] <=> i <= j
  BY PathDiffers DEF Core
<1>4. \A u \in V : index[u] \in Nat /\ low[u] \in Nat
  BY <1>1
<1>5. node \in top /\ top \in SUBSET S /\ node \in V
  BY <1>0, <1>2, <1>3, <1>4
<1>6. /\ \A u \in top : Ring(N, E, u) = top
      /\ Shut(E, (V \ S) \cup top)
  <2> DEFINE on == Onward(index, S, path[k])
  <2>1. /\ \A u \in on : Ring(N, E, u) = on
        /\ Shut(E, ((DOMAIN index) \ S) \cup on)
    BY TopIsRing
  <2>2. top = on
    OBVIOUS
  <2> HIDE DEF on
  <2> QED
    BY <2>1, <2>2
<1>7. \A i \in 1..(k - 1) : path[i] \in S2
  <2> TAKE i \in 1..(k - 1)
  <2>1. ~(index[node] <= index[path[i]])
    BY <1>1, <1>2, <1>3
  <2> QED
    BY <1>0, <1>2, <1>3, <2>1
<1>8. \A y \in S2 : y \in S /\ y \in V /\ index[y] < index[node]
  BY <1>0, <1>1, <1>4, <1>5
<1> HIDE DEF V, node, S2
<1>9. Shape(N, E, index, low, S2, path, k - 1, K2)
  <2>1. \A i, j \in 1..(k - 1) : i < j => index[path[i]] < index[path[j]]
    BY <1>2 DEF Core, Shape
  <2> QED
    BY <1>1, <1>2, <1>7, <1>8, <2>1 DEF Core, Shape, V
<1>10. Back(N, E, index, S2, path, k - 1)
  <2> SUFFICES ASSUME NEW y \in S2
               PROVE  \E i \in 1..(k - 1) : index[path[i]] <= index[y] /\ Leads(N, E, y, path[i])
    BY DEF Back
  <2>1. PICK i \in 1..k : index[path[i]] <= index[y] /\ Leads(N, E, y, path[i])
    BY <1>8 DEF Core, Back
  <2>2. i # k
    <3>1. index[y] < index[node] /\ index[y] \in Nat /\ index[node] \in Nat
      BY <1>4, <1>5, <1>8
    <3> QED
      BY <2>1, <3>1 DEF node
  <2> QED
    BY <1>1, <2>1, <2>2
<1>11. Forth(N, E, index, S2, path, k - 1)
  BY <1>2, <1>8 DEF Core, Forth
<1>12. LowIsSeen(N, E, index, low, S2, path, k - 1)
  <2> SUFFICES ASSUME NEW i \in 1..(k - 1)
               PROVE  /\ low[path[i]] <= index[path[i]]
                      /\ \E y \in S2 : index[y] = low[path[i]] /\ Leads(N, E, path[i], y)
    BY DEF LowIsSeen
  <2>1. low[path[i]] <= index[path[i]]
    BY <1>2 DEF Core, LowIsSeen
  <2>2. PICK y \in S : index[y] = low[path[i]] /\ Leads(N, E, path[i], y)
    BY <1>2 DEF Core, LowIsSeen
  <2>3. y \in S2
    <3>1. path[i] \in S2 /\ index[path[i]] < index[node] /\ index[path[i]] \in Nat /\ index[node] \in Nat
      BY <1>4, <1>5, <1>7, <1>8
    <3>2. index[y] \in Nat /\ ~(index[node] <= index[y])
      BY <1>1, <1>4, <2>1, <2>2, <3>1
    <3> QED
      BY <1>0, <2>2, <3>2 DEF S2, node
  <2> QED
    BY <2>1, <2>2, <2>3
<1>13. LowIsLow(index, low, S2, path, k - 1, K2)
  <2> SUFFICES ASSUME NEW e \in K2, e[2] \in S2, NEW i \in 1..(k - 1), index[path[i]] <= index[e[1]]
               PROVE  \E j \in i..(k - 1) : low[path[j]] <= index[e[2]]
    BY DEF LowIsLow
  <2>1. PICK j \in i..k : low[path[j]] <= index[e[2]]
    BY <1>2, <1>8 DEF Core, LowIsLow
  <2>2. j # k
    <3>1. index[e[2]] < index[node] /\ index[e[2]] \in Nat /\ index[node] \in Nat
      BY <1>4, <1>5, <1>8
    <3> QED
      BY <2>1, <3>1 DEF node
  <2> QED
    BY <1>1, <2>1, <2>2
<1>14. AllLookedAt(E, S2, path, k - 1, K2)
  <2> SUFFICES ASSUME NEW e \in E, e[1] \in S2, \A i \in 1..(k - 1) : path[i] # e[1]
               PROVE  e \in K
    BY DEF AllLookedAt
  <2>1. CASE e[1] = path[k]
    BY <2>1
  <2>2. CASE e[1] # path[k]
    <3>1. \A i \in 1..k : i = k \/ i \in 1..(k - 1)
      BY <1>1
    <3> QED
      BY <1>8, <2>2, <3>1 DEF Core, AllLookedAt
  <2> QED
    BY <2>1, <2>2
<1>15. V \ S2 = (V \ S) \cup top
  BY <1>1, <1>5 DEF S2
<1>16. DoneIsShut(E, index, S2)
  BY <1>6, <1>15 DEF DoneIsShut, V
<1>17. RingsFound(N, E, index, S2, rings \cup {top})
  <2>1. rings = {Ring(N, E, u) : u \in V \ S}
    BY DEF Core, RingsFound, V
  <2>2. {Ring(N, E, u) : u \in top} = {top}
    BY <1>5, <1>6
  <2>3. {Ring(N, E, u) : u \in (V \ S) \cup top} = {Ring(N, E, u) : u \in V \ S} \cup {Ring(N, E, u) : u \in top}
    OBVIOUS
  <2> QED
    BY <1>15, <2>1, <2>2, <2>3 DEF RingsFound, V
<1> QED
  BY <1>9, <1>10, <1>11, <1>12, <1>13, <1>14, <1>16, <1>17 DEF Core, S2

----------------------------------------------------------------------------
(* Tarjan's algorithm as it runs.                                          *)

\* A list of children for every number, and the edges it stands for.
IsAdjacency(adj) == \E n \in Nat : adj \in [1..n -> Seq(1..n)]
Steps(adj) == {e \in (DOMAIN adj) \X (DOMAIN adj) : e[2] \in Range(adj[e[1]])}

\* The stack is in the order of the numbers.
Lined(index, stack) ==
  /\ stack \in Seq(DOMAIN index)
  /\ \A i, j \in DOMAIN stack : i < j => index[stack[i]] < index[stack[j]]
\* A state whose sets are right, and whose work stack below k is the path.
Consistent(adj, s, path, k, K) ==
  /\ s = [index |-> s.index, low |-> s.low, next |-> s.next, stack |-> s.stack, work |-> s.work,
          components |-> s.components]
  /\ s.next \in Nat /\ \A u \in DOMAIN s.index : s.index[u] < s.next
  /\ Lined(s.index, s.stack)
  /\ Core(DOMAIN adj, Steps(adj), s.index, s.low, Range(s.stack), path, k, K, s.components)
\* A frame whose children up to the next were looked at.
Frame(adj, frame, node, K) ==
  /\ frame = <<node, frame[2]>> /\ frame[2] \in 1..Len(adj[node])
  /\ \A c \in 1..frame[2] : <<node, adj[node][c]>> \in K
Framed(adj, work, path, k, K) ==
  /\ work \in Seq((DOMAIN adj) \X Nat) /\ Len(work) = k
  /\ \A i \in 1..k : Frame(adj, work[i], path[i], K)

\* A member of a stack has one place in it.
LEMMA StackCut ==
  ASSUME NEW index, NEW stack, Lined(index, stack), index \in [DOMAIN index -> Nat], NEW node \in Range(stack)
  PROVE  LET top == CHOOSE i \in DOMAIN stack : stack[i] = node IN
         /\ Range(SubSeq(stack, top, Len(stack))) = Onward(index, Range(stack), node)
         /\ Range(SubSeq(stack, 1, top - 1)) = Range(stack) \ Onward(index, Range(stack), node)
         /\ Lined(index, SubSeq(stack, 1, top - 1))
<1> DEFINE top == CHOOSE i \in DOMAIN stack : stack[i] = node
           n == Len(stack)
           high == SubSeq(stack, top, n)
           less == SubSeq(stack, 1, top - 1)
           V == DOMAIN index
<1>1. stack \in Seq(V) /\ n \in Nat /\ DOMAIN stack = 1..n
  BY DEF Lined
<1>2. top \in 1..n /\ stack[top] = node
  <2>1. \E i \in DOMAIN stack : stack[i] = node
    BY DEF Range
  <2> QED
    BY <1>1, <2>1
<1>3. /\ \A i \in 1..n : stack[i] \in V /\ index[stack[i]] \in Nat
      /\ \A i, j \in 1..n : i < j => index[stack[i]] < index[stack[j]]
  BY <1>1 DEF Lined
<1>4. \A i \in 1..n : index[node] <= index[stack[i]] <=> top <= i
  <2> TAKE i \in 1..n
  <2>1. i < top \/ i = top \/ top < i
    BY <1>1, <1>2
  <2> QED
    BY <1>1, <1>2, <1>3, <2>1
<1> HIDE DEF top, n, V
<1>5. /\ high \in Seq(V) /\ Len(high) = n - top + 1
      /\ \A i \in 1..(n - top + 1) : high[i] = stack[top + i - 1]
  BY <1>1, <1>2, SubSeqProperties DEF n
<1>6. /\ less \in Seq(V) /\ Len(less) = top - 1 /\ \A i \in 1..(top - 1) : less[i] = stack[i]
  BY <1>1, <1>2, SubSeqProperties DEF n
<1> HIDE DEF high, less
<1>7. Range(stack) = {stack[i] : i \in 1..n}
  BY <1>1 DEF Range
<1>8. Range(high) = {stack[i] : i \in top..n}
  <2>1. DOMAIN high = 1..(n - top + 1)
    BY <1>1, <1>2, <1>5
  <2>2. ASSUME NEW i \in 1..(n - top + 1) PROVE high[i] \in {stack[j] : j \in top..n}
    <3>1. top + i - 1 \in top..n
      BY <1>1, <1>2
    <3> QED
      BY <1>5, <3>1
  <2>3. ASSUME NEW j \in top..n PROVE \E i \in 1..(n - top + 1) : high[i] = stack[j]
    <3>1. j - top + 1 \in 1..(n - top + 1) /\ top + (j - top + 1) - 1 = j
      BY <1>1, <1>2
    <3> QED
      BY <1>5, <3>1
  <2> QED
    BY <2>1, <2>2, <2>3 DEF Range
<1>9. Range(less) = {stack[i] : i \in 1..(top - 1)}
  <2>1. DOMAIN less = 1..(top - 1)
    BY <1>1, <1>2, <1>6
  <2> QED
    BY <1>6, <2>1 DEF Range
<1>10. Range(high) = Onward(index, Range(stack), node)
  <2>1. \A i : i \in top..n <=> i \in 1..n /\ top <= i
    BY <1>1, <1>2
  <2> QED
    BY <1>4, <1>7, <1>8, <2>1 DEF Onward
<1>11. Range(less) = Range(stack) \ Onward(index, Range(stack), node)
  <2>1. \A i : i \in 1..(top - 1) <=> i \in 1..n /\ ~(top <= i)
    BY <1>1, <1>2
  <2> QED
    BY <1>4, <1>7, <1>9, <2>1 DEF Onward
<1>12. Lined(index, less)
  <2>1. DOMAIN less = 1..(top - 1) /\ \A i \in 1..(top - 1) : i \in 1..n
    BY <1>1, <1>2, <1>6
  <2> QED
    BY <1>3, <1>6, <2>1 DEF Lined, V
<1> QED
  BY <1>10, <1>11, <1>12 DEF top, n, high, less

\* A path with one more node.
Onto(path, k, node) == [i \in 1..(k + 1) |-> IF i = k + 1 THEN node ELSE path[i]]

\* A node is entered at the next number, above all others on the stack.
LEMMA EnterIsConsistent ==
  ASSUME NEW adj, IsAdjacency(adj), NEW s, NEW path, NEW k, NEW K, Consistent(adj, s, path, k, K),
         NEW node \in (DOMAIN adj) \ DOMAIN s.index, k # 0 => <<path[k], node>> \in Steps(adj)
  PROVE  LET entered == Enter(s, node)
             path2 == Onto(path, k, node)
             K2 == IF k = 0 THEN K ELSE K \cup {<<path[k], node>>}
         IN  /\ Consistent(adj, entered, path2, k + 1, K2)
             /\ entered.work = s.work /\ DOMAIN entered.index = DOMAIN s.index \cup {node}
<1> DEFINE N == DOMAIN adj
           E == Steps(adj)
           V == DOMAIN s.index
           S == Range(s.stack)
           entered == Enter(s, node)
           index2 == Marked(s.index, node, s.next)
           low2 == Marked(s.low, node, s.next)
           path2 == Onto(path, k, node)
           K2 == IF k = 0 THEN K ELSE K \cup {<<path[k], node>>}
           stack2 == Append(s.stack, node)
<1>1. /\ s = [index |-> s.index, low |-> s.low, next |-> s.next, stack |-> s.stack, work |-> s.work,
              components |-> s.components]
      /\ s.next \in Nat /\ \A u \in V : s.index[u] < s.next
      /\ Core(N, E, s.index, s.low, S, path, k, K, s.components)
  BY DEF Consistent
<1>2. k \in Nat /\ DOMAIN s.low = V /\ s.index \in [V -> Nat] /\ V \in SUBSET N
  BY <1>1 DEF Core, Shape
<1>3. DOMAIN index2 = V \cup {node} /\ index2[node] = s.next /\ \A u \in V : index2[u] = s.index[u]
  BY DEF Marked
<1>4. entered = [index |-> index2, low |-> low2, next |-> s.next + 1, stack |-> stack2,
                 work |-> s.work, components |-> s.components]
  <2> HIDE DEF index2, low2, stack2
  <2>1. entered = [s EXCEPT !.index = index2, !.low = low2, !.next = s.next + 1, !.stack = stack2]
    BY DEF Enter, index2, low2, stack2
  <2> QED
    BY <1>1, <2>1
<1>5. E \in SUBSET (N \X N)
  BY DEF Steps
<1>6. node \in N \ DOMAIN s.index
  OBVIOUS
<1> HIDE DEF N, E, index2, low2, S, K2, path2
<1>7. Core(N, E, index2, low2, S \cup {node}, path2, k + 1, K2, s.components)
  <2>1. (\A i \in 1..k : path2[i] = path[i]) /\ path2[k + 1] = node
    BY <1>2 DEF path2, Onto
  <2>2. k # 0 => <<path[k], node>> \in E
    BY DEF E
  <2>3. K2 = IF k = 0 THEN K ELSE K \cup {<<path[k], node>>}
    BY DEF K2
  <2> QED
    BY <1>1, <1>5, <1>6, <2>1, <2>2, <2>3, CoreEnters DEF index2, low2
<1>8. Lined(index2, stack2) /\ Range(stack2) = S \cup {node}
  <2>1. s.stack \in Seq(V) /\ \A i, j \in DOMAIN s.stack : i < j => s.index[s.stack[i]] < s.index[s.stack[j]]
    BY DEF Consistent, Lined
  <2> DEFINE n == Len(s.stack)
  <2>2. n \in Nat /\ DOMAIN s.stack = 1..n /\ \A i \in 1..n : s.stack[i] \in V
    BY <2>1
  <2>3. DOMAIN index2 = V \cup {node} /\ index2[node] = s.next /\ \A u \in V : index2[u] = s.index[u]
    BY <1>3
  <2>4. /\ stack2 \in Seq(V \cup {node}) /\ DOMAIN stack2 = 1..(n + 1) /\ stack2[n + 1] = node
        /\ \A i \in 1..n : stack2[i] = s.stack[i]
    <3>1. s.stack \in Seq(V \cup {node}) /\ node \in V \cup {node}
      BY <2>1
    <3> HIDE DEF V
    <3> QED
      BY <2>2, <3>1
  <2> HIDE DEF n, stack2, V
  <2>5. \A i \in 1..(n + 1) : i = n + 1 \/ i \in 1..n
    BY <2>2
  <2>6. Range(stack2) = S \cup {node}
    <3>1. S = {s.stack[i] : i \in 1..n}
      BY <2>2 DEF S, Range
    <3>2. Range(stack2) = {stack2[i] : i \in 1..(n + 1)}
      BY <2>4 DEF Range
    <3>3. n + 1 \in 1..(n + 1) /\ \A i \in 1..n : i \in 1..(n + 1)
      BY <2>2
    <3> QED
      BY <2>4, <2>5, <3>1, <3>2, <3>3
  <2>7. ASSUME NEW i \in 1..(n + 1), NEW j \in 1..(n + 1), i < j
        PROVE  index2[stack2[i]] < index2[stack2[j]]
    <3>1. i \in 1..n
      BY <2>2, <2>7
    <3>2. CASE j = n + 1
      BY <1>1, <2>2, <2>3, <2>4, <3>1, <3>2
    <3>3. CASE j # n + 1
      <4>1. j \in 1..n
        BY <2>5, <3>3
      <4> QED
        BY <2>1, <2>2, <2>3, <2>4, <2>7, <3>1, <4>1
    <3> QED
      BY <3>2, <3>3
  <2> QED
    BY <2>3, <2>4, <2>6, <2>7 DEF Lined
<1>9. s.next + 1 \in Nat /\ \A u \in DOMAIN index2 : index2[u] < s.next + 1
  <2>1. \A u \in V : s.index[u] \in Nat
    BY <1>2
  <2> QED
    BY <1>1, <1>3, <2>1
<1>10. DOMAIN index2 = V \cup {node}
  BY <1>3
<1> HIDE DEF stack2, entered
<1>11. /\ entered.index = index2 /\ entered.low = low2 /\ entered.next = s.next + 1 /\ entered.stack = stack2
       /\ entered.work = s.work /\ entered.components = s.components
  BY <1>4
<1>12. Consistent(adj, entered, path2, k + 1, K2)
  BY <1>4, <1>7, <1>8, <1>9, <1>11 DEF Consistent, N, E
<1> QED
  BY <1>10, <1>11, <1>12 DEF entered, path2, K2, V

\* The edges of a node to some of its children.
Fan(node, seen) == {<<node, n>> : n \in seen}
Visited(adj, s, node, seen) == \A n \in seen : n \in DOMAIN s.index /\ <<node, n>> \in Steps(adj)

\* Children that were visited are looked at.
LEMMA LowerIsConsistent ==
  ASSUME NEW adj, NEW s, NEW path, NEW k, NEW K, Consistent(adj, s, path, k, K), k # 0,
         NEW seen, Visited(adj, s, path[k], seen)
  PROVE  LET lowered == Lower(s, path[k], seen) IN
         /\ Consistent(adj, lowered, path, k, K \cup Fan(path[k], seen))
         /\ lowered.work = s.work /\ lowered.index = s.index
<1> DEFINE N == DOMAIN adj
           E == Steps(adj)
           V == DOMAIN s.index
           S == Range(s.stack)
           node == path[k]
           low == s.low
           below == {low[node]} \cup {s.index[n] : n \in {m \in seen : OnStack(s, m)}}
           l == Min(below)
           low2 == [low EXCEPT ![node] = l]
           lowered == Lower(s, node, seen)
           K2 == K \cup Fan(path[k], seen)
<1>0. \A n \in seen : n \in DOMAIN s.index /\ <<path[k], n>> \in Steps(adj)
  BY DEF Visited
<1>1. /\ s = [index |-> s.index, low |-> s.low, next |-> s.next, stack |-> s.stack, work |-> s.work,
              components |-> s.components]
      /\ Core(N, E, s.index, s.low, S, path, k, K, s.components)
  BY DEF Consistent
<1>2. /\ k \in 1..k /\ low \in [V -> Nat] /\ s.index \in [V -> Nat] /\ node \in V
  BY <1>1 DEF Core, Shape
<1>3. lowered = [index |-> s.index, low |-> low2, next |-> s.next, stack |-> s.stack, work |-> s.work,
                 components |-> s.components]
  BY <1>1 DEF Lower
<1>4. l \in below /\ (\A m \in below : l <= m) /\ below \in SUBSET Nat
  <2>1. below \in SUBSET Nat
    <3>1. low[node] \in Nat /\ \A n \in seen : s.index[n] \in Nat
      BY <1>0, <1>2
    <3> HIDE DEF low, node
    <3> QED
      BY <3>1
  <2>2. low[node] \in below
    OBVIOUS
  <2> HIDE DEF below
  <2> QED
    BY <2>1, <2>2, MinIsLeast
<1>5. \A n \in seen : OnStack(s, n) <=> n \in S
  BY DEF OnStack
<1>6. /\ l \in Nat /\ (l = low[path[k]] \/ \E n \in seen : n \in S /\ l = s.index[n])
      /\ l <= low[path[k]] /\ \A n \in seen : n \in S => l <= s.index[n]
  <2>1. \A m : m \in below <=> m = low[node] \/ \E n \in seen : n \in S /\ m = s.index[n]
    BY <1>5
  <2> HIDE DEF below, l
  <2> QED
    BY <1>4, <2>1
<1>7. E \in SUBSET (N \X N)
  BY DEF Steps
<1>8. low2 = [low EXCEPT ![path[k]] = l]
  OBVIOUS
<1>9. K2 = K \cup {<<path[k], n>> : n \in seen}
  BY DEF Fan
<1>10. \A n \in seen : n \in V /\ <<path[k], n>> \in E
  BY <1>0
<1>11. Core(N, E, s.index, low, S, path, k, K, s.components)
  BY <1>1
<1> HIDE DEF N, E, S, l, low, low2, lowered, K2
<1>12. Core(N, E, s.index, low2, S, path, k, K2, s.components)
  BY <1>6, <1>7, <1>8, <1>9, <1>10, <1>11, CoreLooks
<1>13. /\ lowered.index = s.index /\ lowered.low = low2 /\ lowered.next = s.next /\ lowered.stack = s.stack
       /\ lowered.work = s.work /\ lowered.components = s.components
  BY <1>3
<1>14. Consistent(adj, lowered, path, k, K2)
  BY <1>3, <1>12, <1>13 DEF Consistent, N, E, S
<1> QED
  BY <1>13, <1>14 DEF lowered, K2

\* Members of the stack have numbers, and every edge of the model is one of its nodes'.
LEMMA ConsistentLaws ==
  ASSUME NEW adj, NEW s, NEW path, NEW k, NEW K, Consistent(adj, s, path, k, K)
  PROVE  /\ Steps(adj) \in SUBSET ((DOMAIN adj) \X (DOMAIN adj))
         /\ k \in Nat /\ DOMAIN s.index \in SUBSET DOMAIN adj
         /\ s.index \in [DOMAIN s.index -> Nat] /\ s.low \in [DOMAIN s.index -> Nat]
         /\ \A i \in 1..k : path[i] \in Range(s.stack) /\ path[i] \in DOMAIN s.index /\ path[i] \in DOMAIN adj
         /\ \A i, j \in 1..k : i < j => s.index[path[i]] < s.index[path[j]]
         /\ \A i \in 1..k : s.low[path[i]] <= s.index[path[i]]
<1>1. Core(DOMAIN adj, Steps(adj), s.index, s.low, Range(s.stack), path, k, K, s.components)
  BY DEF Consistent
<1> QED
  BY <1>1 DEF Core, Shape, LowIsSeen, Steps

\* The frames of a path are its nodes'.
LEMMA FramesArePath ==
  ASSUME NEW adj, NEW work, NEW path, NEW k \in Nat, NEW K, Framed(adj, work, path, k, K)
  PROVE  /\ work = <<>> <=> k = 0
         /\ k # 0 => Last(work)[1] = path[k] /\ Last(work) = work[k]
<1>1. work \in Seq((DOMAIN adj) \X Nat) /\ Len(work) = k /\ \A i \in 1..k : work[i][1] = path[i]
  BY DEF Framed, Frame
<1> QED
  BY <1>1 DEF Last

\* A node that is left: its low lowers that of the node below, or it takes what was
\* entered after it from the stack.
LEMMA LeaveIsConsistent ==
  ASSUME NEW adj, NEW s, NEW path, NEW k, NEW K, Consistent(adj, s, path, k, K), k # 0,
         \A e \in Steps(adj) : e[1] = path[k] => e \in K,
         NEW below, Framed(adj, below, path, k - 1, K)
  PROVE  LET left == Leave(Close(s, path[k]), path[k], below) IN
         \E K2 \in SUBSET K : /\ Consistent(adj, left, path, k - 1, K2) /\ Framed(adj, below, path, k - 1, K2)
                              /\ left.work = below /\ left.index = s.index
<1> DEFINE N == DOMAIN adj
           E == Steps(adj)
           V == DOMAIN s.index
           S == Range(s.stack)
           node == path[k]
           parent == path[k - 1]
           low == s.low
           left == Leave(Close(s, node), node, below)
<1>1. /\ s = [index |-> s.index, low |-> s.low, next |-> s.next, stack |-> s.stack, work |-> s.work,
              components |-> s.components]
      /\ Core(N, E, s.index, s.low, S, path, k, K, s.components)
      /\ s.next \in Nat /\ \A u \in V : s.index[u] < s.next
      /\ Lined(s.index, s.stack)
  BY DEF Consistent
<1>2. /\ E \in SUBSET (N \X N) /\ k \in Nat /\ s.index \in [V -> Nat] /\ low \in [V -> Nat]
      /\ \A i \in 1..k : path[i] \in S /\ path[i] \in V
      /\ \A i, j \in 1..k : i < j => s.index[path[i]] < s.index[path[j]]
      /\ \A i \in 1..k : low[path[i]] <= s.index[path[i]]
  BY ConsistentLaws
<1>3. k - 1 \in Nat /\ k \in 1..k /\ (k - 1 # 0 => k - 1 \in 1..k)
  BY <1>2
<1>4. /\ below = <<>> <=> k - 1 = 0
      /\ k - 1 # 0 => Last(below)[1] = parent
  BY <1>3, FramesArePath
<1>5. CASE low[node] # s.index[node]
  <2> DEFINE m == Min({low[parent], low[node]})
             low2 == [low EXCEPT ![parent] = m]
  <2>1. k - 1 # 0
    <3>1. \E i \in 1..(k - 1) : Leads(N, E, path[k], path[i])
      BY <1>1, <1>2, <1>5, LeftIsBelow
    <3> QED
      BY <1>3, <3>1
  <2>2. low[parent] \in Nat /\ low[node] \in Nat
    BY <1>2, <1>3, <2>1
  <2>3. (m = low[parent] \/ m = low[node]) /\ m <= low[parent] /\ m <= low[node]
    <3> HIDE DEF low, parent, node
    <3>1. low[parent] \in Int /\ low[node] \in Int
      BY <2>2
    <3>2. low[parent] <= low[node] \/ low[node] <= low[parent]
      BY <2>2
    <3>3. Min({low[parent], low[node]}) \in {low[parent], low[node]}
          /\ \A x \in {low[parent], low[node]} : Min({low[parent], low[node]}) <= x
      BY <2>2, MinIsLeast
    <3> QED
      BY <3>3
  <2> HIDE DEF m
  <2>4. Core(N, E, s.index, low2, S, path, k - 1, K, s.components)
    BY <1>1, <1>2, <1>5, <2>3, CoreLeaves
  <2>5. left = [index |-> s.index, low |-> low2, next |-> s.next, stack |-> s.stack, work |-> below,
                components |-> s.components]
    <3>1. Close(s, node) = s
      BY <1>5 DEF Close
    <3>2. left = [s EXCEPT !.work = below, !.low[parent] = Min({@, s.low[node]})]
      BY <1>4, <2>1, <3>1 DEF Leave
    <3> HIDE DEF left, node, parent
    <3> QED
      BY <1>1, <3>2 DEF m
  <2> HIDE DEF left, low2
  <2>6. /\ left.index = s.index /\ left.low = low2 /\ left.next = s.next /\ left.stack = s.stack
        /\ left.work = below /\ left.components = s.components
    BY <2>5
  <2>7. Consistent(adj, left, path, k - 1, K)
    BY <1>1, <2>4, <2>5, <2>6 DEF Consistent
  <2> QED
    BY <2>6, <2>7 DEF left
<1>6. CASE low[node] = s.index[node]
  <2> DEFINE high == Onward(s.index, S, node)
             K2 == {e \in K : e[1] \in S \ high}
             at == CHOOSE i \in DOMAIN s.stack : s.stack[i] = node
             stack2 == SubSeq(s.stack, 1, at - 1)
             rings2 == s.components \cup {high}
  <2>1. Core(N, E, s.index, low, S \ high, path, k - 1, K2, rings2)
    BY <1>1, <1>2, <1>6, CoreCloses
  <2>2. /\ Range(SubSeq(s.stack, at, Len(s.stack))) = high
        /\ Range(stack2) = S \ high /\ Lined(s.index, stack2)
    BY <1>1, <1>2, <1>3, StackCut
  <2>3. Close(s, node) = [index |-> s.index, low |-> low, next |-> s.next, stack |-> stack2,
                          work |-> s.work, components |-> rings2]
    <3>1. Close(s, node) = [s EXCEPT !.stack = stack2,
                              !.components = @ \cup {Range(SubSeq(s.stack, at, Len(s.stack)))}]
      BY <1>6 DEF Close
    <3> HIDE DEF stack2, at, high
    <3> QED
      BY <1>1, <2>2, <3>1
  <2>4. left = [index |-> s.index, low |-> low, next |-> s.next, stack |-> stack2,
                work |-> below, components |-> rings2]
    <3> DEFINE c == Close(s, node)
    <3>1. CASE k - 1 = 0
      <4>1. left = [c EXCEPT !.work = <<>>] /\ below = <<>>
        BY <1>4, <3>1 DEF Leave
      <4> HIDE DEF c, left, stack2, rings2
      <4> QED
        BY <2>3, <4>1 DEF c
    <3>2. CASE k - 1 # 0
      <4>1. left = [c EXCEPT !.work = below, !.low[parent] = Min({@, c.low[node]})]
        BY <1>4, <3>2 DEF Leave
      <4> HIDE DEF c, left, stack2, rings2
      <4>2. c.low = low
        BY <2>3 DEF c
      <4>3. low[parent] \in Nat /\ low[node] \in Nat /\ low[parent] <= low[node] /\ parent \in V
        <5>1. k - 1 \in 1..k /\ k - 1 < k
          BY <1>3, <3>2
        <5>2. low[parent] <= s.index[parent] /\ s.index[parent] < s.index[node] /\ parent \in V /\ node \in V
          BY <1>2, <1>3, <5>1
        <5>3. low[parent] \in Nat /\ s.index[parent] \in Nat /\ s.index[node] \in Nat
          BY <1>2, <5>2
        <5> QED
          BY <1>6, <5>2, <5>3
      <4>4. Min({low[parent], low[node]}) = low[parent]
        <5> HIDE DEF low, parent, node
        <5>1. low[parent] \in Int /\ low[node] \in Int /\ low[parent] <= low[node]
          BY <4>3
        <5> QED
          BY <5>1, MaxAndMinOfTwo
      <4>5. [low EXCEPT ![parent] = low[parent]] = low
        BY <1>2, <4>3
      <4> HIDE DEF low, parent, node
      <4>6. left = [c EXCEPT !.work = below, !.low = [low EXCEPT ![parent] = Min({low[parent], low[node]})]]
        BY <2>3, <4>1, <4>2 DEF c
      <4>7. c = [index |-> s.index, low |-> low, next |-> s.next, stack |-> stack2,
                 work |-> s.work, components |-> rings2]
        BY <2>3 DEF c
      <4> QED
        BY <4>4, <4>5, <4>6, <4>7
    <3> QED
      BY <3>1, <3>2
  <2>5. Framed(adj, below, path, k - 1, K2)
    <3>1. \A i \in 1..(k - 1) : path[i] \in S \ high
      <4> TAKE i \in 1..(k - 1)
      <4>1. i \in 1..k /\ i < k
        BY <1>3
      <4>2. s.index[path[i]] < s.index[node] /\ s.index[path[i]] \in Nat /\ s.index[node] \in Nat
        BY <1>2, <1>3, <4>1
      <4> QED
        BY <1>2, <4>1, <4>2 DEF Onward
    <3> HIDE DEF high
    <3> QED
      BY <3>1 DEF Framed, Frame
  <2> HIDE DEF left, high, stack2, rings2, K2
  <2>6. /\ left.index = s.index /\ left.low = low /\ left.next = s.next /\ left.stack = stack2
        /\ left.work = below /\ left.components = rings2
    BY <2>4
  <2>7. Consistent(adj, left, path, k - 1, K2)
    BY <1>1, <2>1, <2>2, <2>4, <2>6 DEF Consistent
  <2>8. K2 \in SUBSET K
    BY DEF K2
  <2> QED
    BY <2>5, <2>6, <2>7, <2>8 DEF left
<1> QED
  BY <1>5, <1>6

----------------------------------------------------------------------------
(* A turn of the loop.                                                     *)

\* Every node of the work stack is entered; or its last is to be, and the one below
\* is to look at it.
Ready(adj, s, path, k, K) == Consistent(adj, s, path, k, K) /\ Framed(adj, s.work, path, k, K)
Facing(adj, s, path, k, K, node) ==
  /\ Consistent(adj, s, path, k, K)
  /\ node \in (DOMAIN adj) \ DOMAIN s.index /\ (k # 0 => <<path[k], node>> \in Steps(adj))
  /\ \E below : /\ s.work = Append(below, <<node, 0>>)
                /\ Framed(adj, below, path, k, IF k = 0 THEN K ELSE K \cup {<<path[k], node>>})

\* The part of a turn that follows entering a node.
Looked(adj, s, node, child, below) ==
  LET list == adj[node]
      fresh == {i \in (child + 1)..Len(list) : list[i] \notin DOMAIN s.index}
      upto == IF fresh = {} THEN Len(list) ELSE Min(fresh) - 1
      lowered == Lower(s, node, {list[i] : i \in (child + 1)..upto})
  IN  IF fresh # {}
      THEN [lowered EXCEPT !.work = below \o << <<node, Min(fresh)>>, <<list[Min(fresh)], 0>> >>]
      ELSE Leave(Close(lowered, node), node, below)

\* One more frame, of the node on top.
LEMMA FrameOnTop ==
  ASSUME NEW adj, NEW below, NEW path, NEW k \in Nat, k # 0, NEW K, Framed(adj, below, path, k - 1, K),
         NEW K2, K \in SUBSET K2, path[k] \in DOMAIN adj,
         NEW f \in 1..Len(adj[path[k]]), Len(adj[path[k]]) \in Nat,
         \A c \in 1..f : <<path[k], adj[path[k]][c]>> \in K2
  PROVE  Framed(adj, Append(below, <<path[k], f>>), path, k, K2)
<1> DEFINE work == Append(below, <<path[k], f>>)
<1>1. below \in Seq((DOMAIN adj) \X Nat) /\ Len(below) = k - 1 /\ \A i \in 1..(k - 1) : Frame(adj, below[i], path[i], K)
  BY DEF Framed
<1>2. <<path[k], f>> \in (DOMAIN adj) \X Nat
  OBVIOUS
<1>3. /\ work \in Seq((DOMAIN adj) \X Nat) /\ Len(work) = k /\ work[k] = <<path[k], f>>
      /\ \A i \in 1..(k - 1) : work[i] = below[i]
  BY <1>1, <1>2
<1>4. ASSUME NEW i \in 1..k PROVE Frame(adj, work[i], path[i], K2)
  <2>1. CASE i = k
    <3>1. Frame(adj, <<path[k], f>>, path[k], K2)
      BY DEF Frame
    <3> QED
      BY <1>3, <2>1, <3>1
  <2>2. CASE i # k
    <3>1. i \in 1..(k - 1)
      BY <2>2
    <3>2. Frame(adj, below[i], path[i], K2)
      BY <1>1, <3>1 DEF Frame
    <3> QED
      BY <1>3, <3>1, <3>2
  <2> QED
    BY <2>1, <2>2
<1> QED
  BY <1>3, <1>4 DEF Framed

\* A state with another work stack.
Working(s, work) == [s EXCEPT !.work = work]

\* The work stack is not what makes a state sound.
LEMMA WorkIsFree ==
  ASSUME NEW adj, NEW s, NEW path, NEW k, NEW K, Consistent(adj, s, path, k, K), NEW work
  PROVE  LET t == Working(s, work) IN
         Consistent(adj, t, path, k, K) /\ t.work = work /\ t.index = s.index
<1> DEFINE t == Working(s, work)
<1>1. s = [index |-> s.index, low |-> s.low, next |-> s.next, stack |-> s.stack, work |-> s.work,
           components |-> s.components]
  BY DEF Consistent
<1>2. t = [index |-> s.index, low |-> s.low, next |-> s.next, stack |-> s.stack, work |-> work,
           components |-> s.components]
  BY <1>1 DEF Working
<1> HIDE DEF t
<1>3. /\ t.index = s.index /\ t.low = s.low /\ t.next = s.next /\ t.stack = s.stack /\ t.work = work
      /\ t.components = s.components
  BY <1>2
<1> QED
  BY <1>2, <1>3 DEF Consistent, t

\* A node looks at its children up to the first that is new, or is left.
LEMMA LookKeeps ==
  ASSUME NEW adj, IsAdjacency(adj), NEW s, NEW path, NEW k, NEW K, Consistent(adj, s, path, k, K), k # 0,
         NEW child \in 0..Len(adj[path[k]]), NEW below, Framed(adj, below, path, k - 1, K),
         \A c \in 1..child : <<path[k], adj[path[k]][c]>> \in K
  PROVE  LET t == Looked(adj, s, path[k], child, below) IN
         /\ t.index = s.index
         /\ \/ \E K2 : Ready(adj, t, path, k - 1, K2)
            \/ \E K2, n : Facing(adj, t, path, k, K2, n)
<1> DEFINE node == path[k]
           list == adj[node]
           V == DOMAIN s.index
           fresh == {i \in (child + 1)..Len(list) : list[i] \notin V}
           upto == IF fresh = {} THEN Len(list) ELSE Min(fresh) - 1
           seen == {list[i] : i \in (child + 1)..upto}
           lowered == Lower(s, node, seen)
           t == Looked(adj, s, node, child, below)
           K1 == K \cup Fan(path[k], seen)
<1>1. /\ Steps(adj) \in SUBSET ((DOMAIN adj) \X (DOMAIN adj)) /\ k \in Nat /\ V \in SUBSET DOMAIN adj
      /\ \A i \in 1..k : path[i] \in V /\ path[i] \in DOMAIN adj
  BY ConsistentLaws
<1>2. k \in 1..k /\ node \in DOMAIN adj /\ node \in V
  BY <1>1
<1>3. list \in Seq(DOMAIN adj) /\ Len(list) \in Nat /\ DOMAIN list = 1..Len(list)
  <2>1. PICK n \in Nat : adj \in [1..n -> Seq(1..n)]
    BY DEF IsAdjacency
  <2>2. DOMAIN adj = 1..n
    BY <2>1
  <2>3. list \in Seq(DOMAIN adj)
    BY <1>2, <2>1, <2>2
  <2> HIDE DEF list
  <2> QED
    BY <2>3
<1>4. \A i \in 1..Len(list) : list[i] \in DOMAIN adj /\ <<node, list[i]>> \in Steps(adj)
  <2> TAKE i \in 1..Len(list)
  <2>1. list[i] \in DOMAIN adj
    <3> HIDE DEF list
    <3> QED
      BY <1>3
  <2>2. list[i] \in Range(list)
    BY <1>3 DEF Range
  <2> QED
    BY <1>2, <2>1, <2>2 DEF Steps
<1>5. child \in Nat /\ child <= Len(list)
  BY <1>3
<1>6. fresh # {} => Min(fresh) \in fresh /\ \A i \in fresh : Min(fresh) <= i
  <2>1. fresh \in SUBSET Nat
    BY <1>3, <1>5
  <2> HIDE DEF fresh
  <2> QED
    BY <2>1, MinIsLeast
<1>7. /\ upto \in Nat /\ upto <= Len(list) /\ child <= upto
      /\ fresh # {} => Min(fresh) = upto + 1 /\ Min(fresh) \in 1..Len(list) /\ list[Min(fresh)] \notin V
      /\ fresh = {} => upto = Len(list)
  <2> HIDE DEF list
  <2>1. CASE fresh = {}
    BY <1>3, <1>5, <2>1
  <2>2. CASE fresh # {}
    <3>1. Min(fresh) \in (child + 1)..Len(list) /\ list[Min(fresh)] \notin V
      BY <1>6, <2>2
    <3> HIDE DEF fresh
    <3> QED
      BY <1>3, <1>5, <2>2, <3>1
  <2> QED
    BY <2>1, <2>2
<1>8. \A i \in (child + 1)..upto : i \in 1..Len(list) /\ list[i] \in V
  <2> TAKE i \in (child + 1)..upto
  <2> HIDE DEF upto
  <2>1. i \in (child + 1)..Len(list) /\ i \in 1..Len(list)
    BY <1>3, <1>5, <1>7
  <2>2. CASE fresh = {}
    BY <2>1, <2>2
  <2>3. CASE fresh # {}
    <3>1. ~(Min(fresh) <= i)
      BY <1>5, <1>7, <2>3
    <3> QED
      BY <1>6, <2>1, <2>3, <3>1
  <2> QED
    BY <2>1, <2>2, <2>3
<1> HIDE DEF upto, fresh
<1>9. seen \in SUBSET V /\ \A n \in seen : <<path[k], n>> \in Steps(adj)
  BY <1>4, <1>8
<1> HIDE DEF seen
<1>10. Consistent(adj, lowered, path, k, K1) /\ lowered.index = s.index
  <2> DEFINE l == Lower(s, path[k], seen)
  <2>1. Consistent(adj, l, path, k, K1) /\ l.work = s.work /\ l.index = s.index
    <3>1. Visited(adj, s, path[k], seen)
      BY <1>9 DEF Visited
    <3> HIDE DEF node, list, V, K1, lowered, t, l
    <3>2. Consistent(adj, Lower(s, path[k], seen), path, k, K \cup Fan(path[k], seen))
      BY <3>1, LowerIsConsistent
    <3>3. s = [index |-> s.index, low |-> s.low, next |-> s.next, stack |-> s.stack, work |-> s.work,
               components |-> s.components]
      BY DEF Consistent
    <3>4. Lower(s, path[k], seen).work = s.work /\ Lower(s, path[k], seen).index = s.index
      BY <3>3 DEF Lower
    <3> QED
      BY <3>2, <3>4 DEF l, K1
  <2> QED
    BY <2>1
<1>11. \A c \in 1..upto : <<node, list[c]>> \in K1
  <2> TAKE c \in 1..upto
  <2>1. CASE c \in 1..child
    BY <2>1
  <2>2. CASE c \notin 1..child
    <3>1. c \in (child + 1)..upto
      BY <1>5, <1>7, <2>2
    <3> QED
      BY <3>1 DEF seen, Fan
  <2> QED
    BY <2>1, <2>2
<1>12. t = IF fresh # {}
           THEN [lowered EXCEPT !.work = below \o << <<node, Min(fresh)>>, <<list[Min(fresh)], 0>> >>]
           ELSE Leave(Close(lowered, node), node, below)
  BY DEF Looked, fresh, upto, seen
<1> HIDE DEF lowered, t, node, list, K1, V
<1>13. CASE fresh # {}
  <2> DEFINE f == Min(fresh)
             n == list[f]
             under == Append(below, <<node, f>>)
             K2 == K1 \cup {<<path[k], n>>}
  <2>1. f \in 1..Len(list) /\ n \notin V /\ f = upto + 1
    BY <1>7, <1>13
  <2>2. below \o << <<node, f>>, <<n, 0>> >> = Append(under, <<n, 0>>)
    <3> DEFINE T == (DOMAIN adj) \X Nat
    <3>1. below \in Seq(T)
      BY DEF Framed
    <3>2. <<node, f>> \in T /\ <<n, 0>> \in T
      BY <1>2, <1>3, <1>4, <2>1
    <3> HIDE DEF T, f, n
    <3> DEFINE a == <<node, f>>
               b == <<n, 0>>
    <3>3. a \in T /\ b \in T
      BY <3>2
    <3> HIDE DEF a, b
    <3>4. below \o <<a, b>> = Append(Append(below, a), b)
      BY <3>1, <3>3
    <3> QED
      BY <3>4 DEF a, b
  <2>3. t = [lowered EXCEPT !.work = Append(under, <<n, 0>>)]
    BY <1>12, <1>13, <2>2
  <2> HIDE DEF f, n, under
  <2>4. Consistent(adj, t, path, k, K1) /\ t.work = Append(under, <<n, 0>>) /\ t.index = s.index
    <3> DEFINE w == Append(under, <<n, 0>>)
    <3> HIDE DEF w
    <3>1. t = Working(lowered, w)
      BY <2>3 DEF w, Working
    <3>2. Consistent(adj, t, path, k, K1) /\ t.work = w /\ t.index = lowered.index
      BY <1>10, <3>1, WorkIsFree
    <3> QED
      BY <1>10, <3>2 DEF w, V
  <2>5. Framed(adj, under, path, k, K2)
    <3>1. \A c \in 1..f : <<path[k], adj[path[k]][c]>> \in K2
      <4> TAKE c \in 1..f
      <4>1. CASE c = f
        BY <4>1 DEF n, list, node
      <4>2. CASE c # f
        <5>1. c \in 1..upto
          BY <1>7, <2>1, <4>2
        <5> QED
          BY <1>11, <5>1 DEF list, node
      <4> QED
        BY <4>1, <4>2
    <3>2. K \in SUBSET K2
      BY DEF K1
    <3>3. f \in 1..Len(adj[path[k]]) /\ Len(adj[path[k]]) \in Nat /\ path[k] \in DOMAIN adj
      BY <1>2, <1>3, <2>1 DEF list, node
    <3> HIDE DEF K2
    <3> QED
      BY <1>1, <3>1, <3>2, <3>3, FrameOnTop DEF under, node
  <2>6. n \in (DOMAIN adj) \ DOMAIN t.index /\ <<path[k], n>> \in Steps(adj)
    BY <1>4, <2>1, <2>4 DEF n, V, node
  <2>7. Facing(adj, t, path, k, K1, n)
    BY <2>4, <2>5, <2>6 DEF Facing
  <2> QED
    BY <2>4, <2>7 DEF t, node
<1>14. CASE fresh = {}
  <2>1. t = Leave(Close(lowered, path[k]), path[k], below)
    BY <1>12, <1>14 DEF node
  <2>2. \A e \in Steps(adj) : e[1] = path[k] => e \in K1
    <3> TAKE e \in Steps(adj)
    <3> HAVE e[1] = path[k]
    <3>1. e = <<node, e[2]>> /\ e[2] \in Range(list)
      BY DEF Steps, list, node
    <3>2. PICK c \in 1..Len(list) : e[2] = list[c]
      BY <1>3, <3>1 DEF Range
    <3> QED
      BY <1>7, <1>11, <1>14, <3>1, <3>2
  <2>3. Framed(adj, below, path, k - 1, K1)
    BY DEF Framed, Frame, K1
  <2>4. PICK K2 \in SUBSET K1 : /\ Consistent(adj, t, path, k - 1, K2) /\ Framed(adj, below, path, k - 1, K2)
                                /\ t.work = below /\ t.index = lowered.index
    BY <1>10, <2>1, <2>2, <2>3, LeaveIsConsistent
  <2>5. Ready(adj, t, path, k - 1, K2)
    BY <2>4 DEF Ready
  <2> QED
    BY <1>10, <2>4, <2>5 DEF t, node
<1> QED
  BY <1>13, <1>14

----------------------------------------------------------------------------
(* How many turns are left.                                                *)

\* A state of the run that has m turns to go: two for each node that is neither
\* entered nor to be entered next, and one for each frame.
Unvisited(adj, s) == Cardinality((DOMAIN adj) \ DOMAIN s.index)
Running(adj, s, m) ==
  \/ \E path, k, K : Ready(adj, s, path, k, K) /\ m = 2 * Unvisited(adj, s) + k
  \/ \E path, k, K, node : Facing(adj, s, path, k, K, node) /\ m = 2 * Unvisited(adj, s) + k - 1

\* There are finitely many nodes.
LEMMA NodesAreFinite ==
  ASSUME NEW adj, IsAdjacency(adj)
  PROVE  /\ DOMAIN adj \in SUBSET Nat
         /\ \A V : IsFiniteSet((DOMAIN adj) \ V) /\ Cardinality((DOMAIN adj) \ V) \in Nat
         /\ \A V : Cardinality((DOMAIN adj) \ V) = 0 <=> (DOMAIN adj) \ V = {}
<1>1. PICK n \in Nat : adj \in [1..n -> Seq(1..n)]
  BY DEF IsAdjacency
<1>2. DOMAIN adj = 1..n
  BY <1>1
<1>3. IsFiniteSet(DOMAIN adj)
  BY <1>2, FS_Interval
<1>4. \A V : IsFiniteSet((DOMAIN adj) \ V)
  BY <1>3, FS_Subset
<1> QED
  <2>1. DOMAIN adj \in SUBSET Nat
    BY <1>2
  <2>2. ASSUME NEW V
        PROVE  /\ Cardinality((DOMAIN adj) \ V) \in Nat
               /\ Cardinality((DOMAIN adj) \ V) = 0 <=> (DOMAIN adj) \ V = {}
    <3> DEFINE U == (DOMAIN adj) \ V
    <3>1. IsFiniteSet(U)
      BY <1>4
    <3> HIDE DEF U
    <3>2. Cardinality(U) \in Nat /\ (Cardinality(U) = 0 <=> U = {})
      BY <3>1, FS_CardinalityType, FS_EmptySet
    <3> QED
      BY <3>2 DEF U
  <2> QED
    BY <1>4, <2>1, <2>2

\* A turn that enters nothing: from an empty work stack, or with the top's next child.
LEMMA ReadyGoes ==
  ASSUME NEW adj, IsAdjacency(adj), NEW s, NEW path, NEW k, NEW K, Ready(adj, s, path, k, K),
         NEW m, m = 2 * Unvisited(adj, s) + k
  PROVE  /\ m \in Nat
         /\ m = 0 => TarjanStep(adj, s) = s
         /\ m # 0 => Running(adj, TarjanStep(adj, s), m - 1)
<1> DEFINE V == DOMAIN s.index
           t == TarjanStep(adj, s)
<1>1. Consistent(adj, s, path, k, K) /\ Framed(adj, s.work, path, k, K)
  BY DEF Ready
<1>2. k \in Nat /\ V \in SUBSET DOMAIN adj /\ \A i \in 1..k : path[i] \in DOMAIN adj
  BY <1>1, ConsistentLaws
<1>3. Unvisited(adj, s) \in Nat /\ (Unvisited(adj, s) = 0 <=> (DOMAIN adj) \ V = {})
  BY NodesAreFinite DEF Unvisited
<1>4. s.work = <<>> <=> k = 0
  BY <1>1, <1>2, FramesArePath
<1>5. CASE k = 0
  <2> DEFINE roots == (DOMAIN adj) \ V
  <2>1. t = IF roots = {} THEN s ELSE [s EXCEPT !.work = << <<Min(roots), 0>> >>]
    BY <1>4, <1>5 DEF TarjanStep
  <2>2. CASE roots = {}
    BY <1>3, <1>5, <2>1, <2>2
  <2>3. CASE roots # {}
    <3> DEFINE node == Min(roots)
               work == << <<node, 0>> >>
    <3>1. node \in roots
      <4>1. roots \in SUBSET Nat
        BY NodesAreFinite
      <4> HIDE DEF roots
      <4> QED
        BY <2>3, <4>1, MinIsLeast
    <3>2. t = Working(s, work)
      BY <2>1, <2>3 DEF Working
    <3> HIDE DEF t, work, roots, node
    <3>3. Consistent(adj, t, path, k, K) /\ t.work = work /\ t.index = s.index
      BY <1>1, <3>2, WorkIsFree
    <3>4. Framed(adj, <<>>, path, k, K)
      BY <1>5 DEF Framed
    <3>5. work = Append(<<>>, <<node, 0>>)
      BY DEF work
    <3>6. Facing(adj, t, path, k, K, node)
      <4>1. node \in (DOMAIN adj) \ DOMAIN t.index
        BY <3>1, <3>3 DEF roots
      <4>2. \E below : t.work = Append(below, <<node, 0>>) /\ Framed(adj, below, path, k, K)
        BY <3>3, <3>4, <3>5
      <4> QED
        BY <1>5, <3>3, <4>1, <4>2 DEF Facing
    <3>7. m - 1 = 2 * Unvisited(adj, t) + k - 1
      BY <1>3, <1>5, <3>3 DEF Unvisited
    <3>8. Running(adj, t, m - 1)
      BY <3>6, <3>7 DEF Running
    <3>9. m \in Nat /\ m # 0
      <4>1. Unvisited(adj, s) # 0
        BY <1>3, <2>3 DEF roots
      <4> QED
        BY <1>3, <1>5, <4>1
    <3> QED
      BY <3>8, <3>9 DEF t
  <2> QED
    BY <2>2, <2>3
<1>6. CASE k # 0
  <2> DEFINE below == Front(s.work)
             child == s.work[k][2]
             entered == s
  <2>0. s.work \in Seq((DOMAIN adj) \X Nat) /\ Len(s.work) = k /\ \A i \in 1..k : Frame(adj, s.work[i], path[i], K)
    BY <1>1 DEF Framed
  <2>1. k \in 1..k /\ Frame(adj, s.work[k], path[k], K)
    BY <1>2, <1>6, <2>0
  <2>2. /\ s.work # <<>> /\ Last(s.work)[1] = path[k] /\ Last(s.work)[2] = child
    BY <1>1, <1>2, <1>4, <1>6, FramesArePath
  <2>3. child \in 1..Len(adj[path[k]]) /\ child \in 0..Len(adj[path[k]]) /\ child > 0
        /\ \A c \in 1..child : <<path[k], adj[path[k]][c]>> \in K
    BY <2>1 DEF Frame
  <2>4. Framed(adj, below, path, k - 1, K)
    <3>1. /\ below \in Seq((DOMAIN adj) \X Nat) /\ Len(below) = k - 1
          /\ \A i \in 1..(k - 1) : below[i] = s.work[i]
      <4> DEFINE T == (DOMAIN adj) \X Nat
      <4>1. s.work \in Seq(T) /\ Len(s.work) = k /\ k - 1 \in Nat /\ 1 \in Int /\ k - 1 \in Int
        BY <1>2, <1>6, <2>0
      <4>2. below = SubSeq(s.work, 1, k - 1)
        BY <4>1 DEF Front
      <4> HIDE DEF T, below
      <4> QED
        BY <1>2, <1>6, <4>1, <4>2, SubSeqProperties DEF T
    <3> HIDE DEF below
    <3>2. ASSUME NEW i \in 1..(k - 1) PROVE Frame(adj, below[i], path[i], K)
      <4>1. i \in 1..k /\ below[i] = s.work[i]
        BY <1>2, <3>1
      <4> QED
        BY <2>0, <4>1
    <3> QED
      BY <3>1, <3>2 DEF Framed
  <2>5. t = Looked(adj, s, path[k], child, below)
    <3>1. (Last(s.work)[2] > 0) = TRUE
      BY <2>2, <2>3
    <3> QED
      BY <2>2, <2>3, <3>1 DEF TarjanStep, Looked
  <2> HIDE DEF t, child, below
  <2>6. /\ t.index = s.index
        /\ \/ \E K2 : Ready(adj, t, path, k - 1, K2)
           \/ \E K2, n : Facing(adj, t, path, k, K2, n)
    BY <1>1, <1>6, <2>3, <2>4, <2>5, LookKeeps
  <2>7. Unvisited(adj, t) = Unvisited(adj, s)
    BY <2>6 DEF Unvisited
  <2>8. m - 1 = 2 * Unvisited(adj, t) + (k - 1) /\ m - 1 = 2 * Unvisited(adj, t) + k - 1
    BY <1>2, <1>3, <2>7
  <2>9. Running(adj, t, m - 1)
    BY <2>6, <2>8 DEF Running
  <2>10. m \in Nat /\ m # 0
    BY <1>2, <1>3, <1>6
  <2> QED
    BY <2>9, <2>10 DEF t
<1> QED
  BY <1>5, <1>6

\* A turn that enters the node the one before it came to.
LEMMA FacingGoes ==
  ASSUME NEW adj, IsAdjacency(adj), NEW s, NEW path, NEW k, NEW K, NEW node, Facing(adj, s, path, k, K, node),
         NEW m, m = 2 * Unvisited(adj, s) + k - 1
  PROVE  m \in Nat /\ m # 0 /\ Running(adj, TarjanStep(adj, s), m - 1)
<1> DEFINE V == DOMAIN s.index
           t == TarjanStep(adj, s)
           entered == Enter(s, node)
           path2 == Onto(path, k, node)
           K2 == IF k = 0 THEN K ELSE K \cup {<<path[k], node>>}
<1>1. /\ Consistent(adj, s, path, k, K)
      /\ node \in (DOMAIN adj) \ V /\ (k # 0 => <<path[k], node>> \in Steps(adj))
  BY DEF Facing
<1>2. PICK below : s.work = Append(below, <<node, 0>>) /\ Framed(adj, below, path, k, K2)
  BY DEF Facing
<1>3. k \in Nat /\ V \in SUBSET DOMAIN adj
  BY <1>1, ConsistentLaws
<1>4. /\ Consistent(adj, entered, path2, k + 1, K2)
      /\ entered.work = s.work /\ DOMAIN entered.index = V \cup {node}
  BY <1>1, EnterIsConsistent
<1>5. path2[k + 1] = node /\ \A i \in 1..k : path2[i] = path[i]
  BY <1>3 DEF Onto
<1>6. /\ s.work # <<>> /\ Last(s.work) = <<node, 0>> /\ Front(s.work) = below
  <2>1. below \in Seq((DOMAIN adj) \X Nat) /\ <<node, 0>> \in (DOMAIN adj) \X Nat
    BY <1>1, <1>2 DEF Framed
  <2> DEFINE T == (DOMAIN adj) \X Nat
             x == <<node, 0>>
  <2>2. below \in Seq(T) /\ x \in T
    BY <2>1
  <2> HIDE DEF T, x
  <2>3. Append(below, x) # <<>> /\ Last(Append(below, x)) = x /\ Len(Append(below, x)) = Len(below) + 1
    BY <2>2 DEF Last
  <2>4. Front(Append(below, x)) = below
    <3>1. Append(below, x) \in Seq(T) /\ Len(below) \in Nat /\ 1 \in Int /\ Len(below) \in Int
      BY <2>2
    <3>2. Front(Append(below, x)) = SubSeq(Append(below, x), 1, Len(below))
      BY <2>3, <3>1 DEF Front
    <3> DEFINE less == SubSeq(Append(below, x), 1, Len(below))
    <3>3. less \in Seq(T) /\ Len(less) = Len(below) /\ \A i \in 1..Len(below) : less[i] = Append(below, x)[i]
      BY <2>3, <3>1, SubSeqProperties
    <3> HIDE DEF less
    <3>4. \A i \in 1..Len(below) : less[i] = below[i]
      BY <2>2, <3>3
    <3>5. less = below
      BY <2>2, <3>1, <3>3, <3>4, SeqEqual
    <3> QED
      BY <3>2, <3>5 DEF less
  <2> QED
    BY <1>2, <2>3, <2>4 DEF x
<1>7. t = Looked(adj, entered, node, 0, below)
  <2>1. (0 > 0) = FALSE
    OBVIOUS
  <2>2. Last(s.work)[1] = node /\ Last(s.work)[2] = 0
    BY <1>6
  <2> QED
    BY <1>6, <2>1, <2>2 DEF TarjanStep, Looked
<1> HIDE DEF path2, K2, entered, t
<1>8. Framed(adj, below, path2, (k + 1) - 1, K2)
  <2>1. (k + 1) - 1 = k
    BY <1>3
  <2> QED
    BY <1>2, <1>5, <2>1 DEF Framed
<1>9. /\ t.index = entered.index
      /\ \/ \E K3 : Ready(adj, t, path2, (k + 1) - 1, K3)
         \/ \E K3, n : Facing(adj, t, path2, k + 1, K3, n)
  <2>1. 0 \in 0..Len(adj[path2[k + 1]])
    <3>1. PICK n \in Nat : adj \in [1..n -> Seq(1..n)]
      BY DEF IsAdjacency
    <3>2. adj[node] \in Seq(1..n)
      BY <1>1, <3>1
    <3>3. Len(adj[node]) \in Nat
      BY <3>2
    <3> QED
      BY <1>5, <3>3
  <2>2. \A c \in 1..0 : <<path2[k + 1], adj[path2[k + 1]][c]>> \in K2
    OBVIOUS
  <2>3. k + 1 # 0
    BY <1>3
  <2>4. t = Looked(adj, entered, path2[k + 1], 0, below)
    BY <1>5, <1>7
  <2> QED
    BY <1>4, <1>8, <2>1, <2>2, <2>3, <2>4, LookKeeps
<1>10. /\ Unvisited(adj, s) \in Nat /\ Unvisited(adj, s) > 0
       /\ Unvisited(adj, t) = Unvisited(adj, s) - 1
  <2> DEFINE U == (DOMAIN adj) \ V
  <2>1. IsFiniteSet(U) /\ Cardinality(U) \in Nat /\ node \in U /\ Cardinality(U) # 0
    BY <1>1, NodesAreFinite
  <2>2. Cardinality(U \ {node}) = Cardinality(U) - 1
    BY <2>1, FS_RemoveElement
  <2>3. (DOMAIN adj) \ DOMAIN t.index = U \ {node}
    BY <1>4, <1>9
  <2>4. Unvisited(adj, s) = Cardinality(U) /\ Unvisited(adj, t) = Cardinality(U \ {node})
    BY <2>3 DEF Unvisited
  <2> HIDE DEF U
  <2> QED
    BY <2>1, <2>2, <2>4
<1>11. m - 1 = 2 * Unvisited(adj, t) + ((k + 1) - 1) /\ m - 1 = 2 * Unvisited(adj, t) + (k + 1) - 1
  BY <1>3, <1>10
<1>12. Running(adj, t, m - 1)
  BY <1>9, <1>11 DEF Running
<1>13. m \in Nat /\ m # 0
  BY <1>3, <1>10
<1> QED
  BY <1>12, <1>13 DEF t

----------------------------------------------------------------------------
(* The whole run.                                                          *)

\* The run of a number of turns.
Turns(run, n, first, adj) == run = [i \in 0..n |-> IF i = 0 THEN first ELSE TarjanStep(adj, run[i - 1])]

\* There is such a run.
LEMMA TurnsExist ==
  ASSUME NEW adj, NEW first, NEW n \in Nat
  PROVE  \E run : Turns(run, n, first, adj)
<1> DEFINE Good == {k \in 0..n : \E run : Turns(run, k, first, adj)}
<1>1. 0 \in Good
  <2> DEFINE run == [i \in 0..0 |-> first]
  <2>1. run = [i \in 0..0 |-> IF i = 0 THEN first ELSE TarjanStep(adj, run[i - 1])]
    OBVIOUS
  <2> HIDE DEF run
  <2>2. Turns(run, 0, first, adj)
    BY <2>1 DEF Turns
  <2> QED
    BY <2>2
<1>2. ASSUME NEW k \in 0..(n - 1), k \in Good PROVE k + 1 \in Good
  <2>1. PICK run : Turns(run, k, first, adj)
    BY <1>2
  <2> DEFINE more == [i \in 0..(k + 1) |-> IF i = k + 1 THEN TarjanStep(adj, run[k]) ELSE run[i]]
  <2>2. more = [i \in 0..(k + 1) |-> IF i = 0 THEN first ELSE TarjanStep(adj, more[i - 1])]
    <3>1. ASSUME NEW i \in 0..(k + 1)
          PROVE  more[i] = IF i = 0 THEN first ELSE TarjanStep(adj, more[i - 1])
      <4>1. CASE i = k + 1
        <5>1. i # 0 /\ i - 1 = k /\ k \in 0..(k + 1) /\ k # k + 1
          BY <4>1
        <5>2. more[k] = run[k]
          BY <5>1
        <5> QED
          BY <4>1, <5>1, <5>2
      <4>2. CASE i # k + 1
        <5>1. i \in 0..k /\ (i # 0 => i - 1 \in 0..(k + 1) /\ i - 1 # k + 1)
          BY <4>2
        <5>2. run[i] = IF i = 0 THEN first ELSE TarjanStep(adj, run[i - 1])
          BY <2>1, <5>1 DEF Turns
        <5>3. i # 0 => more[i - 1] = run[i - 1]
          BY <5>1
        <5> QED
          BY <4>2, <5>1, <5>2, <5>3
      <4> QED
        BY <4>1, <4>2
    <3> HIDE DEF more
    <3>2. more = [i \in 0..(k + 1) |-> more[i]]
      BY DEF more
    <3> QED
      BY <3>1, <3>2
  <2> HIDE DEF more
  <2>3. Turns(more, k + 1, first, adj)
    BY <2>2 DEF Turns
  <2> QED
    BY <2>3
<1> HIDE DEF Good
<1>3. \A k \in 0..n : k \in Good
  BY <1>1, <1>2, InductionUpTo
<1> QED
  BY <1>3 DEF Good

\* Before the first turn nothing was visited.
Untouched == [index |-> << >>, low |-> << >>, next |-> 0, stack |-> <<>>, work |-> <<>>, components |-> {}]

\* The run starts where every part of the invariant holds.
LEMMA UntouchedIsReady ==
  ASSUME NEW adj, IsAdjacency(adj)
  PROVE  Ready(adj, Untouched, <<>>, 0, {}) /\ Unvisited(adj, Untouched) = Cardinality(DOMAIN adj)
<1> DEFINE none == << >>
<1>1. DOMAIN none = {} /\ none \in [{} -> Nat] /\ Range(none) = {} /\ none \in Seq({})
  <2>1. DOMAIN none = {}
    OBVIOUS
  <2>2. none = [x \in {} |-> 0]
    OBVIOUS
  <2> QED
    BY <2>1, <2>2 DEF Range
<1> HIDE DEF none
<1>2. Core(DOMAIN adj, Steps(adj), none, none, {}, <<>>, 0, {}, {})
  <2>1. Shape(DOMAIN adj, Steps(adj), none, none, {}, <<>>, 0, {})
    BY <1>1 DEF Shape
  <2>2. /\ Back(DOMAIN adj, Steps(adj), none, {}, <<>>, 0) /\ Forth(DOMAIN adj, Steps(adj), none, {}, <<>>, 0)
        /\ LowIsSeen(DOMAIN adj, Steps(adj), none, none, {}, <<>>, 0) /\ LowIsLow(none, none, {}, <<>>, 0, {})
        /\ AllLookedAt(Steps(adj), {}, <<>>, 0, {})
    BY DEF Back, Forth, LowIsSeen, LowIsLow, AllLookedAt
  <2>3. DoneIsShut(Steps(adj), none, {}) /\ RingsFound(DOMAIN adj, Steps(adj), none, {}, {})
    BY <1>1 DEF DoneIsShut, RingsFound, Shut
  <2> QED
    BY <2>1, <2>2, <2>3 DEF Core
<1>3. /\ Untouched.index = none /\ Untouched.low = none /\ Untouched.next = 0 /\ Untouched.stack = none
      /\ Untouched.work = none /\ Untouched.components = {}
      /\ Untouched = [index |-> none, low |-> none, next |-> 0, stack |-> none, work |-> none, components |-> {}]
  BY DEF Untouched, none
<1>4. Lined(none, none)
  BY <1>1 DEF Lined
<1>5. Consistent(adj, Untouched, <<>>, 0, {})
  <2> DEFINE s == Untouched
  <2> HIDE DEF s
  <2>1. /\ s.index = none /\ s.low = none /\ s.next = 0 /\ s.stack = none /\ s.work = none /\ s.components = {}
        /\ s = [index |-> none, low |-> none, next |-> 0, stack |-> none, work |-> none, components |-> {}]
    BY <1>3 DEF s
  <2>2. Core(DOMAIN adj, Steps(adj), s.index, s.low, Range(s.stack), <<>>, 0, {}, s.components)
    BY <1>1, <1>2, <2>1
  <2>3. Lined(s.index, s.stack) /\ s.next \in Nat /\ \A u \in DOMAIN s.index : s.index[u] < s.next
    BY <1>1, <1>4, <2>1
  <2>4. s = [index |-> s.index, low |-> s.low, next |-> s.next, stack |-> s.stack, work |-> s.work,
             components |-> s.components]
    BY <2>1
  <2>5. Consistent(adj, s, <<>>, 0, {})
    BY <2>2, <2>3, <2>4 DEF Consistent
  <2> QED
    BY <2>5 DEF s
<1>6. Framed(adj, none, <<>>, 0, {})
  BY DEF Framed, none
<1>7. (DOMAIN adj) \ DOMAIN none = DOMAIN adj
  BY <1>1
<1> QED
  BY <1>3, <1>5, <1>6, <1>7 DEF Ready, Unvisited

\* When nothing is left to do, the components are the rings.
LEMMA DoneIsFound ==
  ASSUME NEW adj, IsAdjacency(adj), NEW s, Running(adj, s, 0)
  PROVE  s.components = {Ring(DOMAIN adj, Steps(adj), u) : u \in DOMAIN adj}
<1>1. ASSUME NEW path, NEW k, NEW K, NEW node, Facing(adj, s, path, k, K, node),
             0 = 2 * Unvisited(adj, s) + k - 1
      PROVE  FALSE
  BY <1>1, FacingGoes
<1>2. PICK path, k, K : Ready(adj, s, path, k, K) /\ 0 = 2 * Unvisited(adj, s) + k
  BY <1>1 DEF Running
<1>3. Consistent(adj, s, path, k, K)
  BY <1>2 DEF Ready
<1>4. k \in Nat /\ Unvisited(adj, s) \in Nat /\ DOMAIN s.index \in SUBSET DOMAIN adj
  BY <1>3, ConsistentLaws, NodesAreFinite DEF Unvisited
<1>5. k = 0 /\ Unvisited(adj, s) = 0
  BY <1>2, <1>4
<1>6. DOMAIN s.index = DOMAIN adj
  BY <1>4, <1>5, NodesAreFinite DEF Unvisited
<1>7. Core(DOMAIN adj, Steps(adj), s.index, s.low, Range(s.stack), path, k, K, s.components)
  BY <1>3 DEF Consistent
<1>8. Range(s.stack) = {}
  BY <1>5, <1>7 DEF Core, Back
<1>9. s.components = {Ring(DOMAIN adj, Steps(adj), u) : u \in (DOMAIN s.index) \ Range(s.stack)}
  BY <1>7 DEF Core, RingsFound
<1>10. (DOMAIN s.index) \ Range(s.stack) = DOMAIN adj
  BY <1>6, <1>8
<1> QED
  BY <1>9, <1>10

\* Every ring of a graph.
Rings(N, E) == {Ring(N, E, u) : u \in N}

\* Tarjan's algorithm: the components are the sets of nodes that reach one another.
THEOREM ComponentsAreRings ==
  ASSUME NEW adj, IsAdjacency(adj)
  PROVE  Components(adj) = Rings(DOMAIN adj, Steps(adj))
<1> DEFINE n == Cardinality(DOMAIN adj)
           turns == 3 * n
           Runs(run) == Turns(run, turns, Untouched, adj)
           run == CHOOSE r : Runs(r)
<1>1. n \in Nat
  <2>1. (DOMAIN adj) \ {} = DOMAIN adj
    OBVIOUS
  <2> QED
    BY <2>1, NodesAreFinite
<1> HIDE DEF n
<1>2. Runs(run)
  <2>1. \E r : Runs(r)
    <3>1. turns \in Nat
      BY <1>1
    <3> HIDE DEF turns
    <3> QED
      BY <3>1, TurnsExist
  <2> HIDE DEF Runs
  <2> QED
    BY <2>1
<1>3. Components(adj) = run[turns].components
  BY DEF Components, Turns, Untouched, n
<1> HIDE DEF run
<1>4. run[0] = Untouched /\ \A i \in 1..turns : run[i] = TarjanStep(adj, run[i - 1])
  BY <1>1, <1>2 DEF Turns
<1> DEFINE Good == {i \in 0..turns : \E m \in Nat : Running(adj, run[i], m) /\ (m = 0 \/ m + i <= 2 * n)}
<1>5. 0 \in Good
  <2>1. Running(adj, run[0], 2 * n)
    <3>1. 2 * n = 2 * Unvisited(adj, run[0]) + 0
      BY <1>1, <1>4, UntouchedIsReady DEF n
    <3> QED
      BY <1>4, <3>1, UntouchedIsReady DEF Running
  <2>2. 2 * n \in Nat /\ 2 * n + 0 <= 2 * n /\ 0 \in 0..turns
    BY <1>1
  <2> QED
    BY <2>1, <2>2
<1>6. ASSUME NEW i \in 0..(turns - 1), i \in Good PROVE i + 1 \in Good
  <2>1. PICK m \in Nat : Running(adj, run[i], m) /\ (m = 0 \/ m + i <= 2 * n)
    BY <1>6
  <2>2. i + 1 \in 0..turns /\ run[i + 1] = TarjanStep(adj, run[i]) /\ i \in Nat
    <3>1. i + 1 \in 1..turns /\ (i + 1) - 1 = i
      BY <1>1
    <3> QED
      BY <1>1, <1>4, <3>1
  <2>3. CASE m = 0
    <3>1. run[i + 1] = run[i]
      <4>1. ASSUME NEW path, NEW k, NEW K, Ready(adj, run[i], path, k, K),
                   m = 2 * Unvisited(adj, run[i]) + k
            PROVE  TarjanStep(adj, run[i]) = run[i]
        BY <2>3, <4>1, ReadyGoes
      <4>2. ASSUME NEW path, NEW k, NEW K, NEW node, Facing(adj, run[i], path, k, K, node),
                   m = 2 * Unvisited(adj, run[i]) + k - 1
            PROVE  FALSE
        BY <2>3, <4>2, FacingGoes
      <4> QED
        BY <2>1, <2>2, <4>1, <4>2 DEF Running
    <3> QED
      BY <2>1, <2>2, <2>3, <3>1
  <2>4. CASE m # 0
    <3>1. Running(adj, run[i + 1], m - 1)
      <4>1. ASSUME NEW path, NEW k, NEW K, Ready(adj, run[i], path, k, K),
                   m = 2 * Unvisited(adj, run[i]) + k
            PROVE  Running(adj, TarjanStep(adj, run[i]), m - 1)
        BY <2>4, <4>1, ReadyGoes
      <4>2. ASSUME NEW path, NEW k, NEW K, NEW node, Facing(adj, run[i], path, k, K, node),
                   m = 2 * Unvisited(adj, run[i]) + k - 1
            PROVE  Running(adj, TarjanStep(adj, run[i]), m - 1)
        BY <4>2, FacingGoes
      <4> QED
        BY <2>1, <2>2, <4>1, <4>2 DEF Running
    <3>2. m - 1 \in Nat /\ m - 1 + (i + 1) <= 2 * n
      BY <1>1, <2>1, <2>2, <2>4
    <3> QED
      BY <2>2, <3>1, <3>2
  <2> QED
    BY <2>3, <2>4
<1>7. turns \in Good
  <2>1. turns \in Nat /\ turns \in 0..turns
    BY <1>1
  <2> HIDE DEF Good, turns
  <2> QED
    BY <1>5, <1>6, <2>1, InductionUpTo
<1>8. Running(adj, run[turns], 0)
  <2>1. PICK m \in Nat : Running(adj, run[turns], m) /\ (m = 0 \/ m + turns <= 2 * n)
    BY <1>7
  <2>2. m = 0
    BY <1>1, <2>1
  <2> QED
    BY <2>1, <2>2
<1> QED
  BY <1>3, <1>8, DoneIsFound DEF Rings

----------------------------------------------------------------------------
(* The rings a graph turns in.                                             *)

\* What comes to a node over at least one edge.
Comes(N, E, u, v) == \E e \in E : e[1] = u /\ Leads(N, E, e[2], v)

\* What leads elsewhere leads there over its first edge.
LEMMA LeadsOver ==
  ASSUME NEW N, NEW E \in SUBSET (N \X N), NEW u \in N, NEW v \in N, Leads(N, E, u, v), u # v
  PROVE  Comes(N, E, u, v)
<1> DEFINE A == {u} \cup {x \in N : Comes(N, E, u, x)}
<1>1. A \in SUBSET N /\ u \in A
  OBVIOUS
<1>2. ASSUME NEW e \in E, e[1] \in A PROVE e[2] \in A
  <2>1. e[1] \in N /\ e[2] \in N /\ e = <<e[1], e[2]>>
    OBVIOUS
  <2>2. CASE e[1] = u
    <3>1. Leads(N, E, e[2], e[2])
      BY <2>1, LeadsLaws
    <3> QED
      BY <2>1, <2>2, <3>1 DEF Comes
  <2>3. CASE e[1] # u
    <3>1. PICK f \in E : f[1] = u /\ Leads(N, E, f[2], e[1])
      BY <1>2, <2>3 DEF Comes
    <3>2. Leads(N, E, e[1], e[2]) /\ f[2] \in N
      BY <2>1, LeadsLaws
    <3>3. Leads(N, E, f[2], e[2])
      BY <2>1, <3>1, <3>2, LeadsLaws
    <3> QED
      BY <2>1, <3>1, <3>3 DEF Comes
  <2> QED
    BY <2>2, <2>3
<1>3. Shut(E, A)
  BY <1>2 DEF Shut
<1>4. v \in A
  BY <1>1, <1>3 DEF Leads
<1> QED
  BY <1>4

\* What a chain of edges starts at leads to its end.
LEMMA ChainsLead ==
  ASSUME NEW N, NEW E \in SUBSET (N \X N), NEW v \in N, NEW length \in Nat
  PROVE  \A l \in 0..length : \A u \in Chains(E, {v}, l) : u \in N /\ Leads(N, E, u, v)
<1> DEFINE Good == {l \in 0..length : \A u \in Chains(E, {v}, l) : u \in N /\ Leads(N, E, u, v)}
<1>1. 0 \in Good
  <2>1. Chains(E, {v}, 0) = {v}
    BY ChainsUnfold
  <2> QED
    BY <2>1, LeadsLaws
<1>2. ASSUME NEW l \in 0..(length - 1), l \in Good PROVE l + 1 \in Good
  <2>1. Chains(E, {v}, l + 1) = Before(E, Chains(E, {v}, l)) /\ l + 1 \in 0..length
    BY ChainsUnfold
  <2>2. ASSUME NEW u \in Chains(E, {v}, l + 1) PROVE u \in N /\ Leads(N, E, u, v)
    <3>1. PICK e \in E : e[1] = u /\ e[2] \in Chains(E, {v}, l)
      BY <2>1 DEF Before
    <3>2. e[1] \in N /\ e[2] \in N /\ e = <<e[1], e[2]>> /\ Leads(N, E, e[2], v)
      BY <1>2, <3>1
    <3>3. Leads(N, E, u, e[2])
      BY <3>1, <3>2, LeadsLaws
    <3> QED
      BY <3>1, <3>2, <3>3, LeadsLaws
  <2> QED
    BY <2>1, <2>2
<1> HIDE DEF Good
<1>3. \A l \in 0..length : l \in Good
  BY <1>1, <1>2, InductionUpTo
<1> QED
  BY <1>3 DEF Good

\* The starts of the chains up to a length.
InSteps(E, v, length) == UNION {Chains(E, {v}, l) : l \in 0..length}

\* They are all there are once a longer chain adds none, so all that leads to a
\* node does over fewer edges than there are nodes.
LEMMA ChainsAreShort ==
  ASSUME NEW N, IsFiniteSet(N), NEW E \in SUBSET (N \X N), NEW v \in N, NEW u \in N, Leads(N, E, u, v)
  PROVE  \E l \in 0..(Cardinality(N) - 1) : u \in Chains(E, {v}, l)
<1> DEFINE c == Cardinality(N)
           U(l) == InSteps(E, v, l)
           All == {x \in N : Leads(N, E, x, v)}
           Good == {l \in 0..(c - 1) : All \in SUBSET U(l) \/ Cardinality(U(l)) > l}
<1>1. c \in Nat /\ c # 0 /\ c - 1 \in Nat
  BY FS_CardinalityType, FS_EmptySet
<1>2. \A l \in Nat : U(l) \in SUBSET N /\ IsFiniteSet(U(l)) /\ Cardinality(U(l)) \in Nat
  <2> TAKE l \in Nat
  <2>1. ASSUME NEW x \in U(l) PROVE x \in N
    <3>1. PICK i \in 0..l : x \in Chains(E, {v}, i)
      BY <2>1 DEF InSteps
    <3> QED
      BY <3>1, ChainsLead
  <2> HIDE DEF U
  <2> QED
    BY <2>1, FS_Subset, FS_CardinalityType
<1>3. \A l \in Nat : U(l) \in SUBSET U(l + 1) /\ U(l + 1) = U(l) \cup Before(E, Chains(E, {v}, l))
  <2> TAKE l \in Nat
  <2>1. \A i : i \in 0..(l + 1) <=> i \in 0..l \/ i = l + 1
    OBVIOUS
  <2>2. Chains(E, {v}, l + 1) = Before(E, Chains(E, {v}, l))
    BY ChainsUnfold
  <2> QED
    BY <2>1, <2>2 DEF InSteps
<1>4. ASSUME NEW l \in Nat, NEW e \in E, e[2] \in U(l) PROVE e[1] \in U(l + 1)
  <2>1. PICK i \in 0..l : e[2] \in Chains(E, {v}, i)
    BY <1>4 DEF InSteps
  <2>2. e[1] \in Chains(E, {v}, i + 1) /\ i + 1 \in 0..(l + 1)
    BY <2>1, ChainsUnfold DEF Before
  <2> QED
    BY <2>2 DEF InSteps
<1>5. \A l \in Nat : v \in U(l)
  <2> TAKE l \in Nat
  <2>1. v \in Chains(E, {v}, 0) /\ 0 \in 0..l
    BY ChainsUnfold
  <2> QED
    BY <2>1 DEF InSteps
<1> HIDE DEF U
<1>6. ASSUME NEW l \in Nat, U(l + 1) = U(l) PROVE All \in SUBSET U(l)
  <2> SUFFICES ASSUME NEW x \in All, x \notin U(l) PROVE FALSE
    OBVIOUS
  <2> DEFINE A == N \ U(l)
  <2>1. Shut(E, A)
    <3> SUFFICES ASSUME NEW e \in E, e[1] \in A PROVE e[2] \in A
      BY DEF Shut
    <3>1. e[2] \in N
      OBVIOUS
    <3> QED
      BY <1>4, <1>6, <3>1
  <2>2. A \in SUBSET N /\ x \in A /\ Leads(N, E, x, v)
    OBVIOUS
  <2>3. v \in A
    BY <2>1, <2>2 DEF Leads
  <2> QED
    BY <1>5, <2>3
<1>7. 0 \in Good
  <2>1. Cardinality(U(0)) # 0
    BY <1>2, <1>5, FS_EmptySet
  <2> QED
    BY <1>1, <1>2, <2>1
<1>8. ASSUME NEW l \in 0..((c - 1) - 1), l \in Good PROVE l + 1 \in Good
  <2>1. l \in Nat /\ l + 1 \in Nat /\ l + 1 \in 0..(c - 1)
    BY <1>1
  <2>2. CASE All \in SUBSET U(l)
    BY <1>3, <2>1, <2>2
  <2>3. CASE ~(All \in SUBSET U(l))
    <3>1. U(l + 1) # U(l) /\ U(l) \in SUBSET U(l + 1)
      BY <1>3, <1>6, <2>1, <2>3
    <3>2. Cardinality(U(l)) < Cardinality(U(l + 1))
      <4>1. IsFiniteSet(U(l + 1)) /\ Cardinality(U(l)) \in Nat /\ Cardinality(U(l + 1)) \in Nat
        BY <1>2, <2>1
      <4>2. Cardinality(U(l)) <= Cardinality(U(l + 1))
            /\ (Cardinality(U(l)) = Cardinality(U(l + 1)) => U(l) = U(l + 1))
        BY <3>1, <4>1, FS_Subset
      <4> QED
        BY <3>1, <4>1, <4>2
    <3>3. Cardinality(U(l + 1)) > l + 1
      <4>1. Cardinality(U(l)) > l /\ Cardinality(U(l)) \in Nat /\ Cardinality(U(l + 1)) \in Nat
        BY <1>2, <1>8, <2>1, <2>3
      <4> QED
        BY <2>1, <3>2, <4>1
    <3> QED
      BY <2>1, <3>3
  <2> QED
    BY <2>2, <2>3
<1>9. c - 1 \in Good
  <2>1. c - 1 \in 0..(c - 1)
    BY <1>1
  <2> HIDE DEF Good, c
  <2> QED
    BY <1>1, <1>7, <1>8, <2>1, InductionUpTo
<1>10. u \in U(c - 1)
  <2>1. CASE All \in SUBSET U(c - 1)
    BY <2>1
  <2>2. CASE Cardinality(U(c - 1)) > c - 1
    <3>1. U(c - 1) \in SUBSET N /\ Cardinality(U(c - 1)) \in Nat
      BY <1>1, <1>2
    <3>2. Cardinality(U(c - 1)) <= c /\ (Cardinality(U(c - 1)) = c => U(c - 1) = N)
      BY <3>1, FS_Subset
    <3>3. Cardinality(U(c - 1)) = c
      BY <1>1, <2>2, <3>1, <3>2
    <3> QED
      BY <3>2, <3>3
  <2> QED
    BY <1>9, <2>1, <2>2
<1> QED
  BY <1>10 DEF U, InSteps

\* Chains of at most as many edges as there are nodes are all that comes to a node.
LEMMA ChainsAreAll ==
  ASSUME NEW N, IsFiniteSet(N), NEW E \in SUBSET (N \X N), NEW u \in N, NEW v \in N
  PROVE  (\E l \in 1..Cardinality(N) : u \in Chains(E, {v}, l)) <=> Comes(N, E, u, v)
<1> DEFINE c == Cardinality(N)
<1>1. c \in Nat /\ c # 0
  BY FS_CardinalityType, FS_EmptySet
<1>2. ASSUME NEW l \in 1..c, u \in Chains(E, {v}, l) PROVE Comes(N, E, u, v)
  <2>1. l - 1 \in Nat /\ (l - 1) + 1 = l /\ l - 1 \in 0..l /\ l \in Nat
    BY <1>1
  <2>2. Chains(E, {v}, (l - 1) + 1) = Before(E, Chains(E, {v}, l - 1))
    BY <2>1, ChainsUnfold
  <2>3. PICK e \in E : e[1] = u /\ e[2] \in Chains(E, {v}, l - 1)
    BY <1>2, <2>1, <2>2 DEF Before
  <2>4. Leads(N, E, e[2], v)
    BY <2>1, <2>3, ChainsLead
  <2> QED
    BY <2>3, <2>4 DEF Comes
<1>3. ASSUME Comes(N, E, u, v) PROVE \E l \in 1..c : u \in Chains(E, {v}, l)
  <2>1. PICK e \in E : e[1] = u /\ Leads(N, E, e[2], v)
    BY <1>3 DEF Comes
  <2>2. PICK l \in 0..(c - 1) : e[2] \in Chains(E, {v}, l)
    BY <2>1, ChainsAreShort
  <2>3. l + 1 \in 1..c /\ l \in Nat
    BY <1>1
  <2>4. u \in Chains(E, {v}, l + 1)
    BY <2>1, <2>2, <2>3, ChainsUnfold DEF Before
  <2> QED
    BY <2>3, <2>4
<1> QED
  BY <1>2, <1>3

\* What a cycle goes through is a ring, and what reaches itself and one another in at most
\* as many steps as there are nodes is the same.
LEMMA RingIsReached ==
  ASSUME NEW N, IsFiniteSet(N), NEW E \in SUBSET (N \X N)
  PROVE  LET Reaches(m, n) == \E l \in 1..Cardinality(N) : m \in Chains(E, {n}, l) IN
         {{n \in N : Reaches(m, n) /\ Reaches(n, m)} : m \in {x \in N : Reaches(x, x)}}
           = {Ring(N, E, m) : m \in {x \in N : Comes(N, E, x, x)}}
<1> DEFINE Reaches(m, n) == \E l \in 1..Cardinality(N) : m \in Chains(E, {n}, l)
<1>1. \A m, n \in N : Reaches(m, n) <=> Comes(N, E, m, n)
  BY ChainsAreAll
<1> HIDE DEF Reaches
<1>2. {x \in N : Reaches(x, x)} = {x \in N : Comes(N, E, x, x)}
  BY <1>1
<1>3. ASSUME NEW m \in N, Comes(N, E, m, m)
      PROVE  {n \in N : Reaches(m, n) /\ Reaches(n, m)} = Ring(N, E, m)
  <2>1. ASSUME NEW n \in N, NEW x \in N, Comes(N, E, n, x) PROVE Leads(N, E, n, x)
    <3>1. PICK e \in E : e[1] = n /\ Leads(N, E, e[2], x)
      BY <2>1 DEF Comes
    <3>2. e = <<n, e[2]>> /\ e[2] \in N
      BY <3>1
    <3> QED
      BY <3>1, <3>2, LeadsLaws
  <2>2. ASSUME NEW n \in N, Leads(N, E, m, n), Leads(N, E, n, m)
        PROVE  Comes(N, E, m, n) /\ Comes(N, E, n, m)
    BY <1>3, <2>2, LeadsOver
  <2> QED
    BY <1>1, <2>1, <2>2 DEF Ring
<1> QED
  BY <1>2, <1>3 DEF Reaches

----------------------------------------------------------------------------
(* The numbers of nodes.                                                   *)

\* A numbering of a finite set is one to one.
LEMMA SequenceOfSet ==
  ASSUME NEW S, IsFiniteSet(S)
  PROVE  LET s == SetToSeq(S) IN
         /\ s \in [1..Cardinality(S) -> S] /\ Cardinality(S) \in Nat /\ Range(s) = S
         /\ \A i, j \in 1..Cardinality(S) : s[i] = s[j] => i = j
<1> DEFINE c == Cardinality(S)
           s == SetToSeq(S)
<1>1. c \in Nat
  BY FS_CardinalityType
<1>2. \E f \in [1..c -> S] : IsInjective(f)
  <2>1. ExistsBijection(1..c, S)
    BY FS_CardinalityType
  <2> QED
    BY <2>1 DEF ExistsBijection, Bijection, Injection
<1>3. s \in [1..c -> S] /\ IsInjective(s)
  <2> DEFINE Numbers(f) == f \in [1..c -> S] /\ IsInjective(f)
  <2>1. s = CHOOSE f \in [1..c -> S] : IsInjective(f)
    BY DEF SetToSeq
  <2> HIDE DEF c, s
  <2> QED
    BY <1>2, <2>1
<1>4. \A i, j \in 1..c : s[i] = s[j] => i = j
  BY <1>3 DEF IsInjective
<1> HIDE DEF s
<1>5. Range(s) = S
  <2> DEFINE R == Range(s)
  <2>1. R \in SUBSET S /\ s \in [1..c -> R]
    BY <1>3 DEF Range
  <2>2. s \in Bijection(1..c, R)
    BY <1>4, <2>1 DEF Bijection, Injection, Surjection, IsInjective, Range
  <2>3. Cardinality(R) = c
    <3>1. ExistsBijection(1..c, R)
      BY <2>2 DEF ExistsBijection
    <3> QED
      BY <1>1, <3>1, FS_CountingElements
  <2> QED
    BY <2>1, <2>3, FS_Subset
<1> QED
  BY <1>1, <1>3, <1>4, <1>5 DEF s

\* The children of a node are the numbers of the nodes that an edge of it leads to.
LEMMA ChildrenAre ==
  ASSUME NEW graph, NEW c \in Nat, NEW nodes, NEW members \in [1..c -> nodes]
  PROVE  LET adj == Children(graph, members) IN
         /\ IsAdjacency(adj) /\ DOMAIN adj = 1..c
         /\ \A i, j \in 1..c : <<i, j>> \in Steps(adj)
              <=> \E kind \in Range(EdgeKinds) : <<members[i], members[j], kind>> \in DOMAIN graph
<1> DEFINE D == 1..c
           kinds == Range(EdgeKinds)
           To(i) == {n \in D \X kinds : <<members[i], members[n[1]], n[2]>> \in DOMAIN graph}
           next(i) == SetToSeq(To(i))
           list(i) == [n \in DOMAIN next(i) |-> next(i)[n][1]]
           adj == Children(graph, members)
<1>1. adj = [i \in D |-> list(i)]
  BY DEF Children
<1>2. \A i \in D : IsFiniteSet(To(i))
  <2>1. IsFiniteSet(kinds)
    <3>1. DOMAIN EdgeKinds = 1..3
      BY DEF EdgeKinds
    <3>2. EdgeKinds = [i \in 1..3 |-> EdgeKinds[i]]
      BY DEF EdgeKinds
    <3>3. EdgeKinds \in Surjection(1..3, kinds)
      BY <3>1, <3>2 DEF Surjection, Range
    <3> QED
      <4> DEFINE three == 3
      <4>0. three \in Int
        OBVIOUS
      <4>1. IsFiniteSet(1..three)
        <5> HIDE DEF three
        <5> QED
          BY <4>0, FS_Interval
      <4> HIDE DEF kinds
      <4> QED
        BY <3>3, <4>1, FS_Surjection
  <2>2. IsFiniteSet(D \X kinds)
    <3>1. IsFiniteSet(D)
      BY FS_Interval
    <3> HIDE DEF D, kinds
    <3> QED
      BY <2>1, <3>1, FS_Product
  <2> TAKE i \in D
  <2> HIDE DEF D, kinds
  <2> QED
    BY <2>2, FS_Subset
<1>3. \A i \in D : /\ next(i) \in [1..Cardinality(To(i)) -> To(i)] /\ Cardinality(To(i)) \in Nat
                    /\ Range(next(i)) = To(i)
  <2> TAKE i \in D
  <2> HIDE DEF To
  <2> QED
    BY <1>2, SequenceOfSet
<1>4. ASSUME NEW i \in D PROVE list(i) \in Seq(D) /\ Range(list(i)) = {n[1] : n \in To(i)}
  <2> DEFINE len == Cardinality(To(i))
             s == next(i)
  <2>1. s \in [1..len -> To(i)] /\ len \in Nat /\ Range(s) = To(i)
    BY <1>3
  <2>2. \A n \in To(i) : n[1] \in D
    OBVIOUS
  <2> HIDE DEF s, len, To, D
  <2>3. list(i) = [n \in 1..len |-> s[n][1]]
    BY <2>1 DEF s
  <2>4. list(i) \in [1..len -> D]
    BY <2>1, <2>2, <2>3
  <2>5. Range(list(i)) = {s[n][1] : n \in 1..len}
    BY <2>3 DEF Range
  <2>6. To(i) = {s[n] : n \in 1..len}
    BY <2>1 DEF Range
  <2> HIDE DEF list
  <2>7. list(i) \in Seq(D)
    BY <2>1, <2>4
  <2> QED
    BY <2>5, <2>6, <2>7
<1> HIDE DEF list, adj
<1>5. adj \in [D -> Seq(D)] /\ DOMAIN adj = D /\ \A i \in D : Range(adj[i]) = {n[1] : n \in To(i)}
  BY <1>1, <1>4
<1>6. IsAdjacency(adj)
  BY <1>5 DEF IsAdjacency
<1>7. ASSUME NEW i \in D, NEW j \in D
      PROVE  <<i, j>> \in Steps(adj) <=> \E kind \in kinds : <<members[i], members[j], kind>> \in DOMAIN graph
  <2>1. <<i, j>> \in Steps(adj) <=> j \in Range(adj[i])
    BY <1>5 DEF Steps
  <2>2. j \in Range(adj[i]) <=> \E n \in To(i) : n[1] = j
    <3> HIDE DEF To, D
    <3> QED
      BY <1>5
  <2>3. (\E n \in To(i) : n[1] = j) <=> \E kind \in kinds : <<j, kind>> \in To(i)
    BY DEF D
  <2>4. \A kind \in kinds : <<j, kind>> \in To(i) <=> <<members[i], members[j], kind>> \in DOMAIN graph
    OBVIOUS
  <2> HIDE DEF To
  <2> QED
    BY <2>1, <2>2, <2>3, <2>4
<1> QED
  BY <1>5, <1>6, <1>7 DEF adj

\* Numbers lead to one another as their nodes do.
LEMMA LeadsByNumber ==
  ASSUME NEW c \in Nat, NEW N, NEW members \in [1..c -> N], Range(members) = N,
         \A i, j \in 1..c : members[i] = members[j] => i = j,
         NEW E \in SUBSET (N \X N), NEW F \in SUBSET ((1..c) \X (1..c)),
         \A i, j \in 1..c : <<i, j>> \in F <=> <<members[i], members[j]>> \in E
  PROVE  \A i, j \in 1..c : Leads(1..c, F, i, j) <=> Leads(N, E, members[i], members[j])
<1> DEFINE D == 1..c
<1>0. \A x \in N : \E i \in D : members[i] = x
  BY DEF Range
<1>1. ASSUME NEW i \in D, NEW j \in D, Leads(D, F, i, j) PROVE Leads(N, E, members[i], members[j])
  <2> SUFFICES ASSUME NEW B \in SUBSET N, members[i] \in B, Shut(E, B) PROVE members[j] \in B
    BY DEF Leads
  <2> DEFINE A == {x \in D : members[x] \in B}
  <2>1. Shut(F, A)
    <3> SUFFICES ASSUME NEW e \in F, e[1] \in A PROVE e[2] \in A
      BY DEF Shut
    <3>1. e = <<e[1], e[2]>> /\ e[1] \in D /\ e[2] \in D
      OBVIOUS
    <3>2. <<members[e[1]], members[e[2]]>> \in E
      BY <3>1
    <3> QED
      BY <3>1, <3>2 DEF Shut
  <2>2. j \in A
    BY <1>1, <2>1 DEF Leads
  <2> QED
    BY <2>2
<1>2. ASSUME NEW i \in D, NEW j \in D, Leads(N, E, members[i], members[j]) PROVE Leads(D, F, i, j)
  <2> SUFFICES ASSUME NEW A \in SUBSET D, i \in A, Shut(F, A) PROVE j \in A
    BY DEF Leads
  <2> DEFINE B == {members[x] : x \in A}
  <2>1. Shut(E, B)
    <3> SUFFICES ASSUME NEW e \in E, e[1] \in B PROVE e[2] \in B
      BY DEF Shut
    <3>1. PICK x \in A : e[1] = members[x]
      OBVIOUS
    <3>2. PICK y \in D : e[2] = members[y]
      BY <1>0
    <3>3. e = <<members[x], members[y]>> /\ x \in D
      BY <3>1, <3>2
    <3>4. <<x, y>> \in F
      BY <3>3
    <3>5. y \in A
      BY <3>1, <3>4 DEF Shut
    <3> QED
      BY <3>2, <3>5
  <2>2. members[j] \in B
    <3>1. B \in SUBSET N /\ members[i] \in B
      OBVIOUS
    <3> HIDE DEF B
    <3> QED
      BY <1>2, <2>1, <3>1 DEF Leads
  <2> QED
    BY <2>2
<1> QED
  BY <1>1, <1>2

\* A ring of several nodes, or with an edge from a node to itself, is a cycle.
LEMMA RingTurns ==
  ASSUME NEW N, IsFiniteSet(N), NEW E \in SUBSET (N \X N), NEW u \in N
  PROVE  Cardinality(Ring(N, E, u)) > 1 \/ (\E i \in Ring(N, E, u) : <<i, i>> \in E) <=> Comes(N, E, u, u)
<1> DEFINE R == Ring(N, E, u)
<1>1. R \in SUBSET N /\ u \in R /\ IsFiniteSet(R) /\ Cardinality(R) \in Nat
  <2>1. R \in SUBSET N /\ u \in R
    BY LeadsLaws DEF Ring
  <2> QED
    BY <2>1, FS_Subset, FS_CardinalityType
<1>2. Cardinality(R) > 1 <=> \E v \in R : v # u
  <2>1. IsFiniteSet(R \ {u}) /\ Cardinality(R \ {u}) = Cardinality(R) - 1
    BY <1>1, FS_RemoveElement
  <2>2. Cardinality(R \ {u}) = 0 <=> R \ {u} = {}
    BY <2>1, FS_EmptySet
  <2> DEFINE rest == R \ {u}
  <2>3. rest = {} <=> ~\E v \in R : v # u
    OBVIOUS
  <2>4. Cardinality(R) > 1 <=> Cardinality(rest) # 0
    <3>1. Cardinality(R) \in Nat /\ Cardinality(rest) = Cardinality(R) - 1 /\ Cardinality(rest) \in Nat
      BY <1>1, <2>1, FS_CardinalityType
    <3> HIDE DEF R, rest
    <3> QED
      BY <3>1
  <2> QED
    BY <2>2, <2>3, <2>4
<1>3. ASSUME NEW v \in R, v # u PROVE Comes(N, E, u, u)
  <2>1. v \in N /\ Leads(N, E, u, v) /\ Leads(N, E, v, u)
    BY DEF Ring
  <2>2. PICK e \in E : e[1] = u /\ Leads(N, E, e[2], v)
    BY <1>3, <2>1, LeadsOver DEF Comes
  <2>3. e[2] \in N
    OBVIOUS
  <2> QED
    BY <2>1, <2>2, <2>3, LeadsLaws DEF Comes
<1>4. ASSUME <<u, u>> \in E PROVE Comes(N, E, u, u)
  BY <1>4, LeadsLaws DEF Comes
<1>5. ASSUME Comes(N, E, u, u) PROVE (\E v \in R : v # u) \/ <<u, u>> \in E
  <2>1. PICK e \in E : e[1] = u /\ Leads(N, E, e[2], u)
    BY <1>5 DEF Comes
  <2>2. e = <<u, e[2]>> /\ e[2] \in N
    BY <2>1
  <2>3. e[2] \in R
    BY <2>1, <2>2, LeadsLaws DEF Ring
  <2> QED
    BY <2>2, <2>3
<1> HIDE DEF R
<1> QED
  BY <1>1, <1>2, <1>3, <1>4, <1>5 DEF R

\* Graph::cycles: the rings that are cycles.
Turning(N, E) == {Ring(N, E, m) : m \in {x \in N : Comes(N, E, x, x)}}
\* The cycles found among nodes are the rings that lead back to themselves.
LEMMA CyclesAre ==
  ASSUME NEW graph, NEW N, IsFiniteSet(N), NEW E \in SUBSET (N \X N),
         \A m, n \in N : <<m, n>> \in E <=> \E kind \in Range(EdgeKinds) : <<m, n, kind>> \in DOMAIN graph
  PROVE  Cycles(graph, N) = Turning(N, E)
<1> DEFINE c == Cardinality(N)
           D == 1..c
           members == SetToSeq(N)
           adj == Children(graph, members)
           F == Steps(adj)
           IsTurn(d) == Cardinality(d) > 1 \/ \E i \in d : i \in Range(adj[i])
           Image(d) == {members[i] : i \in d}
<1>1. /\ members \in [D -> N] /\ c \in Nat /\ Range(members) = N
      /\ \A i, j \in D : members[i] = members[j] => i = j
  BY SequenceOfSet
<1> HIDE DEF members, c
<1>2. /\ IsAdjacency(adj) /\ DOMAIN adj = D
      /\ \A i, j \in D : <<i, j>> \in F
           <=> \E kind \in Range(EdgeKinds) : <<members[i], members[j], kind>> \in DOMAIN graph
  BY <1>1, ChildrenAre
<1>3. \A i, j \in D : <<i, j>> \in F <=> <<members[i], members[j]>> \in E
  <2> TAKE i, j \in D
  <2>1. members[i] \in N /\ members[j] \in N
    BY <1>1
  <2> HIDE DEF F, D
  <2> QED
    BY <1>2, <2>1
<1>4. F \in SUBSET (D \X D) /\ \A i \in D : i \in Range(adj[i]) <=> <<i, i>> \in F
  BY <1>2 DEF Steps
<1>5. Components(adj) = {Ring(D, F, u) : u \in D}
  <2>1. Components(adj) = Rings(DOMAIN adj, F)
    BY <1>2, ComponentsAreRings
  <2>2. Components(adj) = Rings(D, F)
    BY <1>2, <2>1
  <2> QED
    BY <2>2 DEF Rings
<1>6. Cycles(graph, N) = {Image(d) : d \in {x \in Components(adj) : IsTurn(x)}}
  BY DEF Cycles, members
<1> HIDE DEF adj, F, D
<1>7. \A i, j \in D : Leads(D, F, i, j) <=> Leads(N, E, members[i], members[j])
  BY <1>1, <1>3, <1>4, LeadsByNumber DEF D
<1>8. \A x \in N : \E i \in D : members[i] = x
  BY <1>1 DEF Range
<1>9. ASSUME NEW u \in D PROVE Image(Ring(D, F, u)) = Ring(N, E, members[u])
  <2>1. ASSUME NEW x \in Ring(N, E, members[u]) PROVE x \in Image(Ring(D, F, u))
    <3>1. x \in N /\ Leads(N, E, members[u], x) /\ Leads(N, E, x, members[u])
      BY DEF Ring
    <3>2. PICK i \in D : members[i] = x
      BY <1>8, <3>1
    <3>3. i \in Ring(D, F, u)
      BY <1>7, <3>1, <3>2 DEF Ring
    <3> QED
      BY <3>2, <3>3
  <2>2. ASSUME NEW i \in Ring(D, F, u) PROVE members[i] \in Ring(N, E, members[u])
    <3>1. i \in D /\ Leads(D, F, u, i) /\ Leads(D, F, i, u)
      BY DEF Ring
    <3> QED
      BY <1>1, <1>7, <3>1 DEF Ring
  <2> QED
    BY <2>1, <2>2
<1>10. ASSUME NEW u \in D PROVE IsTurn(Ring(D, F, u)) <=> Comes(N, E, members[u], members[u])
  <2>1. IsFiniteSet(D) /\ Ring(D, F, u) \in SUBSET D
    BY <1>1, FS_Interval DEF D, Ring
  <2>2. IsTurn(Ring(D, F, u)) <=> Comes(D, F, u, u)
    <3>1. (\E i \in Ring(D, F, u) : i \in Range(adj[i])) <=> \E i \in Ring(D, F, u) : <<i, i>> \in F
      BY <1>4, <2>1
    <3> QED
      BY <1>4, <2>1, <3>1, RingTurns
  <2>3. ASSUME Comes(D, F, u, u) PROVE Comes(N, E, members[u], members[u])
    <3>1. PICK e \in F : e[1] = u /\ Leads(D, F, e[2], u)
      BY <2>3 DEF Comes
    <3>2. e = <<u, e[2]>> /\ e[2] \in D
      BY <1>4, <3>1
    <3>3. <<members[u], members[e[2]]>> \in E /\ Leads(N, E, members[e[2]], members[u])
      BY <1>3, <1>7, <3>1, <3>2
    <3> QED
      BY <3>3 DEF Comes
  <2>4. ASSUME Comes(N, E, members[u], members[u]) PROVE Comes(D, F, u, u)
    <3>1. PICK e \in E : e[1] = members[u] /\ Leads(N, E, e[2], members[u])
      BY <2>4 DEF Comes
    <3>2. e = <<members[u], e[2]>> /\ e[2] \in N
      BY <3>1
    <3>3. PICK i \in D : members[i] = e[2]
      BY <1>8, <3>2
    <3>4. <<u, i>> \in F /\ Leads(D, F, i, u)
      BY <1>3, <1>7, <3>1, <3>2, <3>3
    <3> QED
      BY <3>4 DEF Comes
  <2> QED
    BY <2>2, <2>3, <2>4
<1> HIDE DEF IsTurn, Image
<1>11. Cycles(graph, N) = {Image(Ring(D, F, u)) : u \in {x \in D : IsTurn(Ring(D, F, x))}}
  BY <1>5, <1>6
<1>12. Cycles(graph, N) = {Ring(N, E, members[u]) : u \in {x \in D : Comes(N, E, members[x], members[x])}}
  BY <1>9, <1>10, <1>11
<1>13. {Ring(N, E, members[u]) : u \in {x \in D : Comes(N, E, members[x], members[x])}}
         = {Ring(N, E, m) : m \in {x \in N : Comes(N, E, x, x)}}
  BY <1>1, <1>8
<1> QED
  BY <1>12, <1>13 DEF Turning

----------------------------------------------------------------------------
(* The cycles of a report.                                                 *)

\* What a report says of cycles are those of the graph among what it reports.
LEMMA ReportCycles ==
  ASSUME NEW input
  PROVE  LET report == ImpactReport(input)
             nodes == {NodeOf(c.def) : c \in report.definitions} \cup {n.node : n \in report.affected}
         IN  {c.members : c \in report.cycles} = Cycles(GraphOf(input), nodes)
<1> DEFINE report == ImpactReport(input)
           nodes == {NodeOf(c.def) : c \in report.definitions} \cup {n.node : n \in report.affected}
           depth == Min({input.depth, DepthLimit})
           graph == GraphOf(input)
           changed == UNION {ChangedDefinitions(input, c) : c \in Described(input)}
           seeds == {NodeOf(c.def) : c \in changed}
           affected == Traverse(graph, seeds, "incoming", depth)
           induced == seeds \cup {n.node : n \in affected}
           Distance(node) == IF \E n \in affected : n.node = node
                             THEN (CHOOSE n \in affected : n.node = node).distance ELSE 0
           Nearest(c) == Min({Distance(n) : n \in c})
<1>1. report.definitions = changed /\ report.affected = affected
  BY DEF ImpactReport
<1>2. report.cycles = {[members |-> c, distance |-> Nearest(c)] : c \in Cycles(graph, induced)}
  BY DEF ImpactReport
<1> HIDE DEF report, changed, affected, graph, depth, Nearest
<1>3. nodes = induced
  BY <1>1
<1> HIDE DEF nodes, induced
<1>4. {c.members : c \in report.cycles} = Cycles(graph, induced)
  <2> DEFINE C == Cycles(graph, induced)
             Entry(c) == [members |-> c, distance |-> Nearest(c)]
  <2>1. report.cycles = {Entry(c) : c \in C} /\ \A c : Entry(c).members = c
    BY <1>2
  <2> HIDE DEF C, Entry
  <2>2. {c.members : c \in report.cycles} = C
    BY <2>1
  <2> QED
    BY <2>2 DEF C
<1> QED
  BY <1>3, <1>4 DEF report, nodes, graph

\* A list has finitely many members.
LEMMA RangeIsFinite ==
  ASSUME NEW s, s \in Seq(Range(s))
  PROVE  IsFiniteSet(Range(s))
<1> DEFINE n == Len(s)
<1>1. n \in Nat /\ DOMAIN s = 1..n
  OBVIOUS
<1>2. s \in Surjection(1..n, Range(s))
  BY <1>1 DEF Surjection, Range
<1>3. IsFiniteSet(1..n)
  BY <1>1, FS_Interval
<1> HIDE DEF n
<1> QED
  BY <1>2, <1>3, FS_Surjection

\* What a report is about is a definition or a reference's owner, so it is finite.
LEMMA NodesOfReport ==
  ASSUME NEW input, input.depth \in Nat, IsOverlay(input.base), IsOverlay(input.target)
  PROVE  LET report == ImpactReport(input) IN
         IsFiniteSet({NodeOf(c.def) : c \in report.definitions} \cup {n.node : n \in report.affected})
<1> DEFINE report == ImpactReport(input)
           seeds == {NodeOf(c.def) : c \in report.definitions}
           reached == {n.node : n \in report.affected}
           defs == Range(input.base.defs) \cup Range(input.target.defs)
           refs == Range(input.base.refs) \cup Range(input.target.refs)
           edges == Pointers(input)
           depth == Min({input.depth, DepthLimit})
<1>1. IsFiniteSet(defs) /\ IsFiniteSet(refs)
  <2>1. /\ IsFiniteSet(Range(input.base.defs)) /\ IsFiniteSet(Range(input.target.defs))
        /\ IsFiniteSet(Range(input.base.refs)) /\ IsFiniteSet(Range(input.target.refs))
    BY RangeIsFinite DEF IsOverlay
  <2> QED
    BY <2>1, FS_Union
<1>2. IsFiniteSet(seeds)
  <2> DEFINE f == [d \in defs |-> NodeOf(d)]
             T == {NodeOf(d) : d \in defs}
  <2>1. f \in Surjection(defs, T)
    BY DEF Surjection
  <2>2. IsFiniteSet(T)
    <3> HIDE DEF f, T, defs
    <3> QED
      BY <1>1, <2>1, FS_Surjection
  <2>3. ASSUME NEW x \in report.definitions PROVE x.def \in defs
    <3>1. PICK c \in Described(input) : x \in ChangedDefinitions(input, c)
      BY DEF ImpactReport
    <3> DEFINE base == FileDefs(input.base, c.source)
               target == FileDefs(input.target, c.path)
               matched == Pair(base, target, c.source # c.path)
    <3>2. matched \in SUBSET ((DOMAIN base) \X (DOMAIN target))
      BY ChangedAre
    <3>3. \/ \E p \in matched : x.def = target[p[2]]
          \/ \E i \in DOMAIN base : x.def = base[i]
          \/ \E j \in DOMAIN target : x.def = target[j]
      BY <3>1, ChangedAre
    <3>4. Range(base) \in SUBSET Range(input.base.defs) /\ Range(target) \in SUBSET Range(input.target.defs)
      BY FileDefsAre
    <3> HIDE DEF base, target, matched
    <3>5. x.def \in Range(base) \cup Range(target)
      BY <3>2, <3>3 DEF Range
    <3> QED
      BY <3>4, <3>5
  <2>4. seeds \in SUBSET T
    BY <2>3
  <2> HIDE DEF T, seeds
  <2> QED
    BY <2>2, <2>4, FS_Subset
<1>3. IsFiniteSet(reached)
  <2> DEFINE f == [r \in refs |-> r.owner]
             T == {r.owner : r \in refs}
  <2>1. f \in Surjection(refs, T)
    BY DEF Surjection
  <2>2. IsFiniteSet(T)
    <3> HIDE DEF f, T, refs
    <3> QED
      BY <1>1, <2>1, FS_Surjection
  <2>3. \A e \in edges : e[1] \in T
    BY DEF Pointers
  <2>4. ASSUME NEW l \in 1..depth PROVE Chains(edges, seeds, l) \in SUBSET T
    <3>1. l \in Nat /\ l - 1 \in Nat /\ (l - 1) + 1 = l
      OBVIOUS
    <3>2. Chains(edges, seeds, (l - 1) + 1) = Before(edges, Chains(edges, seeds, l - 1))
      BY <3>1, ChainsUnfold
    <3> HIDE DEF T, edges, seeds
    <3> QED
      BY <2>3, <3>1, <3>2 DEF Before
  <2>5. reached \in SUBSET T
    <3>1. reached = UNION Range([l \in 1..depth |-> Chains(edges, seeds, l)])
      <4>1. ReachIsExact(input, report)
        BY ReachesAreExact DEF IsOverlay
      <4> QED
        BY <4>1 DEF ReachIsExact
    <3> QED
      BY <2>4, <3>1 DEF Range
  <2> HIDE DEF T, reached
  <2> QED
    BY <2>2, <2>5, FS_Subset
<1> HIDE DEF seeds, reached
<1>4. IsFiniteSet(seeds \cup reached)
  BY <1>2, <1>3, FS_Union
<1> QED
  BY <1>4 DEF seeds, reached

\* Whatever either endpoint resolved, the cycles that are reported are the maximal sets
\* of reported definitions that reach one another through reported definitions
\* (Graph::cycles, tarjan).
THEOREM CyclesAreAllWhole ==
  ASSUME NEW input, input.depth \in Nat, IsOverlay(input.base), IsOverlay(input.target)
  PROVE  CyclesAreWhole(input, ImpactReport(input))
<1> DEFINE report == ImpactReport(input)
           nodes == {NodeOf(c.def) : c \in report.definitions} \cup {n.node : n \in report.affected}
           inside == {e \in Pointers(input) : e[1] \in nodes /\ e[2] \in nodes}
           graph == GraphOf(input)
           Reaches(m, n) == \E l \in 1..Cardinality(nodes) : m \in Chains(inside, {n}, l)
<1>1. IsFiniteSet(nodes)
  BY NodesOfReport
<1>2. {c.members : c \in report.cycles} = Cycles(graph, nodes)
  BY ReportCycles
<1> HIDE DEF report, nodes, graph
<1>3. inside \in SUBSET (nodes \X nodes)
  BY DEF Pointers
<1>4. ASSUME NEW m \in nodes, NEW n \in nodes
      PROVE  <<m, n>> \in inside <=> \E kind \in Range(EdgeKinds) : <<m, n, kind>> \in DOMAIN graph
  <2> DEFINE R == Range(input.base.refs) \cup Range(input.target.refs)
  <2>1. \A key : key \in DOMAIN graph <=> \E r \in R : IsEdge(r) /\ KeyOf(r) = key
    <3>1. \A key : key \in DOMAIN graph <=> Resolved(input.base, key) \/ Resolved(input.target, key)
      BY GraphIsMerged DEF IsOverlay, graph
    <3> QED
      BY <3>1 DEF Resolved
  <2>2. \A r \in R : r.kind \in Range(EdgeKinds)
    BY DEF IsOverlay
  <2>3. <<m, n>> \in inside <=> \E r \in R : IsEdge(r) /\ <<r.owner, r.to>> = <<m, n>>
    BY DEF Pointers, IsEdge
  <2> HIDE DEF R, inside
  <2>4. ASSUME <<m, n>> \in inside PROVE \E kind \in Range(EdgeKinds) : <<m, n, kind>> \in DOMAIN graph
    <3>1. PICK r \in R : IsEdge(r) /\ <<r.owner, r.to>> = <<m, n>>
      BY <2>3, <2>4
    <3>2. KeyOf(r) = <<m, n, r.kind>> /\ r.kind \in Range(EdgeKinds)
      BY <2>2, <3>1 DEF KeyOf
    <3>3. KeyOf(r) \in DOMAIN graph
      BY <2>1, <3>1
    <3> QED
      BY <3>2, <3>3
  <2>5. ASSUME NEW kind \in Range(EdgeKinds), <<m, n, kind>> \in DOMAIN graph PROVE <<m, n>> \in inside
    <3>1. PICK r \in R : IsEdge(r) /\ KeyOf(r) = <<m, n, kind>>
      BY <2>1, <2>5
    <3>2. r.owner = m /\ r.to = n
      BY <3>1 DEF KeyOf
    <3> QED
      BY <2>3, <3>1, <3>2
  <2> QED
    BY <2>4, <2>5
<1> HIDE DEF inside
<1>5. Cycles(graph, nodes) = Turning(nodes, inside)
  BY <1>1, <1>3, <1>4, CyclesAre
<1>6. {{n \in nodes : Reaches(m, n) /\ Reaches(n, m)} : m \in {x \in nodes : Reaches(x, x)}}
        = Turning(nodes, inside)
  BY <1>1, <1>3, RingIsReached DEF Turning
<1>7. {c.members : c \in report.cycles}
        = {{n \in nodes : Reaches(m, n) /\ Reaches(n, m)} : m \in {x \in nodes : Reaches(x, x)}}
  BY <1>2, <1>5, <1>6
<1> QED
  BY <1>7 DEF CyclesAreWhole, report, nodes, inside

\* Whatever a request asks, the changed definitions and the cycles of the report are
\* those of the request.
THEOREM ChangesAreServed == RequestSpec => []ChangesServed
<1>1. RequestInvariant => ChangesServed
  BY ChangesAreAllFound, CyclesAreAllWhole DEF RequestInvariant, Requested, ChangesServed, Answered
<1> QED
  BY <1>1, RequestsAreAnswered, PTL
=============================================================================
