-------------------------------- MODULE Facts --------------------------------
(***************************************************************************)
(* rr-core/src/facts.rs: what an extractor says of one file, and what the  *)
(* rest of rr may rely on about it.  A span is [from, to), in places of    *)
(* the source; a definition has name, kind, span and head, the span of its *)
(* signature; a reference or an import, of one kind each, has a span and   *)
(* an owner, the place of a definition in the sorted list or NoOwner.      *)
(***************************************************************************)
EXTENDS Integers, FiniteSetsExt, SequencesExt

CONSTANTS
  DefKinds,               \* DefKind::ALL: the kinds in the order of their tag
  Names,                  \* the names and paths, in byte order
  Words,                  \* the tokens scan_idents yields
  MaxFallbackBytes, MaxFallbackIdentifiers

NoOwner == 0

RankIn(seq, x) == CHOOSE i \in DOMAIN seq : seq[i] = x

Span(from, to) == [from |-> from, to |-> to]
Places(span) == span.from..(span.to - 1)
Within(inner, outer) == outer.from <= inner.from /\ inner.to <= outer.to
StrictlyWithin(inner, outer) ==
  Within(inner, outer) /\ (outer.from < inner.from \/ inner.to < outer.to)
Length(span) == span.to - span.from

\* The first place where two keys differ decides.
KeyBefore(a, b) ==
  \E i \in DOMAIN a : a[i] < b[i] /\ \A j \in 1..(i - 1) : a[j] = b[j]
KeySorted(seq, Key(_)) ==
  \A i \in 1..(Len(seq) - 1) : ~KeyBefore(Key(seq[i + 1]), Key(seq[i]))

\* A stable sort of seq by key.
SortedBy(seq, Key(_)) ==
  LET order == SetToSortSeq(DOMAIN seq, LAMBDA i, j :
                 \/ KeyBefore(Key(seq[i]), Key(seq[j]))
                 \/ Key(seq[i]) = Key(seq[j]) /\ i < j)
  IN  [k \in DOMAIN seq |-> seq[order[k]]]

\* def_key, reference_key, import_key.
DefKey(def) == <<def.span.from, def.span.to, RankIn(DefKinds, def.kind), RankIn(Names, def.name)>>
FactKey(fact) == <<fact.span.from, fact.span.to, RankIn(Names, fact.name)>>

----------------------------------------------------------------------------
(* OwnerIndex.                                                             *)

\* DefKind::owns_nested_imports.
OwnsNestedImports(kind) ==
  kind \in {"function", "method", "trait-method", "struct", "enum", "union", "trait", "class",
            "interface", "property", "constructor", "namespace", "macro"}

\* prefix_max_end.
PrefixMaxEnd(spans, i) == Max({spans[j].to : j \in 1..i})

\* Mutation: the walk back ends at the first span that ends too early.
ReachNearest(spans, span) ==
  LET firstAfter == Cardinality({i \in DOMAIN spans : spans[i].from <= span.from})
  IN  {i \in 1..firstAfter : \A j \in i..firstAfter : spans[j].to >= span.to}
\* What a lookup in sorted spans walks back over, from the last that starts in time.
Reach(spans, span) ==
  LET firstAfter == Cardinality({i \in DOMAIN spans : spans[i].from <= span.from})
  IN  {i \in 1..firstAfter : \A j \in i..firstAfter : PrefixMaxEnd(spans, j) >= span.to}

Lookup(defs, span, forImport) ==
  LET candidates == {i \in Reach([j \in DOMAIN defs |-> defs[j].span], span) :
                       /\ Within(span, defs[i].span)
                       /\ forImport => OwnsNestedImports(defs[i].kind)}
      shortest == {i \in candidates : \A j \in candidates : Length(defs[i].span) <= Length(defs[j].span)}
  IN  IF candidates = {} THEN NoOwner ELSE Min(shortest)

----------------------------------------------------------------------------
(* validate_facts.                                                         *)

ValidateOwner(facts, fact, forImport) == fact.owner = Lookup(facts.defs, fact.span, forImport)
ValidateFacts(facts) ==
  /\ KeySorted(facts.defs, DefKey)
  /\ KeySorted(facts.references, FactKey) /\ KeySorted(facts.imports, FactKey)
  /\ \A i \in DOMAIN facts.defs : /\ Within(facts.defs[i].head, facts.defs[i].span)
                                  /\ facts.defs[i].signature # <<>>
  /\ CASE facts.status.is = "degraded" ->
            facts.defs = <<>> /\ facts.references = <<>> /\ facts.imports = <<>>
       [] facts.status.is = "recovered" ->
            facts.lexical = <<>> /\ (facts.status.errors > 0 \/ facts.status.missing > 0)
       [] OTHER -> facts.lexical = <<>>
  /\ facts.status.is # "degraded" =>
       /\ \A i \in DOMAIN facts.references : ValidateOwner(facts, facts.references[i], FALSE)
       /\ \A i \in DOMAIN facts.imports : ValidateOwner(facts, facts.imports[i], TRUE)

\* parser/mod.rs: the words of a source nothing could parse, capped.
LexicalIdents(text) ==
  LET seen == SelectSeq(SubSeq(text, 1, Min({Len(text), MaxFallbackBytes})), LAMBDA t : t \in Words)
  IN  [idents |-> SubSeq(seen, 1, Min({Len(seen), MaxFallbackIdentifiers})),
       truncated |-> Len(text) > MaxFallbackBytes \/ Len(seen) > MaxFallbackIdentifiers]

\* Facts::degraded, degraded_facts.
Degraded(reason, text) ==
  [defs |-> <<>>, references |-> <<>>, imports |-> <<>>, lexical |-> LexicalIdents(text).idents,
   status |-> [is |-> "degraded", reason |-> reason, truncated |-> LexicalIdents(text).truncated]]

----------------------------------------------------------------------------
\* Whatever the definitions of a file (nested, side by side or overlapping, with
\* equal starts or equal spans), a fact belongs to the smallest definition around
\* it, the first of them when several are as small, and to none at file scope:
\* what the binary search and its early stop skip is never the answer.
OwnerIsNearest(defs, span) ==
  \A forImport \in BOOLEAN :
    LET around == {i \in DOMAIN defs : /\ Within(span, defs[i].span)
                                       /\ forImport => OwnsNestedImports(defs[i].kind)}
        owner == Lookup(defs, span, forImport)
    IN  /\ owner = NoOwner <=> around = {}
        /\ owner # NoOwner =>
             /\ owner \in around
             /\ \A i \in around : \/ Length(defs[owner].span) < Length(defs[i].span)
                                  \/ Length(defs[owner].span) = Length(defs[i].span) /\ owner <= i
=============================================================================
