------------------------------ MODULE RustFacts ------------------------------
(***************************************************************************)
(* rr-core/src/parser/rust.rs: facts from the Rust grammar.  A file is its *)
(* syntax tree, the named nodes in document order, each with its parent    *)
(* (NoNode for the root's children) and its span, and what the embedded    *)
(* query captures in it: items with their bodies, references, imports,     *)
(* identifiers, attributes and syntax errors.  Blanks and newlines have no *)
(* place in a span.                                                        *)
(***************************************************************************)
EXTENDS Facts

NoNode == 0
NoBody == Span(0, 0)

ItemKinds == {"function_item", "function_signature_item", "struct_item", "enum_item", "union_item",
              "trait_item", "type_item", "associated_type", "const_item", "static_item", "mod_item",
              "macro_definition"}

----------------------------------------------------------------------------
(* What an item is.                                                        *)

Kind(tree, n) == IF n = NoNode THEN "source_file" ELSE tree[n].kind
Parent(tree, n) == IF n = NoNode THEN NoNode ELSE tree[n].parent
Outer(tree, n) ==
  LET up[m \in DOMAIN tree \cup {NoNode}] ==
        IF m = NoNode THEN {} ELSE {tree[m].parent} \cup up[tree[m].parent]
  IN  up[n] \ {NoNode}

ClassifyFunctionLike(tree, n) ==
  LET list == Parent(tree, n)
      holder == Kind(tree, Parent(tree, list))
  IN  IF Kind(tree, list) # "declaration_list" THEN "function"
      ELSE IF holder = "impl_item" THEN "method"
      ELSE IF holder = "trait_item" THEN "trait-method"
      ELSE "function"

ClassifyDefinition(tree, n) ==
  LET kind == Kind(tree, n)
  IN  CASE kind \in {"function_item", "function_signature_item"} -> ClassifyFunctionLike(tree, n)
        [] kind = "struct_item" -> "struct" [] kind = "enum_item" -> "enum"
        [] kind = "union_item" -> "union" [] kind = "trait_item" -> "trait"
        [] kind = "type_item" -> "type-alias" [] kind = "associated_type" -> "associated-type"
        [] kind = "const_item" -> "const" [] kind = "static_item" -> "static"
        [] kind = "mod_item" -> "module" [] kind = "macro_definition" -> "macro"

IsSemicolonDefinition(kind) == kind \in {"type-alias", "associated-type", "const", "static"}

\* visibility: a modifier is the words in its brackets, and nothing for a bare pub.
Visibility(node) ==
  IF ~node.pub THEN <<"private">>
  ELSE IF node.restriction = <<>> THEN <<"public">>
  ELSE IF node.restriction = <<"crate">> THEN <<"crate">>
  ELSE <<"restricted", Last(node.restriction)>>

\* impl_qualifier: the type, or the type as the trait.
ImplQualifier(node) == IF node.trait = "" THEN <<node.name>> ELSE <<node.name, "as", node.trait>>

\* local_qualified_name, the segments outermost first; <<>> at file scope.
LocalQualifiedName(tree, n) ==
  LET named == {m \in Outer(tree, n) : Kind(tree, m) \in ItemKinds \cup {"impl_item"}}
      chain == SetToSortSeq(named, <)
      segment(m) == IF Kind(tree, m) = "impl_item" THEN ImplQualifier(tree[m]) ELSE <<tree[m].name>>
  IN  IF named = {} THEN <<>>
      ELSE Append([i \in DOMAIN chain |-> segment(chain[i])], <<tree[n].name>>)

----------------------------------------------------------------------------
(* Comments and attributes in front of an item.                            *)

\* Mutation: the walk passes over items too.
WalkEverything(tree, n) == {p \in DOMAIN tree : p < n /\ tree[p].parent = tree[n].parent}
\* The siblings the walk back visits before it meets anything else.
WalkBack(tree, n) ==
  LET siblings == {p \in DOMAIN tree : p < n /\ tree[p].parent = tree[n].parent}
  IN  {p \in siblings : \A q \in siblings :
         q >= p => tree[q].kind \in {"attribute_item", "outer_doc", "plain_comment"}}

\* attached_metadata: an ordinary comment keeps documentation out, not attributes.
AttachedMetadata(tree, n) ==
  LET walked == WalkBack(tree, n)
  IN  {p \in walked : \/ tree[p].kind = "attribute_item"
                      \/ /\ tree[p].kind = "outer_doc"
                         /\ \A q \in walked : q > p => tree[q].kind # "plain_comment"}
AttachedAttributes(tree, n) == {p \in AttachedMetadata(tree, n) : tree[p].kind = "attribute_item"}

ExpandedItemSpan(tree, n) ==
  Span(Min({tree[p].span.from : p \in AttachedMetadata(tree, n)} \cup {tree[n].span.from}),
       tree[n].span.to)

\* metadata_idents: an attribute that documents is documentation.
MetadataIdents(tree, n) ==
  LET doc(p) == tree[p].kind = "outer_doc" \/ tree[p].path = "doc"
  IN  [docs |-> {p \in AttachedMetadata(tree, n) : doc(p)},
       attributes |-> {p \in AttachedMetadata(tree, n) : ~doc(p)}]

\* is_cfg_test_attr, on the identifiers of the attribute's token tree.
IsCfgTestAttr(node) == node.path \in {"cfg", "cfg_attr"} /\ "test" \in node.tokens

TestSignals(tree, n) ==
  LET holders == {n} \cup {m \in Outer(tree, n) :
                             Kind(tree, m) \in ItemKinds \cup {"impl_item", "foreign_mod_item"}}
  IN  [explicitAttribute |-> \E p \in AttachedAttributes(tree, n) :
                               tree[p].path \in {"test", "tokio::test", "rstest", "test_case"},
       insideCfgTest |-> \E m \in holders : \E p \in AttachedAttributes(tree, m) : IsCfgTestAttr(tree[p])]

----------------------------------------------------------------------------
(* Imports.                                                                *)

\* The path in front of a leaf: what the lists around it add, outermost first.
UsePrefix(uses, u) ==
  LET before[v \in DOMAIN uses] ==
        IF uses[v].parent = NoNode THEN <<>>
        ELSE LET list == uses[v].parent
             IN  before[list] \o IF uses[list].kind = "scoped_use_list" THEN uses[list].path ELSE <<>>
  IN  before[u]

\* One import for every leaf of the use tree; self names the prefix itself.
UseLeaf(uses, u) ==
  LET prefix == UsePrefix(uses, u)
      leaf == uses[u]
      self == IF prefix = <<>> THEN <<"self">> ELSE prefix
  IN  [path |-> CASE leaf.kind = "self" -> self
                  [] leaf.kind = "use_as_clause" /\ leaf.path = <<"self">> -> self
                  [] leaf.kind = "use_wildcard" -> Append(prefix \o leaf.path, "*")
                  [] OTHER -> prefix \o leaf.path,
       alias |-> leaf.alias, isGlob |-> leaf.kind = "use_wildcard", span |-> leaf.span]

\* expand_import_declaration: nothing for a use whose tree did not parse.
ExpandImportDeclaration(decl) ==
  IF decl.kind = "extern_crate_declaration"
  THEN <<[path |-> <<decl.name>>, alias |-> decl.alias, isGlob |-> FALSE, span |-> decl.span]>>
  ELSE LET leaves == SetToSortSeq({u \in DOMAIN decl.uses :
                                     decl.uses[u].kind \notin {"scoped_use_list", "use_list"}}, <)
       IN  [i \in DOMAIN leaves |-> UseLeaf(decl.uses, leaves[i])]

----------------------------------------------------------------------------
(* One query pass.                                                         *)

SpanKey(span) == <<span.from, span.to>>
\* SortedSpans.
SpansContain(spans, span) ==
  LET sorted == SortedBy(SetToSeq(spans), SpanKey)
  IN  \E i \in Reach(sorted, span) : Within(span, sorted[i])

\* macro_body_span, when the query captured no body.
BodySpan(tree, item) ==
  IF item.body = NoBody /\ tree[item.node].kind = "macro_definition"
  THEN tree[item.node].rules ELSE item.body

SignatureSpan(kind, body, expanded) ==
  IF body = NoBody \/ IsSemicolonDefinition(kind) THEN expanded
  ELSE Span(expanded.from, Max({body.from, expanded.from}))

\* The definitions, and the body of each: of two matches of one item the first.
TryInsertDefs(file) ==
  LET tree == file.tree
      kept == SelectSeq([i \in DOMAIN file.items |-> [at |-> i, item |-> file.items[i]]],
                LAMBDA k : ~\E j \in 1..(k.at - 1) :
                             tree[file.items[j].node].span = tree[k.item.node].span)
      def(k) ==
        LET n == kept[k].item.node
            kind == ClassifyDefinition(tree, n)
            body == BodySpan(tree, kept[k].item)
            expanded == ExpandedItemSpan(tree, n)
        IN  [name |-> tree[n].name, kind |-> kind, span |-> expanded, nameSpan |-> tree[n].nameSpan,
             body |-> body, head |-> SignatureSpan(kind, body, expanded), signature |-> <<tree[n].name>>,
             visibility |-> Visibility(tree[n]), qualified |-> LocalQualifiedName(tree, n),
             metadata |-> MetadataIdents(tree, n), tests |-> TestSignals(tree, n)]
  IN  SortedBy([k \in DOMAIN kept |-> def(k)], DefKey)

FinalizeReferences(file, defs) ==
  LET heard == SelectSeq(file.references, LAMBDA r : ~SpansContain(file.errors, r.span))
  IN  SortedBy([i \in DOMAIN heard |-> [name |-> heard[i].name, span |-> heard[i].span,
                                        owner |-> Lookup(defs, heard[i].span, FALSE)]], FactKey)

FinalizeImports(file, defs) ==
  LET pending == FlattenSeq([i \in DOMAIN file.imports |-> ExpandImportDeclaration(file.imports[i])])
      heard == SelectSeq(pending, LAMBDA m : ~SpansContain(file.errors, m.span))
  IN  SortedBy([i \in DOMAIN heard |-> [name |-> Last(heard[i].path), path |-> heard[i].path,
                                        span |-> heard[i].span,
                                        owner |-> Lookup(defs, heard[i].span, TRUE)]], FactKey)

\* Where each identifier counts: by the place of the definition, its signature
\* and its body; nowhere when it names, refers, imports, decorates or is broken.
AssignIdents(file, defs, references, imports) ==
  LET spansOf(seq) == {seq[i].span : i \in DOMAIN seq}
      counted == {span \in file.idents :
                    /\ \A i \in DOMAIN defs : defs[i].nameSpan # span
                    /\ \A spans \in {spansOf(references), spansOf(imports), file.attributes, file.errors} :
                         ~SpansContain(spans, span)}
      of(i) == {span \in counted : Lookup(defs, span, FALSE) = i}
      inBody(i, span) == defs[i].body # NoBody /\ Within(span, defs[i].body)
  IN  [i \in DOMAIN defs |->
         [signature |-> {span \in of(i) : Within(span, defs[i].head) /\ ~inBody(i, span)},
          body |-> {span \in of(i) : inBody(i, span)}]]

ParseStatus(errors, missing) ==
  IF errors = 0 /\ missing = 0 THEN [is |-> "complete"]
  ELSE [is |-> "recovered", errors |-> errors, missing |-> missing]

RustExtract(file) ==
  LET defs == TryInsertDefs(file)
      references == FinalizeReferences(file, defs)
      imports == FinalizeImports(file, defs)
  IN  IF file.tooLarge THEN Degraded("source-too-large", file.text)
      ELSE IF ~file.utf8 THEN Degraded("invalid-utf8", file.text)
      ELSE IF ~file.parses THEN Degraded("parser-returned-none", file.text)
      ELSE IF file.matchLimit THEN Degraded("query-match-limit", file.text)
      ELSE [defs |-> defs, references |-> references, imports |-> imports, lexical |-> <<>>,
            idents |-> AssignIdents(file, defs, references, imports),
            status |-> ParseStatus(Cardinality(file.errors), Cardinality(file.missing))]

----------------------------------------------------------------------------
\* Nothing is said of what the parser could not read: no reference, import or
\* counted identifier of the result lies inside a syntax error, however the errors
\* nest or overlap and wherever a use list is broken.
NothingFromErrors(file, facts) ==
  LET broken(span) == \E error \in file.errors : Within(span, error)
  IN  facts.status.is # "degraded" =>
        /\ \A i \in DOMAIN facts.references : ~broken(facts.references[i].span)
        /\ \A i \in DOMAIN facts.imports : ~broken(facts.imports[i].span)
        /\ \A i \in DOMAIN facts.idents :
             \A span \in facts.idents[i].signature \cup facts.idents[i].body : ~broken(span)

\* A comment or an attribute belongs to one definition at most, and what a span
\* takes in for it never reaches into another definition: two spans are nested or
\* apart, and the facts pass the validation that would fail the whole index.
SpansAreNested(facts) ==
  /\ ValidateFacts(facts)
  /\ \A i, j \in DOMAIN facts.defs :
       i # j => \/ Within(facts.defs[i].span, facts.defs[j].span)
                \/ Within(facts.defs[j].span, facts.defs[i].span)
                \/ Places(facts.defs[i].span) \cap Places(facts.defs[j].span) = {}
=============================================================================
