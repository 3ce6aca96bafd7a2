-------------------------------- MODULE Tags --------------------------------
(***************************************************************************)
(* rr-core/src/parser/tags.rs: facts from a grammar's tags query.  The     *)
(* source is a sequence of tokens, blanks left out: words, newlines,       *)
(* brackets, quotes and the marks that open and close comments; an escaped *)
(* character is part of its token.  A span is [from, to) in places of that *)
(* sequence, and the words of a region are the places where they stand.    *)
(* What tree-sitter answers is an input: the tags of a file, in the order  *)
(* they are yielded, and the matches of the imports query.                 *)
(***************************************************************************)
EXTENDS Facts

CONSTANTS
  LinePrefixes,           \* line_comment_prefixes
  StringPrefixes,         \* the one- and two-letter words a literal may open with
  DocIsLeadingBodyString, \* doc_is_leading_body_string
  MaxSignature,           \* MAX_SIGNATURE_BYTES
  TestAttribute,          \* the identifiers test_attribute accepts
  TestScope,              \* the names test_scope accepts
  Markers,                \* ImportSpec::markers; {} is a language without imports
  CalleeNames             \* ImportSpec::callee_names

NoPlace == 0
NoCallee == "no-callee"

WordsIn(source, span) == {i \in Places(span) : source[i] \in Words}
\* LineIndex::line_start.
LineStart(source, at) == Max({1} \cup {i + 1 : i \in {j \in 1..(at - 1) : source[j] = "nl"}})

----------------------------------------------------------------------------
(* Comments before a declaration.                                          *)

BlockCommentOpen(source, close) ==
  Max({NoPlace} \cup {i \in 1..(close - 1) : source[i] = "/*"})

\* One turn of the loop: where the comment before cursor starts, if one does.
CommentBefore(source, cursor) ==
  IF cursor = 1 THEN NoPlace
  ELSE IF source[cursor - 1] = "*/" THEN BlockCommentOpen(source, cursor - 1)
  ELSE IF source[cursor - 1] # "nl" THEN NoPlace
  ELSE LET line == LineStart(source, cursor - 1)
           closes == {i \in line..(cursor - 2) : source[i] = "*/"}
       IN  IF line = cursor - 1 THEN NoPlace
           ELSE IF source[line] \in LinePrefixes THEN line
           ELSE IF closes # {} THEN BlockCommentOpen(source, Max(closes))
           ELSE NoPlace

\* The start of the run, or declStart when no comment abuts the declaration.
PrecedingCommentRunStart(source, declStart) ==
  LET run[cursor \in 1..declStart] ==
        LET comment == CommentBefore(source, cursor)
        IN  IF comment = NoPlace THEN cursor ELSE run[comment]
  IN  run[declStart]

----------------------------------------------------------------------------
(* The header of a definition.                                             *)

QuoteOf(token) == IF token \in {"'", "'''"} THEN "'" ELSE IF token = "\"" THEN "\"" ELSE ""

SignatureEnd(source, start, spanEnd) ==
  LET cap == Min({spanEnd, start + MaxSignature})
      quote[i \in start..cap] ==
        IF i = start THEN ""
        ELSE LET open == quote[i - 1] IN
             IF open = "" THEN QuoteOf(source[i - 1])
             ELSE IF QuoteOf(source[i - 1]) = open THEN "" ELSE open
      depth[i \in start..cap] ==
        IF i = start THEN 0
        ELSE LET before == depth[i - 1] IN
             IF quote[i - 1] # "" THEN before
             ELSE IF source[i - 1] = "(" THEN before + 1
             ELSE IF source[i - 1] = ")" THEN Max({before - 1, 0})
             ELSE before
      newlines == {i \in start..(cap - 1) : source[i] = "nl"}
      stops == {i \in newlines : quote[i] # "" \/ depth[i] = 0}
  IN  IF stops # {} /\ quote[Min(stops)] = "" THEN Min(stops)
      ELSE IF newlines # {} THEN Min(newlines) ELSE cap

\* At most one region: the string literal that opens the body.
DocstringRange(source, from, spanEnd) ==
  LET start == Min({spanEnd} \cup {i \in from..(spanEnd - 1) : source[i] # "nl"})
      open == IF start < spanEnd /\ source[start] \in StringPrefixes THEN start + 1 ELSE start
      ends == {i \in (open + 1)..(spanEnd - 1) :
                 source[i] = source[open] \/ (source[i] = "nl" /\ source[open] # "'''")}
  IN  IF open < spanEnd /\ QuoteOf(source[open]) # "" /\ ends # {} /\ source[Min(ends)] # "nl"
      THEN {Span(start, Min(ends) + 1)} ELSE {}

\* Mutation: the line the name is on may start before the declaration does.
NameLineUnclamped(source, tag) == LineStart(source, tag.nameAt)
NameLine(source, tag) == Max({LineStart(source, tag.nameAt), tag.from})

\* header_for: the signature, and the regions the body scan must not read.
HeaderFor(source, span, tag) ==
  LET line == NameLine(source, tag)
      shown == {i \in line..(span.to - 1) : source[i] # "nl"}
      item == IF shown = {} THEN line ELSE Min(shown)
      head == Span(item, SignatureEnd(source, item, span.to))
      attributes == Span(tag.from, Max({line, tag.from}))
      docs == IF tag.docs /\ DocIsLeadingBodyString
              THEN DocstringRange(source, head.to, span.to) ELSE {}
  IN  [span |-> head,
       signature |-> IF head.from = head.to THEN <<source[tag.nameAt]>>
                     ELSE SubSeq(source, head.from, head.to - 1),
       words |-> {i \in WordsIn(source, head) : source[i] # source[tag.nameAt]},
       attributes |-> WordsIn(source, attributes),
       exclusions |-> {Span(span.from, tag.from), attributes} \cup docs]

\* A tag's kind is the one the language's map and its refine settle on, NoKind
\* when the map has none.
NoKind == "no-kind"

\* The definition, and what its body excludes besides its children.
DefinitionWith(source, tag, span, header) ==
  [name |-> source[tag.nameAt], kind |-> tag.kind, span |-> span, head |-> header.span,
   signature |-> header.signature, words |-> header.words, attributes |-> header.attributes,
   explicitTest |-> \E i \in header.attributes : source[i] \in TestAttribute,
   exclusions |-> header.exclusions]
DefinitionFromTag(source, tag) ==
  LET span == Span(PrecedingCommentRunStart(source, tag.from), tag.to)
  IN  DefinitionWith(source, tag, span, HeaderFor(source, span, tag))

----------------------------------------------------------------------------
(* Nesting.                                                                *)

\* Definition i is visited before definition j: an outer one before an inner.
VisitedBefore(defs, i, j) ==
  LET a == defs[i].span
      b == defs[j].span
  IN  \/ a.from < b.from
      \/ a.from = b.from /\ (a.to > b.to \/ (a.to = b.to /\ i < j))

\* What is on the stack when each definition is visited, the innermost last.
Ancestors(defs) ==
  LET order == SetToSortSeq(DOMAIN defs, LAMBDA i, j : VisitedBefore(defs, i, j))
      stack[k \in 1..Len(defs)] ==
        IF k = 1 THEN <<>>
        ELSE LET before == Append(stack[k - 1], order[k - 1])
                 around == {d \in DOMAIN before :
                              StrictlyWithin(defs[order[k]].span, defs[before[d]].span)}
             IN  SubSeq(before, 1, Max({0} \cup around))
  IN  [i \in DOMAIN defs |-> stack[RankIn(order, i)]]

\* A parameter property is a field of the class, not of the constructor.
NamingOwners(defs, ancestors, i) ==
  IF /\ defs[i].kind = "field"
     /\ ancestors # <<>> /\ defs[Last(ancestors)].kind = "constructor"
  THEN Front(ancestors) ELSE ancestors

\* Mutation: a container also reads the bodies of what it contains.
ChildrenKept(defs, ancestors, i) == {}
DirectChildren(defs, ancestors, i) ==
  {defs[j].span : j \in {k \in DOMAIN defs : ancestors[k] # <<>> /\ Last(ancestors[k]) = i}}

ScanExcluding(source, container, excluded) ==
  {i \in WordsIn(source, container) : \A span \in excluded : i \notin Places(span)}

AssignNesting(source, defs) ==
  LET ancestors == Ancestors(defs)
      owners(i) == NamingOwners(defs, ancestors[i], i)
  IN  [i \in DOMAIN defs |->
         [name |-> defs[i].name, kind |-> defs[i].kind, span |-> defs[i].span,
          head |-> defs[i].head, signature |-> defs[i].signature, words |-> defs[i].words,
          attributes |-> defs[i].attributes,
          qualified |-> IF owners(i) = <<>> THEN <<>>
                        ELSE [k \in DOMAIN owners(i) |-> defs[owners(i)[k]].name] \o <<defs[i].name>>,
          tests |-> [explicitAttribute |-> defs[i].explicitTest,
                     insideTestScope |-> \E k \in DOMAIN ancestors[i] :
                                           defs[ancestors[i][k]].name \in TestScope],
          body |-> ScanExcluding(source, defs[i].span,
                     {defs[i].head} \cup defs[i].exclusions \cup DirectChildren(defs, ancestors, i))]]

----------------------------------------------------------------------------
(* Imports and the whole extraction.                                       *)

\* The matches that are imports: build_import drops a call to another function
\* and an empty path.
BuildsImport(match) == /\ match.callee # NoCallee => match.callee \in CalleeNames
                       /\ match.path # ""

CollectImports(file, defs) ==
  IF ~\E i \in DOMAIN file.text : file.text[i] \in Markers THEN <<>>
  ELSE LET built == SelectSeq(file.matches, BuildsImport)
       IN  SortedBy([i \in DOMAIN built |->
                       [name |-> built[i].path, span |-> built[i].span,
                        owner |-> Lookup(defs, built[i].span, TRUE)]], FactKey)

\* Sorted by key, the first tag of each key kept.
SortedDefs(defs) ==
  SortedBy(SelectSeq([i \in DOMAIN defs |-> [at |-> i, def |-> defs[i]]],
                     LAMBDA d : ~\E i \in 1..(d.at - 1) : DefKey(defs[i]) = DefKey(d.def)),
           LAMBDA d : DefKey(d.def))

Extract(file) ==
  LET failed == \E i \in DOMAIN file.tags : file.tags[i].failed
      named == SelectSeq(file.tags, LAMBDA tag : tag.nameAt # NoPlace /\ tag.kind # NoKind)
      built == SelectSeq(named, LAMBDA tag : tag.isDefinition)
      used == SelectSeq(named, LAMBDA tag : ~tag.isDefinition)
      sorted == SortedDefs([i \in DOMAIN built |-> DefinitionFromTag(file.text, built[i])])
      defs == AssignNesting(file.text, [i \in DOMAIN sorted |-> sorted[i].def])
      references == [i \in DOMAIN used |->
                       LET span == Span(used[i].nameAt, used[i].nameAt + 1)
                       IN  [name |-> file.text[used[i].nameAt], span |-> span,
                            owner |-> Lookup(defs, span, FALSE)]]
  IN  IF file.tooLarge THEN Degraded("source-too-large", file.text)
      ELSE IF ~file.utf8 THEN Degraded("invalid-utf8", file.text)
      ELSE IF ~file.parses \/ failed THEN Degraded("parser-returned-none", file.text)
      ELSE [defs |-> defs, references |-> SortedBy(references, FactKey),
            imports |-> CollectImports(file, defs), lexical |-> <<>>,
            status |-> [is |-> "tags", parseErrors |-> file.parseErrors]]

----------------------------------------------------------------------------
\* Whatever tags a grammar yields for a file, in whatever order and however often
\* it repeats one, the facts made of them pass the validation that would
\* otherwise fail the whole index: sorted, owned by the nearest definition, every
\* signature inside its definition and none of them empty.  And a word of the file
\* is body text of one definition at most: what a definition contains, with the
\* comments and attributes in front of it, is never counted for the container as
\* well (definitions of one and the same span apart).
ExtractionIsSound(facts) ==
  /\ ValidateFacts(facts)
  /\ \A i, j \in DOMAIN facts.defs :
       facts.defs[i].span # facts.defs[j].span => facts.defs[i].body \cap facts.defs[j].body = {}

\* preceding_comment_run_start: "a blank line or any code breaks the run", so what
\* a definition's span takes in before its declaration is comment text only.
OnlyCommentsAbsorbed(file) ==
  \A t \in DOMAIN file.tags :
    LET tag == file.tags[t]
        commented(i) ==
          \/ file.text[i] = "nl"
          \/ file.text[LineStart(file.text, i)] \in LinePrefixes
          \/ \E open \in 1..i : /\ file.text[open] = "/*"
                                /\ \A j \in open..(i - 1) : file.text[j] # "*/"
    IN  tag.isDefinition =>
          \A i \in Places(Span(PrecedingCommentRunStart(file.text, tag.from), tag.from)) : commented(i)
=============================================================================
