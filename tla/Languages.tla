------------------------------ MODULE Languages ------------------------------
(***************************************************************************)
(* rr-core/src/parser/tags.rs, the languages of the tags tier: what each   *)
(* makes of one captured declaration: its kind and its access.  A          *)
(* declaration's text is the one-line signature as tokens: words,          *)
(* brackets, quotes, operators and the blanks between them.  A name is its *)
(* word, the underscores or # it opens with, whether it closes with two    *)
(* underscores and whether its first letter is upper case.                 *)
(***************************************************************************)
EXTENDS Integers, FiniteSetsExt, SequencesExt

Blank == " "
NotStated == "not-stated"
NoEnclosing == "file"

\* The kind a capture's name maps to, where it is not the name itself.
KindOf(lang, capture) ==
  CASE lang = "python" /\ capture = "constant" -> "variable"
    [] lang = "javascript" /\ capture = "constant" -> "const"
    [] lang = "java" /\ capture = "record" -> "struct"
    [] lang = "csharp" /\ capture = "record" -> "class"
    [] lang = "c" /\ capture = "class" -> "struct"
    [] lang = "php" /\ capture = "module" -> "namespace"
    [] capture = "type" -> "type-alias"
    [] OTHER -> capture

----------------------------------------------------------------------------
(* What a declaration states.                                              *)

\* How many brackets are open behind some places of the text.
Opening == {"(", "[", "#["}
Closing == {")", "]"}
Depth(text, places) ==
  Cardinality({i \in places : text[i] \in Opening}) - Cardinality({i \in places : text[i] \in Closing})

\* The first place after the decoration that opens at from: a blank outside
\* brackets ends it, and so does the bracket that closes its arguments.
DecorationEnd(text, from) ==
  LET outside(i) == Depth(text, from..(i - 1)) = 0
      ends == {i \in (from + 1)..Len(text) : text[i] \in Closing \cup {Blank} /\ outside(i)}
      closes == {i \in (from + 1)..(Len(text) + 1) : text[i - 1] \in Closing /\ outside(i)}
  IN  Min(ends \cup closes \cup {Len(text) + 1})

\* csharp_strip_attributes steps over string literals: these places are in none.
Bare(text, from, to) ==
  {i \in from..to : Cardinality({j \in from..(i - 1) : text[j] = "\""}) % 2 = 0}
\* Whether a string of a decoration holds a bracket.
QuotesBracket(decoration) ==
  \E i \in DOMAIN decoration :
    decoration[i] \in Opening \cup Closing /\ i \notin Bare(decoration, 1, i)
AttributeEnd(text, from) ==
  LET closes == {i \in (from + 1)..(Len(text) + 1) :
                   /\ text[i - 1] \in Closing /\ i - 1 \in Bare(text, from, i - 1)
                   /\ Depth(text, Bare(text, from, i - 1)) = 0}
  IN  Min(closes \cup {Len(text) + 1})

\* The text after every decoration it opens with: a turn goes past a blank or a
\* decoration, whose end is told for every place.
PastOne(text, opens, end) ==
  [from \in 1..(Len(text) + 1) |->
     IF from > Len(text) THEN from
     ELSE IF text[from] = Blank THEN from + 1
     ELSE IF text[from] \in opens THEN end[from] ELSE from]
PastAll(past, turns) ==
  LET at[n \in 0..turns] == IF n = 0 THEN 1 ELSE past[at[n - 1]]
  IN  at[turns]
Stripped(text, opens, end) ==
  SubSeq(text, PastAll(PastOne(text, opens, end), Len(text)), Len(text))
\* Mutation: one decoration, not a run of them.
StripOneDecoration(text) ==
  IF text # <<>> /\ text[1] \in {"@", "#["}
  THEN SubSeq(text, DecorationEnd(text, 1) + 1, Len(text)) ELSE text
StripLeadingDecorations(text) ==
  Stripped(text, {"@", "#["}, [from \in DOMAIN text |-> DecorationEnd(text, from)])
CsharpStripAttributes(text) == Stripped(text, {"["}, [from \in DOMAIN text |-> AttributeEnd(text, from)])

\* The words a declaration opens with, as long as the language allows them there.
LeadingModifiers(text, allowed) ==
  LET opens(k) == \A j \in 0..(k - 1) : /\ 2 * j + 1 <= Len(text) /\ text[2 * j + 1] \in allowed
                                        /\ 2 * j + 2 <= Len(text) => text[2 * j + 2] = Blank
      count == Max({k \in 0..Len(text) : opens(k)})
  IN  [k \in 1..count |-> text[2 * k - 1]]

\* The access the first access word means, or NotStated.
FirstAccess(words, means) ==
  LET stated == {i \in DOMAIN words : words[i] \in DOMAIN means}
  IN  IF stated = {} THEN NotStated ELSE means[words[Min(stated)]]

TypescriptModifiers == {"public", "private", "protected", "static", "readonly", "abstract",
                        "override", "accessor", "declare", "async", "get", "set"}
JavaModifiers == {"public", "private", "protected", "static", "final", "abstract", "synchronized",
                  "native", "transient", "volatile", "strictfp", "default", "sealed", "non-sealed"}
CsharpModifiers == {"public", "private", "protected", "internal", "static", "readonly", "sealed",
                    "abstract", "virtual", "override", "async", "partial", "const", "unsafe",
                    "extern", "ref", "required", "file"}
PhpModifiers == {"public", "private", "protected", "static", "abstract", "final", "readonly"}
SwiftModifiers == {"public", "private", "internal", "fileprivate", "open", "package", "static",
                   "class", "final", "override", "mutating", "lazy", "weak", "unowned"}

\* What the access words mean.
MemberAccess == [w \in {"public", "private", "protected"} |-> w]
CsharpAccess == [w \in {"public", "private", "protected", "internal"} |-> w]
SwiftAccess == [w \in {"public", "open", "private", "internal", "fileprivate", "package"} |->
                  IF w = "open" THEN "public" ELSE w]

TypescriptModifierRun(text) == LeadingModifiers(StripLeadingDecorations(text), TypescriptModifiers)
TypescriptDeclaredVisibility(text) == FirstAccess(TypescriptModifierRun(text), MemberAccess)
JavaDeclaredVisibility(text) ==
  FirstAccess(LeadingModifiers(StripLeadingDecorations(text), JavaModifiers), MemberAccess)
CsharpDeclaredVisibility(text) ==
  FirstAccess(LeadingModifiers(CsharpStripAttributes(text), CsharpModifiers), CsharpAccess)
PhpDeclaredVisibility(text) ==
  FirstAccess(LeadingModifiers(StripLeadingDecorations(text), PhpModifiers), MemberAccess)
SwiftDeclaredVisibility(text) ==
  FirstAccess(LeadingModifiers(StripLeadingDecorations(text), SwiftModifiers), SwiftAccess)

\* What the name alone says, before the declaration is read.
PythonVisibility(name) ==
  CASE name.opens = "__" /\ name.closes -> "public"
    [] name.opens = "__" /\ ~name.closes -> "private"
    [] name.opens = "_" -> "internal"
    [] OTHER -> "public"
TypescriptVisibility(name) == IF name.opens = "#" THEN "private" ELSE "public"
GoVisibility(name) == IF name.upper THEN "public" ELSE "package"
RubyVisibility(name) == IF name.opens \in {"_", "__"} THEN "internal" ELSE "public"

NameVisibility(lang, name) ==
  CASE lang = "python" -> PythonVisibility(name)
    [] lang \in {"typescript", "javascript"} -> TypescriptVisibility(name)
    [] lang = "go" -> GoVisibility(name)
    [] lang = "ruby" -> RubyVisibility(name)
    [] lang = "java" -> "package"
    [] lang = "csharp" -> "private"
    [] lang = "swift" -> "internal"
    [] OTHER -> "public"

----------------------------------------------------------------------------
(* The last word on one declaration.                                       *)

State(def, stated) == IF stated = NotStated THEN def ELSE [def EXCEPT !.visibility = stated]
Promote(def, from, to, cond) == IF def.kind = from /\ cond THEN [def EXCEPT !.kind = to] ELSE def

\* initializer_of: what follows the first plain =.  Operators and arrows are
\* tokens of their own.
InitializerOf(text) ==
  LET at == Min({i \in DOMAIN text : text[i] = "="} \cup {Len(text) + 1})
  IN  SelectSeq(SubSeq(text, at + 1, Len(text)), LAMBDA t : t # Blank)

\* after_type_parameters: the list that opens with < closes onto a parenthesis.
AfterTypeParameters(tokens) ==
  LET depth(i) == Cardinality({j \in 1..i : tokens[j] = "<"})
                    - Cardinality({j \in 1..i : tokens[j] = ">"})
      closed == {i \in DOMAIN tokens : depth(i) = 0}
  IN  IF closed = {} THEN <<>> ELSE SubSeq(tokens, Min(closed) + 1, Len(tokens))

\* The words that start like the keyword.
FunctionWords == {"function", "functions"}

InitializerIsAFunction(text) ==
  LET value  == InitializerOf(text)
      tokens == IF value # <<>> /\ Head(value) = "async" THEN Tail(value) ELSE value
      opening == IF tokens # <<>> /\ Head(tokens) = "<" THEN AfterTypeParameters(tokens) ELSE tokens
  IN  /\ tokens # <<>>
      /\ \/ Head(tokens) \in FunctionWords
         \/ opening # <<>> /\ Head(opening) = "(" /\ Contains(tokens, "=>")

TypescriptRefine(def) ==
  LET stated == State(def, TypescriptDeclaredVisibility(def.signature))
      accessor == {"get", "set"} \cap Range(TypescriptModifierRun(def.signature)) # {}
      constructs == def.name.word = "constructor"
  IN  CASE def.kind = "method" /\ constructs -> [stated EXCEPT !.kind = "constructor"]
        [] def.kind = "method" /\ ~constructs -> Promote(stated, "method", "property", accessor)
        [] OTHER -> Promote(stated, "variable", "function", InitializerIsAFunction(def.signature))
JavascriptRefine(def) == Promote(def, "method", "constructor", def.name.word = "constructor")
PythonRefine(def) ==
  Promote(def, "function", "property",
          {"property", "setter", "getter", "deleter"} \cap def.attributes # {})
JavaStatesNoModifierAndIsPublic(text) ==
  LET declaration == StripLeadingDecorations(text)
  IN  /\ declaration # <<>> /\ Last(declaration) = ";"
      /\ LeadingModifiers(declaration, JavaModifiers) = <<>>
JavaRefine(def) ==
  LET stated == JavaDeclaredVisibility(def.signature)
  IN  IF stated = NotStated /\ JavaStatesNoModifierAndIsPublic(def.signature)
      THEN [def EXCEPT !.visibility = "public"] ELSE State(def, stated)
CsharpRefine(def) ==
  IF def.kind = "module" THEN [def EXCEPT !.visibility = "public"]
  ELSE State(def, CsharpDeclaredVisibility(def.signature))
RubyRefine(def) == Promote(def, "method", "constructor", def.name.word = "initialize")
PhpRefine(def) ==
  LET declaration == StripLeadingDecorations(def.signature)
      member == \/ LeadingModifiers(declaration, PhpModifiers) # <<>>
                \/ declaration # <<>> /\ Last(declaration) = ";"
  IN  Promote(Promote(State(def, PhpDeclaredVisibility(def.signature)), "function", "method", member),
              "method", "constructor", def.name.word = "__construct")
SwiftRefine(def) ==
  Promote(State(def, SwiftDeclaredVisibility(def.signature)), "method", "constructor",
          def.name.word = "init")

\* definition_from_tag: the kind of the capture, the default of the name, or
\* private for a local, and then the language's last word.
Refine(lang, captured) ==
  LET def == [captured EXCEPT !.kind = KindOf(lang, @), !.visibility =
                IF captured.isLocal THEN "private" ELSE NameVisibility(lang, captured.name)]
  IN  CASE lang = "typescript" -> TypescriptRefine(def)
        [] lang = "javascript" -> JavascriptRefine(def)
        [] lang = "python" -> PythonRefine(def)
        [] lang = "java" -> JavaRefine(def)
        [] lang = "csharp" -> CsharpRefine(def)
        [] lang = "ruby" -> RubyRefine(def)
        [] lang = "php" -> PhpRefine(def)
        [] lang = "swift" -> SwiftRefine(def)
        [] OTHER -> def

CsharpIsType(kind) == kind \in {"class", "interface", "struct", "enum", "type-alias"}
CsharpEnclose(def, enclosing) ==
  LET open == def.kind # "module" /\ CsharpDeclaredVisibility(def.signature) = NotStated
      top  == enclosing \in {NoEnclosing, "module"} /\ CsharpIsType(def.kind)
  IN  CASE open /\ top -> [def EXCEPT !.visibility = "internal"]
        [] open /\ ~top /\ enclosing = "interface" -> [def EXCEPT !.visibility = "public"]
        [] OTHER -> def
\* states_its_own_access, for every other language.
Enclose(lang, def, enclosing) == IF lang = "csharp" THEN CsharpEnclose(def, enclosing) ELSE def
\* What the extractor makes of a declaration, once what encloses it is known.
Settled(lang, captured, enclosing) == Enclose(lang, Refine(lang, captured), enclosing)

----------------------------------------------------------------------------
\* What a language lets a declaration open with, and what its access words mean.
AllowedModifiers(lang) ==
  CASE lang = "csharp" -> CsharpModifiers [] lang = "swift" -> SwiftModifiers
    [] lang = "php" -> PhpModifiers [] lang = "java" -> JavaModifiers
    [] OTHER -> TypescriptModifiers
MeansOf(lang) ==
  CASE lang = "csharp" -> CsharpAccess [] lang = "swift" -> SwiftAccess [] OTHER -> MemberAccess

\* A declaration as people write it: decorations, modifiers and the rest.
Spelled(parts) ==
  FlattenSeq(parts.decorations) \o
  [i \in 1..(2 * Len(parts.modifiers)) |->
     IF i % 2 = 1 THEN parts.modifiers[(i + 1) \div 2] ELSE Blank] \o
  parts.rest

\* A declaration written as decorations, modifiers and the rest has the access its
\* first access word means, however many decorations lead it, whatever follows (a
\* parameter named private is no modifier), whatever it is promoted to and whatever
\* encloses it.  Two declarations are excepted: a C# namespace, which is public, and
\* in every language but C# one that is decorated with a bracket inside a string.
\* There strip_leading_decorations counts the quoted bracket, may end the decoration
\* in the wrong place and then reads no modifier at all, which is what
\* csharp_strip_attributes says a scan must not do (tags.rs:1839).
StatedAccessWins(lang, parts, def, settled) ==
  LET stated == FirstAccess(parts.modifiers, MeansOf(lang))
  IN  /\ stated # NotStated
      /\ IF lang = "csharp" THEN def.kind # "module"
         ELSE \A d \in Range(parts.decorations) : ~QuotesBracket(d)
      => settled.visibility = stated
=============================================================================
