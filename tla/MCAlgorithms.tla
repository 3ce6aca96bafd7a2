---------------------------- MODULE MCAlgorithms ----------------------------
(***************************************************************************)
(* The sequential algorithms of rr on small inputs.  A behaviour is one    *)
(* request to one of them, answered in one step; ranking, which cuts and   *)
(* scores in steps, runs as the state machine it is.                       *)
(***************************************************************************)
EXTENDS Ranking, Requests

CONSTANT
  Asked           \* the algorithms this run asks

Index == INSTANCE IndexBuild
Tagged == INSTANCE Tags WITH
  LinePrefixes <- {"//"}, StringPrefixes <- {}, DocIsLeadingBodyString <- TRUE, MaxSignature <- 5,
  TestAttribute <- {"c"}, TestScope <- {"a"}, Markers <- {"b"}, CalleeNames <- {"c"}
Parsed == INSTANCE RustFacts WITH
  DefKinds <- <<"function", "method", "struct", "type-alias", "const", "module", "macro">>,
  Names <- <<"*", "a", "b", "self">>,
  Words <- {"a", "b"}, MaxFallbackBytes <- 4, MaxFallbackIdentifiers <- 2

algorithmVars == <<requestVars, rankVars>>

----------------------------------------------------------------------------
(* The constants of the other modules.                                     *)

MCTopThreeGate == [numerator |-> 1, denominator |-> 2]
Manifest == <<"top", "", "manifest.json">>
MCDefKinds == <<"function", "constructor", "field", "module">>
MCNames == <<"a", "b", "c">>
MCFolded == [n \in FileNames |-> IF n = "AGENTS.md" THEN "agents.md" ELSE n]

----------------------------------------------------------------------------
(* The ranking instance: two streams of one term and one of another.       *)

MCTermOf == <<1, 1, 2>>
MCGain == <<<<5, 1, 3, 2>>, <<1, 4, 1, 1>>, <<2, 2, 6, 1>>>>
MCAnchorOf == <<"a", "b", "a", "c">>

----------------------------------------------------------------------------
(* Windows: files of at most five lines, with short and long ones.         *)

AskWindow ==
  \E n \in 1..5 : \E text \in [1..n -> {1, 2, 5}], first \in 1..n : \E last \in first..n :
    request = [of |-> "window", text |-> text, first |-> first, last |-> last]

----------------------------------------------------------------------------
(* Exact routing: five symbols in three files, overloads and homonyms.     *)

Lib == <<[words |-> {"a"}, content |-> {"a", "m"}], [words |-> {"b"}, content |-> {"b"}],
         [words |-> {}, content |-> {"m"}]>>
Symbol(file, name, qual, kind, line, words) ==
  [file |-> file, name |-> name, qual |-> qual, kind |-> kind, line |-> line, words |-> words]
Library(kinds, other) ==
  [files |-> Lib,
   symbols |-> <<Symbol(1, "f", 2, kinds[1], 1, {"f"}), Symbol(1, "f", 2, kinds[2], 2, {"f"}),
                 Symbol(2, other, 3, kinds[3], 1, {"f", "x"}), Symbol(2, "f", 2, kinds[4], 2, {"f"}),
                 Symbol(3, "f", 1, kinds[1], 1, {"f", "m"})>>]
Token(slash, file, qualified, code, qual, name, words) ==
  [slash |-> slash, file |-> file, qualified |-> qualified, code |-> code,
   identifier |-> name # "m", qual |-> qual, name |-> name, words |-> words]
Tokens == {Token(FALSE, 0, FALSE, TRUE, 0, "f", {"f"}), Token(FALSE, 0, TRUE, FALSE, 2, "f", {"f"}),
           Token(FALSE, 0, FALSE, FALSE, 0, "m", {"m"}), Token(FALSE, 2, FALSE, FALSE, 0, "b", {"b"}),
           Token(TRUE, 0, FALSE, FALSE, 0, "x", {"x"})}
AskExact ==
  \E kinds \in [1..4 -> {"type", "function"}], other \in {"f", "g"} :
    \E n \in 1..2 : \E tokens \in [1..n -> Tokens] : \E path \in {0, 1, 2} :
      request = [of |-> "exact", snapshot |-> Library(kinds, other),
                 question |-> [tokens |-> tokens, words |-> UNION {tokens[i].words : i \in 1..n},
                               path |-> path, given |-> path # 0 \/ kinds[1] = "type"]]

----------------------------------------------------------------------------
(* Impact: a graph of four definitions before and after a change, and one  *)
(* or two files laid out before and after a diff.                          *)

Definition(id, path, qual, kind, first, last) ==
  [id |-> id, path |-> path, qual |-> qual, name |-> qual, kind |-> kind, first |-> first,
   last |-> last, at |-> first * 10, len |-> (last - first) * 10 + 9, words |-> {qual}]
DefX == Definition(1, "a", "x", "function", 1, 2)
DefY == Definition(2, "a", "y", "function", 3, 4)
DefZ == Definition(3, "b", "z", "function", 1, 2)
DefT == Definition(4, "t", "u", "function", 1, 2)
Call(owner, to, kind, line) ==
  [owner |-> NodeOf(owner), to |-> NodeOf(to), kind |-> kind, line |-> line]
BaseCalls == {Call(DefZ, DefX, "call", 1), Call(DefX, DefY, "reference", 2), Call(DefT, DefZ, "call", 1)}
TargetCalls ==
  {Call(DefY, DefX, "call", 4), Call(DefZ, DefX, "call", 2), Call(DefX, DefY, "reference", 2),
   Call(DefY, DefZ, "call", 3), Call(DefT, DefZ, "import", 1),
   [owner |-> <<"a", "">>, to |-> Unresolved, kind |-> "import", line |-> 1]}
Over(defs, refs) == [defs |-> defs, refs |-> SetToSeq(refs), tests |-> {"t"}, degraded |-> {}]
Change(path, source, hunks, inBase, inTarget) ==
  [path |-> path, source |-> source, identical |-> FALSE, hunks |-> hunks,
   inBase |-> inBase, inTarget |-> inTarget]
Hunk(old, oldLines, new, newLines) ==
  [old |-> old, oldLines |-> oldLines, new |-> new, newLines |-> newLines]
Layouts(p) ==
  {<<>>,
   <<Definition(1, p, "I", "impl", 1, 6), Definition(2, p, "m", "function", 2, 3),
     Definition(3, p, "n", "function", 4, 5)>>,
   <<Definition(1, p, "m", "function", 1, 3)>>,
   <<Definition(1, p, "m", "function", 1, 2), Definition(2, p, "m", "function", 3, 6)>>,
   <<Definition(1, p, "p::m", "function", 1, 3)>>}
HunkSets == {h \in SUBSET {Hunk(2, 1, 2, 1), Hunk(3, 0, 4, 2), Hunk(4, 2, 3, 0), Hunk(3, 2, 3, 2),
                           Hunk(0, 0, 1, 1)} : Cardinality(h) \in 1..2}
Changeset(base, target, changes, raced, depth, coChanged) ==
  [base |-> base, target |-> target, changes |-> changes, raced |-> raced, conflicted |-> {},
   depth |-> depth, coChanged |-> coChanged]
AskImpact ==
  \/ \E before \in SUBSET BaseCalls, after \in SUBSET TargetCalls, depth \in {1, 9} :
       request = [of |-> "impact", input |->
         Changeset(Over(<<DefX, DefY, DefZ, DefT>>, before), Over(<<DefX, DefY, DefZ, DefT>>, after),
                   {Change("a", "a", {Hunk(1, 1, 1, 1)}, TRUE, TRUE),
                    Change("b", "b", {Hunk(1, 0, 1, 1)}, TRUE, TRUE)},
                   IF depth = 9 THEN {"b"} ELSE {}, depth, {"t"})]
  \/ \E moved \in {"a", "b"} : \E before \in Layouts("a"), after \in Layouts(moved), hunks \in HunkSets :
       request = [of |-> "impact", input |->
         Changeset(Over(before, {}), Over(after, {}),
                   {Change(moved, "a", hunks, before # <<>>, after # <<>>)}, {}, 1, {})]

----------------------------------------------------------------------------
(* The index: two files, with nested, homonymous and local definitions.    *)

NoText == ("Signature" :> <<>>) @@ ("Body" :> <<>>) @@ ("Documentation" :> <<>>) @@ ("Attribute" :> <<>>)
SomeText == [NoText EXCEPT !["Signature"] = <<"f", "g">>, !["Body"] = <<"g", "g">>]
Item(name, kind, local, from, to) ==
  [name |-> name, kind |-> kind, local |-> local, from |-> from, to |-> to,
   words |-> IF name = "f" THEN SomeText ELSE NoText]
Contents ==
  {<<>>, <<Item("f", "function", <<>>, 0, 9)>>,
   <<Item("f", "function", <<>>, 0, 9), Item("tests", "module", <<>>, 10, 99),
     Item("t", "function", <<"tests", "t">>, 20, 50), Item("f", "function", <<"tests", "f">>, 60, 80)>>,
   <<Item("f", "function", <<>>, 0, 9), Item("f", "function", <<>>, 10, 19),
     Item("g", "function", <<>>, 20, 30)>>}
Use(owner, name, path, kind) == [owner |-> owner, name |-> name, path |-> path, kind |-> kind]
UsesBy(n) ==
  {<<>>, <<Use(n, "f", <<>>, "call")>>,
   <<Use(n, "f", <<"super", "f">>, "call"), Use(n, "g", <<>>, "macro")>>,
   <<Use(n, "f", <<"crate", "f">>, "call"), Use(n, "f", <<>>, "methodCall")>>}
Import(owner, path, name, alias, kind, glob) ==
  [owner |-> owner, path |-> path, name |-> name, alias |-> alias, kind |-> kind, glob |-> glob]
ImportsBy(n) ==
  {<<>>, <<Import(0, <<"crate", "a", "f">>, "", "", "use", FALSE)>>,
   <<Import(n, <<"crate", "f">>, "", "g", "use", FALSE), Import(0, <<"crate">>, "", "", "use", TRUE)>>}
SourceFile(rank, dirs, stem, lang, defs, refs, imports) ==
  [rank |-> rank, dirs |-> dirs, stem |-> stem, lang |-> lang, defs |-> defs, refs |-> refs,
   imports |-> imports]
Package ==
  SourceFile(3, <<>>, "__init__", "python", <<Item("f", "function", <<>>, 0, 9)>>,
             <<Use(1, "f", <<>>, "call")>>, <<>>)
AskIndex ==
  \E defs \in Contents, others \in Contents :
    \E refs \in UsesBy(IF Len(defs) = 4 THEN 3 ELSE Len(defs)), imports \in ImportsBy(Len(defs)) :
      \E lone \in BOOLEAN :
        request = [of |-> "index", inputs |->
          <<SourceFile(2, <<"src">>, "a", "rust", defs, refs, imports),
            IF lone THEN Package
            ELSE SourceFile(1, <<"src">>, "lib", "rust", others, <<>>, <<>>)>>]

----------------------------------------------------------------------------
(* rr check: what the owners of the artifacts could report.                *)

Learned(resolves, api) == [anchor |-> "t", api |-> api, resolves |-> resolves]
AskCheck ==
  \E snapshot \in {"missing", "ready", "checksum-mismatch", "build-version-mismatch"},
     label \in {"none", "fresh", "stale"}, missing \in {{}, {"map"}, {"symbols"}},
     conflicts \in {{}, {<<"map", "marker">>}, {<<"symbols", "symlink">>}, {<<"ignore", "managed-ignore">>}},
     stale \in {{}, {"map", "symbols"}}, over \in {{}, {"scope"}}, fault \in {{}, {"checksum"}},
     routes \in {{}, {Learned(TRUE, 1)}, {Learned(FALSE, 1), Learned(TRUE, 2)}},
     opens \in BOOLEAN, damaged \in {{}, {"f"}}, cancelled \in BOOLEAN,
     quality \in {NoReport, {}, {Diagnostic("RR0503", "error", "none", "x")}} :
    /\ cancelled => quality = NoReport /\ damaged = {} /\ routes = {}
    /\ snapshot # "ready" => damaged = {} /\ routes = {}
    /\ damaged # {} => over = {} /\ stale = {} /\ missing = {}
    /\ conflicts # {} => stale = {} /\ over = {} /\ label = "none"
    /\ request = [of |-> "check", world |->
         [snapshot |-> snapshot, label |-> label, conflicts |-> conflicts, missing |-> missing,
          stale |-> stale, overBudget |-> over, fault |-> fault, routes |-> routes, corpus |-> 1,
          factsDir |-> label # "none", ignoreStamp |-> TRUE, opens |-> opens, damaged |-> damaged,
          quality |-> quality, cancelled |-> cancelled]]

----------------------------------------------------------------------------
(* The release gate: four cases on two shards, as shards arrive, repeat or *)
(* leave something out.                                                    *)

Case(id, shard, kind) == [id |-> id, shard |-> shard, kind |-> kind]
Cases == <<Case("a", 0, "routing"), Case("b", 1, "routing"), Case("x", 0, "routing"), Case("s", 1, "safety")>>
Said(expect, permitted, direct, accepted, forbidden) ==
  [expect |-> expect, permitted |-> permitted, direct |-> direct, accepted |-> accepted,
   forbidden |-> forbidden]
Routed(id, said) == [id |-> id, verdict |-> said]
Passed(id, passed) == [id |-> id, passed |-> passed]
Shard(n, routing, safety) ==
  [version |-> 1, shard |-> n, shards |-> 2, digest |-> "c", routing |-> routing, safety |-> safety]
Runs(a, b, x, safe) ==
  LET one == Shard(0, <<Routed("a", a), Routed("x", x)>>, <<>>)
      two == Shard(1, <<Routed("b", b)>>, <<Passed("s", safe)>>)
  IN  {<<one, two>>, <<two, one>>, <<one>>, <<one, two, two>>,
       <<one, [two EXCEPT !.digest = "d"]>>, <<one, [two EXCEPT !.digest = "bad"]>>,
       <<[one EXCEPT !.shards = 4], two>>, <<one, [two EXCEPT !.shard = 2]>>,
       <<one, [two EXCEPT !.version = 2]>>, <<[one EXCEPT !.routing = <<Routed("a", a)>>], two>>,
       <<[one EXCEPT !.routing = Append(@, Routed("a", a))], two>>,
       <<one, [two EXCEPT !.routing = Append(@, Routed("a", a))]>>,
       <<[one EXCEPT !.routing = Append(@, Routed("z", a))], two>>,
       <<one, [two EXCEPT !.safety = <<Passed("s", safe), Passed("a", TRUE)>>]>>,
       <<one, [two EXCEPT !.safety = <<>>]>>,
       <<[one EXCEPT !.routing = <<Routed("x", x)>>], [two EXCEPT !.routing = Append(@, Routed("a", a))]>>}
Measured(p, q, l, m) ==
  [decodes |-> TRUE, version |-> 1, point |-> Ratio(p, q), lower |-> Ratio(l, m)]
AskGate ==
  \E permitted, direct, wrong, safe \in BOOLEAN, accepted \in {0, 1, 4}, forbidden \in {0, 2} :
    \E b \in {Said("answerable", TRUE, TRUE, 1, 0), Said("answerable", TRUE, FALSE, 0, 0)} :
      \E shards \in Runs(Said("answerable", permitted, direct, accepted, forbidden), b,
                         Said("must-abstain", FALSE, wrong, 0, 0), safe) :
        \E performance \in {{}, {Measured(1, 1, 1, 1)}, {Measured(12, 10, 11, 10)}, {Measured(12, 10, 21, 20)},
                            {[Measured(1, 1, 1, 1) EXCEPT !.decodes = FALSE]}},
           baseline \in {{}, {2}} :
          /\ performance = {Measured(1, 1, 1, 1)} \/ (safe /\ ~wrong /\ permitted)
          /\ request = [of |-> "gate", run |-> [expected |-> Cases, shards |-> shards,
                          performance |-> performance, baseline |-> baseline]]

----------------------------------------------------------------------------
(* The corpus lock: a manifest, what is on disk, and one change to it.     *)

Src == <<"repos", "a", "x">>
License == <<"licenses", "", "l">>
Artifact == <<"top", "", "q">>
Stray == <<"repos", "z", "s">>
OnDisk(kind, large, readable, mode, content) ==
  [kind |-> kind, large |-> large, readable |-> readable, mode |-> mode,
   bytes |-> IF content = "long" THEN 2 ELSE 1, content |-> content]
Plain(content) == OnDisk("file", FALSE, TRUE, "regular", content)
Disk == (Manifest :> Plain("m")) @@ (Src :> Plain("c")) @@ (License :> Plain("c")) @@ (Artifact :> Plain("c"))
Replacements ==
  {Plain("d"), Plain("long"), OnDisk("file", FALSE, TRUE, "executable", "c"),
   OnDisk("file", FALSE, FALSE, "regular", "c"), OnDisk("file", TRUE, TRUE, "regular", "c"),
   OnDisk("symlink", FALSE, TRUE, "regular", "c")}
Altered(disk) ==
  {disk} \cup {[disk EXCEPT ![p] = f] : p \in {Src, License, Artifact} \cap DOMAIN disk, f \in Replacements}
  \cup {[q \in (DOMAIN disk) \ {p} |-> disk[q]] : p \in {Src, License}}
  \cup {disk @@ (Stray :> Plain("c")), disk @@ (<<"licenses", "", "m">> :> Plain("c"))}
Declared(spelling, path, content) ==
  [spelling |-> spelling, path |-> path, mode |-> "regular", bytes |-> 1, digest |-> content]
Repo(id, tier, provenance, files) == [id |-> id, tier |-> tier, provenance |-> provenance, files |-> files]
Vendored(spdx, licenses) ==
  [kind |-> "vendored", https |-> TRUE, commit |-> TRUE, date |-> TRUE, spdx |-> spdx, licenses |-> licenses]
Generated(version) ==
  [kind |-> "generated", version |-> version, seed |-> 7, count |-> 2, digest |-> <<version, 7, 2>>]
AskLock ==
  \E content \in {"c", "bad"}, spdx \in {"MIT", "GPL"}, walks \in BOOLEAN,
     licenses \in {<<>>, <<Declared("plain", License, "c")>>, <<Declared("escape", License, "c")>>,
                   <<Declared("plain", Src, "c")>>},
     more \in {<<>>, <<Repo("g", "performance", Generated(1), <<>>)>>, <<Repo("g", "small", Generated(2), <<>>)>>} :
    \E disk \in {Disk, [Disk EXCEPT ![Src] = Plain("d")], [q \in (DOMAIN Disk) \ {License} |-> Disk[q]]} :
      \E later \in Altered(disk) :
        /\ walks \/ later = disk
        /\ request = [of |-> "lock", later |-> later, world |->
             [manifest |-> [version |-> 1, artifacts |-> <<Declared("plain", Artifact, "c")>>,
                            repositories |-> <<Repo("a", "small", Vendored(spdx, licenses),
                                                    <<Declared("plain", Src, content)>>)>> \o more],
              disk |-> disk, loads |-> "ok", walks |-> walks]]

----------------------------------------------------------------------------
(* Facts: definitions that nest, overlap and coincide; the tags of three   *)
(* texts; a Rust file with metadata, errors and uses.                      *)

Spans == {s \in [from : 0..4, to : 1..4] : s.from < s.to}
AskOwner ==
  \E n \in 1..3 : \E spans \in [1..n -> Spans], kinds \in [1..n -> {"function", "module"}], span \in Spans :
    LET defs == [i \in 1..n |-> [name |-> "a", kind |-> kinds[i], span |-> spans[i]]]
    IN  KeySorted(defs, DefKey) /\ request = [of |-> "owner", defs |-> defs, span |-> span]

Texts ==
  {<<"//", "a", "nl", "a", "(", "nl", "/*", "b", "*/", "nl", "a", "b", "nl", ")">>,
   <<"a", "(", "b", "nl", "c", ")", "nl", "'''", "c", "'''", "nl", "b", "a">>,
   <<"/*", "a", "*/", "nl", "b", "'", "c", "nl", "a", "'", "nl", "//", "c", "nl", "b">>}
\* Code that follows a block comment on its line.
Shared == <<"/*", "a", "*/", "b", "nl", "c">>
Tag(isDefinition, nameAt, from, to, kind, docs) ==
  [failed |-> FALSE, isDefinition |-> isDefinition, nameAt |-> nameAt, from |-> from, to |-> to,
   kind |-> kind, docs |-> docs]
Commented(text, i) ==
  \/ text[Tagged!LineStart(text, i)] = "//"
  \/ \E open \in 1..i : text[open] = "/*" /\ \A j \in open..(i - 1) : text[j] # "*/"
Declarations(text) ==
  {<<from, to, name>> \in (DOMAIN text) \X (2..(Len(text) + 1)) \X (DOMAIN text) :
     /\ from <= name /\ name < to /\ to - from <= 9
     /\ text[name] \in {"a", "b", "c"} /\ text[from] # "nl" /\ text[to - 1] # "nl"
     /\ ~Commented(text, from) /\ ~Commented(text, name)}
Laminar(x, y) ==
  \/ x[2] <= y[1] \/ y[2] <= x[1]
  \/ x[1] <= y[1] /\ y[2] <= x[2]
  \/ y[1] <= x[1] /\ x[2] <= y[2]
AskTags ==
  \E text \in IF "shared line" \in Asked THEN {Shared} ELSE Texts :
    \E x, y \in Declarations(text), used \in {i \in DOMAIN text : text[i] = "c"} :
      /\ Laminar(x, y)
      /\ request = [of |-> "tags", file |->
           [tooLarge |-> FALSE, utf8 |-> TRUE, parses |-> TRUE, parseErrors |-> FALSE, text |-> text,
            tags |-> <<Tag(FALSE, used, used, used + 1, "function", FALSE),
                       Tag(TRUE, x[3], x[1], x[2], "constructor", TRUE),
                       Tag(TRUE, y[3], y[1], y[2], "field", FALSE)>>,
            matches |-> <<[path |-> text[used], callee |-> "no-callee", span |-> Tagged!Span(used, used + 1)]>>]]

Node(kind, parent, from, to, name) ==
  [kind |-> kind, parent |-> parent, span |-> Parsed!Span(from, to), name |-> name,
   nameSpan |-> Parsed!Span(from + 1, from + 2), pub |-> TRUE, restriction |-> <<"crate">>, trait |-> "b",
   path |-> "cfg", tokens |-> {"test"}, rules |-> Parsed!Span(to - 1, to)]
Tree(k1, k2, k5, k6, k8, top, last) ==
  <<Node(k1, 0, 1, 2, ""), Node(k2, 0, 2, 3, ""), Node(top, 0, 3, 20, "a"),
    Node("declaration_list", 3, 5, 20, ""), Node(k5, 4, 6, 7, ""), Node(k6, 4, 7, 8, "a"),
    Node("function_item", 4, 8, 12, "b"), Node(k8, 4, 12, 13, ""), Node(last, 4, 13, 19, "a")>>
UseNode(kind, parent, path, from, to) ==
  [kind |-> kind, parent |-> parent, path |-> path, alias |-> "", span |-> Parsed!Span(from, to)]
UseDeclaration ==
  [kind |-> "use_declaration",
   uses |-> <<UseNode("scoped_use_list", 0, <<"a">>, 15, 19), UseNode("use_list", 1, <<>>, 16, 19),
              UseNode("self", 2, <<>>, 16, 17), UseNode("use_wildcard", 2, <<"b">>, 17, 18)>>]
ExternCrate ==
  [kind |-> "extern_crate_declaration", name |-> "b", alias |-> "", span |-> Parsed!Span(9, 10)]
ItemsIn(tree) ==
  SelectSeq(<<[node |-> 7, body |-> Parsed!Span(10, 12)], [node |-> 3, body |-> Parsed!Span(5, 20)],
              [node |-> 9, body |-> Parsed!NoBody], [node |-> 6, body |-> Parsed!NoBody],
              [node |-> 7, body |-> Parsed!NoBody]>>,
            LAMBDA item : tree[item.node].kind \in Parsed!ItemKinds)
AskRust ==
  \E k1, k2, k5, k8 \in {"attribute_item", "outer_doc", "plain_comment"},
     k6 \in {"attribute_item", "plain_comment", "const_item"}, top \in {"mod_item", "impl_item"},
     errors \in SUBSET {Parsed!Span(9, 11), Parsed!Span(8, 12), Parsed!Span(10, 18)} :
    \E last \in {IF top = "mod_item" THEN "type_item" ELSE "macro_definition"} :
      LET tree == Tree(k1, k2, k5, k6, k8, top, last)
      IN  request = [of |-> "rust", file |->
            [tree |-> tree, items |-> ItemsIn(tree), imports |-> <<UseDeclaration, ExternCrate>>,
             references |-> <<[name |-> "b", span |-> Parsed!Span(15, 16)],
                              [name |-> "a", span |-> Parsed!Span(10, 11)]>>,
             idents |-> {Parsed!Span(6, 7), Parsed!Span(9, 10), Parsed!Span(14, 15), Parsed!Span(18, 19)},
             attributes |-> {Parsed!Span(6, 7)}, errors |-> errors, missing |-> {}, text |-> <<"a">>,
             tooLarge |-> FALSE, utf8 |-> TRUE, parses |-> TRUE, matchLimit |-> FALSE]]

Decorations(lang) ==
  IF lang = "csharp"
  THEN {<<"[", "Fact", "]", " ">>, <<"[", "Obsolete", "(", "\"", "]", "a", "\"", ")", "]", " ">>}
  ELSE {<<"@", "Test", " ">>, <<"#[", "Route", "(", "private", " ", "a", ")", "]", " ">>,
        <<"@", "Pattern", "(", "\"", ")", " ", "\"", ")", " ">>}
Rests == {<<"void", " ", "f", "(", "private", " ", "a", ")", ";">>,
          <<"f", " ", "=", " ", "function", ";">>}
ModifiersOf(lang) == {"static", "public", "private", "internal"} \cap AllowedModifiers(lang)
AskAccess ==
  \E lang \in {"typescript", "java", "csharp", "php", "swift"}, nd, nm \in 0..2, rest \in Rests,
     kind \in {"method", "record", "variable", "module"}, enclosing \in {"file", "interface"} :
    \E decorations \in [1..nd -> Decorations(lang)], modifiers \in [1..nm -> ModifiersOf(lang)] :
      LET parts == [decorations |-> decorations, modifiers |-> modifiers, rest |-> rest] IN
      request = [of |-> "access", lang |-> lang, enclosing |-> enclosing, parts |-> parts,
        def |-> [name |-> [word |-> "constructor", opens |-> "", closes |-> FALSE, upper |-> FALSE],
                 kind |-> kind, isLocal |-> nd = 0, attributes |-> {}, signature |-> Spelled(parts), visibility |-> ""]]

----------------------------------------------------------------------------
(* Plans: up to three items about three paths.                             *)

StatusItems ==
  {[is |-> kind, path |-> p] : kind \in {"recheck", "remove", "copy", "conflict"}, p \in {"p", "q", "r"}}
  \cup {[is |-> "rename", source |-> s, path |-> p] : s, p \in {"p", "q", "r"}}
AskPlan == \E n \in 0..3 : \E items \in [1..n -> StatusItems] : request = [of |-> "plan", items |-> items]

----------------------------------------------------------------------------
(* Co-change: two asks after one another, of two tips of one history.      *)

Commits ==
  {[merge |-> merge, paths |-> paths] : merge \in {FALSE}, paths \in {{2}, {2, 3}, {2, 4}, {2, 3, 4}}}
  \cup {[merge |-> TRUE, paths |-> {2, 3}]}
CoChangeAsk(history, back, paths, seeds, born) ==
  [tip |-> back, history |-> SubSeq(history, back + 1, Len(history)), paths |-> paths, seeds |-> seeds,
   born |-> born]
TwoAsks(kept, first, second) ==
  <<[ask |-> first, cache |-> NoHistory],
    [ask |-> second, cache |-> IF kept THEN CoChanged(first, NoHistory).cache ELSE NoHistory]>>
AskCoChange ==
  \E n \in 0..4 : \E history \in [1..n -> Commits] :
    \E back \in {b \in {0, 1} : b = 0 \/ b < n}, earlier, paths \in {1..5, 2..5}, kept \in BOOLEAN,
       seeds \in {{2}, {2, 3}} :
      /\ kept \/ earlier = paths
      /\ request = [of |-> "cochange", asks |-> TwoAsks(kept, CoChangeAsk(history, 0, earlier, {2}, n > 0),
                                                       CoChangeAsk(history, back, paths, seeds, n > 0))]

----------------------------------------------------------------------------
(* rr init: any short agent file, and the others in a few states.          *)

ShortTexts ==
  {TextFile(lines, ended, newline) :
     lines \in UNION {[1..n -> {"begin", "end", "old", "mine", "blank"}] : n \in 0..4},
     ended \in BOOLEAN, newline \in {"lf", "crlf"}}
OtherFiles == {NoFile, [is |-> "binary"], [is |-> "directory"],
               TextFile(<<"mine">>, TRUE, "mixed"), TextFile(<<"mine">>, FALSE, "lf")}
Skills ==
  {Skill(stamps, body, newline) :
     stamps \in {<<>>, <<<<1, "older">>>>, <<<<1, "current">>>>, <<<<2, "older">>, <<1, "older">>>>},
     body \in {"older", "current"}, newline \in {"lf", "crlf"}}
Only(name, file) == [n \in FileNames |-> IF n = name THEN file ELSE NoFile]
AskInit ==
  \/ \E name \in {AgentsFile, "agents.md", ClaudeFile}, text \in ShortTexts, locked \in {{}, {AgentsFile}} :
       /\ locked = {} \/ Len(text.lines) <= 2
       /\ request = [of |-> "init", disk |-> Only(name, text), locked |-> locked]
  \/ \E skill \in Skills \cup OtherFiles, ignored, agent, respelled \in OtherFiles,
        locked \in SUBSET {IgnoreFile, SkillFile} :
       request = [of |-> "init", locked |-> locked, disk |->
         [Only(SkillFile, skill) EXCEPT ![IgnoreFile] = ignored, ![AgentsFile] = agent,
                                        !["agents.md"] = respelled]]

----------------------------------------------------------------------------

AlgorithmsInit ==
  /\ answer = <<>>
  /\ \/ "rank" \in Asked /\ request = [of |-> "rank"] /\ RankInit
     \/ /\ postings = [s \in Streams |-> {}] /\ RankInit
        /\ \/ "window" \in Asked /\ AskWindow
           \/ "exact" \in Asked /\ AskExact
           \/ "impact" \in Asked /\ AskImpact
           \/ "index" \in Asked /\ AskIndex
           \/ "check" \in Asked /\ AskCheck
           \/ "gate" \in Asked /\ AskGate
           \/ "lock" \in Asked /\ AskLock
           \/ "owner" \in Asked /\ AskOwner
           \/ "tags" \in Asked /\ AskTags
           \/ "rust" \in Asked /\ AskRust
           \/ "access" \in Asked /\ AskAccess
           \/ "plan" \in Asked /\ AskPlan
           \/ "cochange" \in Asked /\ AskCoChange
           \/ "init" \in Asked /\ AskInit
  /\ Requested

AlgorithmsNext ==
  \/ request.of = "rank" /\ RankNext /\ UNCHANGED requestVars
  \/ /\ UNCHANGED rankVars
     /\ \/ RequestNext
        \/ Answers("index", Index!BuildSnapshot(request.inputs))
        \/ Answers("tags", Tagged!Extract(request.file))
        \/ Answers("rust", Parsed!RustExtract(request.file))

AlgorithmsSpec == AlgorithmsInit /\ [][AlgorithmsNext]_algorithmVars

----------------------------------------------------------------------------
(* What the other modules promise of an input and its answer.              *)

\* IndexBuild.BuildIsSound.
BuildIsSound == Answered("index") => Index!BuildIsSound(request.inputs, answer[1])
\* Tags.ExtractionIsSound.
ExtractionIsSound == Answered("tags") => Tagged!ExtractionIsSound(answer[1])
\* Tags.OnlyCommentsAbsorbed.
OnlyCommentsAbsorbed == Answered("tags") => Tagged!OnlyCommentsAbsorbed(request.file)
\* RustFacts.SpansAreNested, with RustFacts.NothingFromErrors.
SpansAreNested ==
  Answered("rust") => Parsed!SpansAreNested(answer[1]) /\ Parsed!NothingFromErrors(request.file, answer[1])
=============================================================================
