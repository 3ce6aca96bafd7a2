----------------------------- MODULE IndexBuild -----------------------------
(***************************************************************************)
(* rr-core/src/index: the facts of every file become one snapshot, whose   *)
(* references and imports are resolved and whose terms are counted.  A     *)
(* file input is                                                           *)
(*   rank:    the place of its path in byte order; lang, and dirs, stem:   *)
(*            its directories and its file name less the extension;        *)
(*   defs:    [name, kind, local, from, to, words], local the parts of its *)
(*            local qualified name or <<>>, words what the file itself     *)
(*            says, a sequence of terms for each field;                    *)
(*   refs:    [owner, name, path, kind], path the segments or <<>>;        *)
(*   imports: [owner, path, name, alias, kind, glob], a name "" is none.   *)
(* An owner is the place of a definition in the file, 0 for none.  The     *)
(* lexer is abstracted to one term for each segment, and a posting or a    *)
(* route to a function: that their lists are in order is left out.         *)
(***************************************************************************)
EXTENDS Integers, FiniteSetsExt, SequencesExt, TLC

None == 0

OwnFields == {"Name", "Qualified", "Path", "Signature", "Body", "Documentation", "Attribute"}
LexicalFields == OwnFields \cup {"Callee", "Caller", "Import"}

\* qualify, String::join: one segment reads the same under every separator.
Joined(segments, separator) ==
  [segments |-> segments, separator |-> IF Len(segments) > 1 THEN separator ELSE ""]
Separator(lang) == IF lang = "rust" THEN "::" ELSE "."

Implicit(lang) ==
  CASE lang = "rust" -> {"lib", "main", "mod"}
    [] lang = "python" -> {"__init__", "__main__"}
    [] OTHER -> {}
\* module_prefix.
ModulePrefix(file) ==
  LET dirs == IF file.dirs # <<>> /\ file.dirs[1] = "src" THEN Tail(file.dirs) ELSE file.dirs
  IN  IF file.stem \in Implicit(file.lang) THEN dirs ELSE Append(dirs, file.stem)

----------------------------------------------------------------------------
(* SnapshotBuilder::add_file: the arenas, file after file.                 *)

\* Where the part of file f begins in its arena.
Before(files, f, part) ==
  FoldFunctionOnSet(LAMBDA file, n : n + Len(file[part]), 0, files, 1..(f - 1))

GlobalId(files, f, id) == IF id = None THEN None ELSE Before(files, f, "defs") + id

Arena(files, part, Record(_, _)) ==
  FlattenSeq([f \in DOMAIN files |->
    [i \in DOMAIN files[f][part] |-> Record(f, files[f][part][i])]])

SymbolsOf(files) ==
  Arena(files, "defs", LAMBDA f, def :
    [file |-> f, name |-> def.name, kind |-> def.kind, from |-> def.from, to |-> def.to,
     qualified |-> Joined(ModulePrefix(files[f]) \o
                            (IF def.local = <<>> THEN <<def.name>> ELSE def.local),
                          Separator(files[f].lang)),
     words |-> def.words])

ReferencesOf(files) ==
  Arena(files, "refs", LAMBDA f, ref : [ref EXCEPT !.owner = GlobalId(files, f, @)] @@ [file |-> f])

ImportsOf(files) ==
  Arena(files, "imports", LAMBDA f, imp : [imp EXCEPT !.owner = GlobalId(files, f, @)] @@ [file |-> f])

FileRecords(files) ==
  [f \in DOMAIN files |->
    [rank |-> files[f].rank, module |-> ModulePrefix(files[f]),
     symbols    |-> [first |-> Before(files, f, "defs"), count |-> Len(files[f].defs)],
     references |-> [first |-> Before(files, f, "refs"), count |-> Len(files[f].refs)],
     imports    |-> [first |-> Before(files, f, "imports"), count |-> Len(files[f].imports)]]]

\* derive_symbol_parents: the shortest strictly longer symbol around it.
ParentOf(symbols, s) ==
  LET length(c) == symbols[c].to - symbols[c].from
      around == {c \in DOMAIN symbols :
                   /\ symbols[c].file = symbols[s].file
                   /\ symbols[c].from <= symbols[s].from /\ symbols[s].to <= symbols[c].to
                   /\ length(c) > length(s)}
      shortest == {c \in around : \A d \in around : length(c) <= length(d)}
  IN  IF around = {} THEN None ELSE Min(shortest)

----------------------------------------------------------------------------
(* Resolution.  `b` is the builder: files, symbols, references, imports,   *)
(* parents.                                                                *)

Unknown == [is |-> "unresolved"]
\* classify.
Classify(candidates) ==
  CASE candidates = {} -> Unknown
    [] Cardinality(candidates) = 1 -> [is |-> "resolved", to |-> CHOOSE c \in candidates : TRUE]
    [] OTHER -> [is |-> "ambiguous", candidates |-> Cardinality(candidates)]

Supers(path) == Cardinality({i \in DOMAIN path : \A j \in 1..i : path[j] = "super"})

\* SnapshotBuilder::resolve_path: what it reads as the full name.
FullPath(path, module) ==
  CASE path[1] = "crate" -> Tail(path)
    [] path[1] = "self" -> module \o Tail(path)
    [] path[1] = "super" -> SubSeq(module, 1, Max({0, Len(module) - Supers(path)}))
                            \o SubSeq(path, Supers(path) + 1, Len(path))
    [] OTHER -> module \o path
ResolvePath(b, path, file) ==
  IF path = <<>> THEN {}
  ELSE {s \in DOMAIN b.symbols :
          b.symbols[s].qualified = Joined(FullPath(path, b.files[file].module), "::")}

ResolvesByPath(imp) == ~imp.glob /\ imp.kind = "use"
ImportCandidates(b, file, name) ==
  LET matching == {i \in DOMAIN b.imports :
        /\ b.imports[i].file = file /\ ResolvesByPath(b.imports[i])
        /\ name \in {Last(b.imports[i].path), b.imports[i].alias}}
  IN  UNION {ResolvePath(b, b.imports[i].path, file) : i \in matching}

\* local_candidates: the names of the innermost scope that has any.
LocalCandidates(b, ref) ==
  LET scope[i \in 0..Len(b.symbols)] ==
        IF i = 0 THEN ref.owner
        ELSE IF scope[i - 1] = None THEN None ELSE b.parents[scope[i - 1]]
      named == {s \in DOMAIN b.symbols : b.symbols[s].name = ref.name /\ b.symbols[s].file = ref.file}
      at(i) == {s \in named : b.parents[s] = scope[i]}
      some == {i \in DOMAIN scope : at(i) # {}}
  IN  IF some = {} THEN {} ELSE at(Min(some))

FileCandidates(b, ref) ==
  {s \in DOMAIN b.symbols : /\ b.symbols[s].name = ref.name
                            /\ b.files[b.symbols[s].file].module = b.files[ref.file].module}

ResolveReference(b, ref) ==
  LET stages == <<ResolvePath(b, ref.path, ref.file), ImportCandidates(b, ref.file, ref.name),
                  LocalCandidates(b, ref), FileCandidates(b, ref)>>
      some == {i \in DOMAIN stages : stages[i] # {}}
  IN  IF ref.kind = "methodCall" \/ some = {} THEN Unknown ELSE Classify(stages[Min(some)])

ResolveImport(b, imp) ==
  IF ResolvesByPath(imp) THEN Classify(ResolvePath(b, imp.path, imp.file)) ELSE Unknown

\* resolve_references_and_imports.
Resolved(b) ==
  [b EXCEPT !.references = [r \in DOMAIN @ |-> @[r] @@ [resolution |-> ResolveReference(b, @[r])]],
            !.imports    = [i \in DOMAIN @ |-> @[i] @@ [resolution |-> ResolveImport(b, @[i])]]]

----------------------------------------------------------------------------
(* Terms, postings and lengths.                                            *)

WithoutTwins(seq) == FoldLeft(LAMBDA kept, x : IF Contains(kept, x) THEN kept ELSE Append(kept, x), <<>>, seq)
\* emit_symbol_imports: those of the file's own scope and those of the body.
ImportTerms(b, s) ==
  LET visible == SelectSeq(b.imports, LAMBDA imp :
                   imp.file = b.symbols[s].file /\ imp.owner \in {None, s})
      paths == [i \in DOMAIN visible |-> visible[i].path]
      names == FlattenSeq([i \in DOMAIN visible |->
                 SelectSeq(<<visible[i].name, visible[i].alias>>, LAMBDA n : n # "")])
  IN  FlattenSeq(WithoutTwins(paths)) \o WithoutTwins(names)

CalleeTerms(b, s) ==
  LET own == SelectSeq(b.references, LAMBDA r : r.owner = s)
  IN  FlattenSeq([i \in DOMAIN own |-> IF own[i].path = <<>> THEN <<own[i].name>> ELSE own[i].path])

CallerTerms(b, s) ==
  LET calls == SelectSeq(b.references, LAMBDA r :
        r.owner # None /\ r.kind = "call" /\ r.resolution = [is |-> "resolved", to |-> s])
  IN  FlattenSeq([i \in DOMAIN calls |-> b.symbols[calls[i].owner].qualified.segments])

\* append_source_terms for what the file says, then add_derived_terms.
OwnTerms(b, s) ==
  LET symbol == b.symbols[s]
      file == b.files[symbol.file]
  IN  ("Name" :> <<symbol.name>>) @@ ("Qualified" :> symbol.qualified.segments)
      @@ ("Path" :> file.path) @@ symbol.words
Derived(b, s) ==
  ("Callee" :> CalleeTerms(b, s)) @@ ("Caller" :> CallerTerms(b, s)) @@ ("Import" :> ImportTerms(b, s))
TermsOf(b, s) == OwnTerms(b, s) @@ Derived(b, s)

CountIn(seq, x) == Cardinality({i \in DOMAIN seq : seq[i] = x})
Lengths(terms) == [s \in DOMAIN terms |-> [f \in LexicalFields |-> Len(terms[s][f])]]
\* build_postings.
Postings(terms) ==
  [f \in LexicalFields |->
    LET words == UNION {Range(terms[s][f]) : s \in DOMAIN terms}
    IN  [t \in words |-> [s \in {x \in DOMAIN terms : t \in Range(terms[x][f])} |->
                            CountIn(terms[s][f], t)]]]
\* compute_corpus_stats.
CorpusOf(lengths) ==
  [f \in LexicalFields |->
    [documents |-> Cardinality({s \in DOMAIN lengths : lengths[s][f] > 0}),
     total |-> FoldFunction(LAMBDA l, n : n + l[f], 0, lengths)]]

\* routes.
RoutesBy(symbols, part) ==
  [key \in {symbols[s][part] : s \in DOMAIN symbols} |->
    {s \in DOMAIN symbols : symbols[s][part] = key}]

----------------------------------------------------------------------------
(* SnapshotBuilder::build.                                                 *)

Added(inputs) ==
  LET files == SortSeq(inputs, LAMBDA a, c : a.rank < c.rank)
      symbols == SymbolsOf(files)
      records == FileRecords(files)
  IN  [files |-> [f \in DOMAIN files |-> records[f] @@ [path |-> Append(files[f].dirs, files[f].stem)]],
       symbols |-> symbols, references |-> ReferencesOf(files), imports |-> ImportsOf(files),
       parents |-> [s \in DOMAIN symbols |-> ParentOf(symbols, s)]]

\* Mutation: the lengths are taken before the derived terms are there.
FinishEarly(b) ==
  LET terms == [s \in DOMAIN b.symbols |-> TermsOf(b, s)]
      lengths == Lengths([s \in DOMAIN terms |-> [terms[s] EXCEPT !["Caller"] = <<>>]])
  IN  b @@ [lengths |-> lengths, postings |-> Postings(terms), corpus |-> CorpusOf(lengths),
            names |-> RoutesBy(b.symbols, "name"), qualified |-> RoutesBy(b.symbols, "qualified")]
Finish(b) ==
  LET terms == [s \in DOMAIN b.symbols |-> TermsOf(b, s)]
      lengths == Lengths(terms)
  IN  b @@ [lengths |-> lengths, postings |-> Postings(terms), corpus |-> CorpusOf(lengths),
            names |-> RoutesBy(b.symbols, "name"), qualified |-> RoutesBy(b.symbols, "qualified")]

BuildSnapshot(inputs) == Finish(Resolved(Added(inputs)))

\* SnapshotBuilder::finish, the counts.
CountsOf(snapshot) ==
  LET of(records, what) == Cardinality({i \in DOMAIN records : records[i].resolution.is = what})
  IN  [symbols |-> Len(snapshot.symbols), references |-> Len(snapshot.references),
       unresolvedRefs |-> of(snapshot.references, "unresolved"),
       ambiguousRefs |-> of(snapshot.references, "ambiguous"), imports |-> Len(snapshot.imports),
       unresolvedImports |-> of(snapshot.imports, "unresolved"),
       ambiguousImports |-> of(snapshot.imports, "ambiguous")]

----------------------------------------------------------------------------
(* index::validate.                                                        *)

CheckContiguous(s, part) ==
  /\ \A f \in DOMAIN s.files :
       s.files[f][part].first =
         FoldFunctionOnSet(LAMBDA file, n : n + file[part].count, 0, s.files, 1..(f - 1))
  /\ Len(s[part]) = FoldFunction(LAMBDA file, n : n + file[part].count, 0, s.files)

InOwnFile(s, part) ==
  \A f \in DOMAIN s.files, i \in DOMAIN s[part] :
    (s.files[f][part].first < i /\ i <= s.files[f][part].first + s.files[f][part].count)
      => s[part][i].file = f

CheckResolution(s, resolution) ==
  CASE resolution.is = "resolved" -> resolution.to \in DOMAIN s.symbols
    [] resolution.is = "ambiguous" -> resolution.candidates >= 2
    [] OTHER -> TRUE

CheckOwned(s, record) ==
  /\ record.owner # None => /\ record.owner \in DOMAIN s.symbols
                            /\ s.symbols[record.owner].file = record.file
  /\ CheckResolution(s, record.resolution)

CheckRoutes(s, routes) == \A key \in DOMAIN routes : routes[key] # {} /\ routes[key] \subseteq DOMAIN s.symbols

CheckPostings(s, field) ==
  LET lists == s.postings[field]
      sum(list) == FoldFunction(LAMBDA n, m : n + m, 0, list)
  IN  /\ \A t \in DOMAIN lists : /\ Cardinality(DOMAIN lists[t]) <= s.corpus[field].documents
                                 /\ \A e \in DOMAIN lists[t] : e \in DOMAIN s.symbols /\ lists[t][e] > 0
      /\ s.corpus[field].total = FoldFunction(LAMBDA list, n : n + sum(list), 0, lists)

Validate(s) ==
  /\ \A f \in 1..(Len(s.files) - 1) : s.files[f].rank < s.files[f + 1].rank
  /\ \A part \in {"symbols", "references", "imports"} : CheckContiguous(s, part) /\ InOwnFile(s, part)
  /\ \A r \in DOMAIN s.references : CheckOwned(s, s.references[r])
  /\ \A i \in DOMAIN s.imports : CheckOwned(s, s.imports[i])
  /\ CheckRoutes(s, s.names) /\ CheckRoutes(s, s.qualified)
  /\ s.corpus = CorpusOf(s.lengths)
  /\ \A f \in LexicalFields : CheckPostings(s, f)

----------------------------------------------------------------------------
(* Properties.                                                             *)

\* build says "a validated deterministic snapshot from sorted or unsorted file
\* inputs": whatever the files hold and in whatever order the workers hand them
\* in, the builder never refuses what it built and never builds another thing.
BuildIsSound(inputs, snapshot) ==
  /\ Validate(snapshot)
  /\ BuildSnapshot(Reverse(inputs)) = snapshot
=============================================================================
