---------------------------- MODULE ExactRouting ----------------------------
(***************************************************************************)
(* rr-core/src/query.rs: from the words of a question to an anchor, without *)
(* ranking.  A snapshot is a record                                        *)
(*   files:   a sequence, in path order, of [words, content], the query    *)
(*            terms of the path and of what its symbols contain;           *)
(*   symbols: a sequence, in the order of the files, of                    *)
(*            [file, name, qual, kind, line, words], where qual is the     *)
(*            place of the qualified name in byte order and words are its  *)
(*            query terms.                                                 *)
(* A token is a record of what classify_atom can tell of it, and an atom   *)
(* is the place of its token.  The held candidates are a set, since their  *)
(* order is compare_scored's; an answer offers them as a set too.          *)
(***************************************************************************)
EXTENDS Integers, FiniteSetsExt

CONSTANTS
  TopPlaces,   \* how many candidates are offered: 3
  FieldWeight, \* CONTENT_FIELDS.len(): what a hit in a name or path weighs
  Nowhere      \* no file

ASSUME RoutingAssumption == TopPlaces \in Nat /\ TopPlaces > 1 /\ FieldWeight \in Nat

\* classify_atom, in its order.  `file` is the indexed path the token spells.
ClassifyAtom(token, single) ==
  CASE token.slash \/ token.file # Nowhere -> "path"
    [] ~(token.slash \/ token.file # Nowhere) /\ token.qualified -> "qualified"
    [] ~(token.slash \/ token.file # Nowhere) /\ ~token.qualified
         /\ (token.code \/ (single /\ token.identifier)) -> "symbol"
    [] OTHER -> "none"

\* parse_query, with the places of the tokens that are atoms of a kind.  A question
\* is [tokens, words, path, given]: path is the file --path names, if it names
\* one, and given whether the flag was there.
Atoms(question, kind) ==
  {i \in DOMAIN question.tokens :
     ClassifyAtom(question.tokens[i], DOMAIN question.tokens = {1}) = kind}

----------------------------------------------------------------------------
(* Several symbols of one name.                                            *)

\* kind_precedence.
KindPrecedence(kind) == CASE kind = "type" -> 2 [] kind = "constructor" -> 0 [] OTHER -> 1

\* share_one_anchor: path and bare name are all that is printed.
ShareOneAnchor(a, b) == a.file = b.file /\ a.name = b.name

Displaces(candidate, held) ==
  \/ candidate.overlap > held.overlap
  \/ candidate.overlap = held.overlap /\ KindPrecedence(candidate.kind) > KindPrecedence(held.kind)

\* compare_scored: lexicographic over these keys.
ScoreKeys(s) == <<-s.overlap, s.qual, s.file, s.line, s.id>>
Precedes(a, b) ==
  \E i \in 1..5 : /\ ScoreKeys(a)[i] < ScoreKeys(b)[i]
                  /\ \A j \in 1..(i - 1) : ScoreKeys(a)[j] = ScoreKeys(b)[j]

\* Mutation: overloads are not told apart from other symbols.
RetainEveryTwin(top, candidate) ==
  LET fuller == top \cup {candidate}
      last == CHOOSE s \in fuller : \A t \in fuller \ {s} : Precedes(t, s)
  IN  IF Cardinality(fuller) > TopPlaces THEN fuller \ {last} ELSE fuller
\* retain_top_three.
RetainTopThree(top, candidate) ==
  LET twins == {held \in top : ShareOneAnchor(held, candidate)}
      fuller == (top \ twins) \cup {candidate}
      last == CHOOSE s \in fuller : \A t \in fuller \ {s} : Precedes(t, s)
  IN  IF \E held \in twins : ~Displaces(candidate, held) THEN top
      ELSE IF Cardinality(fuller) > TopPlaces THEN fuller \ {last} ELSE fuller

\* The words of the question that speak for one symbol: those of its name and
\* path weigh more than any number of words the file merely contains
\* (file_carries_term).
Overlap(snapshot, symbol, rest) ==
  LET file  == snapshot.files[symbol.file]
      named == rest \cap (symbol.words \cup file.words)
  IN  Cardinality(named) * FieldWeight + Cardinality((rest \ named) \cap file.content)

Scored(snapshot, id, rest) ==
  LET s == snapshot.symbols[id]
  IN  [id |-> id, overlap |-> Overlap(snapshot, s, rest), qual |-> s.qual, file |-> s.file,
       name |-> s.name, kind |-> s.kind, line |-> s.line]

Direct(target) == [outcome |-> "direct", target |-> target]
Miss == [outcome |-> "miss"]

\* The symbols of ids are taken one by one, in the order of the snapshot.
TopThree(snapshot, rest, ids) ==
  LET count == Cardinality(DOMAIN snapshot.symbols)
      top[n \in 0..count] ==
        IF n = 0 THEN {}
        ELSE IF n \in ids THEN RetainTopThree(top[n - 1], Scored(snapshot, n, rest))
        ELSE top[n - 1]
  IN  top[count]

\* disambiguate_candidates.
Disambiguate(snapshot, rest, ids) ==
  LET top == TopThree(snapshot, rest, ids)
      leads == {s \in top : s.overlap > 0 /\ \A t \in top \ {s} : s.overlap > t.overlap}
  IN  IF leads # {} THEN Direct(<<"symbol", (CHOOSE s \in leads : TRUE).id>>)
      ELSE [outcome |-> "candidates", targets |-> {s.id : s \in top}]

----------------------------------------------------------------------------
(* route_exact.                                                            *)

\* lookup_exact_qualified, lookup_exact_name.
Named(snapshot, token, kind) ==
  IF kind = "qualified"
  THEN {i \in DOMAIN snapshot.symbols : snapshot.symbols[i].qual = token.qual}
  ELSE {i \in DOMAIN snapshot.symbols : snapshot.symbols[i].name = token.name}

\* symbol_matches_path.
InFile(snapshot, ids, qualifier) ==
  IF qualifier = Nowhere THEN ids ELSE {i \in ids : snapshot.symbols[i].file = qualifier}

PathAtoms(question) == {i \in Atoms(question, "path") : question.tokens[i].file # Nowhere}

\* Mutation: only --path qualifies a name.
FlagOnly(question) == question.path
\* The file a symbol must be in: --path first, then the first path in the text.
Qualifier(question) ==
  IF question.path # Nowhere \/ PathAtoms(question) = {} THEN question.path
  ELSE question.tokens[Min(PathAtoms(question))].file

\* What a token means, as an atom of a kind, where the question looks.
Meant(snapshot, question, token, kind) ==
  InFile(snapshot, Named(snapshot, token, kind), Qualifier(question))

\* evaluate_symbol_candidates.
Evaluate(snapshot, question, token, kind) ==
  LET ids == Meant(snapshot, question, token, kind) IN
  CASE ids = {} -> Miss
    [] \E i \in ids : ids = {i} -> Direct(<<"symbol", CHOOSE i \in ids : TRUE>>)
    [] OTHER -> Disambiguate(snapshot, question.words \ token.words, ids)

FirstHit(outcomes) ==
  LET hits == {i \in DOMAIN outcomes : outcomes[i] # Miss}
  IN  IF hits = {} THEN Miss ELSE outcomes[Min(hits)]

RouteExact(snapshot, question) ==
  LET Try(kind) == FirstHit([i \in Atoms(question, kind) |->
                               Evaluate(snapshot, question, question.tokens[i], kind)])
      allowed == {i \in PathAtoms(question) : question.path \in {Nowhere, question.tokens[i].file}}
      place == IF allowed = {} THEN Miss ELSE Direct(<<"file", question.tokens[Min(allowed)].file>>)
  IN  IF question.given /\ question.path = Nowhere THEN Miss
      ELSE FirstHit(<<Try("qualified"), Try("symbol"), place>>)

----------------------------------------------------------------------------
\* A choice among several symbols is offered without repeating an anchor; one is
\* made only by the other words of the question, which must prefer it to every
\* symbol of another anchor.
ChosenFairly(snapshot, question, atom, kind, answer) ==
  LET token == question.tokens[atom]
      meant == Meant(snapshot, question, token, kind)
      Score(i) == Overlap(snapshot, snapshot.symbols[i], question.words \ token.words)
      Twins(i, j) == ShareOneAnchor(snapshot.symbols[i], snapshot.symbols[j])
  IN  IF answer.outcome = "direct"
      THEN /\ answer.target[2] \in meant
           /\ \A i \in meant : Twins(i, answer.target[2]) \/ Score(i) < Score(answer.target[2])
      ELSE /\ answer.targets # {} /\ Cardinality(answer.targets) <= TopPlaces
           /\ answer.targets \subseteq meant
           /\ \A i, j \in answer.targets : i # j => ~Twins(i, j)

\* What the exact route of a question must satisfy: a qualified name that exists
\* where the question looks decides, then a name, then a path, and --path is
\* never contradicted.
RouteIsHonest(snapshot, question, answer) ==
  LET Found(kind) == {a \in Atoms(question, kind) : Meant(snapshot, question, question.tokens[a], kind) # {}}
      Decides(kind) == \E a \in Found(kind) : ChosenFairly(snapshot, question, a, kind, answer)
      symbolic == answer.outcome = "candidates" \/ (answer.outcome = "direct" /\ answer.target[1] = "symbol")
  IN  IF question.given /\ question.path = Nowhere THEN answer = Miss
      ELSE IF Found("qualified") # {} THEN symbolic /\ Decides("qualified")
      ELSE IF Found("symbol") # {} THEN symbolic /\ Decides("symbol")
      ELSE \/ answer = Miss
           \/ /\ answer.outcome = "direct" /\ answer.target[1] = "file"
              /\ question.path \in {Nowhere, answer.target[2]}
=============================================================================
