------------------------------ MODULE Ranking ------------------------------
(***************************************************************************)
(* ranking.rs: the symbols that share a term with the question are met in  *)
(* symbol order by merging posting streams, at most CandidateLimit of them *)
(* are kept on evidence that needs no scoring, those are scored, and the   *)
(* margin between the best two anchors decides what is answered.           *)
(* BM25 itself is data here: a symbol's score is the sum of the gains of   *)
(* the streams it is in.                                                   *)
(***************************************************************************)
EXTENDS Integers, FiniteSetsExt, SequencesExt

CONSTANTS
  Symbols,         \* SymbolIds
  Streams,         \* opened (term, field) pairs, in the order they are opened
  TermOf,          \* TermOf[s]: the term of a stream
  Gain,            \* Gain[s][n]: what stream s contributes to symbol n
  AnchorOf,        \* AnchorOf[n]: the path and name n prints as
  CandidateLimit, ResultLimit,
  NoneBelow, DirectAt, MarginAt  \* DecisionThresholds; the margin in MarginScale parts
MarginScale == 100

\* RankingProfile::validate.
ProfileIsValid ==
  /\ CandidateLimit \in Nat \ {0} /\ ResultLimit \in 1..CandidateLimit
  /\ NoneBelow \in Nat /\ DirectAt \in Nat /\ DirectAt >= NoneBelow
  /\ MarginAt \in 0..MarginScale

ASSUME RankingAssumption ==
  /\ ProfileIsValid /\ IsFiniteSet(Symbols) /\ Symbols \subseteq Nat /\ IsFiniteSet(Streams)
  /\ Gain \in [Streams -> [Symbols -> Nat]]

VARIABLES
  postings,   \* postings[s]: the symbols of a stream's list
  unread,     \* unread[s]: those its cursor has not passed
  retained,   \* the retention heap
  discarded,  \* {best_discarded}, or nothing
  evidence,   \* [before, tie]: candidates_before_cap and cap_cut_a_tie
  ranked,     \* the scored symbols, best first, one for each anchor
  verdict     \* what decide answered

rankVars == <<postings, unread, retained, discarded, evidence, ranked, verdict>>

Pending == [outcome |-> "pending"]

\* rank: validate, reserve, open_streams.  A stream is opened only for a list
\* that has entries.
RankInit ==
  /\ postings \in [Streams -> SUBSET Symbols]
  /\ unread = postings /\ retained = {} /\ discarded = {}
  /\ evidence = [before |-> 0, tie |-> FALSE] /\ ranked = <<>> /\ verdict = Pending

\* The streams a symbol is in, its evidence without a score.
GroupOf(n) == {s \in Streams : n \in postings[s]}
RarestDf(n) == Min({Cardinality(postings[s]) : s \in GroupOf(n)})
MatchedTerms(n) == Cardinality({TermOf[s] : s \in GroupOf(n)})
\* Retained::signal.
Signal(n) == <<RarestDf(n), MatchedTerms(n)>>

\* Mutation: the rarer term counts for less.
CommonestFirst(m, n) == RarestDf(m) > RarestDf(n) \/ (RarestDf(m) = RarestDf(n) /\ m < n)
\* Retained::cmp, best first.
Beats(m, n) ==
  \/ RarestDf(m) < RarestDf(n)
  \/ RarestDf(m) = RarestDf(n) /\ MatchedTerms(m) > MatchedTerms(n)
  \/ Signal(m) = Signal(n) /\ m < n

BestOf(S) == CHOOSE m \in S : \A n \in S \ {m} : Beats(m, n)
WorstOf(S) == CHOOSE m \in S : \A n \in S \ {m} : Beats(n, m)

\* Mutation: the last one discarded is remembered, not the best.
LastDiscarded(old, n) == {n}
Discarded(old, n) == {BestOf(old \cup {n})}

\* merge_candidates, one symbol of the union; retain.
Merge ==
  /\ UNION Range(unread) # {}
  /\ LET n == Min(UNION Range(unread)) IN
       /\ unread' = [s \in Streams |-> unread[s] \ {n}]
       /\ evidence' = [evidence EXCEPT !.before = @ + 1]
       /\ IF Cardinality(retained) < CandidateLimit
          THEN retained' = retained \cup {n} /\ UNCHANGED discarded
          ELSE LET out == WorstOf(retained \cup {n}) IN
               /\ retained' = (retained \cup {n}) \ {out}
               /\ discarded' = Discarded(discarded, out)
  /\ UNCHANGED <<postings, ranked, verdict>>

Score(n) == MapThenSumSet(LAMBDA s : Gain[s][n], GroupOf(n))

\* sort_unstable_by: the score descending, then the symbol.
ScoredBefore(m, n) == Score(m) > Score(n) \/ (Score(m) = Score(n) /\ m < n)
\* The kth has k - 1 ahead of it.
Ahead(S, n) == {m \in S : ScoredBefore(m, n)}
SortedByScore(S) == [k \in 1..Cardinality(S) |-> CHOOSE n \in S : Cardinality(Ahead(S, n)) = k - 1]

\* Mutation: every symbol keeps its place.
KeepEvery(S) == S
\* collapse_shared_anchors: the best of each anchor.
Collapse(S) == {n \in S : \A m \in S : AnchorOf[m] = AnchorOf[n] => m = n \/ ScoredBefore(n, m)}

\* score_retained and the end of rank.
ScoreRetained ==
  /\ UNION Range(unread) = {} /\ ranked = <<>> /\ retained # {} /\ verdict = Pending
  /\ ranked' = SortedByScore(Collapse(retained))
  /\ evidence' = [evidence EXCEPT !.tie =
       discarded # {} /\ Signal(BestOf(discarded)) = Signal(WorstOf(retained))]
  /\ UNCHANGED <<postings, unread, retained, discarded, verdict>>

\* MarginPpm::between.
Margin(top, next) == IF top = 0 THEN 0 ELSE ((top - next) * MarginScale) \div top

\* decide.
Decision ==
  LET top  == Score(ranked[1])
      next == IF Len(ranked) > 1 THEN Score(ranked[2]) ELSE 0
  IN  CASE ranked = <<>> -> [outcome |-> "none", reason |-> "notFound"]
        [] ranked # <<>> /\ top < NoneBelow -> [outcome |-> "none", reason |-> "lowConfidence"]
        [] ranked # <<>> /\ top >= NoneBelow /\ top >= DirectAt /\ Margin(top, next) >= MarginAt ->
             [outcome |-> "direct", symbol |-> ranked[1], confidence |-> Margin(top, next)]
        [] OTHER -> [outcome |-> "candidates",
                     symbols |-> SubSeq(ranked, 1, Min({ResultLimit, Len(ranked)}))]

Decide ==
  /\ verdict = Pending
  /\ ranked # <<>> \/ UNION Range(postings) = {}
  /\ verdict' = Decision
  /\ UNCHANGED <<postings, unread, retained, discarded, evidence, ranked>>

RankNext == Merge \/ ScoreRetained \/ Decide
RankSpec == RankInit /\ [][RankNext]_rankVars

----------------------------------------------------------------------------
\* The members of the union met so far.
Met == UNION {postings[s] \ unread[s] : s \in Streams}

\* merge_candidates: whatever order the members come in, the cap keeps those of
\* the most telling evidence, the rarest term first, then the most terms; and the
\* answer says so when the cut fell among equals: "Every discarded member ranks at
\* or below the final root.  The best discarded member therefore ties the final
\* root exactly when some discarded member does".
CapKeepsBest ==
  /\ \A kept \in retained, lost \in Met \ retained :
       \/ RarestDf(kept) < RarestDf(lost)
       \/ RarestDf(kept) = RarestDf(lost) /\ MatchedTerms(kept) >= MatchedTerms(lost)
  /\ ranked # <<>> =>
       (evidence.tie <=>
          \E kept \in retained, lost \in Met \ retained : Signal(kept) = Signal(lost))

\* decide: a direct answer is ahead of every symbol of another anchor by the
\* margin the profile asks for.  A list never offers an anchor twice, and is given
\* only when its first fell short of the score, had a rival too close behind it, or
\* scored nothing ("A zero top score has, by definition, a zero margin").
DecisionIsSupported ==
  /\ verdict.outcome = "direct" =>
       \A n \in retained : AnchorOf[n] # AnchorOf[verdict.symbol] =>
         Score(n) * MarginScale <= Score(verdict.symbol) * (MarginScale - MarginAt)
  /\ verdict.outcome = "candidates" =>
       /\ \A i, j \in DOMAIN verdict.symbols :
            i # j => AnchorOf[verdict.symbols[i]] # AnchorOf[verdict.symbols[j]]
       /\ \/ Score(verdict.symbols[1]) < DirectAt
          \/ Score(verdict.symbols[1]) = 0
          \/ \E n \in retained :
               /\ AnchorOf[n] # AnchorOf[verdict.symbols[1]]
               /\ (Score(verdict.symbols[1]) - Score(n)) * MarginScale
                    < MarginAt * Score(verdict.symbols[1])
=============================================================================
