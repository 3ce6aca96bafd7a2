------------------------------ MODULE CoChange ------------------------------
(***************************************************************************)
(* cochange.rs: which files changed together in the last commits, and the  *)
(* cache that keeps the history between runs.  Paths are numbers, in the   *)
(* order of their names; a history is the sequence of commits a walk from  *)
(* a tip gives, each with the paths it touched.  The commits kept of it    *)
(* stand at their places in the walk, where the code closes the gaps.      *)
(***************************************************************************)
EXTENDS Integers, Sequences, FiniteSets

CONSTANTS
  HistoryWindow, MaxCommitPaths, MaxCommitSharePercent, MinTogether, MinJaccardPpm,
  NoHistory  \* no cache, or one that a reader refuses

ASSUME CoChangeAssumption ==
  /\ HistoryWindow \in Nat /\ MaxCommitPaths \in Nat /\ MaxCommitSharePercent \in Nat
  /\ MinTogether \in Nat \ {0} /\ MinJaccardPpm \in Nat

PpmScale == 1000000

\* numbered: the place of a path in the sorted list of the source files of the tip.
Number(eligible, path) == Cardinality({p \in eligible : p < path})
\* touched_paths: a path that is no source file there has no number.
Numbered(eligible, paths) == {Number(eligible, p) : p \in eligible \cap paths}

IsBulk(touched, eligible) ==
  touched > MaxCommitPaths \/ touched * 100 > eligible * MaxCommitSharePercent

\* window: merges are not read, bulk rewrites are read and dropped.
ReadHistory(history, eligible) ==
  LET read[n \in 0..Len(history)] ==
        IF n = 0 THEN 0
        ELSE IF read[n - 1] = HistoryWindow \/ history[n].merge THEN read[n - 1]
        ELSE read[n - 1] + 1
      kept == {i \in DOMAIN history :
                 /\ read[i - 1] # HistoryWindow /\ ~history[i].merge
                 /\ ~IsBulk(Cardinality(history[i].paths), Cardinality(eligible))}
  IN  [i \in kept |-> Numbered(eligible, history[i].paths)]

----------------------------------------------------------------------------
(* Evidence.                                                               *)

\* counts and shared: the commits that touched all of some numbers.
Touching(commits, wanted) == Cardinality({i \in DOMAIN commits : wanted \subseteq commits[i]})

Jaccard(together, union) == IF union = 0 THEN 0 ELSE (together * PpmScale) \div union

Correlate(commits, seed, other) ==
  LET together == Touching(commits, {seed, other})
      a == Touching(commits, {seed})
      b == Touching(commits, {other})
  IN  [together |-> together, commitsA |-> a, commitsB |-> b,
       jaccard |-> Jaccard(together, a + b - together)]

Reportable(value) == value.together >= MinTogether /\ value.jaccard >= MinJaccardPpm

Stronger(v, w) ==
  v.jaccard > w.jaccard \/ (v.jaccard = w.jaccard /\ v.together > w.together)

\* evidence: seeds in their order, so that the first of the strongest is kept.
Evidence(commits, eligible, seeds) ==
  LET seedIds == Numbered(eligible, seeds)
      Value(s, o) == Correlate(commits, s, o)
      Good(o) == {s \in seedIds : Reportable(Value(s, o))}
      Wins(s, o) == \A t \in Good(o) : /\ ~Stronger(Value(t, o), Value(s, o))
                                       /\ t < s => Stronger(Value(s, o), Value(t, o))
      found == {p \in eligible : Number(eligible, p) \notin seedIds /\ Good(Number(eligible, p)) # {}}
  IN  [p \in found |-> LET o == Number(eligible, p)
                       IN  Value(CHOOSE s \in Good(o) : Wins(s, o), o)]

----------------------------------------------------------------------------
(* The cache: one file, of the history last read.                          *)

\* Mutation: the paths the numbers stand for are left out of the key.
KeyOfTip(tip, eligible) == [target |-> tip, window |-> HistoryWindow, paths |-> {}]
HistoryKey(tip, eligible) == [target |-> tip, window |-> HistoryWindow, paths |-> eligible]

\* Framing faults are NoHistory already; a number past the list refuses the file too.
ReadCache(cache, key, eligible) ==
  IF cache # NoHistory /\ cache.key = key
     /\ \A i \in DOMAIN cache.commits : cache.commits[i] \subseteq 0..(eligible - 1)
  THEN cache ELSE NoHistory

\* co_changed: the answer, and the cache it leaves.  An ask has a tip, the history
\* behind it, the eligible paths there and the seeds.
CoChanged(ask, cache) ==
  LET key    == HistoryKey(ask.tip, ask.paths)
      read   == ReadCache(cache, key, Cardinality(ask.paths))
      cached == IF read # NoHistory THEN read
                ELSE [key |-> key, commits |-> ReadHistory(ask.history, ask.paths)]
  IN  IF ask.seeds = {} \/ ~ask.born THEN [found |-> <<>>, cache |-> cache]
      ELSE [found |-> Evidence(cached.commits, ask.paths, ask.seeds), cache |-> cached]

----------------------------------------------------------------------------
(* The asks of one clone, each with the cache it finds.                    *)

IsAsk(ask) ==
  /\ IsFiniteSet(ask.paths) /\ ask.paths \subseteq Nat
  /\ ask.history \in Seq({ask.history[i] : i \in DOMAIN ask.history})
  /\ \A i \in DOMAIN ask.history : IsFiniteSet(ask.history[i].paths)

\* A tip has one history behind it; a cache is gone, or what the ask before left, or what
\* it could not write over (write_cache).
IsSeries(asks) ==
  /\ asks \in Seq({asks[i] : i \in DOMAIN asks}) /\ asks # <<>> /\ asks[1].cache = NoHistory
  /\ \A i \in DOMAIN asks : IsAsk(asks[i].ask)
  /\ \A i, j \in DOMAIN asks :
       asks[i].ask.tip = asks[j].ask.tip => asks[i].ask.history = asks[j].ask.history
  /\ \A i \in DOMAIN asks \ {1} :
       asks[i].cache \in {NoHistory, asks[i - 1].cache,
                          CoChanged(asks[i - 1].ask, asks[i - 1].cache).cache}

LastAnswer(asks) == CoChanged(asks[Len(asks)].ask, asks[Len(asks)].cache).found

\* What co-change says is earned by the commits of this very history, whatever an
\* earlier run left in the cache: a path is reported if and only if it is a source
\* file of the tip that no seed names and some seed shares enough small commits with
\* it, and the counts reported are those of a seed no other seed outdoes.
CoChangeIsEarned(ask, found) ==
  LET Newer(i) == Cardinality({j \in 1..i : ~ask.history[j].merge})
      spoken == {i \in DOMAIN ask.history :
                   LET c == ask.history[i]
                   IN  /\ ~c.merge /\ Newer(i) <= HistoryWindow
                       /\ Cardinality(c.paths) <= MaxCommitPaths
                       /\ Cardinality(c.paths) * 100
                            <= Cardinality(ask.paths) * MaxCommitSharePercent}
      N(wanted) == Cardinality({i \in spoken : wanted \subseteq ask.history[i].paths})
      Either(s, p) == N({s}) + N({p}) - N({s, p})
      Enough(s, p) ==
        N({s, p}) >= MinTogether /\ N({s, p}) * PpmScale >= MinJaccardPpm * Either(s, p)
      partners(p) == {s \in ask.seeds \cap ask.paths : Enough(s, p)}
  IN  /\ DOMAIN found = IF ask.born THEN {p \in ask.paths \ ask.seeds : partners(p) # {}} ELSE {}
      /\ \A p \in DOMAIN found : \E s \in partners(p) :
           /\ <<found[p].together, found[p].commitsA, found[p].commitsB>>
                = <<N({s, p}), N({s}), N({p})>>
           /\ \A t \in partners(p) : (N({t, p}) * PpmScale) \div Either(t, p) <= found[p].jaccard
=============================================================================
