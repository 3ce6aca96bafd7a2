---------------------------- MODULE RankingProofs ----------------------------
(***************************************************************************)
(* The cap of the candidates keeps the best evidence and says when it cut  *)
(* among equals, for any lists, symbols and limit.  The evidence orders    *)
(* the members of the lists totally, so the heap always has one worst      *)
(* member and the discarded ones one best; each member that is met goes to *)
(* one side of the cut, and everything kept beats everything lost.         *)
(*                                                                         *)
(* And what is decided follows from the scores of what was kept: the sort  *)
(* has each best symbol of an anchor at the place its score gives it, so   *)
(* the second place speaks for every other anchor.                         *)
(***************************************************************************)
EXTENDS Ranking, FiniteOrders

\* The symbols of some list.
Members == UNION {postings[s] : s \in Streams}

RankTypes ==
  /\ postings \in [Streams -> SUBSET Symbols] /\ unread \in [Streams -> SUBSET Symbols]
  /\ retained \subseteq Met
  /\ evidence \in [before : Nat, tie : BOOLEAN]

\* The cursors move together: a symbol is behind all of them or of none.
InStep == \A s \in Streams : unread[s] = postings[s] \ Met

\* Nothing is lost before the heap is full, and what is kept beats what is lost.
CutIsClean ==
  /\ Met # retained => Cardinality(retained) >= CandidateLimit
  /\ \A kept \in retained, lost \in Met \ retained : Beats(kept, lost)

\* The best of what was lost is remembered.
BestIsRemembered ==
  /\ Met = retained => discarded = {}
  /\ Met # retained =>
       \E d \in Met \ retained :
         discarded = {d} /\ \A m \in (Met \ retained) \ {d} : Beats(d, m)

\* What is scored is all that was kept in the end.
TieIsSaid ==
  ranked # <<>> =>
    /\ UNION Range(unread) = {} /\ retained # {}
    /\ evidence.tie <=> (discarded # {} /\ Signal(BestOf(discarded)) = Signal(WorstOf(retained)))

RankInv == RankTypes /\ InStep /\ CutIsClean /\ BestIsRemembered /\ TieIsSaid

----------------------------------------------------------------------------
(* The order of the evidence.                                              *)

\* The keys members are compared by are numbers.
LEMMA EvidenceTypes ==
  ASSUME RankTypes, NEW n \in Members
  PROVE  n \in Nat /\ RarestDf(n) \in Nat /\ MatchedTerms(n) \in Nat
<1>1. n \in Symbols /\ GroupOf(n) # {} /\ GroupOf(n) \subseteq Streams
  BY DEF RankTypes, Members, GroupOf
<1>2. \A s \in Streams : IsFiniteSet(postings[s]) /\ Cardinality(postings[s]) \in Nat
  BY RankingAssumption, FS_Subset, FS_CardinalityType DEF RankTypes
<1> DEFINE counts == {Cardinality(postings[s]) : s \in GroupOf(n)}
<1>3. counts \in SUBSET Nat /\ counts # {}
  BY <1>1, <1>2
<1>4. \E m \in counts : \A k \in counts : m <= k
  <2> HIDE DEF counts
  <2> QED
    BY <1>3, LeastNatural
<1>5. RarestDf(n) \in counts
  <2>1. RarestDf(n) = Min(counts)
    BY DEF RarestDf
  <2> HIDE DEF counts
  <2> QED
    BY <1>4, <2>1 DEF Min
<1>6. MatchedTerms(n) \in Nat
  <2> DEFINE G == GroupOf(n)
             T == {TermOf[s] : s \in G}
  <2>1. IsFiniteSet(G)
    BY <1>1, RankingAssumption, FS_Subset
  <2>2. IsFiniteSet(T)
    <3> DEFINE f == [s \in G |-> TermOf[s]]
    <3>1. f \in Surjection(G, T)
      BY DEF Surjection
    <3> HIDE DEF f, T, G
    <3> QED
      BY <2>1, <3>1, FS_Surjection
  <2> QED
    BY <2>2, FS_CardinalityType DEF MatchedTerms
<1> QED
  BY <1>1, <1>3, <1>5, <1>6, RankingAssumption

\* The evidence orders the members totally, and strictly.
LEMMA BeatsIsTotal ==
  ASSUME RankTypes, NEW m \in Members, NEW n \in Members, m # n
  PROVE  Beats(m, n) \/ Beats(n, m)
  BY EvidenceTypes DEF Beats, Signal

\* Who beats a member beats whom it beats.
LEMMA BeatsIsTransitive ==
  ASSUME RankTypes, NEW l \in Members, NEW m \in Members, NEW n \in Members,
         Beats(l, m), Beats(m, n)
  PROVE  Beats(l, n)
<1>1. /\ l \in Nat /\ m \in Nat /\ n \in Nat
      /\ RarestDf(l) \in Nat /\ RarestDf(m) \in Nat /\ RarestDf(n) \in Nat
      /\ MatchedTerms(l) \in Nat /\ MatchedTerms(m) \in Nat /\ MatchedTerms(n) \in Nat
  BY EvidenceTypes
<1> QED
  BY <1>1 DEF Beats, Signal

\* The members are finitely many.
LEMMA FiniteMembers ==
  ASSUME RankTypes, NEW S, S \subseteq Members
  PROVE  IsFiniteSet(S) /\ Cardinality(S) \in Nat
<1>1. S \subseteq Symbols
  BY DEF RankTypes, Members
<1> QED
  BY <1>1, RankingAssumption, FS_Subset, FS_CardinalityType

\* So any members that are there have one best and one worst.
LEMMA BestIsThere ==
  ASSUME RankTypes, NEW S, S \subseteq Members, S # {}
  PROVE  BestOf(S) \in S /\ \A n \in S \ {BestOf(S)} : Beats(BestOf(S), n)
<1> DEFINE R == {p \in S \X S : p[1] = p[2] \/ Beats(p[1], p[2])}
<1>1. \A m, n \in S : <<m, n>> \in R <=> m = n \/ Beats(m, n)
  OBVIOUS
<1>2. R \in SUBSET (S \X S)
  OBVIOUS
<1> HIDE DEF R
<1>3. \A m, n \in S : <<m, n>> \in R \/ <<n, m>> \in R
  BY <1>1, BeatsIsTotal
<1>4. \A l, m, n \in S : <<l, m>> \in R /\ <<m, n>> \in R => <<l, n>> \in R
  BY <1>1, BeatsIsTransitive
<1>5. PICK m \in S : \A n \in S : <<m, n>> \in R
  BY <1>2, <1>3, <1>4, FiniteMembers, LeastElement
<1>6. \A n \in S \ {m} : Beats(m, n)
  BY <1>1, <1>5
<1> QED
  BY <1>6 DEF BestOf

\* Of members that are there, one is beaten by all the others.
LEMMA WorstIsThere ==
  ASSUME RankTypes, NEW S, S \subseteq Members, S # {}
  PROVE  WorstOf(S) \in S /\ \A n \in S \ {WorstOf(S)} : Beats(n, WorstOf(S))
<1> DEFINE R == {p \in S \X S : p[1] = p[2] \/ Beats(p[2], p[1])}
<1>1. \A m, n \in S : <<m, n>> \in R <=> m = n \/ Beats(n, m)
  OBVIOUS
<1>2. R \in SUBSET (S \X S)
  OBVIOUS
<1> HIDE DEF R
<1>3. \A m, n \in S : <<m, n>> \in R \/ <<n, m>> \in R
  BY <1>1, BeatsIsTotal
<1>4. \A l, m, n \in S : <<l, m>> \in R /\ <<m, n>> \in R => <<l, n>> \in R
  BY <1>1, BeatsIsTransitive
<1>5. PICK m \in S : \A n \in S : <<m, n>> \in R
  BY <1>2, <1>3, <1>4, FiniteMembers, LeastElement
<1>6. \A n \in S \ {m} : Beats(n, m)
  BY <1>1, <1>5
<1> QED
  BY <1>6 DEF WorstOf

\* The best of one is the one.
LEMMA BestOfOne == ASSUME NEW d PROVE BestOf({d}) = d
  BY DEF BestOf

\* The lists do not change, and so neither does the order.
LEMMA OrderStays ==
  ASSUME UNCHANGED postings
  PROVE  /\ Members' = Members
         /\ \A m, n : Beats(m, n)' <=> Beats(m, n)
         /\ \A n : Signal(n)' = Signal(n)
  BY DEF Members, Beats, Signal, RarestDf, MatchedTerms, GroupOf

\* What was met and what is retained are members.
LEMMA MetAreMembers ==
  ASSUME RankTypes PROVE Met \subseteq Members /\ retained \subseteq Members
  BY DEF RankTypes, Met, Members

----------------------------------------------------------------------------
(* The merge.                                                              *)

\* One more member is met.
LEMMA MeetsOne ==
  ASSUME RankTypes, InStep, Merge
  PROVE  \E n \in Members \ Met :
           /\ n = Min(UNION Range(unread))
           /\ Met' = Met \cup {n} /\ InStep'
           /\ unread' \in [Streams -> SUBSET Symbols]
<1> DEFINE left == UNION Range(unread)
           n == Min(left)
<1>1. left = UNION {unread[s] : s \in Streams}
  BY DEF Range, RankTypes
<1>2. left \in SUBSET Nat /\ left # {}
  BY <1>1, RankingAssumption DEF RankTypes, Merge
<1>3. n \in left
  <2>1. \E m \in left : \A k \in left : m <= k
    <3> HIDE DEF left
    <3> QED
      BY <1>2, LeastNatural
  <2> HIDE DEF left
  <2> QED
    BY <2>1 DEF Min
<1>4. unread' = [s \in Streams |-> unread[s] \ {n}] /\ postings' = postings
  BY DEF Merge
<1> HIDE DEF n, left
<1>5. PICK s \in Streams : n \in unread[s]
  BY <1>1, <1>3
<1>6. n \in Members \ Met
  BY <1>5 DEF InStep, Members, RankTypes
<1>7. \A t \in Streams : postings'[t] \ unread'[t] = (postings[t] \ unread[t]) \cup (postings[t] \cap {n})
  BY <1>4 DEF RankTypes
<1>8. Met' = Met \cup {n}
  <2>1. n \in postings[s]
    BY <1>5 DEF InStep
  <2> QED
    BY <1>5, <1>7, <2>1 DEF Met
<1>9. InStep'
  BY <1>4, <1>8 DEF InStep
<1>10. unread' \in [Streams -> SUBSET Symbols]
  BY <1>4 DEF RankTypes
<1> QED
  BY <1>6, <1>8, <1>9, <1>10 DEF n, left

\* While the heap has room.
LEMMA KeepsOne ==
  ASSUME RankInv, Merge, NEW n \in Members \ Met, Met' = Met \cup {n},
         n = Min(UNION Range(unread)), Cardinality(retained) < CandidateLimit
  PROVE  retained' \subseteq Met' /\ CutIsClean' /\ BestIsRemembered'
<1>1. retained' = retained \cup {n} /\ discarded' = discarded /\ UNCHANGED postings
  BY DEF Merge
<1>2. Met = retained
  <2>1. CandidateLimit \in Nat /\ Cardinality(retained) \in Nat
    BY MetAreMembers, FiniteMembers, RankingAssumption DEF RankInv, ProfileIsValid
  <2> QED
    BY <2>1 DEF RankInv, CutIsClean
<1>3. Met' = retained'
  BY <1>1, <1>2
<1> QED
  BY <1>1, <1>2, <1>3 DEF RankInv, CutIsClean, BestIsRemembered

\* When it is full, the worst goes.
LEMMA DropsOne ==
  ASSUME RankInv, Merge, NEW n \in Members \ Met, Met' = Met \cup {n},
         n = Min(UNION Range(unread)), ~(Cardinality(retained) < CandidateLimit)
  PROVE  retained' \subseteq Met' /\ CutIsClean' /\ BestIsRemembered'
<1> DEFINE heap == retained \cup {n}
           out == WorstOf(heap)
           lost == Met \ retained
<1>t. RankTypes /\ Met \subseteq Members /\ retained \subseteq Met /\ n \notin Met
  BY MetAreMembers DEF RankInv, RankTypes
<1>1. /\ retained' = heap \ {out} /\ discarded' = {BestOf(discarded \cup {out})}
      /\ UNCHANGED postings
  BY DEF Merge, Discarded
<1>2. out \in heap /\ \A m \in heap \ {out} : Beats(m, out)
  <2>1. heap \subseteq Members /\ heap # {}
    BY <1>t
  <2> HIDE DEF heap
  <2> QED
    BY <1>t, <2>1, WorstIsThere
<1>3. heap \subseteq Members /\ lost \subseteq Members /\ heap \cap lost = {}
  BY <1>t
<1>4. \A kept \in retained, m \in lost : Beats(kept, m)
  BY DEF RankInv, CutIsClean
<1>5. n \in heap /\ retained = heap \ {n} /\ Met' = heap \cup lost
  BY <1>t
<1>6. Cardinality(retained') >= CandidateLimit
  <2>1. IsFiniteSet(retained) /\ Cardinality(retained) \in Nat /\ CandidateLimit \in Nat
    BY <1>t, FiniteMembers, RankingAssumption DEF ProfileIsValid
  <2>2. Cardinality(heap) = Cardinality(retained) + 1 /\ IsFiniteSet(heap)
    BY <1>t, <2>1, FS_AddElement
  <2>3. Cardinality(heap \ {out}) = Cardinality(heap) - 1
    <3> HIDE DEF heap, out
    <3> QED
      BY <1>2, <2>2, FS_RemoveElement
  <2> QED
    BY <1>1, <2>1, <2>2, <2>3
<1> HIDE DEF heap, out, lost
<1>7. retained' \subseteq Met' /\ Met' \ retained' = lost \cup {out}
  BY <1>1, <1>2, <1>3, <1>5
<1>8. ASSUME NEW kept \in retained', NEW m \in lost \cup {out} PROVE Beats(kept, m)
  <2>1. kept \in heap \ {out}
    BY <1>1, <1>8
  <2>2. Beats(kept, out)
    BY <1>2, <2>1
  <2>3. CASE m \in lost /\ kept \in retained
    BY <1>4, <2>3
  <2>4. CASE m \in lost /\ kept = n
    <3>1. out \in retained
      BY <1>2, <1>5, <2>1, <2>4
    <3>2. Beats(out, m)
      BY <1>4, <2>4, <3>1
    <3> QED
      BY <1>t, <1>2, <1>3, <2>1, <2>2, <2>4, <3>2, BeatsIsTransitive
  <2> QED
    BY <1>5, <1>8, <2>1, <2>2, <2>3, <2>4
<1>9. CutIsClean'
  <2>1. \A kept \in retained', m \in Met' \ retained' : Beats(kept, m)'
    BY <1>1, <1>7, <1>8, OrderStays
  <2> QED
    BY <1>6, <2>1 DEF CutIsClean
<1>10. \E d \in lost \cup {out} :
         discarded' = {d} /\ \A m \in (lost \cup {out}) \ {d} : Beats(d, m)
  <2>1. CASE lost = {}
    <3>1. discarded = {}
      BY <1>t, <2>1 DEF RankInv, BestIsRemembered, lost
    <3> QED
      BY <1>1, <2>1, <3>1, BestOfOne
  <2>2. CASE lost # {}
    <3>1. PICK d \in lost : discarded = {d} /\ \A m \in lost \ {d} : Beats(d, m)
      BY <1>t, <2>2 DEF RankInv, BestIsRemembered, lost
    <3> DEFINE b == BestOf({d, out})
    <3>2. b \in {d, out} /\ \A m \in {d, out} \ {b} : Beats(b, m)
      BY <1>t, <1>2, <1>3, <3>1, BestIsThere
    <3>3. discarded' = {b}
      <4>1. discarded \cup {out} = {d, out}
        BY <3>1
      <4> QED
        BY <1>1, <4>1
    <3> HIDE DEF b
    <3>4. ASSUME NEW m \in (lost \cup {out}) \ {b} PROVE Beats(b, m)
      <4>1. CASE b = d
        BY <3>1, <3>2, <3>4, <4>1
      <4>2. CASE b # d /\ m # d
        <5>1. Beats(b, d) /\ Beats(d, m) /\ m \in Members /\ d \in Members /\ b \in Members
          BY <1>2, <1>3, <3>1, <3>2, <3>4, <4>2
        <5> QED
          BY <1>t, <5>1, BeatsIsTransitive
      <4>3. CASE b # d /\ m = d
        BY <3>2, <4>3
      <4> QED
        BY <4>1, <4>2, <4>3
    <3> QED
      BY <3>1, <3>2, <3>3, <3>4
  <2> QED
    BY <2>1, <2>2
<1>11. BestIsRemembered'
  <2>1. Met' # retained'
    BY <1>7
  <2> QED
    BY <1>1, <1>7, <1>10, <2>1, OrderStays DEF BestIsRemembered
<1> QED
  BY <1>7, <1>9, <1>11

----------------------------------------------------------------------------
(* The invariant.                                                          *)

\* The invariant of the cut holds at the start, and every step keeps it.
LEMMA RankInitInv == RankInit => RankInv
<1> SUFFICES ASSUME RankInit PROVE RankInv
  OBVIOUS
<1>1. Met = {}
  BY DEF RankInit, Met
<1>2. RankTypes /\ InStep
  BY <1>1 DEF RankInit, RankTypes, InStep
<1> QED
  BY <1>1, <1>2 DEF RankInit, RankInv, CutIsClean, BestIsRemembered, TieIsSaid

\* One case for each action of the ranking.
LEMMA RankNextInv == RankInv /\ [RankNext]_rankVars => RankInv'
<1> SUFFICES ASSUME RankInv, [RankNext]_rankVars PROVE RankInv'
  OBVIOUS
<1>1. CASE Merge
  <2>1. PICK n \in Members \ Met :
          /\ n = Min(UNION Range(unread)) /\ Met' = Met \cup {n} /\ InStep'
          /\ unread' \in [Streams -> SUBSET Symbols]
    BY <1>1, MeetsOne DEF RankInv
  <2>2. retained' \subseteq Met' /\ CutIsClean' /\ BestIsRemembered'
    BY <1>1, <2>1, KeepsOne, DropsOne
  <2>3. RankTypes'
    <3>1. evidence' = [evidence EXCEPT !.before = @ + 1] /\ postings' = postings
      BY <1>1 DEF Merge
    <3>2. evidence' \in [before : Nat, tie : BOOLEAN]
      BY <3>1 DEF RankInv, RankTypes
    <3> QED
      BY <2>1, <2>2, <3>1, <3>2 DEF RankInv, RankTypes
  <2>4. TieIsSaid'
    BY <1>1 DEF Merge, RankInv, TieIsSaid
  <2> QED
    BY <2>1, <2>2, <2>3, <2>4 DEF RankInv
<1>2. CASE ScoreRetained
  <2>1. /\ UNCHANGED <<postings, unread, retained, discarded>> /\ retained # {}
        /\ UNION Range(unread) = {}
        /\ evidence' = [evidence EXCEPT !.tie =
             discarded # {} /\ Signal(BestOf(discarded)) = Signal(WorstOf(retained))]
    BY <1>2 DEF ScoreRetained
  <2>0. evidence' \in [before : Nat, tie : BOOLEAN]
    <3> DEFINE tied == discarded # {} /\ Signal(BestOf(discarded)) = Signal(WorstOf(retained))
    <3>1. tied \in BOOLEAN /\ evidence' = [evidence EXCEPT !.tie = tied]
      BY <2>1
    <3> HIDE DEF tied
    <3> QED
      BY <3>1 DEF RankInv, RankTypes
  <2>2. Met' = Met /\ RankTypes' /\ InStep'
    BY <2>0, <2>1 DEF Met, RankInv, RankTypes, InStep
  <2>3. CutIsClean' /\ BestIsRemembered'
    BY <2>1, <2>2, OrderStays DEF RankInv, CutIsClean, BestIsRemembered
  <2>4. BestOf(discarded)' = BestOf(discarded) /\ WorstOf(retained)' = WorstOf(retained)
    BY <2>1 DEF BestOf, WorstOf, Beats, Signal, RarestDf, MatchedTerms, GroupOf
  <2>5. evidence'.tie <=> (discarded # {} /\ Signal(BestOf(discarded)) = Signal(WorstOf(retained)))
    BY <2>1 DEF RankInv, RankTypes
  <2>6. TieIsSaid'
    BY <2>1, <2>4, <2>5, OrderStays DEF TieIsSaid
  <2> QED
    BY <2>2, <2>3, <2>6 DEF RankInv
<1>3. CASE Decide \/ UNCHANGED rankVars
  <2>1. UNCHANGED <<postings, unread, retained, discarded, evidence, ranked>>
    BY <1>3 DEF Decide, rankVars
  <2>2. Met' = Met /\ RankTypes' /\ InStep'
    BY <2>1 DEF Met, RankInv, RankTypes, InStep
  <2>3. CutIsClean' /\ BestIsRemembered'
    BY <2>1, <2>2, OrderStays DEF RankInv, CutIsClean, BestIsRemembered
  <2>4. BestOf(discarded)' = BestOf(discarded) /\ WorstOf(retained)' = WorstOf(retained)
    BY <2>1 DEF BestOf, WorstOf, Beats, Signal, RarestDf, MatchedTerms, GroupOf
  <2>5. TieIsSaid'
    BY <2>1, <2>4, OrderStays DEF RankInv, TieIsSaid
  <2> QED
    BY <2>2, <2>3, <2>5 DEF RankInv
<1> QED
  BY <1>1, <1>2, <1>3 DEF RankNext

\* In any three members of which each beats the next or is it, the first and the
\* last are of one evidence only if all three are.
LEMMA NoTieOverBetter ==
  ASSUME RankTypes, NEW l \in Members, NEW m \in Members, NEW n \in Members,
         l = m \/ Beats(l, m), m = n \/ Beats(m, n), Signal(l) = Signal(n)
  PROVE  Signal(l) = Signal(m)
<1>1. /\ RarestDf(l) \in Nat /\ RarestDf(m) \in Nat /\ RarestDf(n) \in Nat
      /\ MatchedTerms(l) \in Nat /\ MatchedTerms(m) \in Nat /\ MatchedTerms(n) \in Nat
  BY EvidenceTypes
<1> QED
  BY <1>1 DEF Beats, Signal

\* Whatever order the members come in, the cap keeps those of the most telling
\* evidence, and the answer says so when the cut fell among equals (ranking.rs,
\* merge_candidates), for any posting lists and any limit.
THEOREM TheCapKeepsTheBest == RankSpec => []CapKeepsBest
<1>1. RankInv => CapKeepsBest
  <2> SUFFICES ASSUME RankInv PROVE CapKeepsBest
    OBVIOUS
  <2>t. RankTypes /\ Met \subseteq Members /\ retained \subseteq Met
    BY MetAreMembers DEF RankInv, RankTypes
  <2>1. ASSUME NEW kept \in retained, NEW lost \in Met \ retained
        PROVE  \/ RarestDf(kept) < RarestDf(lost)
               \/ RarestDf(kept) = RarestDf(lost) /\ MatchedTerms(kept) >= MatchedTerms(lost)
    <3>1. Beats(kept, lost)
      BY DEF RankInv, CutIsClean
    <3>2. MatchedTerms(kept) \in Nat /\ MatchedTerms(lost) \in Nat
      BY <2>t, EvidenceTypes
    <3> QED
      BY <3>1, <3>2 DEF Beats, Signal
  <2>2. ASSUME ranked # <<>>
        PROVE  evidence.tie <=>
                 \E kept \in retained, lost \in Met \ retained : Signal(kept) = Signal(lost)
    <3> DEFINE w == WorstOf(retained)
    <3>1. retained # {}
      BY <2>2 DEF RankInv, TieIsSaid
    <3>2. w \in retained /\ \A n \in retained \ {w} : Beats(n, w)
      BY <2>t, <3>1, WorstIsThere
    <3>3. evidence.tie <=> (discarded # {} /\ Signal(BestOf(discarded)) = Signal(w))
      BY <2>2 DEF RankInv, TieIsSaid
    <3> HIDE DEF w
    <3>4. CASE Met = retained
      <4>1. discarded = {}
        BY <3>4 DEF RankInv, BestIsRemembered
      <4> QED
        BY <3>3, <3>4, <4>1
    <3>5. CASE Met # retained
      <4>1. PICK d \in Met \ retained :
              discarded = {d} /\ \A m \in (Met \ retained) \ {d} : Beats(d, m)
        BY <3>5 DEF RankInv, BestIsRemembered
      <4>2. evidence.tie <=> Signal(d) = Signal(w)
        BY <3>3, <4>1, BestOfOne
      <4>3. ASSUME NEW kept \in retained, NEW lost \in Met \ retained, Signal(kept) = Signal(lost)
            PROVE  Signal(d) = Signal(w)
        <5>1. /\ kept = w \/ Beats(kept, w)
              /\ Beats(w, d) /\ Beats(w, lost)
              /\ d = lost \/ Beats(d, lost)
              /\ kept \in Members /\ lost \in Members /\ w \in Members /\ d \in Members
          BY <2>t, <3>2, <4>1, <4>3 DEF RankInv, CutIsClean
        <5>2. Signal(kept) = Signal(w)
          BY <2>t, <3>2, <4>3, <5>1, NoTieOverBetter
        <5>3. Signal(w) = Signal(d)
          BY <2>t, <3>2, <4>1, <4>3, <5>1, <5>2, NoTieOverBetter
        <5> QED
          BY <5>3
      <4> QED
        BY <3>2, <4>1, <4>2, <4>3
    <3> QED
      BY <3>4, <3>5
  <2> QED
    BY <2>1, <2>2 DEF CapKeepsBest
<1> QED
  BY <1>1, RankInitInv, RankNextInv, PTL DEF RankSpec

----------------------------------------------------------------------------
(* The scores.                                                             *)

\* The points of a symbol add up to a natural number.
LEMMA ScoreIsNatural ==
  ASSUME NEW n \in Symbols
  PROVE  Score(n) \in Nat
<1> DEFINE G == GroupOf(n)
           t == [s \in G |-> Gain[s][n]]
           Points(f) == f = [s \in SUBSET G |-> IF s = {} THEN 0 ELSE Gain[Chosen(s)][n] + f[s \ {Chosen(s)}]]
           f0 == CHOOSE f : Points(f)
<1>1. t \in [G -> Nat] /\ IsFiniteSet(G)
  <2>1. G \in SUBSET Streams
    BY DEF GroupOf
  <2> QED
    BY <2>1, FS_Subset, RankingAssumption
<1>2. Score(n) = f0[G]
  BY DEF Score, MapThenSumSet, MapThenFoldSet, Chosen
<1>3. \A s \in SUBSET G : s # {} => Chosen(s) \in G /\ t[Chosen(s)] = Gain[Chosen(s)][n]
  BY DEF Chosen
<1>4. \A f : SumsUnfold(t, G, f) <=> Points(f)
  <2> HIDE DEF G
  <2> QED
    BY <1>3 DEF SumsUnfold
<1> HIDE DEF t, G, Points
<1>5. SumsUnfold(t, G, f0)
  <2>1. \E g : SumsUnfold(t, G, g)
    BY <1>1, SumsExist
  <2> QED
    BY <1>4, <2>1
<1> HIDE DEF f0
<1>6. Total(t, G) = f0[G]
  BY <1>1, <1>5, SumIsUnique
<1> QED
  BY <1>1, <1>2, <1>6, SumLaws

\* Scores depend on the postings alone.
LEMMA ScoreStays ==
  ASSUME UNCHANGED postings
  PROVE  \A n : Score(n)' = Score(n)
BY DEF Score, GroupOf, MapThenSumSet, MapThenFoldSet

\* The order of the sort is strict, total and transitive.
LEMMA ScoredBeforeIsAnOrder ==
  ASSUME NEW l \in Symbols, NEW m \in Symbols, NEW n \in Symbols
  PROVE  /\ ~ScoredBefore(m, m)
         /\ m # n => ScoredBefore(m, n) \/ ScoredBefore(n, m)
         /\ ScoredBefore(l, m) /\ ScoredBefore(m, n) => ScoredBefore(l, n)
<1>1. /\ l \in Nat /\ m \in Nat /\ n \in Nat
      /\ Score(l) \in Nat /\ Score(m) \in Nat /\ Score(n) \in Nat
  BY ScoreIsNatural, RankingAssumption
<1> DEFINE a == Score(l)
           b == Score(m)
           c == Score(n)
<1> HIDE DEF a, b, c
<1>2. /\ a \in Nat /\ b \in Nat /\ c \in Nat
      /\ ScoredBefore(m, m) <=> b > b \/ (b = b /\ m < m)
      /\ ScoredBefore(m, n) <=> b > c \/ (b = c /\ m < n)
      /\ ScoredBefore(n, m) <=> c > b \/ (c = b /\ n < m)
      /\ ScoredBefore(l, m) <=> a > b \/ (a = b /\ l < m)
      /\ ScoredBefore(l, n) <=> a > c \/ (a = c /\ l < n)
  BY <1>1 DEF ScoredBefore, a, b, c
<1> QED
  BY <1>1, <1>2

----------------------------------------------------------------------------
(* The order of the scored.  The nth has n - 1 before it: those before one *)
(* are fewer than those before the next, so no two places are one and, the *)
(* places being as many as the symbols, none is empty.                     *)

\* Fewer symbols are ahead of one that sorts before another.
LEMMA FewerAhead ==
  ASSUME NEW S \in SUBSET Symbols, NEW m \in S, NEW n \in S, ScoredBefore(m, n)
  PROVE  Cardinality(Ahead(S, m)) < Cardinality(Ahead(S, n))
<1>1. Ahead(S, m) \in SUBSET Ahead(S, n) /\ m \in Ahead(S, n) /\ m \notin Ahead(S, m)
  BY ScoredBeforeIsAnOrder DEF Ahead
<1>2. IsFiniteSet(Ahead(S, n)) /\ Cardinality(Ahead(S, n)) \in Nat
  BY RankingAssumption, FS_Subset, FS_CardinalityType DEF Ahead
<1>3. /\ Cardinality(Ahead(S, m)) \in Nat /\ Cardinality(Ahead(S, m)) <= Cardinality(Ahead(S, n))
      /\ Cardinality(Ahead(S, m)) # Cardinality(Ahead(S, n))
  BY <1>1, <1>2, FS_Subset, FS_CardinalityType
<1> QED
  BY <1>2, <1>3

\* So each place of the sorted list has its symbol.
LEMMA EveryPlaceIsTaken ==
  ASSUME NEW S \in SUBSET Symbols, NEW k \in 1..Cardinality(S)
  PROVE  \E n \in S : Cardinality(Ahead(S, n)) = k - 1
<1> DEFINE N == Cardinality(S)
           place == [n \in S |-> Cardinality(Ahead(S, n))]
           T == 0..(N - 1)
<1>1. IsFiniteSet(S) /\ N \in Nat
  BY RankingAssumption, FS_Subset, FS_CardinalityType
<1>2. \A n \in S : Cardinality(Ahead(S, n)) \in T
  <2> TAKE n \in S
  <2>1. Ahead(S, n) \in SUBSET (S \ {n})
    BY ScoredBeforeIsAnOrder DEF Ahead
  <2>2. IsFiniteSet(S \ {n}) /\ Cardinality(S \ {n}) = N - 1
    BY <1>1, FS_RemoveElement
  <2>3. Cardinality(Ahead(S, n)) \in Nat /\ Cardinality(Ahead(S, n)) <= N - 1
    BY <2>1, <2>2, FS_Subset, FS_CardinalityType
  <2> QED
    BY <1>1, <2>3
<1>3. place \in Injection(S, T)
  <2>1. place \in [S -> T]
    BY <1>2
  <2>2. ASSUME NEW m \in S, NEW n \in S, place[m] = place[n] PROVE m = n
    <3>1. place[m] \in Nat /\ place[n] \in Nat
      BY <1>2
    <3>2. ~ScoredBefore(m, n) /\ ~ScoredBefore(n, m)
      BY <2>2, <3>1, FewerAhead
    <3> QED
      BY <3>2, ScoredBeforeIsAnOrder
  <2> HIDE DEF place
  <2> QED
    BY <2>1, <2>2 DEF Injection, IsInjective
<1>4. IsFiniteSet(T) /\ Cardinality(T) = N
  <2>1. 0 \in Int /\ N - 1 \in Int /\ (0 > N - 1 => N = 0) /\ (N - 1) - 0 + 1 = N
    BY <1>1
  <2> QED
    BY <2>1, FS_Interval
<1>5. place \in Surjection(S, T)
  <2> HIDE DEF place, T
  <2> QED
    BY <1>3, <1>4, FS_Injection
<1>6. k - 1 \in T
  BY <1>1
<1> QED
  BY <1>5, <1>6 DEF Surjection

\* The scored are in order, all of them and each once.
LEMMA SortingHolds ==
  ASSUME NEW S \in SUBSET Symbols
  PROVE  LET q == SortedByScore(S)
         IN  /\ q \in [1..Cardinality(S) -> S] /\ IsFiniteSet(S) /\ Cardinality(S) \in Nat
             /\ \A n \in S : \E k \in DOMAIN q : q[k] = n
             /\ \A i, k \in DOMAIN q : i < k => ScoredBefore(q[i], q[k])
<1> DEFINE N == Cardinality(S)
           q == SortedByScore(S)
<1>1. IsFiniteSet(S) /\ N \in Nat
  BY RankingAssumption, FS_Subset, FS_CardinalityType
<1>2. \A k \in 1..N : q[k] \in S /\ Cardinality(Ahead(S, q[k])) = k - 1
  BY EveryPlaceIsTaken DEF SortedByScore
<1>3. DOMAIN q = 1..N /\ q \in [1..N -> S]
  BY <1>2 DEF SortedByScore
<1> HIDE DEF q
<1>4. ASSUME NEW n \in S PROVE \E k \in 1..N : q[k] = n
  <2>1. Ahead(S, n) \in SUBSET (S \ {n})
    BY ScoredBeforeIsAnOrder DEF Ahead
  <2>2. IsFiniteSet(S \ {n}) /\ Cardinality(S \ {n}) = N - 1
    BY <1>1, FS_RemoveElement
  <2>3. Cardinality(Ahead(S, n)) \in Nat /\ Cardinality(Ahead(S, n)) <= N - 1
    BY <2>1, <2>2, FS_Subset, FS_CardinalityType
  <2> DEFINE k == Cardinality(Ahead(S, n)) + 1
  <2>4. k \in 1..N /\ Cardinality(Ahead(S, n)) = k - 1
    BY <1>1, <2>3
  <2> HIDE DEF k
  <2>5. q[k] \in S /\ Cardinality(Ahead(S, q[k])) = Cardinality(Ahead(S, n))
    BY <1>2, <2>4
  <2>6. ~ScoredBefore(n, q[k]) /\ ~ScoredBefore(q[k], n)
    BY <2>3, <2>5, FewerAhead
  <2>7. q[k] = n
    BY <2>5, <2>6, ScoredBeforeIsAnOrder
  <2> QED
    BY <2>4, <2>7
<1>5. ASSUME NEW i \in 1..N, NEW k \in 1..N, i < k PROVE ScoredBefore(q[i], q[k])
  <2>1. q[i] \in S /\ q[k] \in S /\ Cardinality(Ahead(S, q[i])) = i - 1 /\ Cardinality(Ahead(S, q[k])) = k - 1
    BY <1>2
  <2>2. i \in Nat /\ k \in Nat
    BY <1>1
  <2>3. q[i] # q[k]
    BY <1>5, <2>1, <2>2
  <2>4. ~ScoredBefore(q[k], q[i])
    <3>1. ~(k - 1 < i - 1)
      BY <1>5, <2>2
    <3> QED
      BY <2>1, <3>1, FewerAhead
  <2> QED
    BY <2>1, <2>3, <2>4, ScoredBeforeIsAnOrder
<1> QED
  BY <1>1, <1>3, <1>4, <1>5 DEF q

\* Of each anchor the best is left, and no other.
LEMMA AnchorsCollapse ==
  ASSUME NEW S \in SUBSET Symbols
  PROVE  /\ Collapse(S) \in SUBSET S
         /\ S # {} => Collapse(S) # {}
         /\ \A n \in S : \E m \in Collapse(S) : AnchorOf[m] = AnchorOf[n] /\ Score(m) >= Score(n)
         /\ \A m, n \in Collapse(S) : AnchorOf[m] = AnchorOf[n] => m = n
<1>1. Collapse(S) \in SUBSET S
  BY DEF Collapse
<1>2. ASSUME NEW n \in S
      PROVE  \E m \in Collapse(S) : AnchorOf[m] = AnchorOf[n] /\ Score(m) >= Score(n)
  <2> DEFINE same == {x \in S : AnchorOf[x] = AnchorOf[n]}
             R == {p \in same \X same : p[1] = p[2] \/ ScoredBefore(p[1], p[2])}
  <2>1. IsFiniteSet(same) /\ n \in same /\ same \in SUBSET Symbols
    <3>1. same \in SUBSET Symbols /\ n \in same
      OBVIOUS
    <3> HIDE DEF same
    <3> QED
      BY <3>1, RankingAssumption, FS_Subset
  <2>2. \A x, y \in same : <<x, y>> \in R <=> x = y \/ ScoredBefore(x, y)
    OBVIOUS
  <2>3. R \in SUBSET (same \X same)
    OBVIOUS
  <2> HIDE DEF R
  <2>4. PICK m \in same : \A x \in same : <<m, x>> \in R
    <3> HIDE DEF same
    <3>1. \A x, y \in same : <<x, y>> \in R \/ <<y, x>> \in R
      BY <2>1, <2>2, ScoredBeforeIsAnOrder
    <3>2. \A x, y, z \in same : <<x, y>> \in R /\ <<y, z>> \in R => <<x, z>> \in R
      BY <2>1, <2>2, ScoredBeforeIsAnOrder
    <3>3. same # {}
      BY <2>1
    <3> QED
      BY <2>1, <2>3, <3>1, <3>2, <3>3, LeastElement
  <2>5. \A x \in same : m = x \/ ScoredBefore(m, x)
    BY <2>2, <2>4
  <2>6. m \in Collapse(S)
    BY <2>5 DEF Collapse
  <2>7. Score(m) >= Score(n)
    <3>1. Score(m) \in Nat /\ Score(n) \in Nat
      BY <2>1, ScoreIsNatural
    <3>2. m = n \/ ScoredBefore(m, n)
      BY <2>1, <2>5
    <3> QED
      BY <3>1, <3>2 DEF ScoredBefore
  <2> QED
    BY <2>6, <2>7
<1>3. ASSUME NEW m \in Collapse(S), NEW n \in Collapse(S), AnchorOf[m] = AnchorOf[n] PROVE m = n
  <2>1. m \in S /\ n \in S /\ (m = n \/ ScoredBefore(n, m)) /\ (m = n \/ ScoredBefore(m, n))
    BY <1>3 DEF Collapse
  <2> QED
    BY <2>1, ScoredBeforeIsAnOrder
<1> QED
  BY <1>1, <1>2, <1>3

----------------------------------------------------------------------------
(* The decision.                                                           *)

\* What is ranked is what was kept, and the verdict is what it says.
RankedHolds ==
  /\ ranked # <<>> => ranked = SortedByScore(Collapse(retained)) /\ retained # {}
  /\ verdict # Pending => verdict = Decision
DecideInv == RankInv /\ RankedHolds

\* Sorting depends on the postings and on what is retained.
LEMMA SortingStays ==
  ASSUME UNCHANGED <<postings, retained>>
  PROVE  SortedByScore(Collapse(retained))' = SortedByScore(Collapse(retained))
<1>1. \A m, n : ScoredBefore(m, n)' <=> ScoredBefore(m, n)
  BY ScoreStays DEF ScoredBefore
<1>2. Collapse(retained)' = Collapse(retained)
  BY <1>1 DEF Collapse
<1>3. \A S : SortedByScore(S)' = SortedByScore(S)
  <2>1. \A S, n : Ahead(S, n)' = Ahead(S, n)
    BY <1>1 DEF Ahead
  <2> QED
    BY <2>1 DEF SortedByScore
<1> QED
  BY <1>2, <1>3

\* The decision depends on the postings and on the ranked list.
LEMMA DecisionStays ==
  ASSUME UNCHANGED <<postings, ranked>>
  PROVE  Decision' = Decision
BY ScoreStays DEF Decision

\* Every step keeps the cut and the ranked list right.
LEMMA DecideNextInv == DecideInv /\ [RankNext]_rankVars => DecideInv'
<1> SUFFICES ASSUME DecideInv, [RankNext]_rankVars PROVE DecideInv'
  OBVIOUS
<1>1. RankInv'
  BY RankNextInv DEF DecideInv
<1>2. CASE Merge
  <2>1. UNCHANGED <<postings, ranked, verdict>> /\ UNION Range(unread) # {}
    BY <1>2 DEF Merge
  <2>2. ranked = <<>>
    BY <2>1 DEF DecideInv, RankInv, TieIsSaid
  <2> QED
    BY <1>1, <2>1, <2>2, DecisionStays DEF DecideInv, RankedHolds
<1>3. CASE ScoreRetained
  <2>1. /\ UNCHANGED <<postings, retained, verdict>> /\ verdict = Pending /\ retained # {}
        /\ ranked' = SortedByScore(Collapse(retained))
    BY <1>3 DEF ScoreRetained
  <2> QED
    BY <1>1, <2>1, SortingStays DEF DecideInv, RankedHolds, Pending
<1>4. CASE Decide
  <2>1. UNCHANGED <<postings, retained, ranked>> /\ verdict' = Decision
    BY <1>4 DEF Decide
  <2> QED
    BY <1>1, <2>1, SortingStays, DecisionStays DEF DecideInv, RankedHolds
<1>5. CASE UNCHANGED rankVars
  <2>1. UNCHANGED <<postings, retained, ranked, verdict>>
    BY <1>5 DEF rankVars
  <2> QED
    BY <1>1, <2>1, SortingStays, DecisionStays DEF DecideInv, RankedHolds, Pending
<1> QED
  BY <1>2, <1>3, <1>4, <1>5 DEF RankNext

\* A margin is a part of the top score.
LEMMA MarginSays ==
  ASSUME NEW top \in Nat, NEW next \in 0..top
  PROVE  /\ Margin(top, next) >= MarginAt =>
              \A x \in 0..next : x * MarginScale <= top * (MarginScale - MarginAt)
         /\ top > 0 /\ ~(Margin(top, next) >= MarginAt) =>
              (top - next) * MarginScale < MarginAt * top
<1>0. MarginAt \in 0..100 /\ MarginScale = 100
  BY RankingAssumption DEF ProfileIsValid, MarginScale
<1>1. CASE top = 0
  <2>1. Margin(top, next) = 0 /\ next = 0
    BY <1>1 DEF Margin
  <2> QED
    BY <1>0, <1>1, <2>1
<1>2. CASE top > 0
  <2> DEFINE a == (top - next) * 100
             q == a \div top
  <2>1. Margin(top, next) = q
    BY <1>0, <1>2 DEF Margin
  <2>2. a \in Nat /\ top \in Nat \ {0}
    BY <1>2
  <2>3. q \in Nat /\ q * top <= a /\ a < q * top + top
    <3> HIDE DEF a
    <3> QED
      BY <2>2
  <2> HIDE DEF q
  <2>4. ASSUME q >= MarginAt PROVE MarginAt * top <= a
    <3>1. MarginAt * top <= q * top
      BY <1>0, <2>2, <2>3, <2>4
    <3> HIDE DEF a
    <3>2. MarginAt * top \in Nat /\ q * top \in Nat
      BY <1>0, <2>2, <2>3
    <3> QED
      BY <2>2, <2>3, <3>1, <3>2
  <2>5. ASSUME ~(q >= MarginAt) PROVE a < MarginAt * top
    <3>1. q * top + top <= MarginAt * top
      BY <1>0, <2>2, <2>3, <2>5
    <3> HIDE DEF a
    <3>2. MarginAt * top \in Nat /\ q * top \in Nat
      BY <1>0, <2>2, <2>3
    <3> QED
      BY <2>2, <2>3, <3>1, <3>2
  <2>6. top * (100 - MarginAt) = top * 100 - MarginAt * top /\ MarginAt * top \in Nat
    BY <1>0, <2>2
  <2>7. ASSUME NEW x \in 0..next, q >= MarginAt PROVE x * 100 <= top * (100 - MarginAt)
    <3>1. x * 100 <= next * 100 /\ a = top * 100 - next * 100
      OBVIOUS
    <3> HIDE DEF a
    <3> QED
      BY <2>2, <2>4, <2>6, <2>7, <3>1
  <2> QED
    BY <1>0, <2>1, <2>5, <2>7
<1> QED
  BY <1>1, <1>2

\* ranking.rs, decide: whatever streams, postings and gains, a route is direct only
\* when it leads every other anchor by the profile's margin, and candidates name no
\* anchor twice and are offered only for a reason: a first score under the profile's
\* direct_at, none at all, or another anchor within the margin.
THEOREM DecisionsAreSupported == RankSpec => []DecisionIsSupported
<1>1. RankInit => DecideInv
  BY RankInitInv DEF RankInit, DecideInv, RankedHolds
<1>2. DecideInv => DecisionIsSupported
  <2> SUFFICES ASSUME DecideInv, verdict # Pending, ranked # <<>> PROVE DecisionIsSupported
    <3>1. CASE verdict = Pending
      BY <3>1 DEF DecisionIsSupported, Pending
    <3>2. CASE ranked = <<>> /\ verdict = Decision
      <4>1. verdict = [outcome |-> "none", reason |-> "notFound"]
        BY <3>2 DEF Decision
      <4> QED
        BY <4>1 DEF DecisionIsSupported
    <3> QED
      BY <3>1, <3>2 DEF DecideInv, RankedHolds
  <2> DEFINE S == Collapse(retained)
             N == Cardinality(S)
             top == Score(ranked[1])
             next == IF Len(ranked) > 1 THEN Score(ranked[2]) ELSE 0
  <2>1. /\ retained \in SUBSET Symbols /\ retained # {} /\ ranked = SortedByScore(S) /\ verdict = Decision
    <3>1. Members \subseteq Symbols /\ retained \subseteq Members
      BY MetAreMembers DEF DecideInv, RankInv, RankTypes, Members
    <3> QED
      BY <3>1 DEF DecideInv, RankedHolds
  <2>2. /\ S \in SUBSET retained /\ S # {}
        /\ \A n \in retained : \E m \in S : AnchorOf[m] = AnchorOf[n] /\ Score(m) >= Score(n)
        /\ \A m, n \in S : AnchorOf[m] = AnchorOf[n] => m = n
    BY <2>1, AnchorsCollapse
  <2>3. /\ ranked \in [1..N -> S] /\ N \in Nat
        /\ \A n \in S : \E k \in 1..N : ranked[k] = n
        /\ \A i, k \in 1..N : i < k => ScoredBefore(ranked[i], ranked[k])
    <3> HIDE DEF S
    <3>1. S \in SUBSET Symbols
      BY <2>1, <2>2
    <3> QED
      BY <2>1, <3>1, SortingHolds
  <2> HIDE DEF S
  <2>4. Len(ranked) = N /\ N >= 1
    BY <2>2, <2>3
  <2> HIDE DEF N
  <2>5. \A n \in retained : Score(n) \in Nat
    BY <2>1, ScoreIsNatural
  <2>6. \A i, k \in 1..N : i <= k => Score(ranked[i]) >= Score(ranked[k])
    <3> SUFFICES ASSUME NEW i \in 1..N, NEW k \in 1..N, i <= k PROVE Score(ranked[i]) >= Score(ranked[k])
      OBVIOUS
    <3>1. Score(ranked[i]) \in Nat /\ Score(ranked[k]) \in Nat /\ i \in Nat /\ k \in Nat
      BY <2>2, <2>3, <2>5
    <3>2. CASE i = k
      BY <3>1, <3>2
    <3>3. CASE i < k
      <4>1. ScoredBefore(ranked[i], ranked[k])
        BY <2>3, <3>3
      <4> QED
        BY <3>1, <4>1 DEF ScoredBefore
    <3> QED
      BY <3>1, <3>2, <3>3
  <2>7. top \in Nat /\ next \in 0..top
    BY <2>2, <2>3, <2>4, <2>5, <2>6
  <2>8. ASSUME NEW n \in retained, AnchorOf[n] # AnchorOf[ranked[1]] PROVE Score(n) \in 0..next
    <3>1. PICK m \in S : AnchorOf[m] = AnchorOf[n] /\ Score(m) >= Score(n)
      BY <2>2
    <3>2. PICK k \in 1..N : ranked[k] = m
      BY <2>3
    <3>3. k >= 2 /\ N >= 2 /\ 2 \in 1..N
      BY <2>3, <2>4, <2>8, <3>1, <3>2
    <3>4. Score(ranked[2]) >= Score(m)
      BY <2>6, <3>2, <3>3
    <3>5. Score(n) \in Nat /\ Score(m) \in Nat /\ Score(ranked[2]) \in Nat /\ next = Score(ranked[2])
      BY <2>2, <2>3, <2>4, <2>5, <3>3
    <3> HIDE DEF next
    <3> QED
      BY <3>1, <3>4, <3>5
  <2>9. ASSUME verdict.outcome = "direct"
        PROVE  verdict.symbol = ranked[1] /\ Margin(top, next) >= MarginAt
    BY <2>1, <2>9 DEF Decision
  <2>10. ASSUME verdict.outcome = "candidates"
         PROVE  /\ verdict.symbols = SubSeq(ranked, 1, Min({ResultLimit, Len(ranked)}))
                /\ ~(top >= DirectAt /\ Margin(top, next) >= MarginAt)
    <3>1. top >= NoneBelow \/ top < NoneBelow
      BY <2>7, RankingAssumption DEF ProfileIsValid
    <3> QED
      BY <2>1, <2>10, <3>1 DEF Decision
  <2> HIDE DEF top, next
  <2>11. ASSUME verdict.outcome = "direct", NEW n \in retained, AnchorOf[n] # AnchorOf[verdict.symbol]
         PROVE  Score(n) * MarginScale <= Score(verdict.symbol) * (MarginScale - MarginAt)
    <3>1. verdict.symbol = ranked[1] /\ Margin(top, next) >= MarginAt /\ Score(n) \in 0..next
      BY <2>8, <2>9, <2>11
    <3> QED
      BY <2>7, <3>1, MarginSays DEF top
  <2>12. ASSUME verdict.outcome = "candidates"
         PROVE  /\ \A i, j \in DOMAIN verdict.symbols :
                     i # j => AnchorOf[verdict.symbols[i]] # AnchorOf[verdict.symbols[j]]
                /\ verdict.symbols[1] = ranked[1]
    <3> DEFINE shown == Min({ResultLimit, Len(ranked)})
    <3>1. shown \in 1..N
      <4>1. ResultLimit \in Int /\ ResultLimit >= 1 /\ N \in Int
        BY <2>3, RankingAssumption DEF ProfileIsValid
      <4>2. (ResultLimit <= N => shown = ResultLimit) /\ (ResultLimit >= N => shown = N)
        BY <2>4, <4>1, MaxAndMinOfTwo
      <4> QED
        BY <2>3, <2>4, <4>1, <4>2
    <3> HIDE DEF shown
    <3>2. ranked \in Seq(S)
      BY <2>3
    <3>3. verdict.symbols = SubSeq(ranked, 1, shown)
      BY <2>10, <2>12 DEF shown
    <3>4. DOMAIN verdict.symbols = 1..shown /\ \A k \in 1..shown : verdict.symbols[k] = ranked[k]
      BY <2>3, <2>4, <3>1, <3>2, <3>3
    <3>5. ASSUME NEW i \in 1..N, NEW j \in 1..N, i # j PROVE AnchorOf[ranked[i]] # AnchorOf[ranked[j]]
      <4>1. ranked[i] # ranked[j]
        <5>1. i < j \/ j < i
          BY <2>3, <3>5
        <5>2. ScoredBefore(ranked[i], ranked[j]) \/ ScoredBefore(ranked[j], ranked[i])
          BY <2>3, <5>1
        <5>3. ranked[i] \in Symbols /\ ~ScoredBefore(ranked[i], ranked[i])
          BY <2>1, <2>2, <2>3, ScoredBeforeIsAnOrder
        <5> QED
          BY <5>2, <5>3
      <4> QED
        BY <2>2, <2>3, <4>1
    <3> QED
      BY <2>3, <3>1, <3>4, <3>5, SMTT(30)
  <2>13. ASSUME verdict.outcome = "candidates"
         PROVE  \/ top < DirectAt \/ top = 0
                \/ \E n \in retained :
                     /\ AnchorOf[n] # AnchorOf[ranked[1]]
                     /\ (top - Score(n)) * MarginScale < MarginAt * top
    <3> SUFFICES ASSUME ~(top < DirectAt), top # 0
                 PROVE  \E n \in retained : /\ AnchorOf[n] # AnchorOf[ranked[1]]
                                            /\ (top - Score(n)) * MarginScale < MarginAt * top
      OBVIOUS
    <3>1. DirectAt \in Nat /\ MarginAt \in 0..100 /\ MarginScale = 100
      BY RankingAssumption DEF ProfileIsValid, MarginScale
    <3>2. ~(Margin(top, next) >= MarginAt) /\ top > 0
      BY <2>7, <2>10, <2>13, <3>1
    <3>3. (top - next) * MarginScale < MarginAt * top
      BY <2>7, <3>2, MarginSays
    <3>4. N >= 2
      <4> SUFFICES ASSUME ~(N >= 2) PROVE FALSE
        OBVIOUS
      <4>1. next = 0
        BY <2>3, <2>4 DEF next
      <4>2. MarginAt * top <= 100 * top
        BY <2>7, <3>1
      <4> QED
        BY <2>7, <3>1, <3>3, <4>1, <4>2
    <3>5. ranked[2] \in S /\ ranked[2] \in retained /\ next = Score(ranked[2]) /\ ranked[1] \in S
      BY <2>2, <2>3, <2>4, <3>4 DEF next
    <3>6. AnchorOf[ranked[2]] # AnchorOf[ranked[1]]
      <4>1. ScoredBefore(ranked[1], ranked[2])
        BY <2>3, <3>4
      <4>2. ranked[1] # ranked[2]
        BY <2>1, <2>2, <3>5, <4>1, ScoredBeforeIsAnOrder
      <4> QED
        BY <2>2, <3>5, <4>2
    <3> QED
      BY <3>3, <3>5, <3>6
  <2> QED
    BY <2>11, <2>12, <2>13 DEF DecisionIsSupported, top
<1> QED
  BY <1>1, <1>2, DecideNextInv, PTL DEF RankSpec
=============================================================================
