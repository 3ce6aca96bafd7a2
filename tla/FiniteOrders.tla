---------------------------- MODULE FiniteOrders ----------------------------
(***************************************************************************)
(* Lemmas the proofs of the components share: least elements of finite     *)
(* sets, and induction on finite sets stated with a set of sets instead of *)
(* a predicate, from the theorem that strict inclusion of finite sets is   *)
(* well founded.  From it: that recursion on the subsets of a finite set   *)
(* defines a function, which is what the sums and folds of the library     *)
(* choose, and what sums are.                                              *)
(***************************************************************************)
EXTENDS Integers, FiniteSets, FiniteSetsExt, FiniteSetTheorems, WellFoundedInduction, TLAPS

\* In a family of subsets of a finite set, one has no proper part in the family.
LEMMA SmallestOfFamily ==
  ASSUME NEW S, IsFiniteSet(S), NEW F, F \subseteq SUBSET S, F # {}
  PROVE  \E A \in F : \A B \in F : B \subseteq A => B = A
<1>1. IsWellFoundedOn(StrictSubsetOrdering(S), FiniteSubsetsOf(S))
  BY FS_StrictSubsetOrderingWellFounded
<1>2. F \subseteq FiniteSubsetsOf(S)
  BY FS_Subset DEF FiniteSubsetsOf
<1>3. PICK A \in F : \A B \in F : <<B, A>> \notin StrictSubsetOrdering(S)
  BY <1>1, <1>2, WFMin
<1>4. ASSUME NEW B \in F, B \subseteq A, B # A PROVE FALSE
  BY <1>2, <1>3, <1>4 DEF StrictSubsetOrdering, FiniteSubsetsOf
<1> QED
  BY <1>4

\* A finite set that is not empty has a least element in any total preorder on it.
LEMMA LeastElement ==
  ASSUME NEW S, IsFiniteSet(S), S # {}, NEW R \in SUBSET (S \X S),
         \A x, y \in S : <<x, y>> \in R \/ <<y, x>> \in R,
         \A x, y, z \in S : <<x, y>> \in R /\ <<y, z>> \in R => <<x, z>> \in R
  PROVE  \E x \in S : \A y \in S : <<x, y>> \in R
<1> DEFINE Below(x) == {y \in S : <<y, x>> \in R}
           F == {Below(x) : x \in S}
<1>1. F \subseteq SUBSET S /\ F # {}
  <2>1. PICK x \in S : TRUE
    OBVIOUS
  <2>2. Below(x) \in F
    BY <2>1
  <2>3. \A x1 \in S : Below(x1) \subseteq S
    OBVIOUS
  <2> HIDE DEF Below
  <2> QED
    BY <2>2, <2>3
<1>2. PICK A \in F : \A B \in F : B \subseteq A => B = A
  <2> HIDE DEF F
  <2> QED
    BY <1>1, SmallestOfFamily
<1>3. PICK x \in S : A = Below(x)
  OBVIOUS
<1>4. ASSUME NEW y \in S, <<x, y>> \notin R PROVE FALSE
  <2>1. <<y, x>> \in R /\ Below(y) \subseteq Below(x)
    BY <1>4
  <2>2. Below(y) = Below(x)
    <3>1. Below(y) \in F
      OBVIOUS
    <3> HIDE DEF F, Below
    <3> QED
      BY <1>2, <1>3, <2>1, <3>1
  <2>3. x \in Below(x)
    OBVIOUS
  <2> QED
    BY <1>4, <2>2, <2>3
<1> QED
  BY <1>4

\* A finite set of naturals has a greatest member, and any set a least one.
LEMMA GreatestNatural ==
  ASSUME NEW S \in SUBSET Nat, IsFiniteSet(S), S # {}
  PROVE  \E m \in S : \A n \in S : n <= m
<1> DEFINE R == {p \in S \X S : p[1] >= p[2]}
<1>1. /\ R \in SUBSET (S \X S)
      /\ \A x, y \in S : <<x, y>> \in R \/ <<y, x>> \in R
      /\ \A x, y, z \in S : <<x, y>> \in R /\ <<y, z>> \in R => <<x, z>> \in R
  OBVIOUS
<1>2. PICK m \in S : \A n \in S : <<m, n>> \in R
  <2> HIDE DEF R
  <2> QED
    BY <1>1, LeastElement
<1> QED
  BY <1>2

\* A set of naturals that is not empty has a least.
LEMMA LeastNatural ==
  ASSUME NEW S \in SUBSET Nat, S # {}
  PROVE  \E m \in S : \A n \in S : m <= n
<1>1. PICK k \in S : k \in Nat
  OBVIOUS
<1>0. \A n \in S : n \in Nat
  OBVIOUS
<1> DEFINE T == {n \in S : n <= k}
           R == {p \in T \X T : p[1] <= p[2]}
<1>2. T \subseteq 0..k /\ k \in T
  <2>1. ASSUME NEW n \in T PROVE n \in 0..k
    BY <1>0, <1>1, <2>1
  <2>2. k \in T
    BY <1>1
  <2> QED
    BY <2>1, <2>2
<1>3. IsFiniteSet(T) /\ T # {}
  <2>1. IsFiniteSet(0..k)
    BY <1>1, FS_Interval
  <2> HIDE DEF T
  <2> QED
    BY <1>2, <2>1, FS_Subset
<1>4. /\ R \in SUBSET (T \X T)
      /\ \A x, y \in T : <<x, y>> \in R \/ <<y, x>> \in R
      /\ \A x, y, z \in T : <<x, y>> \in R /\ <<y, z>> \in R => <<x, z>> \in R
  OBVIOUS
<1>5. PICK m \in T : \A n \in T : <<m, n>> \in R
  <2> HIDE DEF R, T
  <2> QED
    BY <1>3, <1>4, LeastElement
<1>6. ASSUME NEW n \in S PROVE m <= n
  <2>1. m \in Nat /\ m <= k
    BY <1>0
  <2>2. CASE n <= k
    BY <1>5, <2>2
  <2>3. CASE k < n
    BY <1>0, <1>1, <2>1, <2>3
  <2> QED
    BY <1>0, <1>1, <2>2, <2>3
<1> QED
  BY <1>6

\* Induction on the subsets of a finite set: a smallest exception has an element
\* less than it which is one too.
LEMMA FiniteInduction ==
  ASSUME NEW S, IsFiniteSet(S), NEW Good, {} \in Good,
         \A A \in SUBSET S : A # {} /\ (\A B \in SUBSET A : B # A => B \in Good) => A \in Good
  PROVE  S \in Good
<1> DEFINE F == (SUBSET S) \ Good
<1> SUFFICES ASSUME F # {} PROVE FALSE
  OBVIOUS
<1>1. PICK A \in F : \A B \in F : B \subseteq A => B = A
  <2>1. F \subseteq SUBSET S
    OBVIOUS
  <2> HIDE DEF F
  <2> QED
    BY <2>1, SmallestOfFamily
<1>2. \A B \in SUBSET A : B # A => B \in Good
  BY <1>1
<1> QED
  BY <1>1, <1>2

\* The image of a finite set under a function is finite.
LEMMA FiniteImage ==
  ASSUME NEW S, IsFiniteSet(S), NEW f
  PROVE  IsFiniteSet({f[x] : x \in S})
<1> DEFINE T == {f[x] : x \in S}
           g == [x \in S |-> f[x]]
<1>1. g \in Surjection(S, T)
  BY DEF Surjection
<1> HIDE DEF g, T
<1> QED
  BY <1>1, FS_Surjection DEF T

\* Induction up to a bound, with a set instead of a predicate.
LEMMA InductionUpTo ==
  ASSUME NEW n \in Nat, NEW Good, 0 \in Good, \A k \in 0..(n - 1) : k \in Good => k + 1 \in Good
  PROVE  \A k \in 0..n : k \in Good
<1> DEFINE Bad == {k \in 0..n : k \notin Good}
<1> SUFFICES ASSUME Bad # {} PROVE FALSE
  OBVIOUS
<1>1. PICK k \in Bad : \A m \in Bad : k <= m
  <2>1. Bad \in SUBSET Nat
    OBVIOUS
  <2> HIDE DEF Bad
  <2> QED
    BY <2>1, LeastNatural
<1>2. k # 0 /\ k \in Nat /\ k - 1 \in 0..(n - 1) /\ ~(k <= k - 1)
  OBVIOUS
<1>3. k - 1 \notin Bad /\ (k - 1) + 1 = k
  BY <1>1, <1>2
<1> QED
  BY <1>2, <1>3

\* The greatest and the least member of a finite set of integers that has one.
LEMMA MaxIsGreatest ==
  ASSUME NEW S \in SUBSET Nat, IsFiniteSet(S), S # {}
  PROVE  Max(S) \in S /\ \A n \in S : n <= Max(S)
<1>1. \E m \in S : \A n \in S : m >= n
  BY GreatestNatural
<1> QED
  BY <1>1 DEF Max

\* The least member of a set of naturals that has one.
LEMMA MinIsLeast ==
  ASSUME NEW S \in SUBSET Nat, S # {}
  PROVE  Min(S) \in S /\ \A n \in S : Min(S) <= n
BY LeastNatural DEF Min

\* The greater and the lesser of two.
LEMMA MaxAndMinOfTwo ==
  ASSUME NEW a \in Int, NEW b \in Int
  PROVE  /\ a >= b => Max({a, b}) = a
         /\ a <= b => Max({a, b}) = b
         /\ a <= b => Min({a, b}) = a
         /\ a >= b => Min({a, b}) = b
BY DEF Max, Min

----------------------------------------------------------------------------
(* Recursion on the subsets of a finite set, and sums.                     *)

\* pick names a member of every subset of S that has one; g is defined by
\* recursion on the subsets, what pick names removed at each step.
Picks(pick, S) ==
  pick \in [(SUBSET S) \ {{}} -> S] /\ \A s \in (SUBSET S) \ {{}} : pick[s] \in s
Recursion(g, S, base, step, pick) ==
  \A s \in SUBSET S : g[s] = IF s = {} THEN base ELSE step[<<pick[s], g[s \ {pick[s]}]>>]

\* A recursion on the subsets of a finite set defines a function: one for the
\* subsets of at most n elements extends to those of one more.
LEMMA RecursionExists ==
  ASSUME NEW S, IsFiniteSet(S), NEW V, NEW base \in V, NEW step \in [S \X V -> V],
         NEW pick, Picks(pick, S)
  PROVE  \E g \in [SUBSET S -> V] : Recursion(g, S, base, step, pick)
<1> USE DEF Picks
<1> DEFINE Unfolds(g, s) == g[s] = IF s = {} THEN base ELSE step[<<pick[s], g[s \ {pick[s]}]>>]
           Upto(n) == \E g \in [SUBSET S -> V] : \A s \in SUBSET S : Cardinality(s) <= n => Unfolds(g, s)
           Bad == {n \in Nat : ~Upto(n)}
<1>0. \A s \in SUBSET S : /\ IsFiniteSet(s) /\ Cardinality(s) \in Nat
                          /\ Cardinality(s) = 0 <=> s = {}
                          /\ Cardinality(s) <= Cardinality(S)
  BY FS_Subset, FS_CardinalityType, FS_EmptySet
<1>1. \A s \in (SUBSET S) \ {{}} :
        /\ s \ {pick[s]} \in SUBSET S
        /\ Cardinality(s \ {pick[s]}) = Cardinality(s) - 1
  <2> TAKE s \in (SUBSET S) \ {{}}
  <2> DEFINE x == pick[s]
  <2>1. x \in s /\ IsFiniteSet(s)
    BY <1>0
  <2> HIDE DEF x
  <2>2. Cardinality(s \ {x}) = Cardinality(s) - 1
    BY <2>1, FS_RemoveElement
  <2> QED
    BY <2>2 DEF x
<1>2. Upto(0)
  <2> DEFINE g == [s \in SUBSET S |-> base]
  <2>1. g \in [SUBSET S -> V]
    OBVIOUS
  <2>2. \A s \in SUBSET S : Cardinality(s) <= 0 => Unfolds(g, s)
    BY <1>0
  <2> QED
    BY <2>1, <2>2
<1>3. ASSUME NEW n \in Nat, Upto(n) PROVE Upto(n + 1)
  <2>1. PICK g \in [SUBSET S -> V] : \A s \in SUBSET S : Cardinality(s) <= n => Unfolds(g, s)
    BY <1>3
  <2> DEFINE h == [s \in SUBSET S |-> IF s = {} THEN base ELSE step[<<pick[s], g[s \ {pick[s]}]>>]]
  <2>2. h \in [SUBSET S -> V]
    <3> SUFFICES ASSUME NEW s \in (SUBSET S) \ {{}} PROVE step[<<pick[s], g[s \ {pick[s]}]>>] \in V
      OBVIOUS
    <3>1. g[s \ {pick[s]}] \in V /\ pick[s] \in S
      BY <1>1
    <3> QED
      BY <3>1
  <2>3. \A s \in SUBSET S : Cardinality(s) <= n => h[s] = g[s]
    BY <2>1, SMTT(30)
  <2>4. ASSUME NEW s \in SUBSET S, Cardinality(s) <= n + 1 PROVE Unfolds(h, s)
    <3>1. CASE s = {}
      BY <3>1, SMTT(30)
    <3>2. CASE s # {}
      <4>1. h[s \ {pick[s]}] = g[s \ {pick[s]}]
        <5>1. s \ {pick[s]} \in SUBSET S /\ Cardinality(s \ {pick[s]}) = Cardinality(s) - 1
          BY <1>1, <3>2
        <5>2. Cardinality(s \ {pick[s]}) <= n
          BY <1>0, <1>3, <2>4, <5>1
        <5> QED
          BY <2>3, <5>1, <5>2
      <4> QED
        BY <3>2, <4>1
    <3> QED
      BY <3>1, <3>2
  <2> HIDE DEF h, Unfolds
  <2> QED
    BY <2>2, <2>4
<1>4. \A n \in Nat : Upto(n)
  <2> HIDE DEF Upto
  <2> SUFFICES ASSUME Bad # {} PROVE FALSE
    OBVIOUS
  <2>1. Bad \in SUBSET Nat
    OBVIOUS
  <2>2. PICK n \in Bad : \A m \in Bad : n <= m
    <3> HIDE DEF Bad
    <3> QED BY <2>1, LeastNatural
  <2>3. n # 0 /\ n \in Nat
    <3> HIDE DEF Upto
    <3> QED BY <1>2
  <2>4. n - 1 \in Nat /\ n - 1 \notin Bad
    <3>1. n - 1 \in Nat /\ ~(n <= n - 1)
      BY <2>3
    <3> HIDE DEF Bad
    <3> QED BY <2>2, <3>1
  <2>5. Upto(n - 1)
    <3> HIDE DEF Upto
    <3> QED BY <2>4
  <2>6. Upto((n - 1) + 1)
    <3> HIDE DEF Upto
    <3> QED BY <1>3, <2>4, <2>5
  <2>7. (n - 1) + 1 = n
    BY <2>3
  <2> HIDE DEF Upto
  <2> QED
    BY <2>6, <2>7
<1>5. PICK g \in [SUBSET S -> V] : \A s \in SUBSET S : Cardinality(s) <= Cardinality(S) => Unfolds(g, s)
  <2>1. Cardinality(S) \in Nat
    BY FS_CardinalityType
  <2>2. Upto(Cardinality(S))
    <3> HIDE DEF Upto
    <3> QED BY <1>4, <2>1
  <2> HIDE DEF Unfolds
  <2> QED
    BY <2>2
<1>6. \A s \in SUBSET S : Unfolds(g, s)
  <2> HIDE DEF Unfolds
  <2> QED BY <1>0, <1>5
<1> QED
  BY <1>6 DEF Recursion

\* A recursion on 0..n defines a function.
Unrolls(d, n, base, step) == d[0] = base /\ \A k \in 1..n : d[k] = step[<<k, d[k - 1]>>]
LEMMA UnrollsExist ==
  ASSUME NEW n \in Nat, NEW V, NEW base \in V, NEW step \in [(1..n) \X V -> V]
  PROVE  \E d \in [0..n -> V] : Unrolls(d, n, base, step)
<1> DEFINE S == 1..n
           pick == [s \in (SUBSET S) \ {{}} |-> Max(s)]
<1>0. IsFiniteSet(S)
  BY FS_Interval
<1>1. \A s \in (SUBSET S) \ {{}} : Max(s) \in s /\ \A m \in s : m <= Max(s)
  <2> TAKE s \in (SUBSET S) \ {{}}
  <2>1. s \in SUBSET Nat /\ s # {}
    OBVIOUS
  <2>2. IsFiniteSet(s)
    <3> HIDE DEF S
    <3> QED
      BY <1>0, FS_Subset
  <2> QED
    BY <2>1, <2>2, MaxIsGreatest
<1>2. Picks(pick, S)
  BY <1>1 DEF Picks
<1>3. PICK g \in [SUBSET S -> V] : Recursion(g, S, base, step, pick)
  <2> HIDE DEF pick, S
  <2>1. step \in [S \X V -> V]
    BY DEF S
  <2> QED
    BY <1>0, <1>2, <2>1, RecursionExists
<1> DEFINE d == [k \in 0..n |-> g[1..k]]
<1>4. d \in [0..n -> V]
  OBVIOUS
<1>5. d[0] = base
  <2>1. 1..0 = {} /\ 0 \in 0..n
    OBVIOUS
  <2>2. g[{}] = base
    BY <1>3 DEF Recursion
  <2> QED
    BY <2>1, <2>2
<1>6. ASSUME NEW k \in 1..n PROVE d[k] = step[<<k, d[k - 1]>>]
  <2>1. 1..k \in SUBSET S /\ 1..k # {} /\ k \in 1..k
    OBVIOUS
  <2>2. Max(1..k) = k
    <3>1. Max(1..k) \in 1..k /\ k <= Max(1..k)
      BY <1>1, <2>1
    <3> QED
      BY <3>1
  <2>3. (1..k) \ {k} = 1..(k - 1) /\ k \in 0..n /\ k - 1 \in 0..n
    OBVIOUS
  <2>4. g[1..k] = step[<<pick[1..k], g[(1..k) \ {pick[1..k]}]>>]
    BY <1>3, <2>1 DEF Recursion
  <2>5. pick[1..k] = k
    BY <2>1, <2>2
  <2> QED
    BY <2>3, <2>4, <2>5
<1>7. Unrolls(d, n, base, step)
  <2> HIDE DEF d
  <2> QED
    BY <1>5, <1>6 DEF Unrolls
<1> HIDE DEF d
<1> QED
  BY <1>4, <1>7

\* The sum of what t maps the members of A to.
Total(t, A) == MapThenSumSet(LAMBDA n : t[n], A)
Chosen(A) == CHOOSE x \in A : TRUE
SumsUnfold(t, S, g) ==
  g = [s \in SUBSET S |-> IF s = {} THEN 0 ELSE t[Chosen(s)] + g[s \ {Chosen(s)}]]

\* Some function unfolds as sums do.
LEMMA SumsExist ==
  ASSUME NEW S, IsFiniteSet(S), NEW t \in [S -> Nat]
  PROVE  \E g \in [SUBSET S -> Nat] : SumsUnfold(t, S, g)
<1> DEFINE pick == [s \in (SUBSET S) \ {{}} |-> Chosen(s)]
           step == [p \in S \X Nat |-> t[p[1]] + p[2]]
<1>1. Picks(pick, S)
  BY DEF Picks, Chosen
<1>2. step \in [S \X Nat -> Nat] /\ 0 \in Nat
  OBVIOUS
<1>3. PICK g \in [SUBSET S -> Nat] : Recursion(g, S, 0, step, pick)
  <2> HIDE DEF pick, step
  <2> QED
    BY <1>1, <1>2, RecursionExists
<1>4. \A s \in SUBSET S : g[s] = IF s = {} THEN 0 ELSE t[Chosen(s)] + g[s \ {Chosen(s)}]
  <2> SUFFICES ASSUME NEW s \in SUBSET S, s # {}
               PROVE  g[s] = t[Chosen(s)] + g[s \ {Chosen(s)}]
    BY <1>3 DEF Recursion
  <2>1. pick[s] = Chosen(s) /\ Chosen(s) \in S
    BY <1>1 DEF Picks
  <2>2. g[s \ {Chosen(s)}] \in Nat
    BY <1>3
  <2>3. g[s] = step[<<Chosen(s), g[s \ {Chosen(s)}]>>]
    BY <1>3, <2>1 DEF Recursion
  <2> QED
    BY <2>1, <2>2, <2>3
<1>5. g = [s \in SUBSET S |-> IF s = {} THEN 0 ELSE t[Chosen(s)] + g[s \ {Chosen(s)}]]
  BY <1>4
<1> QED
  BY <1>5 DEF SumsUnfold

\* Every function that unfolds as sums do is the sum.
LEMMA SumIsUnique ==
  ASSUME NEW S, IsFiniteSet(S), NEW t \in [S -> Nat], NEW g, SumsUnfold(t, S, g), NEW A \in SUBSET S
  PROVE  Total(t, A) = g[A]
<1> DEFINE h == CHOOSE f : SumsUnfold(t, A, f)
<1>1. IsFiniteSet(A) /\ t \in [S -> Nat] /\ [x \in A |-> t[x]] \in [A -> Nat]
  BY FS_Subset
<1>2. SumsUnfold(t, A, h)
  <2>1. PICK f : SumsUnfold([x \in A |-> t[x]], A, f)
    BY <1>1, SumsExist
  <2>2. \A s \in SUBSET A : s # {} => Chosen(s) \in A
    BY DEF Chosen
  <2>3. SumsUnfold(t, A, f)
    BY <2>1, <2>2 DEF SumsUnfold
  <2> QED
    BY <2>3
<1>3. Total(t, A) = h[A]
  BY DEF Total, MapThenSumSet, MapThenFoldSet, Chosen, SumsUnfold
<1> DEFINE Good == {B \in SUBSET A : h[B] = g[B]}
<1>4. {} \in Good
  BY <1>2 DEF SumsUnfold
<1>5. ASSUME NEW B \in SUBSET A, B # {}, \A C \in SUBSET B : C # B => C \in Good
      PROVE  B \in Good
  <2>1. Chosen(B) \in B
    BY <1>5 DEF Chosen
  <2>2. h[B \ {Chosen(B)}] = g[B \ {Chosen(B)}]
    BY <1>5, <2>1
  <2>3. h[B] = t[Chosen(B)] + h[B \ {Chosen(B)}]
    BY <1>2, <1>5 DEF SumsUnfold
  <2>4. g[B] = t[Chosen(B)] + g[B \ {Chosen(B)}]
    BY <1>5 DEF SumsUnfold
  <2> QED
    BY <2>2, <2>3, <2>4
<1>6. A \in Good
  <2> HIDE DEF Good
  <2> QED
    BY <1>1, <1>4, <1>5, FiniteInduction
<1> QED
  BY <1>3, <1>6

\* A sum is a natural, nothing over nothing, and any member can be taken out of it.
LEMMA SumLaws ==
  ASSUME NEW S, IsFiniteSet(S), NEW t \in [S -> Nat]
  PROVE  /\ Total(t, {}) = 0
         /\ \A A \in SUBSET S : Total(t, A) \in Nat
         /\ \A A \in SUBSET S : \A x \in A : Total(t, A) = t[x] + Total(t, A \ {x})
<1>1. PICK g \in [SUBSET S -> Nat] : SumsUnfold(t, S, g)
  BY SumsExist
<1>2. \A A \in SUBSET S : Total(t, A) = g[A]
  BY <1>1, SumIsUnique
<1>3. g[{}] = 0
  BY <1>1 DEF SumsUnfold
<1> DEFINE Good == {A \in SUBSET S : \A x \in A : g[A] = t[x] + g[A \ {x}]}
<1>4. ASSUME NEW A \in SUBSET S, A # {}, \A C \in SUBSET A : C # A => C \in Good
      PROVE  A \in Good
  <2> DEFINE c == Chosen(A)
  <2>1. c \in A /\ g[A] = t[c] + g[A \ {c}]
    BY <1>1, <1>4 DEF SumsUnfold, Chosen
  <2>2. ASSUME NEW x \in A, x # c PROVE g[A] = t[x] + g[A \ {x}]
    <3>1. A \ {c} \in Good /\ A \ {x} \in Good
      BY <1>4, <2>1, <2>2
    <3>2. g[A \ {c}] = t[x] + g[(A \ {c}) \ {x}]
      BY <2>2, <3>1
    <3>3. g[A \ {x}] = t[c] + g[(A \ {x}) \ {c}]
      BY <2>1, <2>2, <3>1
    <3>4. (A \ {c}) \ {x} = (A \ {x}) \ {c}
      OBVIOUS
    <3>5. t[x] \in Nat /\ t[c] \in Nat /\ g[(A \ {x}) \ {c}] \in Nat
      BY <2>1, <1>1
    <3> HIDE DEF c
    <3>6. g[A] = t[c] + (t[x] + g[(A \ {x}) \ {c}])
      BY <2>1, <3>2, <3>4
    <3> QED
      BY <3>3, <3>5, <3>6
  <2> QED
    BY <2>1, <2>2
<1>5. ASSUME NEW A \in SUBSET S PROVE A \in Good
  <2>1. IsFiniteSet(A)
    BY FS_Subset
  <2>2. {} \in Good
    OBVIOUS
  <2>3. \A B \in SUBSET A : B # {} /\ (\A C \in SUBSET B : C # B => C \in Good) => B \in Good
    BY <1>4
  <2> HIDE DEF Good
  <2> QED
    BY <2>1, <2>2, <2>3, FiniteInduction
<1> QED
  BY <1>1, <1>2, <1>3, <1>5

\* The sum over one index is what stands there.
LEMMA SumOfOne ==
  ASSUME NEW S, IsFiniteSet(S), NEW t \in [S -> Nat], NEW x \in S
  PROVE  Total(t, {x}) = t[x]
<1>1. {x} \in SUBSET S /\ x \in {x} /\ {x} \ {x} = {} /\ t[x] \in Nat
  OBVIOUS
<1>2. Total(t, {}) = 0 /\ Total(t, {x}) \in Nat
  BY <1>1, SumLaws
<1>3. Total(t, {x}) = t[x] + Total(t, {x} \ {x})
  BY <1>1, <1>2, SumLaws
<1> QED
  BY <1>1, <1>2, <1>3

\* What a set and the rest of it add up to.
LEMMA SumSplits ==
  ASSUME NEW S, IsFiniteSet(S), NEW t \in [S -> Nat], NEW C \in SUBSET S, NEW A \in SUBSET C
  PROVE  Total(t, C) = Total(t, A) + Total(t, C \ A)
<1> DEFINE Good == {B \in SUBSET A : Total(t, C) = Total(t, B) + Total(t, C \ B)}
<1>1. {} \in Good
  <2>1. Total(t, {}) = 0 /\ Total(t, C) \in Nat /\ C \ {} = C
    BY SumLaws
  <2> QED
    BY <2>1
<1>2. ASSUME NEW B \in SUBSET A, B # {}, \A D \in SUBSET B : D # B => D \in Good
      PROVE  B \in Good
  <2>1. PICK x \in B : TRUE
    BY <1>2
  <2>2. B \ {x} \in Good
    BY <1>2, <2>1
  <2>3. Total(t, B) = t[x] + Total(t, B \ {x})
    BY <2>1, SumLaws
  <2>4. Total(t, C \ (B \ {x})) = t[x] + Total(t, (C \ (B \ {x})) \ {x})
    BY <2>1, SumLaws
  <2>5. (C \ (B \ {x})) \ {x} = C \ B
    BY <2>1
  <2>6. /\ t[x] \in Nat /\ Total(t, B \ {x}) \in Nat /\ Total(t, C \ B) \in Nat
        /\ Total(t, B) \in Nat /\ Total(t, C \ (B \ {x})) \in Nat /\ Total(t, C) \in Nat
    <3>1. x \in S /\ B \ {x} \in SUBSET S /\ C \ B \in SUBSET S /\ C \ (B \ {x}) \in SUBSET S /\ B \in SUBSET S /\ C \in SUBSET S
      BY <2>1
    <3> QED
      BY <3>1, SumLaws
  <2>7. Total(t, C) = Total(t, B \ {x}) + (t[x] + Total(t, C \ B))
    BY <2>2, <2>4, <2>5
  <2>8. Total(t, C) = Total(t, B) + Total(t, C \ B)
    BY <2>3, <2>6, <2>7
  <2> QED
    BY <2>8
<1>3. A \in Good
  <2>1. IsFiniteSet(A)
    BY FS_Subset
  <2> HIDE DEF Good
  <2> QED
    BY <1>1, <1>2, <2>1, FiniteInduction
<1> QED
  BY <1>3
=============================================================================
